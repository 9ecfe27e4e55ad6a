------------------------- MODULE RunDerivationProofs -------------------------
(***************************************************************************)
(* RunDerivation's invariants for any words, outcomes and claims, and any  *)
(* phases the schema may list: they follow from what deriveRunState        *)
(* returns for a phase and a claim, case by case.                          *)
(***************************************************************************)
EXTENDS RunDerivation, TLAPS

\* A run state the database takes: an outcome exactly in a terminal phase.
Legal(s) == s \in RunStates /\ (s.outcome # None <=> s.phase \in TerminalPhases)

\* deriveRunState returns columns that runs_phase_outcome_check accepts, for every phase of
\* the vocabulary and anything a payload may claim.
THEOREM DeriveRunStateLegal ==
  ASSUME NEW phase \in RunPhases, NEW claimed
  PROVE  /\ Legal(DeriveRunState(phase, claimed))
         /\ DeriveRunState(phase, claimed).phase = phase
<1> DEFINE outcome == IF claimed \in CompleteOutcomes THEN claimed ELSE "unknown"
<1>1. CASE phase \notin TerminalPhases
  <2>1. DeriveRunState(phase, claimed)
          = [phase |-> phase, outcome |-> None, status |-> "running"]
    BY <1>1 DEF DeriveRunState, TerminalPhases
  <2>2. QED BY <1>1, <2>1 DEF Legal, RunStates, RunStatuses
<1>2. CASE phase \in TerminalPhases \ {"complete"}
  <2>1. DeriveRunState(phase, claimed)
          = [phase |-> phase, outcome |-> PhaseOutcome[phase], status |-> "interrupted"]
    BY <1>2 DEF DeriveRunState
  <2>2. PhaseOutcome[phase] = phase
    BY <1>2 DEF PhaseOutcome
  <2>3. phase \in CompleteOutcomes /\ phase # None
    BY <1>2 DEF TerminalPhases, CompleteOutcomes, None
  <2>4. QED BY <1>2, <2>1, <2>2, <2>3 DEF Legal, RunStates, RunStatuses
<1>3. CASE phase = "complete"
  <2>1. phase \in TerminalPhases
    BY <1>3 DEF TerminalPhases
  <2>2. DeriveRunState(phase, claimed)
          = [phase |-> phase, outcome |-> outcome,
             status |-> IF outcome = "passed" THEN "passed" ELSE "failed"]
    BY <1>3, <2>1 DEF DeriveRunState
  <2>3. outcome \in CompleteOutcomes /\ outcome # None
    BY DEF CompleteOutcomes, None
  <2>4. QED BY <2>1, <2>2, <2>3 DEF Legal, RunStates, RunStatuses
<1>4. QED BY <1>1, <1>2, <1>3

\* The phase of a completion is of the vocabulary when the one it asks for is, or is left out.
LEMMA CompletionPhaseKnown ==
  ASSUME NEW word, NEW asks \in RunPhases \cup {None, "completed"}
  PROVE  CompletionPhase(word, asks) \in RunPhases
<1> DEFINE phase == CompletionPhase(word, asks)
<1>1. CASE asks = "completed"
  <2>1. phase = "complete"
    BY <1>1 DEF CompletionPhase, None
  <2>2. QED BY <2>1 DEF RunPhases, TerminalPhases
<1>2. CASE asks \in RunPhases \ {None, "completed"}
  BY <1>2 DEF CompletionPhase
<1>3. CASE asks = None /\ word \in DOMAIN StatusPhases
  <2>1. StatusPhases[word] \in TerminalPhases
    BY <1>3 DEF StatusPhases, TerminalPhases
  <2>2. QED BY <1>3, <2>1 DEF CompletionPhase, RunPhases, None
<1>4. CASE asks = None /\ word \notin DOMAIN StatusPhases
  BY <1>4 DEF CompletionPhase, RunPhases, TerminalPhases, None
<1>5. QED BY <1>1, <1>2, <1>3, <1>4

\* completeJob writes such columns for every completion CompleteSchema lets through, and
\* ends the job.
THEOREM CompletedRunLegal ==
  ASSUME NEW c,
         c.phase \in RunPhases \cup {None, "completed"}
  PROVE  Legal(CompletedRun(c)) /\ CompletedJobState(c) \in {"completed", "failed", "cancelled"}
<1> DEFINE word == CompletionStatus(c)
           phase == CompletionPhase(word, c.phase)
           derived == DeriveRunState(phase, CompletionOutcome(word, c.outcome))
<1>1. phase \in RunPhases
  BY CompletionPhaseKnown
<1>2. Legal(derived)
  BY <1>1, DeriveRunStateLegal
<1>3. CompletedRun(c) = [derived EXCEPT !.status = RunStatusFor(derived, c.empty)]
  BY DEF CompletedRun
<1>4. RunStatusFor(derived, c.empty) \in RunStatuses
  BY <1>2 DEF RunStatusFor, Legal, RunStates, RunStatuses
<1>5. Legal(CompletedRun(c))
  BY <1>2, <1>3, <1>4 DEF Legal, RunStates
<1>6. CompletedJobState(c) \in {"completed", "failed", "cancelled"}
  BY DEF CompletedJobState, JobStateFor
<1>7. QED BY <1>5, <1>6

\* An event asks for such columns or for none, whatever its payload claims.
THEOREM EventRunStateLegal ==
  ASSUME NEW e
  PROVE  \A s \in EventRunState(e) : Legal(s)
<1> DEFINE requested == IF e.type = "run.completed" THEN "complete" ELSE e.phase
<1>1. CASE requested \in RunPhases
  <2>1. EventRunState(e) = {DeriveRunState(requested, e.outcome)}
    BY <1>1 DEF EventRunState
  <2>2. QED BY <1>1, <2>1, DeriveRunStateLegal
<1>2. CASE requested \notin RunPhases
  BY <1>2 DEF EventRunState
<1>3. QED BY <1>1, <1>2

\* The status and the outcome of a derived run: only a complete one that is claimed to have
\* passed is green, and only a complete one is passed or failed.
LEMMA DerivedGreen ==
  ASSUME NEW phase \in RunPhases, NEW claimed
  PROVE  LET s == DeriveRunState(phase, claimed)
         IN  /\ s.status = "passed" =>
                  phase = "complete" /\ s.outcome = "passed" /\ claimed = "passed"
             /\ s.outcome \in {"passed", "failed"} => phase = "complete"
<1> DEFINE s == DeriveRunState(phase, claimed)
           outcome == IF claimed \in CompleteOutcomes THEN claimed ELSE "unknown"
<1>1. CASE phase \notin TerminalPhases
  <2>1. s = [phase |-> phase, outcome |-> None, status |-> "running"]
    BY <1>1 DEF DeriveRunState, TerminalPhases
  <2>2. QED BY <2>1 DEF None
<1>2. CASE phase \in TerminalPhases \ {"complete"}
  <2>1. s = [phase |-> phase, outcome |-> PhaseOutcome[phase], status |-> "interrupted"]
    BY <1>2 DEF DeriveRunState
  <2>2. PhaseOutcome[phase] = phase
    BY <1>2 DEF PhaseOutcome
  <2>3. phase \notin {"passed", "failed"}
    BY <1>2 DEF TerminalPhases
  <2>4. QED BY <2>1, <2>2, <2>3
<1>3. CASE phase = "complete"
  <2>1. phase \in TerminalPhases
    BY <1>3 DEF TerminalPhases
  <2>2. s = [phase |-> phase, outcome |-> outcome,
             status |-> IF outcome = "passed" THEN "passed" ELSE "failed"]
    BY <1>3, <2>1 DEF DeriveRunState
  <2>3. QED BY <1>3, <2>2
<1>4. QED BY <1>1, <1>2, <1>3

\* What a request that was handled leaves in the columns.
RowSafe == ColumnsLegal /\ GreenNeedsEvidence /\ NoReclassifying

LEMMA InitSafe == Init => RowSafe
<1> SUFFICES ASSUME Init PROVE RowSafe
  OBVIOUS
<1>1. row.phase = "queued" /\ row.outcome = None /\ row.status = "running" /\ row.gate = None
  BY DEF Init, Fresh
<1>2. "queued" \in RunPhases /\ "queued" \notin TerminalPhases /\ "running" \in RunStatuses
  BY DEF RunPhases, ProgressPhases, TerminalPhases, RunStatuses
<1>3. QED BY <1>1, <1>2 DEF RowSafe, ColumnsLegal, GreenNeedsEvidence, NoReclassifying, RunStates, None

LEMMA CompleteSafe == Complete => RowSafe'
<1> SUFFICES ASSUME NEW c \in Completions,
                    asked' = [op |-> "complete", with |-> c],
                    row' = [phase |-> CompletedRun(c).phase, outcome |-> CompletedRun(c).outcome,
                            status |-> CompletedRun(c).status, job |-> CompletedJobState(c),
                            gate |-> BrowserGateStatus(CompletedRun(c).outcome)]
             PROVE  RowSafe'
  BY DEF Complete
<1> DEFINE word == CompletionStatus(c)
           phase == CompletionPhase(word, c.phase)
           claimed == CompletionOutcome(word, c.outcome)
           derived == DeriveRunState(phase, claimed)
           run == CompletedRun(c)
<1>1. c.phase \in RunPhases \cup {None, "completed"}
  BY SchemaPhases DEF Completions
<1>2. Legal(run)
  BY <1>1, CompletedRunLegal
<1>3. run = [derived EXCEPT !.status = RunStatusFor(derived, c.empty)]
  BY DEF CompletedRun
<1>4. phase \in RunPhases
  BY <1>1, CompletionPhaseKnown
<1>5. Legal(derived) /\ derived.phase = phase
  BY <1>4, DeriveRunStateLegal
<1>6. run.phase = phase /\ run.outcome = derived.outcome
      /\ run.status = RunStatusFor(derived, c.empty)
  BY <1>3, <1>5 DEF Legal, RunStates
<1>7. ColumnsLegal'
  BY <1>2 DEF ColumnsLegal, Legal, RunStates
<1>8. GreenNeedsEvidence'
  <2>1. /\ derived.status = "passed" => phase = "complete" /\ derived.outcome = "passed"
        /\ derived.outcome \in {"passed", "failed"} => phase = "complete"
    BY <1>4, DerivedGreen
  <2>2. run.status = "passed" => derived.status = "passed" /\ (derived.outcome = "passed" => ~c.empty)
    BY <1>6 DEF RunStatusFor
  <2>3. QED BY <1>6, <2>1, <2>2 DEF GreenNeedsEvidence
<1>9. NoReclassifying'
  <2>1. derived.outcome \in {"passed", "failed"} => phase = "complete"
    BY <1>4, DerivedGreen
  <2>2. BrowserGateStatus(run.outcome) \in {"passed", "failed"} => run.outcome \in {"passed", "failed"}
    BY DEF BrowserGateStatus
  <2>3. QED BY <1>6, <2>1, <2>2 DEF NoReclassifying
<1>10. QED BY <1>7, <1>8, <1>9 DEF RowSafe

LEMMA AppendSafe == RowSafe /\ row = Fresh /\ Append => RowSafe'
<1> SUFFICES ASSUME RowSafe, row = Fresh, NEW e \in Events,
                    asked' = [op |-> "append", with |-> e],
                    \/ EventRunState(e) = {} /\ row' = Fresh
                    \/ \E s \in EventRunState(e) :
                         row' = [Fresh EXCEPT !.phase = s.phase, !.outcome = s.outcome,
                                              !.status = s.status]
             PROVE  RowSafe'
  BY DEF Append
<1>1. CASE row' = Fresh
  <2>1. row'.status # "passed"
    BY <1>1 DEF Fresh
  <2>2. QED BY <1>1, <2>1 DEF RowSafe, ColumnsLegal, GreenNeedsEvidence, NoReclassifying
<1>2. ASSUME NEW s \in EventRunState(e),
             row' = [Fresh EXCEPT !.phase = s.phase, !.outcome = s.outcome, !.status = s.status]
      PROVE  RowSafe'
  <2> DEFINE requested == IF e.type = "run.completed" THEN "complete" ELSE e.phase
  <2>1. requested \in RunPhases /\ s = DeriveRunState(requested, e.outcome)
    BY <1>2 DEF EventRunState
  <2>2. Legal(s) /\ s.phase = requested
    <3>1. /\ Legal(DeriveRunState(requested, e.outcome))
          /\ DeriveRunState(requested, e.outcome).phase = requested
      <4> HIDE DEF requested
      <4>1. requested \in RunPhases
        BY <2>1
      <4>2. QED BY <4>1, DeriveRunStateLegal
    <3>2. QED BY <2>1, <3>1
  <2>3. /\ row'.phase = s.phase /\ row'.outcome = s.outcome /\ row'.status = s.status
        /\ row'.gate = None
    BY <1>2 DEF Fresh
  <2>4. ColumnsLegal'
    BY <2>2, <2>3 DEF ColumnsLegal, Legal, RunStates
  <2>5. GreenNeedsEvidence'
    <3>1. s.status = "passed" => requested = "complete" /\ s.outcome = "passed" /\ e.outcome = "passed"
      BY <2>1, DerivedGreen
    <3>2. QED BY <2>2, <2>3, <3>1 DEF GreenNeedsEvidence
  <2>6. NoReclassifying'
    BY <2>3 DEF NoReclassifying, None
  <2>7. QED BY <2>4, <2>5, <2>6 DEF RowSafe
<1>3. QED BY <1>1, <1>2

\* A request is handled on a fresh run.
RowInv == RowSafe /\ (asked.op = "create" => row = Fresh)

LEMMA RowInvariant == Spec => []RowInv
<1>1. Init => RowInv
  BY InitSafe DEF RowInv, Init
<1>2. RowInv /\ [Next]_derivationVars => RowInv'
  <2> SUFFICES ASSUME RowInv, [Next]_derivationVars PROVE RowInv'
    OBVIOUS
  <2>1. CASE Complete
    <3>1. asked'.op # "create"
      BY <2>1 DEF Complete
    <3>2. QED BY <2>1, <3>1, CompleteSafe DEF RowInv
  <2>2. CASE asked.op = "create" /\ Append
    <3>1. asked'.op # "create"
      <4>1. PICK e \in Events : asked' = [op |-> "append", with |-> e]
        BY <2>2 DEF Append
      <4>2. QED BY <4>1
    <3>2. QED BY <2>2, <3>1, AppendSafe DEF RowInv
  <2>3. CASE UNCHANGED derivationVars
    BY <2>3 DEF RowInv, RowSafe, ColumnsLegal, GreenNeedsEvidence, NoReclassifying, derivationVars
  <2>4. QED BY <2>1, <2>2, <2>3 DEF Next
<1>3. QED BY <1>1, <1>2, PTL DEF Spec

\* No completion and no event leaves columns the database rejects.
THEOREM ColumnsStayLegal == Spec => []ColumnsLegal
<1>1. RowInv => ColumnsLegal
  BY DEF RowInv, RowSafe
<1>2. QED BY <1>1, RowInvariant, PTL

\* No request makes a run green without saying so, nor a completion without a test.
THEOREM GreenHasEvidence == Spec => []GreenNeedsEvidence
<1>1. RowInv => GreenNeedsEvidence
  BY DEF RowInv, RowSafe
<1>2. QED BY <1>1, RowInvariant, PTL

\* No request makes the gate see a run that did not complete as passed or failed.
THEOREM NothingReclassified == Spec => []NoReclassifying
<1>1. RowInv => NoReclassifying
  BY DEF RowInv, RowSafe
<1>2. QED BY <1>1, RowInvariant, PTL
=============================================================================
