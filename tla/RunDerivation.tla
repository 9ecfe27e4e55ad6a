--------------------------- MODULE RunDerivation ---------------------------
(***************************************************************************)
(* The derivations of RunState driven over every completion and every      *)
(* event the API lets through, as one request each: a completion writes    *)
(* the job and the run, an event writes the run.  The state is what the    *)
(* last request asked for and the columns it left behind.                  *)
(***************************************************************************)
EXTENDS RunState

CONSTANTS
  Words,     \* completion.status: any string, so some no map knows
  Phases,    \* completion.phase, as CompleteSchema lists it
  Outcomes,  \* completion.outcome, as CompleteSchema lists it
  Claims     \* payload.outcome and payload.phase of an event: anything

\* The phases CompleteSchema lists are the vocabulary's and its legacy word.
ASSUME SchemaPhases == Phases \subseteq RunPhases \cup {None, "completed"}

VARIABLES
  asked,  \* the last request
  row     \* the run columns and job state it wrote

derivationVars == <<asked, row>>

Completions ==
  [status: Words, phase: Phases, outcome: Outcomes, empty: BOOLEAN]

Events ==
  [type: {"run.phase", "run.completed"}, phase: Claims, outcome: Claims,
   terminal: BOOLEAN, empty: BOOLEAN]

Fresh == [phase |-> "queued", outcome |-> None, status |-> "running",
          job |-> "leased", gate |-> None]

Init ==
  /\ asked = [op |-> "create"]
  /\ row = Fresh

\* completeJob on a fresh run, and the gate evaluated from what it stored.
Complete ==
  \E c \in Completions :
    LET run == CompletedRun(c)
    IN  /\ asked' = [op |-> "complete", with |-> c]
        /\ row' = [phase |-> run.phase, outcome |-> run.outcome, status |-> run.status,
                   job |-> CompletedJobState(c), gate |-> BrowserGateStatus(run.outcome)]

\* appendEvents with one event on a fresh run; the run's tests so far may be none (empty).
Append ==
  \E e \in Events :
    /\ asked' = [op |-> "append", with |-> e]
    /\ \/ EventRunState(e) = {} /\ row' = Fresh
       \/ \E s \in EventRunState(e) :
            row' = [Fresh EXCEPT !.phase = s.phase, !.outcome = s.outcome,
                                 !.status = s.status]

Next == asked.op = "create" /\ (Complete \/ Append)

Spec == Init /\ [][Next]_derivationVars

-----------------------------------------------------------------------------
\* No request, however it contradicts itself, leaves columns that
\* runs_phase_outcome_check or the vocabulary checks of the runs table reject.
ColumnsLegal ==
  /\ [phase |-> row.phase, outcome |-> row.outcome, status |-> row.status] \in RunStates
  /\ row.outcome # None <=> row.phase \in TerminalPhases

\* A run reads "passed" only if the request said so in words and phase, and a completion
\* that says so brought evidence: a run that recorded no test is never green.
GreenNeedsEvidence ==
  row.status = "passed" =>
    /\ row.phase = "complete" /\ row.outcome = "passed"
    /\ asked.op = "complete" => ~asked.with.empty
    /\ asked.op = "append" => asked.with.outcome = "passed"

\* A payload has no authority over a run that did not complete: a run whose phase is not
\* "complete" is never told to the gate as passed, whatever outcome was declared.
NoReclassifying ==
  row.phase # "complete" => row.gate \notin {"passed", "failed"}
=============================================================================
