------------------------------ MODULE RunState ------------------------------
(***************************************************************************)
(* How a run's phase, outcome and status are derived together.             *)
(*                                                                         *)
(* packages/orchestration/src/phase-outcome.ts owns the vocabulary and     *)
(* deriveRunState; apps/api/src/execution/execution-derivations.ts turns a *)
(* runner's completion or event into its arguments.  Both are pure, so     *)
(* they are operators here; JobLease writes their results into the rows.   *)
(***************************************************************************)
EXTENDS Integers

\* SQL NULL, and an omitted (undefined) member of a request.
None == "none"

ProgressPhases ==
  {"queued", "assigned", "preparing", "running", "collecting", "normalizing",
   "analyzing", "gate_evaluation"}

TerminalPhases ==
  {"complete", "cancelled", "timed_out", "runner_lost", "infra_failed",
   "config_failed", "blocked", "partial"}

RunPhases == ProgressPhases \cup TerminalPhases

IsTerminalPhase(phase) == phase \in TerminalPhases

CompleteOutcomes ==
  {"passed", "failed", "unknown", "partial", "cancelled", "timed_out",
   "runner_lost", "infra_failed", "config_failed", "blocked"}

\* PHASE_OUTCOME: every terminal phase but "complete" is its own outcome.
PhaseOutcome == [p \in TerminalPhases \ {"complete"} |-> p]

\* runs.status, as the database stores it (PERSISTED_RUN_STATUS_VALUES).
RunStatuses == {"running", "passed", "failed", "interrupted"}

RunStates ==
  [phase: RunPhases, outcome: CompleteOutcomes \cup {None}, status: RunStatuses]

(***************************************************************************)
(* deriveRunState(requestedPhase, claimedOutcome).  The claim comes from   *)
(* the payload and may be anything; it counts on a "complete" run only.    *)
(* The two forms before it are mistakes: honouring the claim elsewhere.    *)
(***************************************************************************)
DeriveKeepsClaim(phase, claimed) ==
  [phase |-> phase, status |-> "running",
   outcome |-> IF claimed \in CompleteOutcomes THEN claimed ELSE None]

DeriveHonoursClaim(phase, claimed) ==
  [phase |-> phase, status |-> IF phase \in TerminalPhases THEN "failed" ELSE "running",
   outcome |-> IF phase \notin TerminalPhases THEN None
               ELSE IF claimed \in CompleteOutcomes THEN claimed ELSE "unknown"]

DeriveRunState(phase, claimed) ==
  LET outcome == IF claimed \in CompleteOutcomes THEN claimed ELSE "unknown"
  IN  CASE phase \notin TerminalPhases ->
             [phase |-> phase, outcome |-> None, status |-> "running"]
        [] phase \in TerminalPhases \ {"complete"} ->
             [phase |-> phase, outcome |-> PhaseOutcome[phase],
              status |-> "interrupted"]
        [] phase = "complete" ->
             [phase |-> phase, outcome |-> outcome,
              status |-> IF outcome = "passed" THEN "passed" ELSE "failed"]

-----------------------------------------------------------------------------
(* What a completion says: three optional members of JobCompletionInput.   *)

\* The words STATUS_PHASES and STATUS_OUTCOMES know; any other falls through.
StatusPhases ==
  [s \in {"cancelled", "timed_out", "timed-out", "runner_lost", "infra_failed",
          "config_failed"} |-> IF s = "timed-out" THEN "timed_out" ELSE s]

StatusOutcomes ==
  [s \in {"passed", "succeeded", "success", "failed", "failure"}
           \cup DOMAIN StatusPhases |->
     CASE s \in {"passed", "succeeded", "success"} -> "passed"
       [] s \in {"failed", "failure"}              -> "failed"
       [] s \in DOMAIN StatusPhases                -> StatusPhases[s]]

\* completion.status ?? completion.outcome ?? 'unknown'
CompletionStatus(c) ==
  CASE c.status # None                      -> c.status
    [] c.status = None /\ c.outcome # None  -> c.outcome
    [] c.status = None /\ c.outcome = None  -> "unknown"

CompletionPhase(status, requested) ==
  CASE requested = "completed"                                  -> "complete"
    [] requested \notin {None, "completed"}                     -> requested
    [] requested = None /\ status \in DOMAIN StatusPhases       -> StatusPhases[status]
    [] requested = None /\ status \notin DOMAIN StatusPhases    -> "complete"

CompletionOutcome(status, declared) ==
  CASE declared # None                                          -> declared
    [] declared = None /\ status \in DOMAIN StatusOutcomes      -> StatusOutcomes[status]
    [] declared = None /\ status \notin DOMAIN StatusOutcomes   -> "unknown"

JobStateFor(status) ==
  CASE status = "cancelled"                                -> "cancelled"
    [] status \in {"failed", "failure"}                    -> "failed"
    [] status \notin {"cancelled", "failed", "failure"}    -> "completed"

\* runStatusFor: a pass with no evidence is stored as "interrupted".
RunStatusUnchecked(derived, reportedNothing) == derived.status
RunStatusFor(derived, reportedNothing) ==
  IF derived.outcome = "passed" /\ reportedNothing THEN "interrupted"
                                                   ELSE derived.status

\* browserGateStatus: what the quality gate is told about the browser domain.
BrowserGateStatus(outcome) ==
  CASE outcome \in {"passed", "failed"}              -> outcome
    [] outcome = "partial"                           -> "warning"
    [] outcome \notin {"passed", "failed", "partial"} -> "unknown"

(***************************************************************************)
(* The run columns completeJob writes for completion c, and the job state. *)
(***************************************************************************)
CompletedRun(c) ==
  LET word    == CompletionStatus(c)
      derived == DeriveRunState(CompletionPhase(word, c.phase),
                                CompletionOutcome(word, c.outcome))
  IN  [derived EXCEPT !.status = RunStatusFor(derived, c.empty)]

CompletedJobState(c) == JobStateFor(CompletionStatus(c))

-----------------------------------------------------------------------------
(* What an event says: its type, and the phase and outcome of its payload. *)

\* eventRunState: the run columns the event asks for, or {} when it asks none.
EventRunState(e) ==
  LET requested == IF e.type = "run.completed" THEN "complete" ELSE e.phase
  IN  IF requested \in RunPhases THEN {DeriveRunState(requested, e.outcome)} ELSE {}

\* endsTheRun: the event is the run's completion, or its payload says terminal.
EndsTheRun(e) == e.type = "run.completed" \/ e.terminal
=============================================================================
