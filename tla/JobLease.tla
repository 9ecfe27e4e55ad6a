------------------------------ MODULE JobLease ------------------------------
(***************************************************************************)
(* The durable execution queue: one row of execution_jobs and one row of   *)
(* runs per job, the API requests that read and write them, the worker's   *)
(* reaper, and the runner processes that hold leases.                      *)
(*                                                                         *)
(* apps/api/src/execution/drizzle-execution-store.ts runs at READ          *)
(* COMMITTED and never locks the rows its handlers read (only claimJob's   *)
(* candidates are locked).  A handler is therefore two steps here: one     *)
(* that reads and decides, and one that commits what it decided.  Between  *)
(* them any other handler, the reaper and the clock may run.  The writes   *)
(* of one transaction are one step: a heartbeat and an event batch write   *)
(* one row of a job, every other transaction both of its rows, and two of  *)
(* these are ordered by row locks or one is aborted by the deadlock        *)
(* detector.                                                               *)
(*                                                                         *)
(* Abstracted: a lease id is a fresh UUID per grant, so it is identified   *)
(* with the fencing token issued beside it (0 is NULL); a lease's expiry   *)
(* is only "live" or "past"; runners and jobs match on capabilities and    *)
(* labels, and a job's availableAt has come.  The events of a batch that   *)
(* were already stored change nothing and are left out of it.              *)
(***************************************************************************)
EXTENDS RunState, FiniteSets

CONSTANTS
  Jobs,           \* jobs, each with its own run
  Runners,        \* registered runner ids
  NoRunner,       \* lease_owner NULL
  Requests,       \* API requests that may be in flight at once
  Slots,          \* runners.slots
  MaxAttempts,    \* metadata.maxAttempts of every run, read by the worker only
  FirstAttempts,  \* attempts a run is created with: 1, or more for a retry
  Verdicts,       \* completions a runner may report
  Batches,        \* what a batch of new events asks of the run: its last
                  \* phase-bearing state ({} for none), and whether it holds
                  \* the run.completed event
  HealthReports,  \* health values a heartbeat may carry
  Faults,         \* what may go wrong: "pause", "lost_claim", "dead_letter",
                  \* "restart" after a crash
  Overlap,        \* TRUE: handlers overlap.  FALSE: one handler at a time
  MaxCrashes,     \* bound: crashes of runner processes
  MaxFence,       \* bound: grants per job
  MaxEvents       \* bound: accepted event batches per run

ASSUME NoRunnerAssumption == NoRunner \notin Runners
ASSUME SlotsAssumption == Slots \in Nat
ASSUME AttemptsAssumption ==
  MaxAttempts \in Nat \ {0} /\ FirstAttempts \subseteq Nat \ {0}
ASSUME VerdictsAssumption ==  \* what CompleteSchema lets through
  \A v \in Verdicts : v.phase \in RunPhases \cup {None, "completed"}
ASSUME BatchesAssumption ==  \* what EventRunState makes of an event
  \A b \in Batches : b.state \subseteq RunStates /\ b.ends \in BOOLEAN
                     /\ \A s \in b.state : s.outcome # None
                                             <=> s.phase \in TerminalPhases
ASSUME HealthAssumption ==
  HealthReports \subseteq {"healthy", "degraded", "draining", "offline"}
ASSUME BoundsAssumption == {MaxFence, MaxEvents, MaxCrashes} \subseteq Nat
ASSUME OverlapAssumption == Overlap \in BOOLEAN

\* reapExpiredLeases in the API requeues below this, whatever the run asked for.
ApiAttempts == 3

JobStates == {"absent", "queued", "leased", "completed", "failed", "cancelled"}
EndStates == {"completed", "failed", "cancelled"}

VARIABLES
  job,      \* execution_jobs, by job
  run,      \* runs, by job
  req,      \* the API requests in flight and what each has read
  health,   \* runners.health
  up,       \* runner processes that are running
  exec,     \* leases a running process is executing
  spool,    \* completions in the runners' durable spools
  grants,   \* history: every lease ever granted, told or not to its runner
  crashes   \* history: how many processes crashed

vars == <<job, run, req, health, up, exec, spool, grants, crashes>>
rows == <<job, run>>
local == <<up, exec, spool, grants, crashes>>

\* completion_hash: the digest of a completion covers its lease and its verdict.
NoHash == <<>>
HashWithoutToken(fence, verdict) == <<0, verdict>>
HashOf(fence, verdict) == <<fence, verdict>>

Leases == [job: Jobs, fence: Nat \ {0}, runner: Runners]
Entries == [lease: Leases, verdict: Verdicts]

NoReq == [op |-> "idle"]
Claims == [op: {"claim"}, runner: Runners, stale: SUBSET (Jobs \X Nat)]
Grantings == [op: {"grant"}, runner: Runners]
Completes == [op: {"complete"}, entry: Entries]
Appends == [op: {"append"}, lease: Leases, batch: Batches, seq: Nat]
Cancels == [op: {"cancel"}, job: Jobs]

JobRows ==
  [state: JobStates, attempt: Nat, fence: Nat, leaseId: Nat,
   owner: Runners \cup {NoRunner}, expiry: {None, "live", "past"},
   hash: {NoHash} \cup ((Nat \ {0}) \X Verdicts)]

RunRows ==
  [phase: RunPhases, outcome: CompleteOutcomes \cup {None}, status: RunStatuses,
   attempt: Nat, seq: Nat, ended: BOOLEAN, dated: BOOLEAN, cancel: BOOLEAN]

\* Every row, request and spool entry is well formed: the columns of execution_jobs and runs.
TypeOK ==
  /\ job \in [Jobs -> JobRows]
  /\ run \in [Jobs -> RunRows]
  /\ req \in [Requests -> {NoReq} \cup Claims \cup Grantings \cup Completes
                            \cup Appends \cup Cancels]
  /\ health \in [Runners -> {"healthy", "degraded", "draining", "offline"}]
  /\ up \subseteq Runners
  /\ exec \subseteq Leases
  /\ spool \subseteq Entries
  /\ grants \subseteq [lease: Leases, told: BOOLEAN]
  /\ crashes \in Nat

-----------------------------------------------------------------------------
(* Helpers.  A definition named after the one below it is a mistake that   *)
(* one could make in its place: each property fails under one of them.     *)

LeaseOf(j) == [job |-> j, fence |-> job[j].fence, runner |-> job[j].owner]

\* The lease check every write by a runner makes: owner, lease id and token.
PresentsAsOwner(lease) == job[lease.job].owner = lease.runner
Presents(lease) ==
  LET row == job[lease.job]
  IN  row.owner = lease.runner /\ row.leaseId = lease.fence /\ row.fence = lease.fence

\* appendEvents asks for a leased job too: a completed one keeps its lease id and token.
EventLeaseAnyState(lease) == Presents(lease)
EventLease(lease) == job[lease.job].state = "leased" /\ Presents(lease)

Active(r) == {j \in Jobs : job[j].state = "leased" /\ job[j].owner = r}
ExpiredInAnyState == {j \in Jobs : job[j].state # "absent" /\ job[j].expiry # "live"}
Expired == {j \in Jobs : job[j].state = "leased" /\ job[j].expiry = "past"}
Queued == {j \in Jobs : job[j].state = "queued"}

\* Whether claimJob lets runner r go on to the claiming transaction.
HasSlot(r) ==
  health[r] # "offline" /\ Cardinality(Active(r)) < (IF Slots > 1 THEN Slots ELSE 1)

\* Every grant issues the next fencing token.
SameFence(j) == IF job[j].fence = 0 THEN 1 ELSE job[j].fence
NextFence(j) == job[j].fence + 1

Idle(q) == req[q] = NoReq
Quiet == \A q \in Requests : Idle(q)

\* A handler may start: always when handlers overlap, else when none is in flight.
MayStart == Overlap \/ Quiet

UnleasedKeepsLease(row, s, a) == [row EXCEPT !.state = s, !.attempt = a]
UnleasedKeepsAttempt(row, s, a) ==
  [row EXCEPT !.state = s, !.leaseId = 0, !.owner = NoRunner, !.expiry = None]

\* The lease columns set to NULL and the job moved to state s as attempt a.
Unleased(row, s, a) ==
  [row EXCEPT !.state = s, !.attempt = a, !.leaseId = 0, !.owner = NoRunner,
              !.expiry = None]

WithStateButOutcome(row, s) == [row EXCEPT !.phase = s.phase, !.status = s.status]
WithStateButPhase(row, s) == [row EXCEPT !.outcome = s.outcome, !.status = s.status]
WithStateButNull(row, s) ==
  [row EXCEPT !.phase = s.phase, !.status = s.status,
              !.outcome = IF s.outcome = None THEN @ ELSE s.outcome]

\* The three coupled columns of a run set from a derived state.
WithState(row, s) ==
  [row EXCEPT !.phase = s.phase, !.outcome = s.outcome, !.status = s.status]

State(phase, outcome, status) ==
  [phase |-> phase, outcome |-> outcome, status |-> status]

-----------------------------------------------------------------------------
Init ==
  /\ job = [j \in Jobs |-> [state |-> "absent", attempt |-> 0, fence |-> 0,
                            leaseId |-> 0, owner |-> NoRunner, expiry |-> None,
                            hash |-> NoHash]]
  /\ run = [j \in Jobs |-> [phase |-> "queued", outcome |-> None,
                            status |-> "running", attempt |-> 0, seq |-> 0,
                            ended |-> FALSE, dated |-> FALSE, cancel |-> FALSE]]
  /\ req = [q \in Requests |-> NoReq]
  /\ health = [r \in Runners |-> "healthy"]
  /\ up = Runners
  /\ exec = {} /\ spool = {} /\ grants = {} /\ crashes = 0

\* createRun: one transaction inserts the run and its first job.
CreateRun(j) ==
  /\ MayStart
  /\ job[j].state = "absent"
  /\ \E a \in FirstAttempts :
       /\ job' = [job EXCEPT ![j].state = "queued", ![j].attempt = a]
       /\ run' = [run EXCEPT ![j].attempt = a]
  /\ UNCHANGED <<req, health, local>>

-----------------------------------------------------------------------------
(* claimJob: reap, count this runner's leases, lease a queued job.         *)

\* The scan of reapExpiredLeases: expired rows and the attempt each one had.
ClaimStart(q, r) ==
  /\ MayStart /\ Idle(q) /\ r \in up
  /\ req' = [req EXCEPT ![q] = [op |-> "claim", runner |-> r,
                                stale |-> {<<j, job[j].attempt>> : j \in Expired}]]
  /\ UNCHANGED <<rows, health, local>>

\* One reaping transaction: both rows are written by id, whatever they hold by now.
ReapWrite(q) ==
  /\ req[q].op = "claim"
  /\ \E s \in req[q].stale :
       LET j == s[1]
           again == s[2] < ApiAttempts
           attempt == IF again THEN s[2] + 1 ELSE s[2]
       IN  /\ job' = [job EXCEPT ![j] =
                        Unleased(@, IF again THEN "queued" ELSE "failed", attempt)]
           /\ run' = [run EXCEPT ![j] =
                        [WithState(@, IF again
                                      THEN State("queued", None, "running")
                                      ELSE State("runner_lost", "runner_lost",
                                                 "interrupted"))
                           EXCEPT !.attempt = attempt]]
           /\ req' = [req EXCEPT ![q].stale = @ \ {s}]
  /\ UNCHANGED <<health, local>>

\* A usable runner with a free slot goes on to the claiming transaction.
ClaimCount(q) ==
  /\ req[q].op = "claim" /\ req[q].stale = {}
  /\ LET r == req[q].runner
     IN  IF HasSlot(r)
         THEN req' = [req EXCEPT ![q] = [op |-> "grant", runner |-> r]]
         ELSE req' = [req EXCEPT ![q] = NoReq]
  /\ UNCHANGED <<rows, health, local>>

\* The claiming transaction.  The run's outcome is left as it is, so
\* runs_phase_outcome_check aborts the claim of a run that has one.
ClaimGrant(q, j) ==
  /\ req[q].op = "grant" /\ j \in Queued
  /\ job[j].fence < MaxFence
  /\ run[j].outcome = None
  /\ LET r == req[q].runner
         lease == [job |-> j, fence |-> NextFence(j), runner |-> r]
     IN  /\ job' = [job EXCEPT ![j] =
                      [@ EXCEPT !.state = "leased", !.leaseId = lease.fence,
                                !.fence = lease.fence, !.owner = r,
                                !.expiry = "live"]]
         /\ run' = [run EXCEPT ![j].phase = "assigned", ![j].status = "running"]
         /\ \E told \in {TRUE} \cup (IF "lost_claim" \in Faults THEN {FALSE} ELSE {}) :
              /\ grants' = grants \cup {[lease |-> lease, told |-> told /\ r \in up]}
              /\ exec' = IF told /\ r \in up THEN exec \cup {lease} ELSE exec
  /\ req' = [req EXCEPT ![q] = NoReq]
  /\ UNCHANGED <<health, up, spool, crashes>>

\* Nothing was claimed: the queue is empty, or the CHECK aborted the transaction.
ClaimNone(q) ==
  /\ req[q].op = "grant"
  /\ \/ Queued = {}
     \/ \E j \in Queued : run[j].outcome # None \/ job[j].fence >= MaxFence
  /\ req' = [req EXCEPT ![q] = NoReq]
  /\ UNCHANGED <<rows, health, local>>

-----------------------------------------------------------------------------
(* The runner process, its heartbeat, and the clock.                       *)

\* heartbeatRunner renews every lease of the runner, expired ones included.
Heartbeat(r) ==
  /\ MayStart /\ r \in up
  /\ \E h \in HealthReports : health' = [health EXCEPT ![r] = h]
  /\ job' = [j \in Jobs |-> IF j \in Active(r) THEN [job[j] EXCEPT !.expiry = "live"]
                                               ELSE job[j]]
  /\ UNCHANGED <<run, req, local>>

\* Thirty seconds pass without a heartbeat from the owner: it is dead, or paused.
LeaseRunsOut(j) ==
  /\ job[j].state = "leased" /\ job[j].expiry = "live"
  /\ "pause" \in Faults \/ job[j].owner \notin up
  /\ job' = [job EXCEPT ![j].expiry = "past"]
  /\ UNCHANGED <<run, req, health, local>>

\* executeClaim ends: its completion is in the durable spool.
RunnerFinish(lease) ==
  /\ lease \in exec
  /\ \E v \in Verdicts : spool' = spool \cup {[lease |-> lease, verdict |-> v]}
  /\ exec' = exec \ {lease}
  /\ UNCHANGED <<rows, req, health, up, grants, crashes>>

\* The process dies, and with it what it was executing; the spool is on disk.
RunnerCrash(r) ==
  /\ r \in up /\ crashes < MaxCrashes
  /\ up' = up \ {r} /\ crashes' = crashes + 1
  /\ exec' = {lease \in exec : lease.runner # r}
  /\ UNCHANGED <<rows, req, health, spool, grants>>

\* It comes back under the same runner id (token-store.ts), executing nothing.
RunnerRestart(r) ==
  /\ "restart" \in Faults
  /\ r \notin up
  /\ up' = up \cup {r}
  /\ UNCHANGED <<rows, req, health, exec, spool, grants, crashes>>

\* The delivery budget is spent: the entry is moved out of the spool for good.
DeadLetter(entry) ==
  /\ "dead_letter" \in Faults
  /\ entry \in spool /\ entry.lease.runner \in up
  /\ spool' = spool \ {entry}
  /\ UNCHANGED <<rows, req, health, up, exec, grants, crashes>>

-----------------------------------------------------------------------------
(* completeJob, and the route in front of it.                              *)

\* Why a completion is not written: another one was, or the lease is not current and live.
Refused(entry) ==
  LET row == job[entry.lease.job]
      hash == HashOf(entry.lease.fence, entry.verdict)
  IN  \/ row.hash # NoHash /\ row.hash # hash
      \/ ~Presents(entry.lease)
      \/ row.hash = NoHash /\ row.expiry # "live"

Duplicate(entry) ==
  /\ ~Refused(entry)
  /\ job[entry.lease.job].hash # NoHash

\* A refusal (409) or a duplicate settles the spooled completion and writes no row.
CompleteAnswered(entry) ==
  /\ MayStart
  /\ entry \in spool /\ entry.lease.runner \in up
  /\ Refused(entry) \/ Duplicate(entry)
  /\ spool' = spool \ {entry}
  /\ UNCHANGED <<rows, req, health, up, exec, grants, crashes>>

\* The reads: the job row as it is now, checked against the completion.
CompleteRead(q, entry) ==
  /\ MayStart /\ Idle(q)
  /\ entry \in spool /\ entry.lease.runner \in up
  /\ ~Refused(entry) /\ ~Duplicate(entry)
  /\ req' = [req EXCEPT ![q] = [op |-> "complete", entry |-> entry]]
  /\ UNCHANGED <<rows, health, local>>

\* The writes, by id.  The runner hears the answer, or times out and will send it again.
CompleteCommit(q) ==
  /\ req[q].op = "complete"
  /\ LET entry == req[q].entry
         j == entry.lease.job
     IN  /\ job' = [job EXCEPT ![j] =
                      [@ EXCEPT !.state = CompletedJobState(entry.verdict),
                                !.hash = HashOf(entry.lease.fence, entry.verdict),
                                !.expiry = None]]
         /\ run' = [run EXCEPT ![j] =
                      [WithState(@, CompletedRun(entry.verdict)) EXCEPT !.dated = TRUE]]
         /\ spool' \in {spool, spool \ {entry}}
  /\ req' = [req EXCEPT ![q] = NoReq]
  /\ UNCHANGED <<health, up, exec, grants, crashes>>

-----------------------------------------------------------------------------
(* appendEvents.  A batch is sent by the lease's runner, possibly late: a  *)
(* request the client gave up on may still be on its way.                  *)

AppendRead(q, lease, batch) ==
  /\ MayStart /\ Idle(q)
  /\ [lease |-> lease, told |-> TRUE] \in grants
  /\ EventLease(lease)
  /\ ~run[lease.job].ended
  /\ req' = [req EXCEPT ![q] = [op |-> "append", lease |-> lease, batch |-> batch,
                                seq |-> run[lease.job].seq]]
  /\ UNCHANGED <<rows, health, local>>

\* One UPDATE of the run.  The unique index on (run, sequence) aborts a batch
\* whose sequence another one took.
AppendCommit(q) ==
  /\ req[q].op = "append"
  /\ LET j == req[q].lease.job
         batch == req[q].batch
         row == [run[j] EXCEPT !.seq = @ + 1, !.ended = batch.ends]
     IN  \/ /\ run[j].seq = req[q].seq /\ run[j].seq < MaxEvents
            /\ batch.state = {}
            /\ run' = [run EXCEPT ![j] = row]
         \/ /\ run[j].seq = req[q].seq /\ run[j].seq < MaxEvents
            /\ \E s \in batch.state :
                 run' = [run EXCEPT ![j] =
                   [WithState(row, s) EXCEPT !.dated = IsTerminalPhase(s.phase)]]
         \/ /\ run[j].seq # req[q].seq \/ run[j].seq >= MaxEvents
            /\ UNCHANGED run
  /\ req' = [req EXCEPT ![q] = NoReq]
  /\ UNCHANGED <<job, health, local>>

-----------------------------------------------------------------------------
(* cancelRun: the run is read before the transaction that cancels it.      *)

CancelRead(q, j) ==
  /\ MayStart /\ Idle(q)
  /\ job[j].state # "absent" /\ ~IsTerminalPhase(run[j].phase)
  /\ req' = [req EXCEPT ![q] = [op |-> "cancel", job |-> j]]
  /\ UNCHANGED <<rows, health, local>>

CancelCommit(q) ==
  /\ req[q].op = "cancel"
  /\ LET j == req[q].job
     IN  /\ run' = [run EXCEPT ![j] =
                      [WithState(@, State("cancelled", "cancelled", "running"))
                         EXCEPT !.dated = TRUE, !.cancel = TRUE]]
         /\ job' = IF job[j].state \in {"queued", "leased"}
                   THEN [job EXCEPT ![j] = Unleased(@, "cancelled", @.attempt)]
                   ELSE job
  /\ req' = [req EXCEPT ![q] = NoReq]
  /\ UNCHANGED <<health, local>>

-----------------------------------------------------------------------------
(***************************************************************************)
(* The worker's reapExpiredLeases (apps/worker/src/postgres-store.ts): the *)
(* job rows stay locked from the scan to the commit, so it is one step.    *)
(***************************************************************************)
WorkerReap(j) ==
  /\ MayStart
  /\ j \in Expired
  /\ LET again == ~run[j].cancel /\ job[j].attempt < MaxAttempts
         attempt == IF again THEN job[j].attempt + 1 ELSE job[j].attempt
     IN  /\ job' = [job EXCEPT ![j] =
                      Unleased(@, CASE again -> "queued"
                                    [] ~again /\ run[j].cancel -> "cancelled"
                                    [] ~again /\ ~run[j].cancel -> "failed",
                               attempt)]
         /\ run' = [run EXCEPT ![j] =
                      [WithState(@, CASE again -> State("queued", None, "running")
                                      [] ~again /\ run[j].cancel ->
                                           State("cancelled", "cancelled", "failed")
                                      [] ~again /\ ~run[j].cancel ->
                                           State("runner_lost", "runner_lost", "failed"))
                         EXCEPT !.attempt = attempt, !.dated = run[j].dated \/ ~again]]
  /\ UNCHANGED <<req, health, local>>

-----------------------------------------------------------------------------
RequestStep(q) ==
  \/ \E r \in Runners : ClaimStart(q, r)
  \/ ReapWrite(q)
  \/ ClaimCount(q)
  \/ \E j \in Jobs : ClaimGrant(q, j)
  \/ ClaimNone(q)
  \/ \E entry \in spool : CompleteRead(q, entry)
  \/ CompleteCommit(q)
  \/ \E g \in grants, b \in Batches : AppendRead(q, g.lease, b)
  \/ AppendCommit(q)
  \/ \E j \in Jobs : CancelRead(q, j)
  \/ CancelCommit(q)

Next ==
  \/ \E q \in Requests : RequestStep(q)
  \/ \E j \in Jobs : CreateRun(j) \/ LeaseRunsOut(j) \/ WorkerReap(j)
  \/ \E r \in Runners : Heartbeat(r) \/ RunnerCrash(r) \/ RunnerRestart(r)
  \/ \E lease \in exec : RunnerFinish(lease)
  \/ \E entry \in spool : CompleteAnswered(entry) \/ DeadLetter(entry)

Spec == Init /\ [][Next]_vars

(***************************************************************************)
(* Fairness.  A handler that started runs to its end.  A live runner polls *)
(* for claims and delivers what it spooled on every tick (tick, flush), so *)
(* it does both again and again while other handlers come and go: strong   *)
(* fairness.  Every execution ends, by its deadline if not before.  The    *)
(* worker's loop reaps again and again.  Time passes for the lease of a    *)
(* dead runner, and a supervisor restarts it where "restart" is a fault.   *)
(* Nobody has to create, cancel, fail, pause or heartbeat.                 *)
(***************************************************************************)
HandlerStep(q) ==
  \/ ReapWrite(q) \/ ClaimCount(q) \/ ClaimNone(q)
  \/ \E j \in Jobs : ClaimGrant(q, j)
  \/ CompleteCommit(q) \/ AppendCommit(q) \/ CancelCommit(q)

Deliver(j) ==
  \E entry \in spool :
    /\ entry.lease.job = j
    /\ CompleteAnswered(entry) \/ \E q \in Requests : CompleteRead(q, entry)

Fairness ==
  /\ \A q \in Requests : WF_vars(HandlerStep(q))
  /\ \A r \in Runners : /\ SF_vars(\E q \in Requests : ClaimStart(q, r))
                        /\ WF_vars(RunnerRestart(r))
  /\ \A j \in Jobs : /\ WF_vars(\E lease \in exec : lease.job = j /\ RunnerFinish(lease))
                     /\ SF_vars(Deliver(j))
                     /\ SF_vars(WorkerReap(j))
                     /\ WF_vars(job[j].owner \notin up /\ LeaseRunsOut(j))

FairSpec == Spec /\ Fairness

-----------------------------------------------------------------------------
(***************************************************************************)
(* What holds however the handlers overlap.                                *)
(***************************************************************************)

\* The pair of columns runs_phase_outcome_check looks at: a run has an outcome exactly
\* when its phase is terminal, whichever of the five writers wrote it last and in which order.
RunRowLegal == \A j \in Jobs : run[j].outcome # None <=> run[j].phase \in TerminalPhases

\* execution_jobs_lease_check: a leased job names its lease, owner, expiry and token, and a
\* job on the queue names none of them, so no runner can present a lease on it.
LeaseRowLegal ==
  \A j \in Jobs :
    /\ job[j].state = "leased" =>
         /\ job[j].leaseId # 0 /\ job[j].owner \in Runners
         /\ job[j].expiry # None /\ job[j].fence > 0
    /\ job[j].state \in {"absent", "queued"} =>
         job[j].leaseId = 0 /\ job[j].owner = NoRunner

\* No two grants of a job share a fencing token, so a token names one runner.
TokenNamesOneRunner ==
  \A g, h \in grants : g.lease.job = h.lease.job /\ g.lease.fence = h.lease.fence
                         => g.lease.runner = h.lease.runner

\* The lease a store row advertises is one that claimJob granted, with the newest token.
HolderWasGranted ==
  \A j \in Jobs :
    job[j].leaseId # 0 => /\ job[j].leaseId = job[j].fence
                          /\ \E g \in grants : g.lease = LeaseOf(j)

\* The attempt createRun's duplicate lookup joins on is the same in both rows.
AttemptInStep == \A j \in Jobs : job[j].attempt = run[j].attempt

\* Once the store stops accepting a granted lease it never accepts it again: a runner that
\* lost its lease stays fenced out, whatever is reaped, renewed, claimed or completed later.
LostLeaseStaysLost ==
  [][\A g \in grants : ~Presents(g.lease) => ~Presents(g.lease)']_vars

\* The lease columns implement the abstract fenced lease: a job is held by the runner
\* whose lease its row names, and is granted only when it names none.
Fenced == INSTANCE FencedLease WITH
  holder <- [j \in Jobs |-> IF job[j].leaseId = 0 THEN {}
                            ELSE {<<job[j].owner, job[j].leaseId>>}],
  issued <- [j \in Jobs |-> job[j].fence]
ImplementsFencedLease == Fenced!Spec

-----------------------------------------------------------------------------
(***************************************************************************)
(* What holds when handlers do not overlap (Overlap = FALSE).              *)
(***************************************************************************)

\* A completion is recorded only under the lease the row holds: a runner that lost its lease
\* cannot complete the job.
CompletionFenced ==
  [][\A j \in Jobs : job'[j].hash # job[j].hash
                       => job'[j].hash[1] = job[j].fence /\ job[j].leaseId = job[j].fence]_vars

\* A run whose job was completed shows what that completion said, and nothing later
\* (a late event, a cancel, a reaper) changes it.
RunShowsVerdict ==
  \A j \in Jobs :
    job[j].hash # NoHash =>
      State(run[j].phase, run[j].outcome, run[j].status) = CompletedRun(job[j].hash[2])

\* A cancelled run stays cancelled.
CancelStands == \A j \in Jobs : run[j].cancel => run[j].phase = "cancelled"

\* A job on the queue can be claimed: its run has no outcome for the CHECK to reject.
QueuedIsClaimable == \A j \in Queued : run[j].outcome = None

\* Every job that is queued ends, and its run with it, in a terminal phase.
RunEnds ==
  \A j \in Jobs : job[j].state = "queued"
                   ~> job[j].state \in EndStates /\ IsTerminalPhase(run[j].phase)

\* The stored job states move along the edges of the contract's state machine.
Machine == INSTANCE JobStateMachine WITH state <- [j \in Jobs |-> job[j].state]
FollowsStateMachine == Machine!Spec
=============================================================================
