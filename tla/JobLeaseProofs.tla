--------------------------- MODULE JobLeaseProofs ---------------------------
(***************************************************************************)
(* What the lease columns guarantee, for any number of jobs, runners and   *)
(* handlers in flight, whatever runners report and however they fail.      *)
(***************************************************************************)
EXTENDS JobLease, TLAPS

\* A run state the database takes: an outcome exactly in a terminal phase.
Legal(s) == s \in RunStates /\ (s.outcome # None <=> s.phase \in TerminalPhases)

\* completeJob writes such columns for every completion CompleteSchema lets through, and
\* ends the job (RunDerivationProofs has the derivations one by one).
LEMMA CompletedRunLegal ==
  ASSUME NEW c, c.phase \in RunPhases \cup {None, "completed"}
  PROVE  Legal(CompletedRun(c)) /\ CompletedJobState(c) \in {"completed", "failed", "cancelled"}
<1> DEFINE word == CompletionStatus(c)
           claimed == CompletionOutcome(word, c.outcome)
<1>1. PICK phase \in RunPhases : CompletionPhase(word, c.phase) = phase
  BY DEF CompletionPhase, StatusPhases, RunPhases, TerminalPhases, None
<1>2. Legal(DeriveRunState(phase, claimed))
  BY DEF DeriveRunState, Legal, RunStates, RunStatuses, RunPhases, TerminalPhases,
         CompleteOutcomes, PhaseOutcome, None
<1>3. Legal(CompletedRun(c))
  BY <1>1, <1>2 DEF CompletedRun, RunStatusFor, Legal, RunStates, RunStatuses
<1>4. QED BY <1>3 DEF CompletedJobState, JobStateFor

\* The request in flight behind an operation's name.
LEMMA RequestShapes ==
  ASSUME TypeOK, NEW q \in Requests
  PROVE  /\ req[q].op = "claim" => req[q] \in Claims
         /\ req[q].op = "grant" => req[q] \in Grantings
         /\ req[q].op = "complete" => req[q] \in Completes
         /\ req[q].op = "append" => req[q] \in Appends
         /\ req[q].op = "cancel" => req[q] \in Cancels
  BY DEF TypeOK, NoReq, Claims, Grantings, Completes, Appends, Cancels

\* A derived state, written into a run row, leaves a run row.
LEMMA WithStateTyped ==
  ASSUME NEW row \in RunRows, NEW s \in RunStates
  PROVE  /\ WithState(row, s) \in RunRows
         /\ WithState(row, s).phase = s.phase
         /\ WithState(row, s).outcome = s.outcome
         /\ WithState(row, s).attempt = row.attempt
  BY DEF WithState, RunRows, RunStates

LEMMA StateTyped ==
  ASSUME NEW phase \in RunPhases, NEW outcome \in CompleteOutcomes \cup {None},
         NEW status \in RunStatuses
  PROVE  /\ State(phase, outcome, status) \in RunStates
         /\ State(phase, outcome, status).phase = phase
         /\ State(phase, outcome, status).outcome = outcome
  BY DEF State, RunStates

LEMMA UnleasedTyped ==
  ASSUME NEW row \in JobRows, NEW s \in JobStates, NEW a \in Nat
  PROVE  /\ Unleased(row, s, a) \in JobRows
         /\ Unleased(row, s, a).state = s
         /\ Unleased(row, s, a).attempt = a
         /\ Unleased(row, s, a).fence = row.fence
         /\ Unleased(row, s, a).leaseId = 0
         /\ Unleased(row, s, a).owner = NoRunner
  BY DEF Unleased, JobRows

LEMMA EventsCounted ==
  ASSUME NEW row \in RunRows, NEW ends \in BOOLEAN
  PROVE  /\ [row EXCEPT !.seq = @ + 1, !.ended = ends] \in RunRows
         /\ [row EXCEPT !.seq = @ + 1, !.ended = ends].phase = row.phase
         /\ [row EXCEPT !.seq = @ + 1, !.ended = ends].outcome = row.outcome
         /\ [row EXCEPT !.seq = @ + 1, !.ended = ends].attempt = row.attempt
<1>1. row.seq + 1 \in Nat
  BY DEF RunRows
<1>2. [row EXCEPT !.seq = @ + 1, !.ended = ends] \in RunRows
  BY <1>1, Zenon DEF RunRows
<1>3. QED BY <1>2 DEF RunRows

LEMMA Words ==
  /\ {"queued", "assigned", "cancelled", "runner_lost"} \subseteq RunPhases
  /\ {"cancelled", "runner_lost", None} \subseteq CompleteOutcomes \cup {None}
  /\ {"running", "interrupted", "failed"} \subseteq RunStatuses
  BY DEF RunPhases, ProgressPhases, TerminalPhases, CompleteOutcomes, RunStatuses

\* The states both reapers write are run states.
LEMMA ReapedStates ==
  /\ State("queued", None, "running") \in RunStates
  /\ State("runner_lost", "runner_lost", "interrupted") \in RunStates
  /\ State("runner_lost", "runner_lost", "failed") \in RunStates
  /\ State("cancelled", "cancelled", "failed") \in RunStates
  /\ State("cancelled", "cancelled", "running") \in RunStates
  BY Words, StateTyped

-----------------------------------------------------------------------------
LEMMA InitTyped == Init => TypeOK
  BY Words DEF Init, TypeOK, JobRows, RunRows, JobStates, NoReq

LEMMA NextTyped == TypeOK /\ [Next]_vars => TypeOK'
<1> SUFFICES ASSUME TypeOK, [Next]_vars PROVE TypeOK'
  OBVIOUS
<1>1. ASSUME NEW j \in Jobs, CreateRun(j) PROVE TypeOK'
  <2>1. PICK a \in FirstAttempts :
          /\ job' = [job EXCEPT ![j].state = "queued", ![j].attempt = a]
          /\ run' = [run EXCEPT ![j].attempt = a]
    BY <1>1 DEF CreateRun
  <2>2. a \in Nat
    BY AttemptsAssumption
  <2>3. job' \in [Jobs -> JobRows] /\ run' \in [Jobs -> RunRows]
    <3>1. [job[j] EXCEPT !.state = "queued", !.attempt = a] \in JobRows
      <4>1. job[j] \in JobRows
        BY DEF TypeOK
      <4>2. QED BY <2>2, <4>1 DEF JobRows, JobStates
    <3>2. [run[j] EXCEPT !.attempt = a] \in RunRows
      BY <2>2 DEF TypeOK, RunRows
    <3>3. QED BY <2>1, <3>1, <3>2 DEF TypeOK
  <2>4. QED BY <1>1, <2>3 DEF CreateRun, TypeOK, local
<1>2. ASSUME NEW q \in Requests, NEW r \in Runners, ClaimStart(q, r) PROVE TypeOK'
  <2>1. {<<j, job[j].attempt>> : j \in Expired} \in SUBSET (Jobs \X Nat)
    BY DEF TypeOK, Expired, JobRows
  <2>2. QED BY <1>2, <2>1 DEF ClaimStart, TypeOK, Claims, rows, local
<1>3. ASSUME NEW q \in Requests, ReapWrite(q) PROVE TypeOK'
  <2>1. req[q] \in Claims
    BY <1>3, RequestShapes DEF ReapWrite
  <2> DEFINE again(s) == s[2] < ApiAttempts
             attempt(s) == IF again(s) THEN s[2] + 1 ELSE s[2]
             reaped(s) == IF again(s) THEN State("queued", None, "running")
                          ELSE State("runner_lost", "runner_lost", "interrupted")
  <2>2. PICK s \in req[q].stale :
          /\ job' = [job EXCEPT ![s[1]] =
                       Unleased(@, IF again(s) THEN "queued" ELSE "failed", attempt(s))]
          /\ run' = [run EXCEPT ![s[1]] =
                       [WithState(@, reaped(s)) EXCEPT !.attempt = attempt(s)]]
          /\ req' = [req EXCEPT ![q].stale = @ \ {s}]
    BY <1>3, Zenon DEF ReapWrite
  <2>3. s[1] \in Jobs /\ s[2] \in Nat /\ attempt(s) \in Nat
    BY <2>1 DEF Claims
  <2>4. job' \in [Jobs -> JobRows]
    <3>1. Unleased(job[s[1]], IF again(s) THEN "queued" ELSE "failed", attempt(s)) \in JobRows
      <4>1. job[s[1]] \in JobRows /\ {"queued", "failed"} \subseteq JobStates
        BY <2>3 DEF TypeOK, JobStates
      <4>2. QED BY <2>3, <4>1, UnleasedTyped
    <3>2. QED BY <2>2, <2>3, <3>1 DEF TypeOK
  <2>5. run' \in [Jobs -> RunRows]
    <3>1. WithState(run[s[1]], reaped(s)) \in RunRows
      BY <2>3, ReapedStates, WithStateTyped DEF TypeOK
    <3>2. [WithState(run[s[1]], reaped(s)) EXCEPT !.attempt = attempt(s)] \in RunRows
      BY <2>3, <3>1 DEF RunRows
    <3>3. QED BY <2>2, <2>3, <3>2 DEF TypeOK
  <2>6. [req[q] EXCEPT !.stale = @ \ {s}] \in Claims
    BY <2>1 DEF Claims
  <2>7. QED BY <1>3, <2>2, <2>4, <2>5, <2>6 DEF ReapWrite, TypeOK, local
<1>4. ASSUME NEW q \in Requests, ClaimCount(q) PROVE TypeOK'
  <2>1. req[q] \in Claims
    BY <1>4, RequestShapes DEF ClaimCount
  <2>2. [op |-> "grant", runner |-> req[q].runner] \in Grantings
    BY <2>1 DEF Claims, Grantings
  <2>3. QED BY <1>4, <2>2 DEF ClaimCount, TypeOK, rows, local
<1>5. ASSUME NEW q \in Requests, NEW j \in Jobs, ClaimGrant(q, j) PROVE TypeOK'
  <2>1. req[q] \in Grantings
    BY <1>5, RequestShapes DEF ClaimGrant
  <2> DEFINE lease == [job |-> j, fence |-> NextFence(j), runner |-> req[q].runner]
  <2>2. lease \in Leases /\ lease.fence \in Nat /\ lease.runner \in Runners
    BY <2>1 DEF TypeOK, JobRows, Leases, NextFence, Grantings
  <2>3. job' \in [Jobs -> JobRows]
    <3>1. job' = [job EXCEPT ![j] = [@ EXCEPT !.state = "leased", !.leaseId = lease.fence,
                                              !.fence = lease.fence,
                                              !.owner = lease.runner, !.expiry = "live"]]
      BY <1>5 DEF ClaimGrant
    <3>2. [job[j] EXCEPT !.state = "leased", !.leaseId = lease.fence, !.fence = lease.fence,
                         !.owner = lease.runner, !.expiry = "live"] \in JobRows
      <4>1. job[j] \in JobRows
        BY DEF TypeOK
      <4>2. QED BY <2>2, <4>1 DEF JobRows, JobStates
    <3>3. QED BY <3>1, <3>2 DEF TypeOK
  <2>4. run' \in [Jobs -> RunRows]
    <3>1. [run[j] EXCEPT !.phase = "assigned", !.status = "running"] \in RunRows
      BY Words DEF TypeOK, RunRows
    <3>2. QED BY <1>5, <3>1 DEF ClaimGrant, TypeOK
  <2>5. grants' \subseteq [lease: Leases, told: BOOLEAN] /\ exec' \subseteq Leases
    <3>1. \A told \in {TRUE} \cup (IF "lost_claim" \in Faults THEN {FALSE} ELSE {}) :
            [lease |-> lease, told |-> told /\ req[q].runner \in up]
              \in [lease: Leases, told: BOOLEAN]
      BY <2>2
    <3>2. QED BY <1>5, <2>2, <3>1 DEF ClaimGrant, TypeOK
  <2>6. QED BY <1>5, <2>3, <2>4, <2>5 DEF ClaimGrant, TypeOK
<1>6. ASSUME NEW q \in Requests, ClaimNone(q) PROVE TypeOK'
  BY <1>6 DEF ClaimNone, TypeOK, rows, local
<1>7. ASSUME NEW r \in Runners, Heartbeat(r) PROVE TypeOK'
  <2>1. PICK h \in HealthReports : health' = [health EXCEPT ![r] = h]
    BY <1>7 DEF Heartbeat
  <2>2. health' \in [Runners -> {"healthy", "degraded", "draining", "offline"}]
    BY <2>1, HealthAssumption DEF TypeOK
  <2>3. \A j \in Jobs : [job[j] EXCEPT !.expiry = "live"] \in JobRows /\ job[j] \in JobRows
    <3>1. \A j \in Jobs : job[j] \in JobRows
      BY DEF TypeOK
    <3>2. QED BY <3>1 DEF JobRows
  <2>4. job' \in [Jobs -> JobRows]
    BY <1>7, <2>3 DEF Heartbeat
  <2>5. QED BY <1>7, <2>2, <2>4 DEF Heartbeat, TypeOK, local
<1>8. ASSUME NEW j \in Jobs, LeaseRunsOut(j) PROVE TypeOK'
  BY <1>8 DEF LeaseRunsOut, TypeOK, local, JobRows
<1>9. ASSUME NEW lease \in exec, RunnerFinish(lease) PROVE TypeOK'
  <2>1. \A v \in Verdicts : [lease |-> lease, verdict |-> v] \in Entries
    BY DEF TypeOK, Entries
  <2>2. QED BY <1>9, <2>1 DEF RunnerFinish, TypeOK, rows
<1>10. ASSUME NEW r \in Runners, RunnerCrash(r) PROVE TypeOK'
  BY <1>10 DEF RunnerCrash, TypeOK, rows
<1>11. ASSUME NEW r \in Runners, RunnerRestart(r) PROVE TypeOK'
  BY <1>11 DEF RunnerRestart, TypeOK, rows
<1>12. ASSUME NEW entry \in spool, DeadLetter(entry) \/ CompleteAnswered(entry) PROVE TypeOK'
  BY <1>12 DEF DeadLetter, CompleteAnswered, TypeOK, rows
<1>13. ASSUME NEW q \in Requests, NEW entry \in spool, CompleteRead(q, entry) PROVE TypeOK'
  <2>1. [op |-> "complete", entry |-> entry] \in Completes
    BY DEF TypeOK, Completes
  <2>2. QED BY <1>13, <2>1 DEF CompleteRead, TypeOK, rows, local
<1>14. ASSUME NEW q \in Requests, CompleteCommit(q) PROVE TypeOK'
  <2> DEFINE entry == req[q].entry
             j == entry.lease.job
             done == CompletedRun(entry.verdict)
  <2>1. /\ entry \in Entries /\ j \in Jobs
        /\ entry.lease.fence \in Nat \ {0} /\ entry.verdict \in Verdicts
    BY <1>14, RequestShapes DEF CompleteCommit, Completes, Entries, Leases
  <2>2. done \in RunStates /\ CompletedJobState(entry.verdict) \in JobStates
    BY <2>1, VerdictsAssumption, CompletedRunLegal DEF Legal, JobStates
  <2>3. job' \in [Jobs -> JobRows]
    <3>1. HashOf(entry.lease.fence, entry.verdict) \in (Nat \ {0}) \X Verdicts
      BY <2>1 DEF HashOf
    <3>2. job' = [job EXCEPT ![j] =
                    [@ EXCEPT !.state = CompletedJobState(entry.verdict),
                              !.hash = HashOf(entry.lease.fence, entry.verdict),
                              !.expiry = None]]
      BY <1>14 DEF CompleteCommit
    <3>3. [job[j] EXCEPT !.state = CompletedJobState(entry.verdict),
                         !.hash = HashOf(entry.lease.fence, entry.verdict),
                         !.expiry = None] \in JobRows
      <4>1. job[j] \in JobRows
        BY <2>1 DEF TypeOK
      <4>2. QED BY <2>2, <3>1, <4>1 DEF JobRows
    <3>4. QED BY <2>1, <3>2, <3>3 DEF TypeOK
  <2>4. run' \in [Jobs -> RunRows]
    <3>1. run' = [run EXCEPT ![j] = [WithState(@, done) EXCEPT !.dated = TRUE]]
      BY <1>14 DEF CompleteCommit
    <3>2. WithState(run[j], done) \in RunRows
      BY <2>1, <2>2, WithStateTyped DEF TypeOK
    <3>3. [WithState(run[j], done) EXCEPT !.dated = TRUE] \in RunRows
      BY <3>2 DEF RunRows
    <3>4. QED BY <2>1, <3>1, <3>3 DEF TypeOK
  <2>5. spool' \subseteq Entries
    BY <1>14 DEF CompleteCommit, TypeOK
  <2>6. QED BY <1>14, <2>3, <2>4, <2>5 DEF CompleteCommit, TypeOK
<1>15. ASSUME NEW q \in Requests, NEW g \in grants, NEW b \in Batches,
              AppendRead(q, g.lease, b)
       PROVE TypeOK'
  <2>1. [op |-> "append", lease |-> g.lease, batch |-> b, seq |-> run[g.lease.job].seq]
          \in Appends
    BY DEF TypeOK, Appends, Leases, RunRows
  <2>2. QED BY <1>15, <2>1 DEF AppendRead, TypeOK, rows, local
<1>16. ASSUME NEW q \in Requests, AppendCommit(q) PROVE TypeOK'
  <2> DEFINE j == req[q].lease.job
             batch == req[q].batch
             row == [run[j] EXCEPT !.seq = @ + 1, !.ended = batch.ends]
  <2>1. j \in Jobs /\ batch \in Batches
    BY <1>16, RequestShapes DEF AppendCommit, Appends, Leases
  <2>2. row \in RunRows
    <3>1. batch.ends \in BOOLEAN
      BY <2>1, BatchesAssumption
    <3>2. run[j] \in RunRows
      BY <2>1 DEF TypeOK
    <3>3. QED BY <3>1, <3>2, EventsCounted
  <2>3. CASE run' = [run EXCEPT ![j] = row]
    BY <1>16, <2>1, <2>2, <2>3 DEF AppendCommit, TypeOK, local
  <2>4. ASSUME NEW s \in batch.state,
               run' = [run EXCEPT ![j] =
                         [WithState(row, s) EXCEPT !.dated = IsTerminalPhase(s.phase)]]
        PROVE TypeOK'
    <3>1. WithState(row, s) \in RunRows
      BY <2>1, <2>2, BatchesAssumption, WithStateTyped DEF Legal
    <3>2. [WithState(row, s) EXCEPT !.dated = IsTerminalPhase(s.phase)] \in RunRows
      <4>1. IsTerminalPhase(s.phase) \in BOOLEAN
        BY DEF IsTerminalPhase
      <4>2. QED BY <3>1, <4>1 DEF RunRows
    <3>3. QED BY <1>16, <2>1, <2>4, <3>2 DEF AppendCommit, TypeOK, local
  <2>5. CASE UNCHANGED run
    BY <1>16, <2>5 DEF AppendCommit, TypeOK, local
  <2>6. QED BY <1>16, <2>3, <2>4, <2>5, Zenon DEF AppendCommit
<1>17. ASSUME NEW q \in Requests, NEW j \in Jobs, CancelRead(q, j) PROVE TypeOK'
  BY <1>17 DEF CancelRead, TypeOK, Cancels, rows, local
<1>18. ASSUME NEW q \in Requests, CancelCommit(q) PROVE TypeOK'
  <2> DEFINE j == req[q].job
             cancelled == State("cancelled", "cancelled", "running")
  <2>1. j \in Jobs
    BY <1>18, RequestShapes DEF CancelCommit, Cancels
  <2>2. run' \in [Jobs -> RunRows]
    <3>1. WithState(run[j], cancelled) \in RunRows
      BY <2>1, ReapedStates, WithStateTyped DEF TypeOK
    <3>2. [WithState(run[j], cancelled) EXCEPT !.dated = TRUE, !.cancel = TRUE] \in RunRows
      BY <3>1 DEF RunRows
    <3>3. QED BY <1>18, <2>1, <3>2 DEF CancelCommit, TypeOK
  <2>3. job' \in [Jobs -> JobRows]
    <3>1. Unleased(job[j], "cancelled", job[j].attempt) \in JobRows
      <4>1. /\ job[j] \in JobRows /\ job[j].attempt \in Nat
            /\ "cancelled" \in JobStates
        BY <2>1 DEF TypeOK, JobRows, JobStates
      <4>2. QED BY <4>1, UnleasedTyped
    <3>2. QED BY <1>18, <2>1, <3>1 DEF CancelCommit, TypeOK
  <2>4. QED BY <1>18, <2>2, <2>3 DEF CancelCommit, TypeOK, local
<1>19. ASSUME NEW j \in Jobs, WorkerReap(j) PROVE TypeOK'
  <2> DEFINE again == ~run[j].cancel /\ job[j].attempt < MaxAttempts
             attempt == IF again THEN job[j].attempt + 1 ELSE job[j].attempt
             next == CASE again -> "queued"
                       [] ~again /\ run[j].cancel -> "cancelled"
                       [] ~again /\ ~run[j].cancel -> "failed"
             reaped == CASE again -> State("queued", None, "running")
                         [] ~again /\ run[j].cancel ->
                              State("cancelled", "cancelled", "failed")
                         [] ~again /\ ~run[j].cancel ->
                              State("runner_lost", "runner_lost", "failed")
  <2>1. attempt \in Nat /\ next \in JobStates /\ reaped \in RunStates
    BY ReapedStates DEF TypeOK, JobRows, RunRows, JobStates
  <2>2. job' \in [Jobs -> JobRows]
    <3>1. Unleased(job[j], next, attempt) \in JobRows
      BY <2>1, UnleasedTyped DEF TypeOK
    <3>2. QED BY <1>19, <3>1 DEF WorkerReap, TypeOK
  <2>3. run' \in [Jobs -> RunRows]
    <3>1. WithState(run[j], reaped) \in RunRows
      BY <2>1, WithStateTyped DEF TypeOK
    <3> DEFINE row == [WithState(run[j], reaped) EXCEPT !.attempt = attempt,
                                                        !.dated = run[j].dated \/ ~again]
    <3>2. row \in RunRows
      BY <2>1, <3>1 DEF TypeOK, RunRows
    <3>3. run' = [run EXCEPT ![j] = row]
      BY <1>19, Zenon DEF WorkerReap
    <3> HIDE DEF row
    <3>4. QED BY <3>2, <3>3 DEF TypeOK
  <2>4. QED BY <1>19, <2>2, <2>3 DEF WorkerReap, TypeOK, local
<1>20. CASE UNCHANGED vars
  BY <1>20 DEF vars, TypeOK
<1>21. QED
  BY <1>1, <1>2, <1>3, <1>4, <1>5, <1>6, <1>7, <1>8, <1>9, <1>10, <1>11, <1>12, <1>13,
     <1>14, <1>15, <1>16, <1>17, <1>18, <1>19, <1>20, Zenon DEF Next, RequestStep

\* Every row, request and spool entry stays well formed.
THEOREM TypeCorrect == Spec => []TypeOK
<1>1. QED BY InitTyped, NextTyped, PTL DEF Spec

-----------------------------------------------------------------------------
(***************************************************************************)
(* The three things a step can do to the lease of a job: keep it, drop it, *)
(* or grant it.  What is proved of leases below needs no more than this.   *)
(***************************************************************************)
Kept(j) ==
  /\ job'[j].leaseId = job[j].leaseId
  /\ job'[j].owner = job[j].owner
  /\ job'[j].fence = job[j].fence
  /\ \/ job'[j].state = job[j].state
     \/ job'[j].state \in EndStates
     \/ job[j].state = "absent" /\ job'[j].state = "queued"
  /\ job'[j].state = "leased" => job'[j].expiry \in {job[j].expiry, "live", "past"}

Dropped(j) ==
  /\ job'[j].leaseId = 0 /\ job'[j].owner = NoRunner
  /\ job'[j].fence = job[j].fence
  /\ job'[j].state \in EndStates \cup {"queued"}

Granted(j, r) ==
  /\ job[j].state = "queued" /\ job'[j].state = "leased"
  /\ job'[j].leaseId = job[j].fence + 1 /\ job'[j].fence = job[j].fence + 1
  /\ job'[j].owner = r /\ job'[j].expiry = "live"

KeptBut(j) == \A k \in Jobs \ {j} : Kept(k)

LeaseStep ==
  \/ grants' = grants /\ \A j \in Jobs : Kept(j)
  \/ grants' = grants /\ \E j \in Jobs : Dropped(j) /\ KeptBut(j)
  \/ \E j \in Jobs, r \in Runners, told \in BOOLEAN :
       /\ Granted(j, r) /\ KeptBut(j)
       /\ grants' = grants \cup
            {[lease |-> [job |-> j, fence |-> job[j].fence + 1, runner |-> r],
              told |-> told]}

\* A job row that does not change keeps its lease.
LEMMA SameRowKept == ASSUME NEW j, job'[j] = job[j] PROVE Kept(j)
  BY DEF Kept

\* One row written, its lease columns dropped.
LEMMA UnleasedDrops ==
  ASSUME TypeOK, NEW j \in Jobs, NEW s \in EndStates \cup {"queued"}, NEW a \in Nat,
         job' = [job EXCEPT ![j] = Unleased(@, s, a)]
  PROVE  Dropped(j) /\ KeptBut(j)
<1>1. s \in JobStates
  BY DEF EndStates, JobStates
<1>2. job'[j] = Unleased(job[j], s, a) /\ \A k \in Jobs \ {j} : job'[k] = job[k]
  BY DEF TypeOK
<1>3. Dropped(j)
  BY <1>1, <1>2, UnleasedTyped DEF Dropped, TypeOK
<1>4. QED BY <1>2, <1>3, SameRowKept DEF KeptBut

\* One row written, its lease columns kept, and the job not moved onto the queue.
LEMMA KeptWrites ==
  ASSUME TypeOK, NEW j \in Jobs, NEW row,
         job' = [job EXCEPT ![j] = row],
         job'[j] = row => Kept(j)
  PROVE  \A k \in Jobs : Kept(k)
<1>1. job'[j] = row /\ \A k \in Jobs \ {j} : job'[k] = job[k]
  BY DEF TypeOK
<1>2. QED BY <1>1, SameRowKept

LEMMA NextLeaseStep == TypeOK /\ [Next]_vars => LeaseStep
<1> SUFFICES ASSUME TypeOK, [Next]_vars PROVE LeaseStep
  OBVIOUS
<1>0. ASSUME UNCHANGED <<job, grants>> PROVE LeaseStep
  BY <1>0, SameRowKept DEF LeaseStep
<1>1. ASSUME NEW j \in Jobs, CreateRun(j) PROVE LeaseStep
  <2>1. PICK a \in FirstAttempts :
          job' = [job EXCEPT ![j].state = "queued", ![j].attempt = a]
    BY <1>1 DEF CreateRun
  <2> DEFINE row == [job[j] EXCEPT !.state = "queued", !.attempt = a]
  <2>2. job' = [job EXCEPT ![j] = row]
    BY <2>1 DEF TypeOK
  <2>3. job'[j] = row => Kept(j)
    BY <1>1 DEF CreateRun, Kept, TypeOK, JobRows
  <2>4. QED BY <1>1, <2>2, <2>3, KeptWrites DEF CreateRun, LeaseStep, local
<1>2. ASSUME NEW q \in Requests, ReapWrite(q) PROVE LeaseStep
  <2>1. req[q] \in Claims
    BY <1>2, RequestShapes DEF ReapWrite
  <2>2. PICK s \in req[q].stale :
          job' = [job EXCEPT ![s[1]] =
                    Unleased(@, IF s[2] < ApiAttempts THEN "queued" ELSE "failed",
                             IF s[2] < ApiAttempts THEN s[2] + 1 ELSE s[2])]
    BY <1>2, Zenon DEF ReapWrite
  <2>3. s[1] \in Jobs /\ (IF s[2] < ApiAttempts THEN s[2] + 1 ELSE s[2]) \in Nat
    BY <2>1 DEF Claims
  <2>4. Dropped(s[1]) /\ KeptBut(s[1])
    BY <2>2, <2>3, UnleasedDrops DEF EndStates
  <2>5. QED BY <1>2, <2>3, <2>4 DEF ReapWrite, LeaseStep, local
<1>3. ASSUME NEW q \in Requests, NEW j \in Jobs, ClaimGrant(q, j) PROVE LeaseStep
  <2>1. req[q] \in Grantings
    BY <1>3, RequestShapes DEF ClaimGrant
  <2> DEFINE r == req[q].runner
             lease == [job |-> j, fence |-> job[j].fence + 1, runner |-> r]
  <2>2. r \in Runners
    BY <2>1 DEF Grantings
  <2>3. job' = [job EXCEPT ![j] = [@ EXCEPT !.state = "leased", !.leaseId = lease.fence,
                                            !.fence = lease.fence, !.owner = r,
                                            !.expiry = "live"]]
    BY <1>3 DEF ClaimGrant, NextFence
  <2>4. Granted(j, r) /\ KeptBut(j)
    <3>1. job[j].state = "queued"
      BY <1>3 DEF ClaimGrant, Queued
    <3>2. job[j] \in JobRows
      BY DEF TypeOK
    <3>3. \A k \in Jobs \ {j} : job'[k] = job[k]
      BY <2>3 DEF TypeOK
    <3>4. job'[j] = [job[j] EXCEPT !.state = "leased", !.leaseId = lease.fence,
                                   !.fence = lease.fence, !.owner = r, !.expiry = "live"]
      BY <2>3 DEF TypeOK
    <3>5. QED BY <3>1, <3>2, <3>3, <3>4, SameRowKept DEF Granted, KeptBut, JobRows
  <2>5. PICK told \in BOOLEAN : grants' = grants \cup {[lease |-> lease, told |-> told]}
    BY <1>3 DEF ClaimGrant, NextFence
  <2>6. QED BY <2>2, <2>4, <2>5 DEF LeaseStep
<1>4. ASSUME NEW r \in Runners, Heartbeat(r) PROVE LeaseStep
  <2>1. \A j \in Jobs : job'[j] = IF j \in Active(r) THEN [job[j] EXCEPT !.expiry = "live"]
                                                     ELSE job[j]
    BY <1>4 DEF Heartbeat
  <2>2. ASSUME NEW j \in Jobs PROVE Kept(j)
    <3>1. job[j] \in JobRows
      BY DEF TypeOK
    <3>2. CASE j \in Active(r)
      BY <2>1, <3>1, <3>2 DEF Kept, JobRows
    <3>3. CASE j \notin Active(r)
      BY <2>1, <3>3 DEF Kept
    <3>4. QED BY <3>2, <3>3
  <2>3. QED BY <1>4, <2>2 DEF Heartbeat, LeaseStep, local
<1>5. ASSUME NEW j \in Jobs, LeaseRunsOut(j) PROVE LeaseStep
  <2> DEFINE row == [job[j] EXCEPT !.expiry = "past"]
  <2>1. job' = [job EXCEPT ![j] = row]
    BY <1>5 DEF LeaseRunsOut, TypeOK
  <2>2. job'[j] = row => Kept(j)
    BY DEF Kept, TypeOK, JobRows
  <2>3. QED BY <1>5, <2>1, <2>2, KeptWrites DEF LeaseRunsOut, LeaseStep, local
<1>6. ASSUME NEW q \in Requests, CompleteCommit(q) PROVE LeaseStep
  <2> DEFINE entry == req[q].entry
             j == entry.lease.job
             row == [job[j] EXCEPT !.state = CompletedJobState(entry.verdict),
                                   !.hash = HashOf(entry.lease.fence, entry.verdict),
                                   !.expiry = None]
  <2>1. j \in Jobs /\ entry.verdict \in Verdicts
    BY <1>6, RequestShapes DEF CompleteCommit, Completes, Entries, Leases
  <2>2. CompletedJobState(entry.verdict) \in EndStates
    BY <2>1, VerdictsAssumption, CompletedRunLegal DEF EndStates
  <2>3. job' = [job EXCEPT ![j] = row]
    BY <1>6 DEF CompleteCommit
  <2>4. job'[j] = row => Kept(j)
    <3>1. job[j] \in JobRows
      BY <2>1 DEF TypeOK
    <3>2. QED BY <2>2, <3>1 DEF Kept, JobRows, EndStates
  <2>5. QED BY <1>6, <2>1, <2>3, <2>4, KeptWrites DEF CompleteCommit, LeaseStep
<1>7. ASSUME NEW q \in Requests, CancelCommit(q) PROVE LeaseStep
  <2> DEFINE j == req[q].job
  <2>1. j \in Jobs
    BY <1>7, RequestShapes DEF CancelCommit, Cancels
  <2>2. CASE job[j].state \in {"queued", "leased"}
    <3>1. job' = [job EXCEPT ![j] = Unleased(@, "cancelled", job[j].attempt)]
      BY <1>7, <2>2 DEF CancelCommit
    <3>2. job[j].attempt \in Nat /\ "cancelled" \in EndStates
      BY <2>1 DEF TypeOK, JobRows, EndStates
    <3>3. Dropped(j) /\ KeptBut(j)
      BY <2>1, <3>1, <3>2, UnleasedDrops
    <3>4. QED BY <1>7, <2>1, <3>3 DEF CancelCommit, LeaseStep, local
  <2>3. CASE job[j].state \notin {"queued", "leased"}
    BY <1>7, <2>3, <1>0 DEF CancelCommit, local
  <2>4. QED BY <2>2, <2>3
<1>8. ASSUME NEW j \in Jobs, WorkerReap(j) PROVE LeaseStep
  <2> DEFINE again == ~run[j].cancel /\ job[j].attempt < MaxAttempts
             attempt == IF again THEN job[j].attempt + 1 ELSE job[j].attempt
             next == CASE again -> "queued"
                       [] ~again /\ run[j].cancel -> "cancelled"
                       [] ~again /\ ~run[j].cancel -> "failed"
  <2>1. attempt \in Nat /\ next \in EndStates \cup {"queued"}
    BY DEF TypeOK, JobRows, RunRows, EndStates
  <2>2. job' = [job EXCEPT ![j] = Unleased(@, next, attempt)]
    BY <1>8, Zenon DEF WorkerReap
  <2>3. Dropped(j) /\ KeptBut(j)
    BY <2>1, <2>2, UnleasedDrops
  <2>4. QED BY <1>8, <2>3 DEF WorkerReap, LeaseStep, local
<1>9. ASSUME NEW q \in Requests,
             \/ \E r \in Runners : ClaimStart(q, r)
             \/ ClaimCount(q) \/ ClaimNone(q)
             \/ \E entry \in spool : CompleteRead(q, entry)
             \/ \E g \in grants, b \in Batches : AppendRead(q, g.lease, b)
             \/ AppendCommit(q)
             \/ \E j \in Jobs : CancelRead(q, j)
      PROVE LeaseStep
  BY <1>0, <1>9 DEF ClaimStart, ClaimCount, ClaimNone, CompleteRead, AppendRead,
                    AppendCommit, CancelRead, rows, local
<1>10. ASSUME \/ \E r \in Runners : RunnerCrash(r) \/ RunnerRestart(r)
              \/ \E lease \in exec : RunnerFinish(lease)
              \/ \E entry \in spool : CompleteAnswered(entry) \/ DeadLetter(entry)
       PROVE LeaseStep
  BY <1>0, <1>10 DEF RunnerCrash, RunnerRestart, RunnerFinish, CompleteAnswered,
                     DeadLetter, rows
<1>11. CASE UNCHANGED vars
  BY <1>0, <1>11 DEF vars
<1>12. QED
  BY <1>1, <1>2, <1>3, <1>4, <1>5, <1>6, <1>7, <1>8, <1>9, <1>10, <1>11, Zenon
     DEF Next, RequestStep

-----------------------------------------------------------------------------
\* No lease was granted with a token its job has not issued yet.
GrantsIssued == \A g \in grants : g.lease.fence <= job[g.lease.job].fence

LeaseInv ==
  TypeOK /\ LeaseRowLegal /\ GrantsIssued /\ TokenNamesOneRunner /\ HolderWasGranted

LEMMA InitLeaseInv == Init => LeaseInv
<1> SUFFICES ASSUME Init PROVE LeaseInv
  OBVIOUS
<1>1. TypeOK
  BY InitTyped
<1>2. LeaseRowLegal /\ GrantsIssued /\ TokenNamesOneRunner /\ HolderWasGranted
  BY DEF Init, LeaseRowLegal, GrantsIssued, TokenNamesOneRunner, HolderWasGranted
<1>3. QED BY <1>1, <1>2 DEF LeaseInv

LEMMA NextLeaseInv == LeaseInv /\ [Next]_vars => LeaseInv'
<1> SUFFICES ASSUME LeaseInv, [Next]_vars PROVE LeaseInv'
  OBVIOUS
<1>1. TypeOK /\ TypeOK' /\ LeaseStep
  BY NextTyped, NextLeaseStep DEF LeaseInv
<1> USE DEF LeaseInv
<1>2. /\ \A j \in Jobs : job[j] \in JobRows /\ job'[j] \in JobRows
      /\ \A g \in grants : g.lease \in Leases /\ g.lease.job \in Jobs /\ g.lease.fence \in Nat
  BY <1>1 DEF TypeOK, Leases
<1>3. ASSUME NEW j \in Jobs, Kept(j)
      PROVE  /\ job'[j].state = "leased" =>
                  /\ job'[j].leaseId # 0 /\ job'[j].owner \in Runners
                  /\ job'[j].expiry # None /\ job'[j].fence > 0
             /\ job'[j].state \in {"absent", "queued"} =>
                  job'[j].leaseId = 0 /\ job'[j].owner = NoRunner
             /\ job'[j].leaseId # 0 =>
                  /\ job'[j].leaseId = job'[j].fence
                  /\ \E g \in grants : g.lease = LeaseOf(j)'
  BY <1>3 DEF Kept, LeaseRowLegal, HolderWasGranted, LeaseOf, EndStates, None
<1>4. CASE grants' = grants /\ \A j \in Jobs : Kept(j)
  <2>1. LeaseRowLegal'
    BY <1>3, <1>4 DEF LeaseRowLegal
  <2>2. HolderWasGranted'
    BY <1>3, <1>4 DEF HolderWasGranted
  <2>3. GrantsIssued' /\ TokenNamesOneRunner'
    BY <1>2, <1>4 DEF GrantsIssued, TokenNamesOneRunner, Kept
  <2>4. QED BY <1>1, <2>1, <2>2, <2>3
<1>5. ASSUME NEW j \in Jobs, grants' = grants, Dropped(j), KeptBut(j) PROVE LeaseInv'
  <2>1. LeaseRowLegal'
    BY <1>3, <1>5 DEF LeaseRowLegal, KeptBut, Dropped, EndStates
  <2>2. HolderWasGranted'
    BY <1>3, <1>5 DEF HolderWasGranted, KeptBut, Dropped
  <2>3. GrantsIssued' /\ TokenNamesOneRunner'
    BY <1>2, <1>5 DEF GrantsIssued, TokenNamesOneRunner, KeptBut, Kept, Dropped
  <2>4. QED BY <1>1, <2>1, <2>2, <2>3
<1>6. ASSUME NEW j \in Jobs, NEW r \in Runners, NEW told \in BOOLEAN,
             Granted(j, r), KeptBut(j),
             grants' = grants \cup
               {[lease |-> [job |-> j, fence |-> job[j].fence + 1, runner |-> r],
                 told |-> told]}
      PROVE LeaseInv'
  <2> DEFINE new == [lease |-> [job |-> j, fence |-> job[j].fence + 1, runner |-> r],
                     told |-> told]
  <2>0. job[j].fence \in Nat
    BY <1>2 DEF JobRows
  <2>1. LeaseRowLegal'
    BY <1>3, <1>6, <2>0 DEF LeaseRowLegal, KeptBut, Granted, None
  <2>2. HolderWasGranted'
    <3>1. \A k \in Jobs \ {j} :
            job'[k].leaseId # 0 => /\ job'[k].leaseId = job'[k].fence
                                   /\ \E g \in grants' : g.lease = LeaseOf(k)'
      BY <1>3, <1>6 DEF KeptBut
    <3>2. job'[j].leaseId = job'[j].fence /\ new.lease = LeaseOf(j)'
      BY <1>6 DEF Granted, LeaseOf
    <3>3. QED BY <1>6, <3>1, <3>2 DEF HolderWasGranted
  <2>3. GrantsIssued'
    <3>1. \A g \in grants : g.lease.fence <= job'[g.lease.job].fence
      BY <1>2, <1>6, <2>0 DEF GrantsIssued, KeptBut, Kept, Granted
    <3>2. new.lease.fence <= job'[new.lease.job].fence
      BY <1>6, <2>0 DEF Granted
    <3>3. QED BY <1>6, <3>1, <3>2 DEF GrantsIssued
  <2>4. TokenNamesOneRunner'
    <3>1. \A g \in grants : g.lease.job = j => g.lease.fence # new.lease.fence
      BY <1>2, <2>0 DEF GrantsIssued
    <3>2. QED BY <1>6, <3>1 DEF TokenNamesOneRunner
  <2>5. QED BY <1>1, <2>1, <2>2, <2>3, <2>4
<1>7. QED BY <1>1, <1>4, <1>5, <1>6 DEF LeaseStep

LEMMA LeaseInvariant == Spec => []LeaseInv
<1>1. QED BY InitLeaseInv, NextLeaseInv, PTL DEF Spec

\* execution_jobs_lease_check holds of every row, and a queued job names no lease.
THEOREM LeaseRowsLegal == Spec => []LeaseRowLegal
<1>1. LeaseInv => LeaseRowLegal
  BY DEF LeaseInv
<1>2. QED BY <1>1, LeaseInvariant, PTL

\* A fencing token names one runner, however many claims overlap.
THEOREM TokensNameOneRunner == Spec => []TokenNamesOneRunner
<1>1. LeaseInv => TokenNamesOneRunner
  BY DEF LeaseInv
<1>2. QED BY <1>1, LeaseInvariant, PTL

\* The lease a row names was granted, and nothing newer was.
THEOREM HoldersWereGranted == Spec => []HolderWasGranted
<1>1. LeaseInv => HolderWasGranted
  BY DEF LeaseInv
<1>2. QED BY <1>1, LeaseInvariant, PTL

\* A runner that lost its lease stays fenced out for good.
THEOREM LostLeasesStayLost == Spec => LostLeaseStaysLost
<1>1. LeaseInv /\ [Next]_vars
        => [\A g \in grants : ~Presents(g.lease) => ~Presents(g.lease)']_vars
  <2> SUFFICES ASSUME LeaseInv, [Next]_vars, NEW g \in grants, ~Presents(g.lease)
               PROVE  ~Presents(g.lease)'
    OBVIOUS
  <2> DEFINE i == g.lease.job
  <2>1. LeaseStep /\ i \in Jobs /\ g.lease.fence \in Nat \ {0} /\ job[i].fence \in Nat
    BY NextLeaseStep DEF LeaseInv, TypeOK, Leases, JobRows
  <2>2. ASSUME Kept(i) PROVE ~Presents(g.lease)'
    BY <2>2 DEF Kept, Presents
  <2>3. ASSUME Dropped(i) PROVE ~Presents(g.lease)'
    BY <2>1, <2>3 DEF Dropped, Presents
  <2>4. ASSUME NEW r \in Runners, Granted(i, r) PROVE ~Presents(g.lease)'
    <3>1. g.lease.fence <= job[i].fence
      BY DEF LeaseInv, GrantsIssued
    <3>2. QED BY <2>1, <2>4, <3>1 DEF Granted, Presents
  <2>5. QED BY <2>1, <2>2, <2>3, <2>4 DEF LeaseStep, KeptBut
<1>2. QED BY <1>1, LeaseInvariant, PTL DEF Spec, LostLeaseStaysLost

-----------------------------------------------------------------------------
(***************************************************************************)
(* The run row.                                                            *)
(***************************************************************************)
RunInv == TypeOK /\ RunRowLegal /\ AttemptInStep

RowLegal(row) == row.outcome # None <=> row.phase \in TerminalPhases

LEMMA InitRunInv == Init => RunInv
<1> SUFFICES ASSUME Init PROVE RunInv
  OBVIOUS
<1>1. "queued" \notin TerminalPhases
  BY DEF TerminalPhases
<1>2. RunRowLegal /\ AttemptInStep
  BY <1>1 DEF Init, RunRowLegal, AttemptInStep
<1>3. QED BY <1>2, InitTyped DEF RunInv

\* The states both reapers and cancelRun write agree on phase and outcome.
LEMMA WrittenStatesLegal ==
  \A s \in {State("queued", None, "running"),
            State("runner_lost", "runner_lost", "interrupted"),
            State("runner_lost", "runner_lost", "failed"),
            State("cancelled", "cancelled", "failed"),
            State("cancelled", "cancelled", "running")} : Legal(s)
  BY ReapedStates DEF Legal, State, TerminalPhases, None

\* What a step has to show when it writes one run row, and when it writes none.
LEMMA RunRowWrite ==
  ASSUME RunInv, NEW j \in Jobs, NEW row, run' = [run EXCEPT ![j] = row],
         RowLegal(row), row.attempt = job'[j].attempt,
         \A k \in Jobs \ {j} : job'[k].attempt = job[k].attempt
  PROVE  RunRowLegal' /\ AttemptInStep'
<1>1. run'[j] = row /\ \A k \in Jobs \ {j} : run'[k] = run[k]
  BY DEF RunInv, TypeOK
<1>2. QED BY <1>1 DEF RunInv, RunRowLegal, AttemptInStep, RowLegal

LEMMA NoRunWrite ==
  ASSUME RunInv, run' = run, \A k \in Jobs : job'[k].attempt = job[k].attempt
  PROVE  RunRowLegal' /\ AttemptInStep'
  BY DEF RunInv, RunRowLegal, AttemptInStep

LEMMA NextRunInv == RunInv /\ [Next]_vars => RunInv'
<1> SUFFICES ASSUME RunInv, [Next]_vars PROVE RunRowLegal' /\ AttemptInStep'
  BY NextTyped DEF RunInv
<1> DEFINE Goal == RunRowLegal' /\ AttemptInStep'
<1>t. /\ TypeOK
      /\ \A j \in Jobs : /\ job[j] \in JobRows /\ run[j] \in RunRows
                         /\ RowLegal(run[j]) /\ run[j].attempt = job[j].attempt
  BY DEF RunInv, TypeOK, RunRowLegal, AttemptInStep, RowLegal
<1>0. ASSUME UNCHANGED <<job, run>> PROVE Goal
  BY <1>0, NoRunWrite
<1>1. ASSUME NEW j \in Jobs, CreateRun(j) PROVE Goal
  <2>1. PICK a \in FirstAttempts :
          /\ job' = [job EXCEPT ![j].state = "queued", ![j].attempt = a]
          /\ run' = [run EXCEPT ![j].attempt = a]
    BY <1>1 DEF CreateRun
  <2> DEFINE row == [run[j] EXCEPT !.attempt = a]
  <2>2. run' = [run EXCEPT ![j] = row]
    BY <2>1
  <2>3. RowLegal(row) /\ row.attempt = a
    BY <1>t DEF RowLegal, RunRows
  <2>4. job'[j].attempt = a /\ \A k \in Jobs \ {j} : job'[k].attempt = job[k].attempt
    BY <1>t, <2>1 DEF TypeOK, JobRows
  <2> HIDE DEF row
  <2>5. QED BY <2>2, <2>3, <2>4, RunRowWrite
<1>2. ASSUME NEW q \in Requests, ReapWrite(q) PROVE Goal
  <2>1. req[q] \in Claims
    BY <1>2, <1>t, RequestShapes DEF ReapWrite
  <2> DEFINE again(s) == s[2] < ApiAttempts
             attempt(s) == IF again(s) THEN s[2] + 1 ELSE s[2]
             reaped(s) == IF again(s) THEN State("queued", None, "running")
                          ELSE State("runner_lost", "runner_lost", "interrupted")
             row(s) == [WithState(run[s[1]], reaped(s)) EXCEPT !.attempt = attempt(s)]
  <2>2. PICK s \in req[q].stale :
          /\ job' = [job EXCEPT ![s[1]] =
                       Unleased(@, IF again(s) THEN "queued" ELSE "failed", attempt(s))]
          /\ run' = [run EXCEPT ![s[1]] =
                       [WithState(@, reaped(s)) EXCEPT !.attempt = attempt(s)]]
    BY <1>2, Zenon DEF ReapWrite
  <2>3. s[1] \in Jobs /\ attempt(s) \in Nat
    BY <2>1 DEF Claims
  <2>4. RowLegal(row(s)) /\ row(s).attempt = attempt(s)
    <3>1. reaped(s) \in RunStates /\ Legal(reaped(s))
      BY WrittenStatesLegal, ReapedStates
    <3>2. WithState(run[s[1]], reaped(s)) \in RunRows
      BY <1>t, <2>3, <3>1, WithStateTyped
    <3>3. RowLegal(WithState(run[s[1]], reaped(s)))
      BY <1>t, <2>3, <3>1, WithStateTyped DEF RowLegal, Legal
    <3>4. QED BY <3>2, <3>3 DEF RowLegal, RunRows
  <2>5. /\ job'[s[1]].attempt = attempt(s)
        /\ \A k \in Jobs \ {s[1]} : job'[k].attempt = job[k].attempt
    <3>1. job'[s[1]] = Unleased(job[s[1]], IF again(s) THEN "queued" ELSE "failed", attempt(s))
      BY <1>t, <2>2, <2>3 DEF TypeOK
    <3>2. (IF again(s) THEN "queued" ELSE "failed") \in JobStates
      BY DEF JobStates
    <3>3. job'[s[1]].attempt = attempt(s)
      BY <1>t, <2>3, <3>1, <3>2, UnleasedTyped
    <3>4. \A k \in Jobs \ {s[1]} : job'[k] = job[k]
      BY <1>t, <2>2 DEF TypeOK
    <3>5. QED BY <3>3, <3>4
  <2>6. run' = [run EXCEPT ![s[1]] = row(s)]
    BY <2>2
  <2> HIDE DEF row, attempt
  <2>7. QED BY <2>3, <2>4, <2>5, <2>6, RunRowWrite
<1>3. ASSUME NEW q \in Requests, NEW j \in Jobs, ClaimGrant(q, j) PROVE Goal
  <2> DEFINE row == [run[j] EXCEPT !.phase = "assigned", !.status = "running"]
  <2>1. run' = [run EXCEPT ![j] = row] /\ run[j].outcome = None
    BY <1>3 DEF ClaimGrant
  <2>2. "assigned" \notin TerminalPhases
    BY DEF TerminalPhases
  <2>3. RowLegal(row) /\ row.attempt = run[j].attempt
    BY <1>t, <2>1, <2>2 DEF RowLegal, RunRows
  <2>4. \A k \in Jobs : job'[k].attempt = job[k].attempt
    BY <1>3, <1>t DEF ClaimGrant, TypeOK, JobRows
  <2> HIDE DEF row
  <2>5. QED BY <1>t, <2>1, <2>3, <2>4, RunRowWrite
<1>4. ASSUME NEW r \in Runners, Heartbeat(r) PROVE Goal
  <2>1. \A k \in Jobs : job'[k].attempt = job[k].attempt
    BY <1>4, <1>t DEF Heartbeat, JobRows
  <2>2. QED BY <1>4, <2>1, NoRunWrite DEF Heartbeat
<1>5. ASSUME NEW j \in Jobs, LeaseRunsOut(j) PROVE Goal
  <2>1. \A k \in Jobs : job'[k].attempt = job[k].attempt
    BY <1>5, <1>t DEF LeaseRunsOut, TypeOK, JobRows
  <2>2. QED BY <1>5, <2>1, NoRunWrite DEF LeaseRunsOut
<1>6. ASSUME NEW q \in Requests, CompleteCommit(q) PROVE Goal
  <2> DEFINE entry == req[q].entry
             j == entry.lease.job
             done == CompletedRun(entry.verdict)
             row == [WithState(run[j], done) EXCEPT !.dated = TRUE]
  <2>1. j \in Jobs /\ entry.verdict \in Verdicts
    BY <1>6, <1>t, RequestShapes DEF CompleteCommit, Completes, Entries, Leases
  <2>2. Legal(done)
    BY <2>1, VerdictsAssumption, CompletedRunLegal
  <2>3. RowLegal(row) /\ row.attempt = run[j].attempt
    <3>1. /\ WithState(run[j], done) \in RunRows
          /\ RowLegal(WithState(run[j], done))
          /\ WithState(run[j], done).attempt = run[j].attempt
      BY <1>t, <2>1, <2>2, WithStateTyped DEF RowLegal, Legal
    <3>2. QED BY <3>1 DEF RowLegal, RunRows
  <2>4. \A k \in Jobs : job'[k].attempt = job[k].attempt
    BY <1>6, <1>t DEF CompleteCommit, TypeOK, JobRows
  <2>5. run' = [run EXCEPT ![j] = row]
    BY <1>6 DEF CompleteCommit
  <2> HIDE DEF row
  <2>6. QED BY <1>t, <2>1, <2>3, <2>4, <2>5, RunRowWrite
<1>7. ASSUME NEW q \in Requests, AppendCommit(q) PROVE Goal
  <2> DEFINE j == req[q].lease.job
             batch == req[q].batch
             row == [run[j] EXCEPT !.seq = @ + 1, !.ended = batch.ends]
             asked(s) == [WithState(row, s) EXCEPT !.dated = IsTerminalPhase(s.phase)]
  <2>1. j \in Jobs /\ batch \in Batches /\ batch.ends \in BOOLEAN
    BY <1>7, <1>t, RequestShapes, BatchesAssumption DEF AppendCommit, Appends, Leases
  <2>2. row \in RunRows /\ RowLegal(row) /\ row.attempt = run[j].attempt
    <3>1. run[j] \in RunRows /\ RowLegal(run[j])
      BY <1>t, <2>1
    <3>2. /\ row \in RunRows /\ row.phase = run[j].phase
          /\ row.outcome = run[j].outcome /\ row.attempt = run[j].attempt
      BY <2>1, <3>1, EventsCounted
    <3> HIDE DEF row
    <3>3. QED BY <3>1, <3>2 DEF RowLegal
  <2>3. job' = job
    BY <1>7 DEF AppendCommit
  <2>4. CASE run' = [run EXCEPT ![j] = row]
    <3> HIDE DEF row
    <3>1. QED BY <1>t, <2>1, <2>2, <2>3, <2>4, RunRowWrite
  <2>5. ASSUME NEW s \in batch.state, run' = [run EXCEPT ![j] = asked(s)] PROVE Goal
    <3>1. Legal(s)
      BY <2>1, BatchesAssumption DEF Legal
    <3> HIDE DEF row
    <3>2. /\ WithState(row, s) \in RunRows /\ RowLegal(WithState(row, s))
          /\ WithState(row, s).attempt = row.attempt
      BY <2>2, <3>1, WithStateTyped DEF RowLegal, Legal
    <3>3. RowLegal(asked(s)) /\ asked(s).attempt = row.attempt
      BY <3>2 DEF RowLegal, RunRows
    <3> HIDE DEF asked
    <3>4. QED BY <1>t, <2>1, <2>2, <2>3, <2>5, <3>3, RunRowWrite
  <2>6. CASE UNCHANGED run
    BY <1>0, <2>3, <2>6
  <2>7. QED BY <1>7, <2>4, <2>5, <2>6, Zenon DEF AppendCommit
<1>8. ASSUME NEW q \in Requests, CancelCommit(q) PROVE Goal
  <2> DEFINE j == req[q].job
             cancelled == State("cancelled", "cancelled", "running")
             row == [WithState(run[j], cancelled) EXCEPT !.dated = TRUE, !.cancel = TRUE]
  <2>1. j \in Jobs
    BY <1>8, <1>t, RequestShapes DEF CancelCommit, Cancels
  <2>2. RowLegal(row) /\ row.attempt = run[j].attempt
    <3>1. /\ WithState(run[j], cancelled) \in RunRows
          /\ RowLegal(WithState(run[j], cancelled))
          /\ WithState(run[j], cancelled).attempt = run[j].attempt
      BY <1>t, <2>1, ReapedStates, WrittenStatesLegal, WithStateTyped DEF RowLegal, Legal
    <3> HIDE DEF cancelled
    <3>2. QED BY <3>1 DEF RowLegal, RunRows
  <2>3. \A k \in Jobs : job'[k].attempt = job[k].attempt
    <3>1. job[j].attempt \in Nat /\ "cancelled" \in JobStates
      BY <1>t, <2>1 DEF JobRows, JobStates
    <3>2. Unleased(job[j], "cancelled", job[j].attempt).attempt = job[j].attempt
      BY <1>t, <2>1, <3>1, UnleasedTyped
    <3>3. job' \in {job, [job EXCEPT ![j] = Unleased(@, "cancelled", job[j].attempt)]}
      BY <1>8 DEF CancelCommit
    <3>4. QED BY <1>t, <3>2, <3>3 DEF TypeOK
  <2>4. run' = [run EXCEPT ![j] = row]
    BY <1>8 DEF CancelCommit
  <2> HIDE DEF row
  <2>5. QED BY <1>t, <2>1, <2>2, <2>3, <2>4, RunRowWrite
<1>9. ASSUME NEW j \in Jobs, WorkerReap(j) PROVE Goal
  <2> DEFINE again == ~run[j].cancel /\ job[j].attempt < MaxAttempts
             attempt == IF again THEN job[j].attempt + 1 ELSE job[j].attempt
             next == CASE again -> "queued"
                       [] ~again /\ run[j].cancel -> "cancelled"
                       [] ~again /\ ~run[j].cancel -> "failed"
             reaped == CASE again -> State("queued", None, "running")
                         [] ~again /\ run[j].cancel ->
                              State("cancelled", "cancelled", "failed")
                         [] ~again /\ ~run[j].cancel ->
                              State("runner_lost", "runner_lost", "failed")
             row == [WithState(run[j], reaped) EXCEPT !.attempt = attempt,
                                                      !.dated = run[j].dated \/ ~again]
  <2>1. attempt \in Nat /\ next \in JobStates /\ Legal(reaped)
    BY <1>t, WrittenStatesLegal DEF JobRows, RunRows, JobStates
  <2>2. job' = [job EXCEPT ![j] = Unleased(@, next, attempt)] /\ run' = [run EXCEPT ![j] = row]
    BY <1>9, Zenon DEF WorkerReap
  <2>3. RowLegal(row) /\ row.attempt = attempt
    <3>1. WithState(run[j], reaped) \in RunRows /\ RowLegal(WithState(run[j], reaped))
      BY <1>t, <2>1, WithStateTyped DEF RowLegal, Legal
    <3> HIDE DEF again, attempt, reaped
    <3>2. QED BY <3>1 DEF RowLegal, RunRows
  <2>4. job'[j].attempt = attempt /\ \A k \in Jobs \ {j} : job'[k].attempt = job[k].attempt
    <3> HIDE DEF again, attempt, next
    <3>1. Unleased(job[j], next, attempt).attempt = attempt
      BY <1>t, <2>1, UnleasedTyped
    <3>2. QED BY <1>t, <2>2, <3>1 DEF TypeOK
  <2> HIDE DEF row, attempt
  <2>5. QED BY <2>2, <2>3, <2>4, RunRowWrite
<1>10. ASSUME NEW q \in Requests,
              \/ \E r \in Runners : ClaimStart(q, r)
              \/ ClaimCount(q) \/ ClaimNone(q)
              \/ \E entry \in spool : CompleteRead(q, entry)
              \/ \E g \in grants, b \in Batches : AppendRead(q, g.lease, b)
              \/ \E j \in Jobs : CancelRead(q, j)
       PROVE Goal
  BY <1>0, <1>10 DEF ClaimStart, ClaimCount, ClaimNone, CompleteRead, AppendRead,
                     CancelRead, rows
<1>11. ASSUME \/ \E r \in Runners : RunnerCrash(r) \/ RunnerRestart(r)
              \/ \E lease \in exec : RunnerFinish(lease)
              \/ \E entry \in spool : CompleteAnswered(entry) \/ DeadLetter(entry)
       PROVE Goal
  BY <1>0, <1>11 DEF RunnerCrash, RunnerRestart, RunnerFinish, CompleteAnswered,
                     DeadLetter, rows
<1>12. CASE UNCHANGED vars
  BY <1>0, <1>12 DEF vars
<1>13. QED
  BY <1>1, <1>2, <1>3, <1>4, <1>5, <1>6, <1>7, <1>8, <1>9, <1>10, <1>11, <1>12, Zenon
     DEF Next, RequestStep

\* runs_phase_outcome_check holds of every run row, whichever handler wrote it last.
THEOREM RunRowsLegal == Spec => []RunRowLegal
<1>1. RunInv => RunRowLegal
  BY DEF RunInv
<1>2. QED BY <1>1, InitRunInv, NextRunInv, PTL DEF Spec

\* The attempt of a run is the attempt of its job, however reapers and completions overlap:
\* createRun's duplicate lookup and the runner's events join on it.
THEOREM AttemptsInStep == Spec => []AttemptInStep
<1>1. RunInv => AttemptInStep
  BY DEF RunInv
<1>2. QED BY <1>1, InitRunInv, NextRunInv, PTL DEF Spec

-----------------------------------------------------------------------------
(***************************************************************************)
(* The lease columns implement the abstract fenced lease.                  *)
(***************************************************************************)
heldBy == [j \in Jobs |-> IF job[j].leaseId = 0 THEN {}
                          ELSE {<<job[j].owner, job[j].leaseId>>}]
tokens == [j \in Jobs |-> job[j].fence]

\* Granting a free job, dropping a held one, or a stutter.
THEOREM LeaseRefinement == Spec => ImplementsFencedLease
<1>1. Init => Fenced!Init
  BY DEF Init, Fenced!Init
<1>2. LeaseInv /\ [Next]_vars => [Fenced!Next]_(Fenced!leaseVars)
  <2> SUFFICES ASSUME LeaseInv, [Next]_vars
               PROVE  Fenced!Next \/ (heldBy' = heldBy /\ tokens' = tokens)
    BY DEF Fenced!leaseVars, heldBy, tokens
  <2>1. LeaseStep /\ \A j \in Jobs : job[j].fence \in Nat
    BY NextLeaseStep DEF LeaseInv, TypeOK, JobRows
  <2>2. ASSUME NEW k \in Jobs, Kept(k)
        PROVE  heldBy'[k] = heldBy[k] /\ tokens'[k] = tokens[k]
    BY <2>2 DEF Kept, heldBy, tokens
  <2>3. CASE \A j \in Jobs : Kept(j)
    BY <2>2, <2>3 DEF heldBy, tokens
  <2>4. ASSUME NEW j \in Jobs, Dropped(j), KeptBut(j)
        PROVE  Fenced!Next \/ (heldBy' = heldBy /\ tokens' = tokens)
    <3>1. heldBy' = [heldBy EXCEPT ![j] = {}] /\ tokens' = tokens
      BY <2>2, <2>4 DEF KeptBut, Dropped, heldBy, tokens
    <3>2. CASE heldBy[j] = {}
      BY <3>1, <3>2 DEF heldBy
    <3>3. CASE heldBy[j] # {}
      BY <3>1, <3>3 DEF Fenced!Next, Fenced!Release, heldBy, tokens
    <3>4. QED BY <3>2, <3>3
  <2>5. ASSUME NEW j \in Jobs, NEW r \in Runners, Granted(j, r), KeptBut(j)
        PROVE  Fenced!Next
    <3>1. heldBy[j] = {}
      BY <2>5 DEF LeaseInv, LeaseRowLegal, Granted, heldBy
    <3>2. heldBy' = [heldBy EXCEPT ![j] = {<<r, tokens[j] + 1>>}]
      <4>1. job'[j].leaseId = tokens[j] + 1 /\ job'[j].leaseId # 0 /\ job'[j].owner = r
        BY <2>1, <2>5 DEF Granted, tokens
      <4>2. heldBy'[j] = {<<r, tokens[j] + 1>>}
        BY <4>1 DEF heldBy
      <4>3. \A k \in Jobs \ {j} : heldBy'[k] = heldBy[k]
        BY <2>2, <2>5 DEF KeptBut
      <4> HIDE DEF tokens
      <4>4. QED BY <4>2, <4>3 DEF heldBy
    <3>3. tokens' = [tokens EXCEPT ![j] = @ + 1]
      BY <2>2, <2>5 DEF KeptBut, Granted, tokens
    <3>4. QED BY <3>1, <3>2, <3>3 DEF Fenced!Next, Fenced!Grant, heldBy, tokens
  <2>6. QED BY <2>1, <2>3, <2>4, <2>5 DEF LeaseStep
<1>3. QED BY <1>1, <1>2, LeaseInvariant, PTL DEF Spec, ImplementsFencedLease, Fenced!Spec
-----------------------------------------------------------------------------
(* What holds of runs and jobs when handlers do not overlap, for any       *)
(* number of jobs, runners and requests, whatever fails: each request      *)
(* finds at its commit what it read.  A completion is taken to name a      *)
(* terminal phase, as the shipped runner's do.                             *)

OneAtATime == Overlap = FALSE /\ \A v \in Verdicts : IsTerminalPhase(CompletedRun(v).phase)

\* A job row and its run row, between two transactions.
Agree(row, shown) ==
  /\ row.hash # NoHash => /\ row.state \in EndStates
                          /\ State(shown.phase, shown.outcome, shown.status)
                               = CompletedRun(row.hash[2])
  /\ row.hash = NoHash /\ row.leaseId # 0 => row.state = "leased"
  /\ shown.cancel => row.state = "cancelled" /\ shown.phase = "cancelled"
  /\ row.state \in {"absent", "queued"} => shown.outcome = None
  /\ row.state \in EndStates => shown.phase \in TerminalPhases

RowsAgree == \A j \in Jobs : Agree(job[j], run[j])

\* What a request has read is still so.
ReadHolds(q) ==
  /\ req[q].op = "claim" => \A s \in req[q].stale :
       job[s[1]].state = "leased" /\ job[s[1]].attempt = s[2]
  /\ req[q].op = "complete" =>
       Presents(req[q].entry.lease) /\ job[req[q].entry.lease.job].hash = NoHash
  /\ req[q].op = "append" => EventLease(req[q].lease)
  /\ req[q].op = "cancel" => job[req[q].job].state \in {"queued", "leased"}

OneBusy == \A p, q \in Requests : ~Idle(p) /\ ~Idle(q) => p = q
ReadsHold == OneBusy /\ \A q \in Requests : ReadHolds(q)

SerialInv == OneAtATime /\ LeaseInv /\ RunInv /\ RowsAgree /\ ReadsHold

-----------------------------------------------------------------------------
(* What a step does to the rows: at most one job moves, along an edge, and *)
(* a completion is recorded under the lease the row holds.                 *)
Edges ==
  {<<"absent", "queued">>, <<"queued", "leased">>, <<"queued", "cancelled">>,
   <<"leased", "queued">>, <<"leased", "completed">>, <<"leased", "failed">>,
   <<"leased", "cancelled">>}

MovesOn(from, to) == from = to \/ <<from, to>> \in Edges
RecordsUnderLease(row, next) ==
  next.hash # row.hash => next.hash[1] = row.fence /\ row.leaseId = row.fence

Settles(j) == MovesOn(job[j].state, job'[j].state) /\ RecordsUnderLease(job[j], job'[j])
Rests(j) == job'[j].state = job[j].state /\ job'[j].hash = job[j].hash

RowStep ==
  /\ RowsAgree'
  /\ \/ \A j \in Jobs : Rests(j)
     \/ \E j \in Jobs : Settles(j) /\ \A k \in Jobs \ {j} : Rests(k)

LEMMA OneRowStep ==
  ASSUME SerialInv, NEW j \in Jobs, NEW row, NEW shown,
         job' = [job EXCEPT ![j] = row], run' = [run EXCEPT ![j] = shown],
         Agree(row, shown), MovesOn(job[j].state, row.state), RecordsUnderLease(job[j], row)
  PROVE  RowStep
<1>1. /\ job'[j] = row /\ run'[j] = shown
      /\ \A k \in Jobs \ {j} : job'[k] = job[k] /\ run'[k] = run[k]
  BY DEF SerialInv, LeaseInv, TypeOK
<1>2. RowsAgree'
  BY <1>1 DEF SerialInv, RowsAgree
<1>3. Settles(j) /\ \A k \in Jobs \ {j} : Rests(k)
  BY <1>1 DEF Settles, Rests
<1>4. QED BY <1>2, <1>3 DEF RowStep

LEMMA NoRowStep ==
  ASSUME SerialInv, UNCHANGED <<job, run>> PROVE RowStep
  BY DEF SerialInv, RowsAgree, RowStep, Rests

\* Only the expiry of leases changes.
LEMMA OnlyExpiries ==
  ASSUME SerialInv, UNCHANGED run,
         \A j \in Jobs : /\ job'[j].state = job[j].state /\ job'[j].hash = job[j].hash
                         /\ job'[j].leaseId = job[j].leaseId
  PROVE  RowStep
<1>1. RowsAgree'
  BY DEF SerialInv, RowsAgree, Agree
<1>2. \A j \in Jobs : Rests(j)
  BY DEF Rests
<1>3. QED BY <1>1, <1>2 DEF RowStep

LEMMA Rows ==
  ASSUME SerialInv, NEW j \in Jobs
  PROVE  /\ job[j] \in JobRows /\ run[j] \in RunRows /\ Agree(job[j], run[j])
         /\ job[j].state \in JobStates /\ job[j].attempt \in Nat /\ job[j].fence \in Nat
         /\ run[j].cancel \in BOOLEAN
         /\ job[j].leaseId # 0 => job[j].leaseId = job[j].fence
         /\ job[j].state \in {"absent", "queued"} => job[j].leaseId = 0
         /\ job[j].state = "leased" => job[j].leaseId # 0
  BY DEF SerialInv, LeaseInv, TypeOK, RowsAgree, JobRows, RunRows, HolderWasGranted, LeaseRowLegal

\* The columns Unleased and WithState leave alone.
LEMMA UnleasedColumns ==
  ASSUME NEW row \in JobRows, NEW s \in JobStates, NEW a \in Nat
  PROVE  /\ Unleased(row, s, a).state = s /\ Unleased(row, s, a).leaseId = 0
         /\ Unleased(row, s, a).hash = row.hash
  BY DEF Unleased, JobRows

LEMMA ShownColumns ==
  ASSUME NEW shown \in RunRows, NEW s \in RunStates
  PROVE  /\ WithState(shown, s) \in RunRows
         /\ WithState(shown, s).phase = s.phase /\ WithState(shown, s).outcome = s.outcome
         /\ WithState(shown, s).status = s.status /\ WithState(shown, s).cancel = shown.cancel
  BY DEF WithState, RunRows, RunStates

\* A leased job carries no completion and no cancellation, and agrees with whatever its run shows.
LEMMA LeasedAgree ==
  ASSUME NEW row, NEW shown, Agree(row, shown), row.state = "leased"
  PROVE  /\ row.hash = NoHash /\ ~shown.cancel
         /\ \A other : other.cancel = shown.cancel => Agree(row, other)
  BY DEF Agree, EndStates

-----------------------------------------------------------------------------
(* The writes, one by one.                                                 *)

LEMMA CreateRows ==
  ASSUME SerialInv, NEW j \in Jobs, CreateRun(j) PROVE RowStep
<1>1. PICK a \in FirstAttempts :
        /\ job' = [job EXCEPT ![j].state = "queued", ![j].attempt = a]
        /\ run' = [run EXCEPT ![j].attempt = a]
  BY DEF CreateRun
<1> DEFINE row == [job[j] EXCEPT !.state = "queued", !.attempt = a]
           shown == [run[j] EXCEPT !.attempt = a]
<1>2. job' = [job EXCEPT ![j] = row] /\ run' = [run EXCEPT ![j] = shown]
  BY <1>1
<1>3. /\ row.state = "queued" /\ row.hash = job[j].hash /\ row.leaseId = job[j].leaseId
      /\ shown.outcome = run[j].outcome /\ shown.cancel = run[j].cancel
  BY Rows DEF JobRows, RunRows
<1>4. job[j].state = "absent" /\ Agree(job[j], run[j]) /\ job[j].leaseId = 0
  BY Rows DEF CreateRun
<1> HIDE DEF row, shown
<1>5. Agree(row, shown)
  BY <1>3, <1>4 DEF Agree, EndStates
<1>6. MovesOn(job[j].state, row.state) /\ RecordsUnderLease(job[j], row)
  BY <1>3, <1>4 DEF MovesOn, Edges, RecordsUnderLease
<1>7. QED BY <1>2, <1>5, <1>6, OneRowStep

\* Both reapers, and a cancellation: a job on the queue or under a lease loses it.
LEMMA LeaseTaken ==
  ASSUME SerialInv, NEW j \in Jobs, job[j].state \in {"queued", "leased"},
         NEW next \in {"queued", "failed", "cancelled"}, MovesOn(job[j].state, next),
         NEW a \in Nat, NEW shown, NEW s \in RunStates,
         job' = [job EXCEPT ![j] = Unleased(@, next, a)], run' = [run EXCEPT ![j] = shown],
         shown.phase = s.phase, shown.outcome = s.outcome,
         next = "queued" => s.outcome = None,
         next # "queued" => s.phase \in TerminalPhases,
         shown.cancel => next = "cancelled" /\ s.phase = "cancelled"
  PROVE  RowStep
<1> DEFINE row == Unleased(job[j], next, a)
<1>1. next \in JobStates
  BY DEF JobStates
<1>2. row.state = next /\ row.leaseId = 0 /\ row.hash = job[j].hash
  BY <1>1, Rows, UnleasedColumns
<1>3. job[j].hash = NoHash
  BY Rows DEF Agree, EndStates
<1>4. job' = [job EXCEPT ![j] = row]
  OBVIOUS
<1> HIDE DEF row
<1>5. Agree(row, shown)
  BY <1>2, <1>3 DEF Agree, EndStates
<1>6. MovesOn(job[j].state, row.state) /\ RecordsUnderLease(job[j], row)
  BY <1>2 DEF RecordsUnderLease
<1>7. QED BY <1>4, <1>5, <1>6, OneRowStep

LEMMA ReapRows ==
  ASSUME SerialInv, NEW q \in Requests, ReapWrite(q) PROVE RowStep
<1>1. req[q] \in Claims /\ ReadHolds(q)
  BY RequestShapes DEF ReapWrite, SerialInv, LeaseInv, ReadsHold
<1> DEFINE again(s) == s[2] < ApiAttempts
           attempt(s) == IF again(s) THEN s[2] + 1 ELSE s[2]
           next(s) == IF again(s) THEN "queued" ELSE "failed"
           reaped(s) == IF again(s) THEN State("queued", None, "running")
                        ELSE State("runner_lost", "runner_lost", "interrupted")
           shown(s) == [WithState(run[s[1]], reaped(s)) EXCEPT !.attempt = attempt(s)]
<1>2. PICK s \in req[q].stale :
        /\ job' = [job EXCEPT ![s[1]] = Unleased(@, next(s), attempt(s))]
        /\ run' = [run EXCEPT ![s[1]] = shown(s)]
  BY Zenon DEF ReapWrite
<1>3. s[1] \in Jobs /\ attempt(s) \in Nat /\ job[s[1]].state = "leased"
  BY <1>1 DEF Claims, ReadHolds, ReapWrite
<1>4. reaped(s) \in RunStates
  BY ReapedStates
<1>5. /\ shown(s).phase = reaped(s).phase /\ shown(s).outcome = reaped(s).outcome
      /\ shown(s).cancel = run[s[1]].cancel
  <2>1. WithState(run[s[1]], reaped(s)) \in RunRows
    BY <1>3, <1>4, Rows, ShownColumns
  <2>2. /\ WithState(run[s[1]], reaped(s)).phase = reaped(s).phase
        /\ WithState(run[s[1]], reaped(s)).outcome = reaped(s).outcome
        /\ WithState(run[s[1]], reaped(s)).cancel = run[s[1]].cancel
    BY <1>3, <1>4, Rows, ShownColumns
  <2> HIDE DEF reaped, attempt
  <2>3. QED BY <2>1, <2>2 DEF RunRows
<1>6. ~run[s[1]].cancel
  BY <1>3, Rows DEF Agree
<1>7. /\ next(s) = "queued" => reaped(s).outcome = None
      /\ next(s) # "queued" => reaped(s).phase \in TerminalPhases
      /\ MovesOn(job[s[1]].state, next(s))
      /\ next(s) \in {"queued", "failed", "cancelled"}
  BY <1>3 DEF State, TerminalPhases, MovesOn, Edges
<1> HIDE DEF again, attempt, next, reaped, shown
<1>8. QED BY <1>2, <1>3, <1>4, <1>5, <1>6, <1>7, LeaseTaken

LEMMA GrantRows ==
  ASSUME SerialInv, NEW q \in Requests, NEW j \in Jobs, ClaimGrant(q, j) PROVE RowStep
<1> DEFINE lease == [job |-> j, fence |-> NextFence(j), runner |-> req[q].runner]
           row == [job[j] EXCEPT !.state = "leased", !.leaseId = lease.fence,
                                 !.fence = lease.fence, !.owner = lease.runner,
                                 !.expiry = "live"]
           shown == [run[j] EXCEPT !.phase = "assigned", !.status = "running"]
<1>1. /\ job' = [job EXCEPT ![j] = row] /\ run' = [run EXCEPT ![j] = shown]
      /\ job[j].state = "queued"
  BY DEF ClaimGrant, Queued
<1>2. row.state = "leased" /\ row.hash = job[j].hash /\ shown.cancel = run[j].cancel
  BY Rows DEF JobRows, RunRows
<1>3. job[j].hash = NoHash /\ ~run[j].cancel
  BY <1>1, Rows DEF Agree, EndStates
<1> HIDE DEF row, shown
<1>4. Agree(row, shown)
  BY <1>2, <1>3, Rows DEF Agree, EndStates
<1>5. MovesOn(job[j].state, row.state) /\ RecordsUnderLease(job[j], row)
  BY <1>1, <1>2 DEF MovesOn, Edges, RecordsUnderLease
<1>6. QED BY <1>1, <1>4, <1>5, OneRowStep

LEMMA ExpiryRows ==
  ASSUME SerialInv,
         (\E r \in Runners : Heartbeat(r)) \/ (\E j \in Jobs : LeaseRunsOut(j))
  PROVE  RowStep /\ \A j \in Jobs : /\ job'[j].state = job[j].state
                                    /\ job'[j].hash = job[j].hash
                                    /\ job'[j].attempt = job[j].attempt
                                    /\ job'[j].owner = job[j].owner
                                    /\ job'[j].leaseId = job[j].leaseId
                                    /\ job'[j].fence = job[j].fence
<1>1. \A j \in Jobs : job[j] \in JobRows
  BY Rows
<1>2. \A j \in Jobs : /\ job'[j].state = job[j].state /\ job'[j].hash = job[j].hash
                      /\ job'[j].attempt = job[j].attempt /\ job'[j].owner = job[j].owner
                      /\ job'[j].leaseId = job[j].leaseId /\ job'[j].fence = job[j].fence
  <2>1. CASE \E r \in Runners : Heartbeat(r)
    BY <1>1, <2>1 DEF Heartbeat, JobRows
  <2>2. CASE \E j \in Jobs : LeaseRunsOut(j)
    BY <1>1, <2>2 DEF LeaseRunsOut, JobRows, SerialInv, LeaseInv, TypeOK
  <2>3. QED BY <2>1, <2>2
<1>3. UNCHANGED run
  BY DEF Heartbeat, LeaseRunsOut
<1>4. QED BY <1>2, <1>3, OnlyExpiries

LEMMA CompleteRows ==
  ASSUME SerialInv, NEW q \in Requests, CompleteCommit(q) PROVE RowStep
<1> DEFINE entry == req[q].entry
           j == entry.lease.job
           done == CompletedRun(entry.verdict)
           ends == CompletedJobState(entry.verdict)
           row == [job[j] EXCEPT !.state = ends,
                                 !.hash = HashOf(entry.lease.fence, entry.verdict),
                                 !.expiry = None]
           shown == [WithState(run[j], done) EXCEPT !.dated = TRUE]
<1>1. /\ j \in Jobs /\ entry.lease.fence \in Nat \ {0} /\ entry.verdict \in Verdicts
      /\ ReadHolds(q)
  BY RequestShapes DEF CompleteCommit, Completes, Entries, Leases, SerialInv, LeaseInv, ReadsHold
<1>2. /\ Legal(done) /\ ends \in EndStates /\ done.phase \in TerminalPhases
  BY <1>1, VerdictsAssumption, CompletedRunLegal
     DEF EndStates, SerialInv, OneAtATime, IsTerminalPhase
<1>3. /\ job' = [job EXCEPT ![j] = row] /\ run' = [run EXCEPT ![j] = shown]
  BY DEF CompleteCommit
<1>4. /\ job[j].leaseId = entry.lease.fence /\ job[j].fence = entry.lease.fence
      /\ job[j].hash = NoHash
  BY <1>1 DEF ReadHolds, Presents, CompleteCommit
<1>5. job[j].state = "leased" /\ ~run[j].cancel
  BY <1>1, <1>4, Rows DEF Agree
<1>6. row.state = ends /\ row.hash = <<entry.lease.fence, entry.verdict>>
  BY <1>1, Rows DEF JobRows, HashOf
<1>7. /\ shown.phase = done.phase /\ shown.outcome = done.outcome
      /\ shown.status = done.status /\ shown.cancel = run[j].cancel
  <2>1. /\ WithState(run[j], done) \in RunRows
        /\ WithState(run[j], done).phase = done.phase
        /\ WithState(run[j], done).outcome = done.outcome
        /\ WithState(run[j], done).status = done.status
        /\ WithState(run[j], done).cancel = run[j].cancel
    BY <1>1, <1>2, Rows, ShownColumns DEF Legal
  <2> HIDE DEF done
  <2>2. QED BY <2>1 DEF RunRows
<1>8. State(shown.phase, shown.outcome, shown.status) = done
  <2> HIDE DEF done, shown
  <2>1. QED BY <1>2, <1>7 DEF State, Legal, RunStates
<1> HIDE DEF ends, row, shown
<1>9. Agree(row, shown)
  <2>1. row.hash # NoHash /\ row.hash[2] = entry.verdict
    BY <1>6 DEF NoHash
  <2>2. row.state \notin {"absent", "queued"}
    BY <1>2, <1>6 DEF EndStates
  <2>3. QED BY <1>2, <1>5, <1>6, <1>7, <1>8, <2>1, <2>2 DEF Agree
<1>10. MovesOn(job[j].state, row.state)
  BY <1>2, <1>5, <1>6 DEF EndStates, MovesOn, Edges
<1>11. RecordsUnderLease(job[j], row)
  BY <1>4, <1>6 DEF RecordsUnderLease
<1>12. QED BY <1>1, <1>3, <1>9, <1>10, <1>11, OneRowStep

\* Events only reach the run of a job that is still leased.
LEMMA AppendRows ==
  ASSUME SerialInv, NEW q \in Requests, AppendCommit(q) PROVE RowStep
<1> DEFINE j == req[q].lease.job
           batch == req[q].batch
           row == [run[j] EXCEPT !.seq = @ + 1, !.ended = batch.ends]
           asked(s) == [WithState(row, s) EXCEPT !.dated = IsTerminalPhase(s.phase)]
<1>1. j \in Jobs /\ batch \in Batches /\ batch.ends \in BOOLEAN /\ ReadHolds(q)
  BY RequestShapes, BatchesAssumption
     DEF AppendCommit, Appends, Leases, SerialInv, LeaseInv, ReadsHold
<1>2. job[j].state = "leased" /\ job' = job
  BY <1>1 DEF ReadHolds, EventLease, AppendCommit
<1>3. ASSUME NEW shown, run' = [run EXCEPT ![j] = shown], shown.cancel = run[j].cancel
      PROVE  RowStep
  <2>1. Agree(job[j], shown)
    BY <1>1, <1>2, <1>3, Rows, LeasedAgree
  <2>2. job' = [job EXCEPT ![j] = job[j]]
    BY <1>2 DEF SerialInv, LeaseInv, TypeOK
  <2>3. MovesOn(job[j].state, job[j].state) /\ RecordsUnderLease(job[j], job[j])
    BY DEF MovesOn, RecordsUnderLease
  <2>4. QED BY <1>1, <1>3, <2>1, <2>2, <2>3, OneRowStep
<1>4. row \in RunRows /\ row.cancel = run[j].cancel
  <2>1. row \in RunRows
    BY <1>1, Rows, EventsCounted
  <2>2. row.cancel = run[j].cancel
    BY <1>1, Rows DEF RunRows
  <2>3. QED BY <2>1, <2>2
<1>5. CASE run' = [run EXCEPT ![j] = row]
  BY <1>3, <1>4, <1>5
<1>6. ASSUME NEW s \in batch.state, run' = [run EXCEPT ![j] = asked(s)] PROVE RowStep
  <2> HIDE DEF row
  <2>1. s \in RunStates
    BY <1>1, <1>6, BatchesAssumption
  <2>2. WithState(row, s) \in RunRows /\ WithState(row, s).cancel = row.cancel
    BY <1>4, <2>1, ShownColumns
  <2>3. asked(s).cancel = run[j].cancel
    BY <1>4, <2>2 DEF RunRows
  <2>4. QED BY <1>3, <1>6, <2>3
<1>7. CASE UNCHANGED run
  BY <1>2, <1>7, NoRowStep
<1>8. QED BY <1>5, <1>6, <1>7, Zenon DEF AppendCommit

LEMMA CancelRows ==
  ASSUME SerialInv, NEW q \in Requests, CancelCommit(q) PROVE RowStep
<1> DEFINE j == req[q].job
           cancelled == State("cancelled", "cancelled", "running")
           shown == [WithState(run[j], cancelled) EXCEPT !.dated = TRUE, !.cancel = TRUE]
<1>1. j \in Jobs /\ ReadHolds(q) /\ job[j].state \in {"queued", "leased"}
  BY RequestShapes DEF CancelCommit, Cancels, SerialInv, LeaseInv, ReadsHold, ReadHolds
<1>2. /\ job' = [job EXCEPT ![j] = Unleased(@, "cancelled", job[j].attempt)]
      /\ run' = [run EXCEPT ![j] = shown]
  BY <1>1 DEF CancelCommit
<1>3. cancelled \in RunStates /\ cancelled.phase = "cancelled" /\ "cancelled" \in TerminalPhases
  BY ReapedStates DEF State, TerminalPhases
<1>4. shown.phase = cancelled.phase /\ shown.outcome = cancelled.outcome
  <2>1. /\ WithState(run[j], cancelled) \in RunRows
        /\ WithState(run[j], cancelled).phase = cancelled.phase
        /\ WithState(run[j], cancelled).outcome = cancelled.outcome
    BY <1>1, <1>3, Rows, ShownColumns
  <2> HIDE DEF cancelled
  <2>2. QED BY <2>1 DEF RunRows
<1>5. MovesOn(job[j].state, "cancelled")
  BY <1>1 DEF MovesOn, Edges
<1> HIDE DEF cancelled, shown
<1>6. job[j].attempt \in Nat
  BY <1>1, Rows
<1>7. "cancelled" \in {"queued", "failed", "cancelled"} /\ "cancelled" # "queued"
  OBVIOUS
<1>8. cancelled.phase \in TerminalPhases
  BY <1>3
<1>9. shown.cancel => "cancelled" = "cancelled" /\ cancelled.phase = "cancelled"
  BY <1>3
<1>10. QED BY <1>1, <1>2, <1>3, <1>4, <1>5, <1>6, <1>7, <1>8, <1>9, LeaseTaken

LEMMA WorkerRows ==
  ASSUME SerialInv, NEW j \in Jobs, WorkerReap(j) PROVE RowStep
<1> DEFINE again == ~run[j].cancel /\ job[j].attempt < MaxAttempts
           attempt == IF again THEN job[j].attempt + 1 ELSE job[j].attempt
           next == CASE again -> "queued"
                     [] ~again /\ run[j].cancel -> "cancelled"
                     [] ~again /\ ~run[j].cancel -> "failed"
           reaped == CASE again -> State("queued", None, "running")
                       [] ~again /\ run[j].cancel ->
                            State("cancelled", "cancelled", "failed")
                       [] ~again /\ ~run[j].cancel ->
                            State("runner_lost", "runner_lost", "failed")
           shown == [WithState(run[j], reaped) EXCEPT !.attempt = attempt,
                                                      !.dated = run[j].dated \/ ~again]
<1>1. job' = [job EXCEPT ![j] = Unleased(@, next, attempt)] /\ run' = [run EXCEPT ![j] = shown]
  BY Zenon DEF WorkerReap
<1>2. job[j].state = "leased" /\ ~run[j].cancel /\ attempt \in Nat
  BY Rows, LeasedAgree DEF WorkerReap, Expired
<1>3. /\ next \in {"queued", "failed", "cancelled"} /\ reaped \in RunStates
      /\ next = "queued" => reaped.outcome = None
      /\ next # "queued" => reaped.phase \in TerminalPhases
  BY <1>2, ReapedStates DEF State, TerminalPhases
<1>4. /\ shown.phase = reaped.phase /\ shown.outcome = reaped.outcome
      /\ shown.cancel = run[j].cancel
  <2>1. /\ WithState(run[j], reaped) \in RunRows
        /\ WithState(run[j], reaped).phase = reaped.phase
        /\ WithState(run[j], reaped).outcome = reaped.outcome
        /\ WithState(run[j], reaped).cancel = run[j].cancel
    BY <1>3, Rows, ShownColumns
  <2> HIDE DEF again, attempt, reaped
  <2>2. QED BY <2>1 DEF RunRows
<1>5. MovesOn(job[j].state, next)
  BY <1>2, <1>3 DEF MovesOn, Edges
<1> HIDE DEF again, attempt, next, reaped, shown
<1>6. QED BY <1>1, <1>2, <1>3, <1>4, <1>5, LeaseTaken

-----------------------------------------------------------------------------
(* One request at a time, and what it has read still holds.                *)

\* A request that starts when nothing is in flight, goes on, or ends.
LEMMA OneRequest ==
  ASSUME SerialInv, NEW q \in Requests, Quiet \/ ~Idle(q), NEW r,
         req' = [req EXCEPT ![q] = r], r = NoReq \/ ReadHolds(q)'
  PROVE  ReadsHold'
<1>1. req'[q] = r /\ \A p \in Requests \ {q} : req'[p] = req[p]
  BY DEF SerialInv, LeaseInv, TypeOK
<1>2. \A p \in Requests \ {q} : Idle(p)
  BY DEF SerialInv, ReadsHold, OneBusy, Quiet
<1>3. \A p \in Requests \ {q} : req'[p] = NoReq
  BY <1>1, <1>2 DEF Idle
<1>4. OneBusy'
  BY <1>3 DEF OneBusy, Idle
<1>5. ASSUME NEW p \in Requests, req'[p] = NoReq PROVE ReadHolds(p)'
  BY <1>5 DEF ReadHolds, NoReq
<1>6. \A p \in Requests : ReadHolds(p)'
  BY <1>1, <1>3, <1>5
<1>7. QED BY <1>4, <1>6 DEF ReadsHold

\* A write of one transaction, when handlers do not overlap.
LEMMA NothingInFlight ==
  ASSUME SerialInv, MayStart, UNCHANGED req PROVE ReadsHold'
  BY DEF SerialInv, OneAtATime, MayStart, Quiet, Idle, ReadsHold, OneBusy, ReadHolds, NoReq

LEMMA StartsAlone == ASSUME SerialInv, MayStart PROVE Quiet
  BY DEF SerialInv, OneAtATime, MayStart

\* The clock and the processes change nothing a request has read.
LEMMA ReadsStand ==
  ASSUME SerialInv, UNCHANGED req,
         \A j \in Jobs : /\ job'[j].state = job[j].state /\ job'[j].hash = job[j].hash
                         /\ job'[j].attempt = job[j].attempt
                         /\ job'[j].owner = job[j].owner
                         /\ job'[j].leaseId = job[j].leaseId
                         /\ job'[j].fence = job[j].fence
  PROVE  ReadsHold'
<1>1. OneBusy'
  BY DEF SerialInv, ReadsHold, OneBusy, Idle
<1>2. ASSUME NEW q \in Requests PROVE ReadHolds(q)'
  <2>1. ReadHolds(q)
    BY DEF SerialInv, ReadsHold
  <2>2. req[q].op = "claim" => \A s \in req[q].stale : s[1] \in Jobs
    BY RequestShapes DEF SerialInv, LeaseInv, Claims
  <2>3. /\ req[q].op = "complete" => req[q].entry.lease.job \in Jobs
        /\ req[q].op = "append" => req[q].lease.job \in Jobs
        /\ req[q].op = "cancel" => req[q].job \in Jobs
    BY RequestShapes
       DEF SerialInv, LeaseInv, Completes, Appends, Cancels, Entries, Leases
  <2>4. QED BY <2>1, <2>2, <2>3 DEF ReadHolds, Presents, EventLease
<1>3. QED BY <1>1, <1>2 DEF ReadsHold

\* One expired lease reaped: the others the claim found are as they were.
LEMMA ReapReads ==
  ASSUME SerialInv, NEW q \in Requests, ReapWrite(q) PROVE ReadsHold'
<1>1. req[q] \in Claims /\ ReadHolds(q) /\ ~Idle(q)
  BY RequestShapes DEF ReapWrite, SerialInv, LeaseInv, ReadsHold, Idle, NoReq
<1>2. PICK s \in req[q].stale :
        /\ \E row : job' = [job EXCEPT ![s[1]] = row]
        /\ req' = [req EXCEPT ![q].stale = @ \ {s}]
  BY Zenon DEF ReapWrite
<1> DEFINE left == [req[q] EXCEPT !.stale = @ \ {s}]
<1>3. req' = [req EXCEPT ![q] = left]
  BY <1>2
<1>4. left.op = "claim" /\ left.stale = req[q].stale \ {s}
  BY <1>1 DEF Claims
<1> HIDE DEF left
<1>5. req'[q] = left
  BY <1>3 DEF SerialInv, LeaseInv, TypeOK
<1>6. ASSUME NEW t \in left.stale PROVE job'[t[1]].state = "leased" /\ job'[t[1]].attempt = t[2]
  <2>1. /\ t \in req[q].stale /\ t # s /\ s \in Jobs \X Nat /\ t \in Jobs \X Nat
    BY <1>1, <1>4, <1>6 DEF Claims
  <2>2. job[t[1]].attempt = t[2] /\ job[s[1]].attempt = s[2] /\ job[t[1]].state = "leased"
    BY <1>1, <2>1 DEF ReadHolds, ReapWrite
  <2>3. t[1] # s[1]
    BY <2>1, <2>2
  <2>4. QED BY <1>2, <2>1, <2>2, <2>3 DEF SerialInv, LeaseInv, TypeOK
<1>7. ReadHolds(q)'
  BY <1>4, <1>5, <1>6 DEF ReadHolds
<1>8. QED BY <1>1, <1>3, <1>7, OneRequest

\* What a request reads when it starts.
LEMMA ClaimReads ==
  ASSUME SerialInv, NEW q \in Requests, NEW r \in Runners, ClaimStart(q, r) PROVE ReadsHold'
<1>1. /\ req'[q] = [op |-> "claim", runner |-> r,
                    stale |-> {<<j, job[j].attempt>> : j \in Expired}]
      /\ job' = job /\ Quiet
  BY StartsAlone DEF ClaimStart, SerialInv, LeaseInv, TypeOK, rows
<1>2. ReadHolds(q)'
  BY <1>1 DEF ReadHolds, Expired
<1>3. QED BY <1>1, <1>2, OneRequest DEF ClaimStart

LEMMA CompleteReads ==
  ASSUME SerialInv, NEW q \in Requests, NEW entry \in spool, CompleteRead(q, entry)
  PROVE  ReadsHold'
<1>1. req'[q] = [op |-> "complete", entry |-> entry] /\ job' = job /\ Quiet
  BY StartsAlone DEF CompleteRead, SerialInv, LeaseInv, TypeOK, rows
<1>2. Presents(entry.lease) /\ job[entry.lease.job].hash = NoHash
  BY DEF CompleteRead, Refused, Duplicate
<1>3. ReadHolds(q)'
  BY <1>1, <1>2 DEF ReadHolds, Presents
<1>4. QED BY <1>1, <1>3, OneRequest DEF CompleteRead

LEMMA AppendReads ==
  ASSUME SerialInv, NEW q \in Requests, NEW lease, NEW batch, AppendRead(q, lease, batch)
  PROVE  ReadsHold'
<1>1. /\ req'[q] = [op |-> "append", lease |-> lease, batch |-> batch,
                    seq |-> run[lease.job].seq]
      /\ job' = job /\ Quiet
  BY StartsAlone DEF AppendRead, SerialInv, LeaseInv, TypeOK, rows
<1>2. ReadHolds(q)'
  BY <1>1 DEF AppendRead, ReadHolds, EventLease, Presents
<1>3. QED BY <1>1, <1>2, OneRequest DEF AppendRead

\* A run that has not ended has a job that has not ended either.
LEMMA CancelReads ==
  ASSUME SerialInv, NEW q \in Requests, NEW j \in Jobs, CancelRead(q, j) PROVE ReadsHold'
<1>1. req'[q] = [op |-> "cancel", job |-> j] /\ job' = job /\ Quiet
  BY StartsAlone DEF CancelRead, SerialInv, LeaseInv, TypeOK, rows
<1>2. job[j].state \in {"queued", "leased"}
  BY Rows DEF CancelRead, IsTerminalPhase, Agree, JobStates, EndStates
<1>3. ReadHolds(q)'
  BY <1>1, <1>2 DEF ReadHolds
<1>4. QED BY <1>1, <1>3, OneRequest DEF CancelRead

-----------------------------------------------------------------------------
(* Every step of the specification.                                        *)

LEMMA RequestEnds ==
  ASSUME SerialInv, NEW q \in Requests, req' = [req EXCEPT ![q] = NoReq],
         req[q].op \in {"claim", "grant", "complete", "append", "cancel"}
  PROVE  ReadsHold'
<1>1. ~Idle(q)
  BY DEF Idle, NoReq
<1>2. QED BY <1>1, OneRequest

LEMMA RequestSteps ==
  ASSUME SerialInv, NEW q \in Requests, RequestStep(q) PROVE RowStep /\ ReadsHold'
<1>1. ASSUME NEW r \in Runners, ClaimStart(q, r) PROVE RowStep /\ ReadsHold'
  BY <1>1, ClaimReads, NoRowStep DEF ClaimStart, rows
<1>2. CASE ReapWrite(q)
  BY <1>2, ReapReads, ReapRows
<1>3. CASE ClaimCount(q)
  <2> DEFINE granting == [op |-> "grant", runner |-> req[q].runner]
  <2>1. RowStep
    BY <1>3, NoRowStep DEF ClaimCount, rows
  <2>2. CASE req' = [req EXCEPT ![q] = NoReq]
    BY <1>3, <2>1, <2>2, RequestEnds DEF ClaimCount
  <2>3. CASE req' = [req EXCEPT ![q] = granting]
    <3>1. req'[q] = granting
      BY <2>3 DEF SerialInv, LeaseInv, TypeOK
    <3>2. ReadHolds(q)'
      BY <3>1 DEF ReadHolds
    <3>3. ~Idle(q)
      BY <1>3 DEF ClaimCount, Idle, NoReq
    <3> HIDE DEF granting
    <3>4. QED BY <2>1, <2>3, <3>2, <3>3, OneRequest
  <2>4. QED BY <1>3, <2>2, <2>3 DEF ClaimCount
<1>4. ASSUME NEW j \in Jobs, ClaimGrant(q, j) PROVE RowStep /\ ReadsHold'
  BY <1>4, RequestEnds, GrantRows DEF ClaimGrant
<1>5. CASE ClaimNone(q)
  BY <1>5, RequestEnds, NoRowStep DEF ClaimNone, rows
<1>6. ASSUME NEW entry \in spool, CompleteRead(q, entry) PROVE RowStep /\ ReadsHold'
  BY <1>6, CompleteReads, NoRowStep DEF CompleteRead, rows
<1>7. CASE CompleteCommit(q)
  BY <1>7, RequestEnds, CompleteRows DEF CompleteCommit
<1>8. ASSUME NEW g \in grants, NEW b \in Batches, AppendRead(q, g.lease, b)
      PROVE  RowStep /\ ReadsHold'
  BY <1>8, AppendReads, NoRowStep DEF AppendRead, rows
<1>9. CASE AppendCommit(q)
  BY <1>9, RequestEnds, AppendRows DEF AppendCommit
<1>10. ASSUME NEW j \in Jobs, CancelRead(q, j) PROVE RowStep /\ ReadsHold'
  BY <1>10, CancelReads, NoRowStep DEF CancelRead, rows
<1>11. CASE CancelCommit(q)
  BY <1>11, RequestEnds, CancelRows DEF CancelCommit
<1>12. QED
  BY <1>1, <1>2, <1>3, <1>4, <1>5, <1>6, <1>7, <1>8, <1>9, <1>10, <1>11 DEF RequestStep

\* The steps that are not a request's.
LEMMA OtherSteps ==
  ASSUME SerialInv, Next, ~(\E q \in Requests : RequestStep(q)) PROVE RowStep /\ ReadsHold'
<1>1. ASSUME NEW j \in Jobs, CreateRun(j) PROVE RowStep /\ ReadsHold'
  BY <1>1, CreateRows, NothingInFlight DEF CreateRun
<1>2. ASSUME NEW j \in Jobs, WorkerReap(j) PROVE RowStep /\ ReadsHold'
  BY <1>2, WorkerRows, NothingInFlight DEF WorkerReap
<1>3. ASSUME NEW j \in Jobs, LeaseRunsOut(j) PROVE RowStep /\ ReadsHold'
  BY <1>3, ExpiryRows, ReadsStand DEF LeaseRunsOut
<1>4. ASSUME NEW r \in Runners, Heartbeat(r) PROVE RowStep /\ ReadsHold'
  BY <1>4, ExpiryRows, ReadsStand DEF Heartbeat
<1>5. ASSUME NEW r \in Runners, RunnerCrash(r) \/ RunnerRestart(r) PROVE RowStep /\ ReadsHold'
  BY <1>5, NoRowStep, ReadsStand DEF RunnerCrash, RunnerRestart, rows
<1>6. ASSUME NEW lease \in exec, RunnerFinish(lease) PROVE RowStep /\ ReadsHold'
  BY <1>6, NoRowStep, ReadsStand DEF RunnerFinish, rows
<1>7. ASSUME NEW entry \in spool, CompleteAnswered(entry) \/ DeadLetter(entry)
      PROVE  RowStep /\ ReadsHold'
  BY <1>7, NoRowStep, ReadsStand DEF CompleteAnswered, DeadLetter, rows
<1>8. QED BY <1>1, <1>2, <1>3, <1>4, <1>5, <1>6, <1>7 DEF Next

LEMMA NextRowStep == SerialInv /\ [Next]_vars => RowStep /\ ReadsHold'
<1>1. ASSUME SerialInv, UNCHANGED vars PROVE RowStep /\ ReadsHold'
  BY <1>1, NoRowStep, ReadsStand DEF vars
<1>2. QED BY <1>1, RequestSteps, OtherSteps

LEMMA InitSerial == OneAtATime /\ Init => SerialInv
<1> SUFFICES ASSUME OneAtATime, Init PROVE SerialInv
  OBVIOUS
<1>1. LeaseInv /\ RunInv
  BY InitLeaseInv, InitRunInv
<1>2. RowsAgree
  BY DEF Init, RowsAgree, Agree, EndStates, NoHash
<1>3. ReadsHold
  BY DEF Init, ReadsHold, OneBusy, Idle, ReadHolds, NoReq
<1>4. QED BY <1>1, <1>2, <1>3 DEF SerialInv

LEMMA NextSerial == SerialInv /\ [Next]_vars => SerialInv'
<1> SUFFICES ASSUME SerialInv, [Next]_vars PROVE SerialInv'
  OBVIOUS
<1>1. LeaseInv' /\ RunInv'
  BY NextLeaseInv, NextRunInv DEF SerialInv
<1>2. RowsAgree' /\ ReadsHold'
  BY NextRowStep DEF RowStep
<1>3. OneAtATime'
  BY DEF SerialInv, OneAtATime
<1>4. QED BY <1>1, <1>2, <1>3 DEF SerialInv

LEMMA SerialInvariant == OneAtATime /\ Spec => []SerialInv
  BY InitSerial, NextSerial, PTL DEF Spec

-----------------------------------------------------------------------------
(* What follows from the invariant.                                        *)

\* A completed job's run shows the completion, whatever arrives or is reaped after it.
THEOREM RunsShowVerdicts == OneAtATime /\ Spec => []RunShowsVerdict
<1>1. SerialInv => RunShowsVerdict
  BY DEF SerialInv, RowsAgree, Agree, RunShowsVerdict
<1>2. QED BY <1>1, SerialInvariant, PTL

\* A cancelled run stays cancelled: its lease is gone, so no completion, event or reaper
\* reaches it.
THEOREM CancelsStand == OneAtATime /\ Spec => []CancelStands
<1>1. SerialInv => CancelStands
  BY DEF SerialInv, RowsAgree, Agree, CancelStands
<1>2. QED BY <1>1, SerialInvariant, PTL

\* A queued job, requeued ones included, has a run that runs_phase_outcome_check lets
\* claimJob assign.
THEOREM QueuedAreClaimable == OneAtATime /\ Spec => []QueuedIsClaimable
<1>1. SerialInv => QueuedIsClaimable
  BY DEF SerialInv, RowsAgree, Agree, QueuedIsClaimable, Queued
<1>2. QED BY <1>1, SerialInvariant, PTL

\* A runner that lost its lease cannot complete the job.
THEOREM CompletionsFenced == OneAtATime /\ Spec => CompletionFenced
<1>1. SerialInv /\ [Next]_vars
        => [\A j \in Jobs : job'[j].hash # job[j].hash
              => job'[j].hash[1] = job[j].fence /\ job[j].leaseId = job[j].fence]_vars
  BY NextRowStep DEF RowStep, Rests, Settles, RecordsUnderLease
<1>2. QED BY <1>1, SerialInvariant, PTL DEF Spec, CompletionFenced

stateOf == [j \in Jobs |-> job[j].state]

\* A stored edge is the image of an edge of the contract's state machine.
LEMMA EdgesAreContract ==
  ASSUME NEW from, NEW to, <<from, to>> \in Edges, from # "absent"
  PROVE  \E a \in Machine!ContractStates : \E b \in Machine!Transitions[a] :
           from = Machine!ToStored[a] /\ to = Machine!ToStored[b]
<1>1. CASE from = "queued" /\ to = "leased"
  <2>1. "leased" \in Machine!Transitions["queued"] /\ "queued" \in Machine!ContractStates
    BY DEF Machine!Transitions, Machine!ContractStates
  <2>2. Machine!ToStored["queued"] = from /\ Machine!ToStored["leased"] = to
    BY <1>1 DEF Machine!ToStored, Machine!ContractStates
  <2>3. QED BY <2>1, <2>2
<1>2. CASE from = "queued" /\ to = "cancelled"
  <2>1. "cancelled" \in Machine!Transitions["queued"] /\ "queued" \in Machine!ContractStates
    BY DEF Machine!Transitions, Machine!ContractStates
  <2>2. Machine!ToStored["queued"] = from /\ Machine!ToStored["cancelled"] = to
    BY <1>2 DEF Machine!ToStored, Machine!ContractStates
  <2>3. QED BY <2>1, <2>2
<1>3. CASE from = "leased" /\ to = "queued"
  <2>1. "queued" \in Machine!Transitions["leased"] /\ "leased" \in Machine!ContractStates
    BY DEF Machine!Transitions, Machine!ContractStates
  <2>2. Machine!ToStored["leased"] = from /\ Machine!ToStored["queued"] = to
    BY <1>3 DEF Machine!ToStored, Machine!ContractStates
  <2>3. QED BY <2>1, <2>2
<1>4. ASSUME from = "leased", NEW b \in Machine!ContractStates, to = Machine!ToStored[b],
             b \in Machine!Transitions["running"]
      PROVE  \E a \in Machine!ContractStates : \E c \in Machine!Transitions[a] :
               from = Machine!ToStored[a] /\ to = Machine!ToStored[c]
  <2>1. "running" \in Machine!ContractStates /\ Machine!ToStored["running"] = from
    BY <1>4 DEF Machine!ToStored, Machine!ContractStates
  <2>2. QED BY <1>4, <2>1
<1>5. CASE from = "leased" /\ to \in {"completed", "failed", "cancelled"}
  <2>1. {"succeeded", "failed", "cancelled"} \subseteq Machine!Transitions["running"]
    BY DEF Machine!Transitions, Machine!ContractStates
  <2>2. /\ Machine!ToStored["succeeded"] = "completed"
        /\ Machine!ToStored["failed"] = "failed"
        /\ Machine!ToStored["cancelled"] = "cancelled"
        /\ {"succeeded", "failed", "cancelled"} \subseteq Machine!ContractStates
    BY DEF Machine!ToStored, Machine!ContractStates
  <2>3. QED BY <1>4, <1>5, <2>1, <2>2
<1>6. QED BY <1>1, <1>2, <1>3, <1>5 DEF Edges

\* Every step of every handler moves at most one job, along an edge of the contract's
\* state machine, which no handler consults.
THEOREM StateMachineFollowed == OneAtATime /\ Spec => FollowsStateMachine
<1>1. Init => Machine!Init
  BY DEF Init, Machine!Init
<1>2. SerialInv /\ [Next]_vars => Machine!Next \/ stateOf' = stateOf
  <2> SUFFICES ASSUME SerialInv, [Next]_vars PROVE Machine!Next \/ stateOf' = stateOf
    OBVIOUS
  <2>1. CASE \A j \in Jobs : Rests(j)
    BY <2>1 DEF Rests, stateOf
  <2>2. ASSUME NEW j \in Jobs, Settles(j), \A k \in Jobs \ {j} : Rests(k)
        PROVE  Machine!Next \/ stateOf' = stateOf
    <3>1. stateOf' = [stateOf EXCEPT ![j] = job'[j].state]
      BY <2>2 DEF Rests, stateOf
    <3>2. stateOf[j] = job[j].state
      BY DEF stateOf
    <3>3. CASE job'[j].state = job[j].state
      BY <3>1, <3>2, <3>3 DEF stateOf
    <3>4. CASE job[j].state = "absent" /\ <<job[j].state, job'[j].state>> \in Edges
      <4>1. job'[j].state = "queued"
        BY <3>4 DEF Edges
      <4>2. Machine!Create(j)
        BY <3>1, <3>4, <4>1 DEF Machine!Create, stateOf
      <4>3. QED BY <4>2 DEF Machine!Next
    <3>5. CASE job[j].state # "absent" /\ <<job[j].state, job'[j].state>> \in Edges
      <4>1. \E a \in Machine!ContractStates : \E b \in Machine!Transitions[a] :
              job[j].state = Machine!ToStored[a] /\ job'[j].state = Machine!ToStored[b]
        <5> DEFINE from == job[j].state
                   to == job'[j].state
        <5>1. <<from, to>> \in Edges /\ from # "absent"
          BY <3>5
        <5> HIDE DEF from, to
        <5>2. \E a \in Machine!ContractStates : \E b \in Machine!Transitions[a] :
                from = Machine!ToStored[a] /\ to = Machine!ToStored[b]
          BY <5>1, EdgesAreContract
        <5>3. QED BY <5>2 DEF from, to
      <4>2. Machine!Move(j)
        BY <3>1, <3>2, <4>1 DEF Machine!Move, stateOf
      <4>3. QED BY <4>2 DEF Machine!Next
    <3>6. QED BY <2>2, <3>3, <3>4, <3>5 DEF Settles, MovesOn
  <2>3. QED BY <2>1, <2>2, NextRowStep DEF RowStep
<1>3. SerialInv /\ [Next]_vars => [Machine!Next]_stateOf
  BY <1>2
<1>4. QED
  BY <1>1, <1>3, SerialInvariant, PTL DEF Spec, FollowsStateMachine, Machine!Spec, stateOf

=============================================================================
