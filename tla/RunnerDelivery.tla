--------------------------- MODULE RunnerDelivery ---------------------------
(***************************************************************************)
(* How a runner's events and completions reach the API: the executions     *)
(* that fill the spool and the flush loop that empties it                  *)
(* (apps/runner/src/runner-service.ts), and the part of the API that takes *)
(* or refuses what is sent (jobs.routes.ts, appendEvents, planEventBatch,  *)
(* completeJob).  The spool is a DurableQueue; that its files make it one  *)
(* is what Spool shows.                                                    *)
(*                                                                         *)
(* Leases come and go as JobLease lets them: here a job is granted, and    *)
(* its lease lost, at any time.  Event contents, back-off delays and the   *)
(* order in which flushes are asked for are abstracted: a flush may start  *)
(* whenever something can be delivered.                                    *)
(***************************************************************************)
EXTENDS Subsequences

CONSTANTS
  Jobs,
  MaxAttempts,  \* SpoolRetryPolicy.maxAttempts
  MaxBatch,     \* MAX_EVENT_BATCH
  MaxEntries,   \* DurableSpoolOptions.maxEntries
  Rejoin,       \* whether a runner may be granted a job it still executes: it may, when the
                \* lease ran out behind its back
  MaxLeases,    \* bound: leases of one job
  MaxGrants,    \* bound: leases of all jobs
  MaxEvents,    \* bound: events before the last one of an execution, in all
  Prior,        \* by job: the events its run holds that another runner sent
  MaxFaults,    \* bound: requests, answers and acknowledgements that fail
  MaxRestarts   \* bound: ends of the runner process

ASSUME DeliveryBounds ==
  /\ MaxAttempts \in Nat \ {0} /\ MaxBatch \in Nat \ {0} /\ MaxEntries \in Nat \ {0}
  /\ Rejoin \in BOOLEAN
  /\ MaxLeases \in Nat /\ MaxGrants \in Nat /\ MaxEvents \in Nat /\ MaxFaults \in Nat /\ MaxRestarts \in Nat
  /\ Prior \in [Jobs -> Nat]

VARIABLES
  queue,     \* the spool: [id, dead], id = [job, lease, kind, seq]
  highest,   \* the spool's lastSequence, by job
  exec,      \* the executions, by job and lease: [step, seq, failing, awaits]
  flush,     \* the flush under way: [step, pending, done]
  retries,   \* RunnerService.retryAttempts
  api,       \* the job and run rows: [lease, granted, ended, prior, stored]
  late,      \* batches the runner gave up on and the API has still to see
  settled,   \* history: the ids acknowledged
  count      \* bounds: [faults, restarts]

runner == <<exec, flush, retries>>
vars == <<queue, highest, runner, api, late, settled, count>>

Q == INSTANCE DurableQueue

Leases == 1..MaxLeases

NoExec == [step |-> "none", seq |-> 0, failing |-> FALSE, awaits |-> "none"]
Started(n) == [NoExec EXCEPT !.step = "events", !.seq = n]
NoFlush == [step |-> "idle", pending |-> <<>>, done |-> 0]

Entry(j, l, kind, seq) ==
  [id |-> [job |-> j, lease |-> l, kind |-> kind, seq |-> seq], dead |-> FALSE]

IsEvent(id) == id.kind # "completion"

\* Spool.peek: what can be delivered, the oldest first.
Deliverable == Picked(queue, {i \in DOMAIN queue : ~queue[i].dead})
FirstOf(s, n) == SubSeq(s, 1, IF Len(s) < n THEN Len(s) ELSE n)

\* Dead letters take up room too.
Room == Len(queue) < MaxEntries

IdsOf(s) == {s[i].id : i \in DOMAIN s}

-----------------------------------------------------------------------------
(* The API.  A definition named after the one below it is a mistake that   *)
(* one could make in its place: each property fails under one of them.     *)

Stored(j) == {api[j].stored[i].id : i \in DOMAIN api[j].stored}
TerminalStored(j) == \E id \in Stored(j) : id.kind = "terminal"

NewEvents(batch) ==
  Picked(batch, {i \in DOMAIN batch : batch[i].id \notin Stored(batch[i].id.job)})

InSequenceUnchecked(j, new) == ~TerminalStored(j)

\* refusalReason, event by event: the next sequence, and nothing after the last event.
InSequence(j, new) ==
  /\ ~TerminalStored(j)
  /\ \A i \in DOMAIN new :
       /\ new[i].id.seq = api[j].prior + Len(api[j].stored) + i
       /\ i < Len(new) => new[i].id.kind # "terminal"

HeadLeaseAny(batch) == api[batch[1].id.job].granted > 0

\* One lease is presented for the whole batch: that of its first entry.
HeadLease(batch) == api[batch[1].id.job].lease = batch[1].id.lease

Accepted(batch) ==
  LET j == batch[1].id.job
      new == NewEvents(batch)
  IN  /\ HeadLease(batch)
      /\ new = <<>> \/ InSequence(j, new)

\* The rows after the batch: all its new events, or none of them.
AppendEvents(batch) ==
  LET j == batch[1].id.job
      new == NewEvents(batch)
      under == batch[1].id.lease
      rows == [i \in DOMAIN new |-> [id |-> new[i].id, under |-> under]]
  IN  IF Accepted(batch) THEN [api EXCEPT ![j].stored = @ \o rows] ELSE api

CompleteJob(batch) ==
  LET j == batch[1].id.job
  IN  IF HeadLease(batch) THEN [api EXCEPT ![j].lease = 0, ![j].ended = TRUE] ELSE api

Handled(batch) == IF IsEvent(batch[1].id) THEN AppendEvents(batch) ELSE CompleteJob(batch)

SettledByAnyAnswer(batch) == TRUE

\* A completion that is refused is settled: the lease was lost.
SettledBy(batch) == IF IsEvent(batch[1].id) THEN Accepted(batch) ELSE TRUE

-----------------------------------------------------------------------------
Init ==
  /\ queue = <<>> /\ highest = [j \in Jobs |-> 0]
  /\ exec = [j \in Jobs |-> [l \in Leases |-> NoExec]]
  /\ flush = NoFlush /\ retries = 0
  /\ api = [j \in Jobs |-> [lease |-> 0, granted |-> 0, ended |-> FALSE,
                             prior |-> Prior[j], stored |-> <<>>]]
  /\ late = {} /\ settled = {}
  /\ count = [grants |-> 0, events |-> 0, faults |-> 0, restarts |-> 0]

Executing(j) == {l \in Leases : \/ exec[j][l].step \notin {"none", "done"}
                                \/ exec[j][l].awaits # "none"}

\* tick, startClaim: the sequence goes on from what the spool remembers of the job.
Claim(j) ==
  LET l == api[j].granted + 1
  IN  /\ api[j].lease = 0 /\ ~api[j].ended /\ l \in Leases
      /\ Rejoin \/ Executing(j) = {}
      /\ count.grants < MaxGrants /\ count' = [count EXCEPT !.grants = @ + 1]
      /\ api' = [api EXCEPT ![j].lease = l, ![j].granted = l]
      /\ exec' = [exec EXCEPT ![j][l] = Started(highest[j])]
      /\ UNCHANGED <<queue, highest, flush, retries, late, settled>>

\* The lease is reaped, or the run cancelled.
LoseLease(j) ==
  /\ api[j].lease # 0
  /\ \E ended \in BOOLEAN : api' = [api EXCEPT ![j].lease = 0, ![j].ended = ended]
  /\ UNCHANGED <<queue, highest, runner, late, settled, count>>

-----------------------------------------------------------------------------
(* The executions: executeClaim, event, completionEvent, complete.         *)

Enqueue(e) ==
  /\ Q!Put(e)
  /\ highest' = [highest EXCEPT ![e.id.job] = IF e.id.seq > @ THEN e.id.seq ELSE @]

NotEnqueued == UNCHANGED <<queue, highest>>

\* event, scheduleFlush: having enqueued, an execution waits for the next flush to end.
Awaiting(from, to) ==
  exec' = [j \in Jobs |-> [l \in Leases |->
             IF exec[j][l].awaits = from THEN [exec[j][l] EXCEPT !.awaits = to]
             ELSE exec[j][l]]]

FlushBegins == Awaiting("next", "this")
FlushEnds == flush' = NoFlush /\ Awaiting("this", "none")

\* The number is used up whether or not the spool has room; a refusal fails the execution.
EmitEvent(j, l) ==
  LET x == exec[j][l]
  IN  /\ x.step = "events" /\ x.awaits = "none"
      /\ count.events < MaxEvents /\ count' = [count EXCEPT !.events = @ + 1]
      /\ IF Room
         THEN /\ Enqueue(Entry(j, l, "event", x.seq + 1))
              /\ exec' = [exec EXCEPT ![j][l].seq = @ + 1, ![j][l].awaits = "next"]
         ELSE /\ NotEnqueued
              /\ exec' = [exec EXCEPT ![j][l] = [x EXCEPT !.step = "terminal", !.seq = @ + 1,
                                                          !.failing = TRUE]]
      /\ UNCHANGED <<flush, retries, api, late, settled>>

\* A refusal on the way to success is caught and tried once more, as a failure.
Ends(j, l, e, step, seq) ==
  LET x == exec[j][l]
      To(s, failing, flushed) == exec' = [exec EXCEPT ![j][l] =
        [step |-> s, seq |-> seq, failing |-> failing, awaits |-> flushed]]
  IN  /\ x.awaits = "none"
      /\ IF Room THEN Enqueue(e) /\ To(step, x.failing, "next")
         ELSE /\ NotEnqueued
              /\ To(IF x.failing THEN step ELSE "terminal", TRUE, "none")
      /\ UNCHANGED <<flush, retries, api, late, settled, count>>

EmitTerminal(j, l) ==
  /\ exec[j][l].step \in {"events", "terminal"}
  /\ LET seq == exec[j][l].seq + 1
     IN  Ends(j, l, Entry(j, l, "terminal", seq), "completion", seq)

EmitCompletion(j, l) ==
  /\ exec[j][l].step = "completion"
  /\ LET seq == exec[j][l].seq
     IN  Ends(j, l, Entry(j, l, "completion", seq), "done", seq)

-----------------------------------------------------------------------------
(* The flush loop.                                                         *)

FlushStart ==
  /\ flush.step = "idle" /\ Deliverable # <<>>
  /\ flush' = [step |-> "send", pending |-> FirstOf(Deliverable, MaxBatch), done |-> 0]
  /\ FlushBegins
  /\ UNCHANGED <<queue, highest, retries, api, late, settled, count>>

\* From the first entry not yet sent: one completion, or the events of one job that follow.
Batch ==
  LET p == flush.pending
      first == flush.done + 1
      Joins(i) == p[i].id.job = p[first].id.job /\ IsEvent(p[i].id)
      run == {n \in first..Len(p) : \A i \in first..n : Joins(i)}
  IN  IF IsEvent(p[first].id) THEN SubSeq(p, first, first + Cardinality(run) - 1)
      ELSE <<p[first]>>

BatchIds == IdsOf(Batch)

SpendForever(ids) == retries' = (retries + 1) % MaxAttempts /\ UNCHANGED queue

Spend(ids) ==
  IF retries + 1 < MaxAttempts
  THEN retries' = retries + 1 /\ UNCHANGED queue
  ELSE retries' = 0 /\ Q!MarkDead(ids)

RetryAndGoOn(ids) ==
  LET p == flush.pending
      rest == Picked(p, {i \in DOMAIN p : p[i].id \notin ids})
  IN  /\ Spend(ids) /\ UNCHANGED settled
      /\ IF rest = <<>> THEN FlushEnds
         ELSE flush' = [flush EXCEPT !.pending = rest, !.done = 0] /\ UNCHANGED exec

\* A failure ends the flush: what it has settled so far is not acknowledged.
RetryOrDeadLetter(ids) == Spend(ids) /\ FlushEnds /\ UNCHANGED settled

Fault == count.faults < MaxFaults /\ count' = [count EXCEPT !.faults = @ + 1]

\* The request is answered, and the answer is that it was taken.
Delivered ==
  /\ flush.step = "send" /\ SettledBy(Batch)
  /\ api' = Handled(Batch)
  /\ retries' = 0
  /\ LET done == flush.done + Len(Batch)
     IN  flush' = [flush EXCEPT !.done = done,
                                !.step = IF done = Len(flush.pending) THEN "ack" ELSE "send"]
  /\ UNCHANGED <<queue, highest, exec, late, settled, count>>

\* Any refusal of an event batch is a 409, which the client throws.
Refused ==
  /\ flush.step = "send" /\ ~SettledBy(Batch)
  /\ RetryOrDeadLetter(BatchIds)
  /\ UNCHANGED <<highest, api, late, count>>

\* The API did its work, and the runner never heard of it.
AnswerLost ==
  /\ flush.step = "send" /\ SettledBy(Batch)
  /\ Fault
  /\ api' = Handled(Batch)
  /\ RetryOrDeadLetter(BatchIds)
  /\ UNCHANGED <<highest, late>>

\* The request timed out: it is lost, or on its way.
RequestLost ==
  /\ flush.step = "send"
  /\ Fault
  /\ late' = late \cup {Batch}
  /\ RetryOrDeadLetter(BatchIds)
  /\ UNCHANGED <<highest, api>>

LateRequest ==
  \E batch \in late :
    /\ late' = late \ {batch}
    /\ api' = Handled(batch)
    /\ UNCHANGED <<queue, highest, runner, settled, count>>

Settling == IdsOf(flush.pending)

Ack ==
  /\ flush.step = "ack"
  /\ Q!Settle(Settling)
  /\ settled' = settled \cup Settling
  /\ FlushEnds
  /\ UNCHANGED <<highest, retries, api, late, count>>

AckFails ==
  /\ flush.step = "ack"
  /\ Fault
  /\ FlushEnds /\ retries' = retries + 1
  /\ UNCHANGED <<queue, highest, api, late, settled>>

\* The process ends and another opens the spool; the executions are gone.
Restart ==
  /\ count.restarts < MaxRestarts
  /\ count' = [count EXCEPT !.restarts = @ + 1]
  /\ exec' = [j \in Jobs |-> [l \in Leases |-> NoExec]]
  /\ flush' = NoFlush /\ retries' = 0
  /\ UNCHANGED <<queue, highest, api, late, settled>>

-----------------------------------------------------------------------------
Flushing == FlushStart \/ Delivered \/ Refused \/ Ack

Next ==
  \/ \E j \in Jobs : Claim(j) \/ LoseLease(j)
  \/ \E j \in Jobs, l \in Leases : EmitEvent(j, l) \/ EmitTerminal(j, l) \/ EmitCompletion(j, l)
  \/ Flushing \/ AckFails
  \/ AnswerLost \/ RequestLost \/ LateRequest
  \/ Restart

Spec == Init /\ [][Next]_vars

\* The poll loop calls for a flush while the spool holds anything, and every request is
\* answered or times out.
FairSpec == Spec /\ WF_vars(Flushing)
-----------------------------------------------------------------------------
(* What is delivered.                                                      *)

Entries(j, l, kinds) ==
  {i \in DOMAIN queue : /\ queue[i].id.job = j /\ queue[i].id.lease = l
                        /\ queue[i].id.kind \in kinds}

\* What the spool was told to forget reached the API: an event is among the run's events, and
\* the lease of a completion is over, completed by it or lost before.
AckedWereTaken ==
  \A id \in settled : IF IsEvent(id) THEN id \in Stored(id.job)
                      ELSE api[id.job].lease # id.lease

\* A completion is not sent before the events of its execution: when the API has nothing left
\* to take under a lease, each of its events is stored or was given up.
CompletionAfterEvents ==
  \A id \in settled : ~IsEvent(id) =>
    \A i \in Entries(id.job, id.lease, {"event", "terminal"}) :
      queue[i].dead \/ queue[i].id \in Stored(id.job)

\* The run's events have no hole, no duplicate and no swapped pair, although batches are sent
\* again, arrive late and overtake each other.
NoHoles ==
  \A j \in Jobs : \A i \in DOMAIN api[j].stored :
    /\ api[j].stored[i].id.seq = api[j].prior + i
    /\ i < Len(api[j].stored) =>
         api[j].stored[i].id.lease <= api[j].stored[i + 1].id.lease

\* A batch is sent under the lease of its first entry: no event is stored under another lease
\* than the one it was produced under.
StoredUnderOwnLease ==
  \A j \in Jobs : \A i \in DOMAIN api[j].stored :
    api[j].stored[i].under = api[j].stored[i].id.lease

\* The shared retry budget ends: whatever is refused, a spool of one lease's entries empties,
\* but for its dead letters.
OneLease ==
  \A i, k \in DOMAIN queue :
    queue[i].id.job = queue[k].id.job /\ queue[i].id.lease = queue[k].id.lease

Drained == Deliverable = <<>>
DrainsAlone == []OneLease => []<>Drained

\* retryOrDeadLetter: "an unreachable API drains a fixed budget instead of looping forever".
Drains == []<>Drained
=============================================================================
