----------------------------- MODULE Schedules ------------------------------
(***************************************************************************)
(* The schedules the worker polls (apps/worker/src/scheduler.ts and the    *)
(* statements of postgres-store.ts it calls): run schedules under the      *)
(* three misfire policies, report schedules, and the cadence of delivery   *)
(* sources.  Several workers poll at once; each call to the store is one   *)
(* transaction, and a throw ends the poll.                                 *)
(*                                                                         *)
(* Instants are numbers.  What a row queued is kept as a window: from the  *)
(* occurrence it was queued for up to the pointer it wrote.  The key of    *)
(* the row is the schedule and the occurrence.                             *)
(***************************************************************************)
EXTENDS Integers, Sequences, FiniteSets, SequencesExt

CONSTANTS
  RunSchedules,  \* rows of schedules that start runs
  Reports,       \* rows of schedules that queue report deliveries
  Sources,       \* rows of delivery_sources
  Policies,      \* the misfire policies the run schedules may be saved with
  Every,         \* by row: its cron, or its cadence, as a period
  Created,       \* by row: its pointer when it is made
  Workers,
  CatchUpMax,    \* the hundred occurrences of a catch-up
  MaxTime,       \* bound: the clock
  MaxCrashes     \* bound: workers that stop in the middle of a poll

Rows == RunSchedules \cup Reports \cup Sources

ASSUME ScheduleBounds ==
  /\ Policies \subseteq [RunSchedules -> {"skip", "run_once", "catch_up"}]
  /\ IsFiniteSet(Rows) /\ Every \in [Rows -> Nat \ {0}] /\ Created \in [Rows -> Nat]
  /\ CatchUpMax \in Nat \ {0} /\ MaxTime \in Nat /\ MaxCrashes \in Nat

VARIABLES
  now,
  pointer,        \* by row: nextRunAt, or next_sync_at
  rows,           \* the rows there are
  policy,         \* by run schedule: run_options.misfirePolicy
  subscriptions,  \* the report subscriptions there are
  queued,         \* what was queued: [row, from, upto]
  polls,          \* by worker: the poll it is in
  crashes

vars == <<now, pointer, rows, policy, subscriptions, queued, polls, crashes>>

Idle == [step |-> "idle", now |-> 0, list |-> <<>>, due |-> 0, next |-> 0, count |-> 0]

Init ==
  /\ now = 0 /\ pointer = Created
  /\ rows = Rows /\ policy \in Policies /\ subscriptions = Reports
  /\ queued = {}
  /\ polls = [w \in Workers |-> Idle]
  /\ crashes = 0

\* requireNext, or the start of the next slot.
Following(r, t) == t + (Every[r] - (t % Every[r]))

-----------------------------------------------------------------------------
(* The store.                                                              *)

Due(kind, t) == {r \in kind \cap rows : pointer[r] <= t}

\* ORDER BY next_run_at: rows of one instant come in any order.
Listings(kind, t) ==
  {order \in SetToSeqs({[row |-> r, at |-> pointer[r]] : r \in Due(kind, t)}) :
     \A i, k \in DOMAIN order : i < k => order[i].at <= order[k].at}

AdvancesAlways(r, expected) == r \in rows

\* The UPDATE matches while nobody moved the pointer past what the caller expects.
Advances(r, expected) == r \in rows /\ pointer[r] <= expected

\* advanceSchedule
Advance(r, expected, next) ==
  pointer' = IF Advances(r, expected) THEN [pointer EXCEPT ![r] = next] ELSE pointer

EnqueueThenAdvance(r, expected, next) ==
  /\ queued' = queued \cup {[row |-> r, from |-> expected, upto |-> next]}
  /\ Advance(r, expected, next)

\* enqueueScheduledRun, enqueueScheduledReport: the pointer and the row in one transaction.
\* A row with the key is left as it is.
Enqueue(r, expected, next) ==
  /\ Advance(r, expected, next)
  /\ queued' = IF /\ Advances(r, expected)
                  /\ ~\E q \in queued : q.row = r /\ q.from = expected
               THEN queued \cup {[row |-> r, from |-> expected, upto |-> next]}
               ELSE queued

-----------------------------------------------------------------------------
(* A poll.                                                                 *)

Item(w) == Head(polls[w].list)
Row(w) == Item(w).row

\* A row of the list whose turn it is: a catch-up starts at the row's own pointer.
Begin(step, instant, list) ==
  [step |-> step, now |-> instant, list |-> list, count |-> 0,
   due |-> IF list = <<>> THEN 0 ELSE list[1].at,
   next |-> IF list = <<>> THEN 0 ELSE Following(list[1].row, list[1].at)]

Goes(w) == polls' = [polls EXCEPT ![w] = Begin(@.step, @.now, Tail(@.list))]
Throws(w) == polls' = [polls EXCEPT ![w] = Idle]

PollSchedules(w) ==
  /\ polls[w].step = "idle"
  /\ \E order \in Listings(RunSchedules, now) :
       polls' = [polls EXCEPT ![w] = Begin("runs", now, order)]
  /\ UNCHANGED <<now, pointer, rows, policy, subscriptions, queued, crashes>>

AtRun(w, misfire) ==
  /\ polls[w].step = "runs" /\ polls[w].list # <<>>
  /\ policy[Row(w)] = misfire
  /\ UNCHANGED <<now, rows, policy, subscriptions, crashes>>

\* The first future occurrence, whatever was missed.
SkipMissed(w) ==
  /\ AtRun(w, "skip")
  /\ Advance(Row(w), Item(w).at, Following(Row(w), polls[w].now))
  /\ Goes(w) /\ UNCHANGED queued

RunOnceMissed(w) ==
  /\ AtRun(w, "run_once")
  /\ Enqueue(Row(w), Item(w).at, Following(Row(w), polls[w].now))
  /\ Goes(w)

CatchUpRefused(w) ==
  /\ AtRun(w, "catch_up")
  /\ LET poll == polls[w]
     IN  IF poll.next > poll.now
         THEN Advance(Row(w), poll.due, poll.next) /\ Goes(w) /\ UNCHANGED queued
         ELSE IF (poll.now - poll.due) \div Every[Row(w)] > CatchUpMax
         THEN Throws(w) /\ UNCHANGED <<pointer, queued>>
         ELSE /\ Enqueue(Row(w), poll.due, poll.next)
              /\ polls' = [polls EXCEPT ![w].due = poll.next,
                                        ![w].next = Following(Row(w), poll.next),
                                        ![w].count = @ + 1]

\* One occurrence of the loop, the throw at its bound, or the pointer past the last.
CatchUpMissed(w) ==
  /\ AtRun(w, "catch_up")
  /\ LET poll == polls[w]
     IN  IF poll.next > poll.now
         THEN Advance(Row(w), poll.due, poll.next) /\ Goes(w) /\ UNCHANGED queued
         ELSE IF poll.count = CatchUpMax
         THEN Throws(w) /\ UNCHANGED <<pointer, queued>>
         ELSE /\ Enqueue(Row(w), poll.due, poll.next)
              /\ polls' = [polls EXCEPT ![w].due = poll.next,
                                        ![w].next = Following(Row(w), poll.next),
                                        ![w].count = @ + 1]

\* The next of the three polls, at the instant the first one began.
After(step) == CASE step = "runs" -> "reports" [] step = "reports" -> "sources"
Kind(step) == IF step = "reports" THEN Reports ELSE Sources

PollNext(w) ==
  /\ polls[w].step \in {"runs", "reports"} /\ polls[w].list = <<>>
  /\ \E order \in Listings(Kind(After(polls[w].step)), polls[w].now) :
       polls' = [polls EXCEPT ![w] = Begin(After(@.step), @.now, order)]
  /\ UNCHANGED <<now, pointer, rows, policy, subscriptions, queued, crashes>>

PollEnds(w) ==
  /\ polls[w].step = "sources" /\ polls[w].list = <<>>
  /\ Throws(w)
  /\ UNCHANGED <<now, pointer, rows, policy, subscriptions, queued, crashes>>

\* The delivery refers to its subscription: without it the INSERT throws.
EnqueueScheduledReport(w) ==
  /\ polls[w].step = "reports" /\ polls[w].list # <<>>
  /\ IF Advances(Row(w), Item(w).at) /\ Row(w) \notin subscriptions
     THEN Throws(w) /\ UNCHANGED <<pointer, queued>>
     ELSE Enqueue(Row(w), Item(w).at, Following(Row(w), polls[w].now)) /\ Goes(w)
  /\ UNCHANGED <<now, rows, policy, subscriptions, crashes>>

\* Still due at the worker's instant; the key is the slot.
EnqueueDeliverySync(w) ==
  /\ polls[w].step = "sources" /\ polls[w].list # <<>>
  /\ LET r == Row(w)
         next == Following(r, polls[w].now)
         moves == Advances(r, polls[w].now)
     IN  /\ pointer' = IF moves THEN [pointer EXCEPT ![r] = next] ELSE pointer
         /\ queued' = IF moves /\ ~\E q \in queued : q.row = r /\ q.upto = next
                      THEN queued \cup {[row |-> r, from |-> pointer[r], upto |-> next]}
                      ELSE queued
  /\ Goes(w) /\ UNCHANGED <<now, rows, policy, subscriptions, crashes>>

Crash(w) ==
  /\ crashes < MaxCrashes /\ polls[w].step # "idle"
  /\ Throws(w) /\ crashes' = crashes + 1
  /\ UNCHANGED <<now, pointer, rows, policy, subscriptions, queued>>

-----------------------------------------------------------------------------
(* Time, and deleteSubscription: the subscription, then its schedule.      *)

Tick ==
  /\ now < MaxTime /\ now' = now + 1
  /\ UNCHANGED <<pointer, rows, policy, subscriptions, queued, polls, crashes>>

DeleteSubscription(r) ==
  /\ r \in subscriptions /\ subscriptions' = subscriptions \ {r}
  /\ UNCHANGED <<now, pointer, rows, policy, queued, polls, crashes>>

DeleteSchedule(r) ==
  /\ r \in (Reports \cap rows) \ subscriptions /\ rows' = rows \ {r}
  /\ UNCHANGED <<now, pointer, policy, subscriptions, queued, polls, crashes>>

Step(w) ==
  \/ PollSchedules(w) \/ SkipMissed(w) \/ RunOnceMissed(w) \/ CatchUpMissed(w)
  \/ PollNext(w) \/ EnqueueScheduledReport(w) \/ EnqueueDeliverySync(w) \/ PollEnds(w)

Next ==
  \/ \E w \in Workers : Step(w) \/ Crash(w)
  \/ Tick
  \/ \E r \in Reports : DeleteSubscription(r) \/ DeleteSchedule(r)

Spec == Init /\ [][Next]_vars

\* Every worker polls on its interval; an API that deleted a subscription deletes its schedule.
FairSpec ==
  /\ Spec
  /\ \A w \in Workers : WF_vars(Step(w))
  /\ \A r \in Reports : WF_vars(DeleteSchedule(r))

-----------------------------------------------------------------------------
Windows(r, t) == {q \in queued : q.row = r /\ q.from <= t /\ t < q.upto}
CatchesUpOrSkips(r) == r \in RunSchedules /\ policy[r] # "run_once"

\* Each instant the pointer has passed is answered by one row, however many workers polled it
\* and wherever one stopped: never twice, and under run_once, for reports and for delivery
\* sources never not at all.
AnsweredOnce ==
  \A r \in Rows : \A t \in Created[r]..(pointer[r] - 1) :
    /\ Cardinality(Windows(r, t)) <= 1
    /\ ~CatchesUpOrSkips(r) => Windows(r, t) # {}

\* No row is queued before its time, nor for a window the pointer has not passed.
NothingAhead == \A q \in queued : q.from <= now /\ q.upto <= pointer[q.row]

\* When the clock stands still, whatever is due is answered or dropped at last, though a catch-up
\* past its bound throws and a subscription may be gone: no row keeps the others waiting for ever.
Answered == <>[](\A r \in rows : pointer[r] > now)
=============================================================================
