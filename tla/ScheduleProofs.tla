--------------------------- MODULE ScheduleProofs ---------------------------
(***************************************************************************)
(* What the guarded pointer of a schedule guarantees for any number of     *)
(* rows and workers that poll them at once, whatever each row's cron, the  *)
(* bound of a catch-up and the workers that stop half way.                 *)
(***************************************************************************)
EXTENDS Schedules, FiniteSetTheorems, SequenceTheorems, TLAPS

Steps == {"idle", "runs", "reports", "sources"}
DueRow == [row : Rows, at : Nat]
Poll == [step : Steps, now : Nat, list : Seq(DueRow), due : Nat, next : Nat, count : Nat]
Window == [row : Rows, from : Nat, upto : Nat]

Shape ==
  /\ now \in Nat /\ pointer \in [Rows -> Nat] /\ rows \subseteq Rows
  /\ queued \subseteq Window

\* A window is queued when it is due, and its pointer is past it.
Passed == \A q \in queued : q.from < q.upto /\ q.from <= now /\ q.upto <= pointer[q.row]

\* Two windows of a row share no instant.
Disjoint ==
  \A p, q \in queued : p.row = q.row /\ p.from < q.upto /\ q.from < p.upto => p = q

\* Of a row that answers for all it missed, the windows leave no instant out.
Covers(q, r, t) == q.row = r /\ q.from <= t /\ t < q.upto
Covered ==
  \A r \in Rows : ~CatchesUpOrSkips(r) =>
    \A t \in Created[r]..(pointer[r] - 1) : \E q \in queued : Covers(q, r, t)

StoreInv == Shape /\ Passed /\ Disjoint /\ Covered

\* What a worker remembers of a row lags behind it, never runs ahead.
Lags(poll, clock, pointers) ==
  /\ poll \in Poll /\ poll.now <= clock
  /\ \A n \in DOMAIN poll.list :
       /\ poll.list[n].at <= poll.now /\ poll.list[n].at <= pointers[poll.list[n].row]
       /\ poll.step = "runs" => poll.list[n].row \in RunSchedules
  /\ poll.list # <<>> => poll.due < poll.next

PollInv == polls \in [Workers -> Poll] /\ \A w \in Workers : Lags(polls[w], now, pointer)

ScheduleInv == StoreInv /\ PollInv
-----------------------------------------------------------------------------
LEMMA FollowingIsLater ==
  ASSUME NEW r \in Rows, NEW t \in Nat
  PROVE  Following(r, t) \in Nat /\ Following(r, t) > t
<1>1. Every[r] \in Int /\ Every[r] > 0 /\ t \in Int
  BY ScheduleBounds
<1>2. t % Every[r] \in Int /\ 0 <= t % Every[r] /\ t % Every[r] < Every[r]
  BY <1>1, Z3T(30)
<1>3. QED BY <1>1, <1>2 DEF Following

LEMMA BeginIsPoll ==
  ASSUME NEW step \in Steps, NEW t \in Nat, NEW list \in Seq(DueRow)
  PROVE  /\ Begin(step, t, list) \in Poll
         /\ Begin(step, t, list).step = step /\ Begin(step, t, list).now = t
         /\ Begin(step, t, list).list = list
         /\ list # <<>> => Begin(step, t, list).due < Begin(step, t, list).next
<1>1. CASE list = <<>>
  BY <1>1 DEF Begin, Poll
<1>2. CASE list # <<>>
  <2>1. list[1] \in DueRow
    BY <1>2, LenProperties
  <2>2. list[1].row \in Rows /\ list[1].at \in Nat
    BY <2>1 DEF DueRow
  <2>3. /\ Following(list[1].row, list[1].at) \in Nat
        /\ Following(list[1].row, list[1].at) > list[1].at
    BY <2>2, FollowingIsLater
  <2>4. QED BY <1>2, <2>2, <2>3 DEF Begin, Poll
<1>3. QED BY <1>1, <1>2

\* The list of a poll: rows of the kind that are due, at their own pointers.
LEMMA ListingIsDue ==
  ASSUME StoreInv, NEW kind \in SUBSET Rows, NEW t \in Nat, NEW order \in Listings(kind, t)
  PROVE  /\ order \in Seq(DueRow)
         /\ \A n \in DOMAIN order : /\ order[n].row \in kind /\ order[n].at <= t
                                    /\ order[n].at = pointer[order[n].row]
<1> DEFINE S == {[row |-> r, at |-> pointer[r]] : r \in Due(kind, t)}
<1>1. IsFiniteSet(Due(kind, t))
  BY ScheduleBounds, FS_Subset DEF Due, StoreInv, Shape
<1>2. IsFiniteSet(S)
  <2> DEFINE f == [r \in Due(kind, t) |-> [row |-> r, at |-> pointer[r]]]
  <2>1. f \in [Due(kind, t) -> S] /\ S = {f[r] : r \in Due(kind, t)}
    OBVIOUS
  <2>2. f \in Surjection(Due(kind, t), S)
    BY <2>1 DEF Surjection
  <2>3. QED BY <1>1, <2>2, FS_Surjection
<1>3. Cardinality(S) \in Nat
  BY <1>2, FS_CardinalityType
<1>4. order \in [1..Cardinality(S) -> S]
  BY DEF Listings, SetToSeqs
<1>5. \A s \in S : s \in DueRow /\ s.row \in kind /\ s.at <= t /\ s.at = pointer[s.row]
  BY DEF Due, DueRow, StoreInv, Shape
<1>6. S \subseteq DueRow
  BY <1>5
<1>7. order \in Seq(DueRow) /\ \A n \in DOMAIN order : order[n] \in S
  <2>1. order \in [1..Cardinality(S) -> DueRow]
    BY <1>4, <1>6
  <2> HIDE DEF S
  <2>2. order \in Seq(DueRow)
    BY <1>3, <2>1
  <2>3. \A n \in DOMAIN order : order[n] \in S
    BY <1>4
  <2>4. QED BY <2>2, <2>3
<1>8. QED BY <1>5, <1>7

-----------------------------------------------------------------------------
(* What a statement of the store does to a row and its windows.            *)

LEMMA NothingQueued ==
  ASSUME StoreInv, now' \in Nat, now' >= now, rows' \subseteq rows,
         UNCHANGED <<pointer, queued, policy>>
  PROVE  StoreInv'
<1>1. Shape' /\ Passed'
  BY DEF StoreInv, Shape, Passed, Window
<1>2. Disjoint' /\ Covered'
  BY DEF StoreInv, Disjoint, Covered, CatchesUpOrSkips, Covers
<1>3. QED BY <1>1, <1>2 DEF StoreInv

LEMMA PointerMoved ==
  ASSUME StoreInv, NEW r \in Rows, NEW next \in Nat, pointer[r] < next, CatchesUpOrSkips(r),
         pointer' = [pointer EXCEPT ![r] = next], UNCHANGED <<now, rows, queued, policy>>
  PROVE  StoreInv' /\ \A x \in Rows : pointer[x] <= pointer'[x]
<1>1. /\ pointer' \in [Rows -> Nat] /\ pointer'[r] = next
      /\ \A x \in Rows : x # r => pointer'[x] = pointer[x]
      /\ \A x \in Rows : pointer[x] \in Nat /\ pointer[x] <= pointer'[x]
  BY DEF StoreInv, Shape
<1>2. Shape'
  BY <1>1 DEF StoreInv, Shape
<1>3. Passed'
  BY <1>1 DEF StoreInv, Shape, Passed, Window
<1>4. Disjoint' /\ Covered'
  BY <1>1 DEF StoreInv, Disjoint, Covered, CatchesUpOrSkips, Covers
<1>5. QED BY <1>1, <1>2, <1>3, <1>4 DEF StoreInv

LEMMA WindowQueued ==
  ASSUME StoreInv, NEW r \in Rows, NEW from \in Nat, NEW next \in Nat,
         pointer[r] <= from, from <= now, from < next,
         CatchesUpOrSkips(r) \/ from = pointer[r],
         pointer' = [pointer EXCEPT ![r] = next],
         queued' = queued \cup {[row |-> r, from |-> from, upto |-> next]},
         UNCHANGED <<now, rows, policy>>
  PROVE  StoreInv' /\ \A x \in Rows : pointer[x] <= pointer'[x]
<1> DEFINE new == [row |-> r, from |-> from, upto |-> next]
<1>1. /\ pointer' \in [Rows -> Nat] /\ pointer'[r] = next
      /\ \A x \in Rows : x # r => pointer'[x] = pointer[x]
      /\ \A x \in Rows : pointer[x] \in Nat /\ pointer[x] <= pointer'[x]
  BY DEF StoreInv, Shape
<1>2. /\ new \in Window /\ new.row = r /\ new.from = from /\ new.upto = next
      /\ queued' = queued \cup {new}
  BY DEF Window
<1>3. \A q \in queued : /\ q.row \in Rows /\ q.from \in Nat /\ q.upto \in Nat
                        /\ q.from < q.upto /\ q.from <= now /\ q.upto <= pointer[q.row]
  BY DEF StoreInv, Shape, Passed, Window
<1> HIDE DEF new
<1>4. Shape'
  BY <1>1, <1>2 DEF StoreInv, Shape
<1>5. Passed'
  BY <1>1, <1>2, <1>3 DEF StoreInv, Shape, Passed
<1>6. Disjoint'
  <2>1. \A q \in queued : q.row = r => q.upto <= from
    BY <1>1, <1>3
  <2>2. SUFFICES ASSUME NEW p \in queued', NEW q \in queued',
                        p.row = q.row, p.from < q.upto, q.from < p.upto
                 PROVE  p = q
    BY DEF Disjoint
  <2>3. CASE p \in queued /\ q \in queued
    BY <2>2, <2>3 DEF StoreInv, Disjoint
  <2>4. CASE p \in queued /\ q = new
    BY <1>2, <1>3, <2>1, <2>2, <2>4
  <2>5. CASE p = new /\ q \in queued
    BY <1>2, <1>3, <2>1, <2>2, <2>5
  <2>6. QED BY <1>2, <2>3, <2>4, <2>5
<1>7. Covered'
  <2>1. SUFFICES ASSUME NEW x \in Rows, ~CatchesUpOrSkips(x),
                        NEW t \in Created[x]..(pointer'[x] - 1)
                 PROVE  \E q \in queued' : Covers(q, x, t)
    BY DEF Covered, CatchesUpOrSkips, Covers
  <2>2. Created[x] \in Nat
    BY ScheduleBounds
  <2>3. CASE t < pointer[x]
    <3>1. t \in Created[x]..(pointer[x] - 1)
      BY <1>1, <2>1, <2>2, <2>3
    <3>2. PICK q \in queued : Covers(q, x, t)
      BY <2>1, <3>1 DEF StoreInv, Covered
    <3>3. QED BY <1>2, <3>2
  <2>4. CASE t >= pointer[x]
    <3>1. x = r /\ from <= t /\ t < next
      BY <1>1, <2>1, <2>2, <2>4
    <3>2. QED BY <1>2, <3>1 DEF Covers
  <2>5. QED BY <1>1, <2>2, <2>3, <2>4
<1>8. QED BY <1>1, <1>4, <1>5, <1>6, <1>7 DEF StoreInv

LEMMA AdvanceKeeps ==
  ASSUME StoreInv, NEW r \in Rows, NEW expected \in Nat, NEW next \in Nat, expected < next,
         CatchesUpOrSkips(r), Advance(r, expected, next), UNCHANGED <<now, rows, queued, policy>>
  PROVE  StoreInv' /\ \A x \in Rows : pointer[x] <= pointer'[x]
<1>1. \A x \in Rows : pointer[x] \in Nat
  BY DEF StoreInv, Shape
<1>2. CASE Advances(r, expected)
  <2>1. pointer[r] < next /\ pointer' = [pointer EXCEPT ![r] = next]
    BY <1>1, <1>2 DEF Advance, Advances
  <2>2. QED BY <2>1, PointerMoved
<1>3. CASE ~Advances(r, expected)
  BY <1>1, <1>3, NothingQueued DEF Advance, StoreInv, Shape
<1>4. QED BY <1>2, <1>3

LEMMA EnqueueKeeps ==
  ASSUME StoreInv, NEW r \in Rows, NEW expected \in Nat, NEW next \in Nat, expected < next,
         expected <= now, CatchesUpOrSkips(r) \/ expected <= pointer[r],
         Enqueue(r, expected, next), UNCHANGED <<now, rows, policy>>
  PROVE  StoreInv' /\ \A x \in Rows : pointer[x] <= pointer'[x]
<1>1. \A x \in Rows : pointer[x] \in Nat
  BY DEF StoreInv, Shape
<1>2. CASE Advances(r, expected)
  <2>1. pointer[r] <= expected /\ pointer' = [pointer EXCEPT ![r] = next]
    BY <1>2 DEF Enqueue, Advance, Advances
  <2>2. \A q \in queued : q.row = r => q.from # expected
    BY <1>1, <2>1 DEF StoreInv, Shape, Passed, Window
  <2>3. queued' = queued \cup {[row |-> r, from |-> expected, upto |-> next]}
    BY <1>2, <2>2 DEF Enqueue
  <2>4. CatchesUpOrSkips(r) \/ expected = pointer[r]
    BY <1>1, <2>1
  <2>5. QED BY <2>1, <2>3, <2>4, WindowQueued
<1>3. CASE ~Advances(r, expected)
  BY <1>1, <1>3, NothingQueued DEF Enqueue, Advance, StoreInv, Shape
<1>4. QED BY <1>2, <1>3

-----------------------------------------------------------------------------
(* What a step does to the polls.                                          *)

\* Time and the pointers only move on: a poll that is left alone still lags.
LEMMA StillLags ==
  ASSUME NEW poll, Lags(poll, now, pointer), StoreInv, StoreInv', now' >= now,
         \A x \in Rows : pointer[x] <= pointer'[x]
  PROVE  Lags(poll, now', pointer')
<1>1. poll \in Poll /\ poll.now \in Nat /\ poll.list \in Seq(DueRow)
  BY DEF Lags, Poll
<1>2. \A n \in DOMAIN poll.list : poll.list[n].row \in Rows /\ poll.list[n].at \in Nat
  <2>1. \A n \in DOMAIN poll.list : poll.list[n] \in DueRow
    BY <1>1
  <2>2. QED BY <2>1 DEF DueRow
<1>3. /\ now \in Nat /\ now' \in Nat
      /\ \A x \in Rows : pointer[x] \in Nat /\ pointer'[x] \in Nat
  BY DEF StoreInv, Shape
<1>4. poll.now <= now'
  BY <1>1, <1>3 DEF Lags
<1>5. \A n \in DOMAIN poll.list : poll.list[n].at <= pointer'[poll.list[n].row]
  BY <1>2, <1>3 DEF Lags
<1>6. QED BY <1>1, <1>4, <1>5 DEF Lags

LEMMA OnePollMoves ==
  ASSUME PollInv, NEW w \in Workers, NEW poll, polls' = [polls EXCEPT ![w] = poll], Lags(poll, now', pointer'),
         StoreInv, StoreInv', now' >= now, \A x \in Rows : pointer[x] <= pointer'[x]
  PROVE  PollInv'
<1>1. poll \in Poll /\ polls' \in [Workers -> Poll]
  BY DEF PollInv, Lags
<1>2. ASSUME NEW v \in Workers PROVE Lags(polls'[v], now', pointer')
  <2>1. CASE v = w
    BY <2>1 DEF PollInv
  <2>2. CASE v # w
    <3>1. polls'[v] = polls[v] /\ Lags(polls[v], now, pointer)
      BY <2>2 DEF PollInv
    <3>2. Lags(polls[v], now', pointer')
      BY <1>2, <3>1, StillLags
    <3>3. QED BY <3>1, <3>2
  <2>3. QED BY <2>1, <2>2
<1>3. QED BY <1>1, <1>2 DEF PollInv

LEMMA IdleLags == ASSUME NEW t \in Nat, NEW pointers PROVE Lags(Idle, t, pointers)
<1>1. <<>> \in Seq(DueRow) /\ DOMAIN <<>> = {}
  OBVIOUS
<1>2. Idle \in Poll
  BY <1>1 DEF Idle, Poll, Steps
<1>3. QED BY <1>2 DEF Lags, Idle

\* A poll whose list is new, or what is left of it.
LEMMA BeginLags ==
  ASSUME NEW step \in Steps, NEW t \in Nat, NEW list \in Seq(DueRow), NEW clock \in Nat,
         t <= clock, NEW pointers,
         \A n \in DOMAIN list : /\ list[n].at <= t /\ list[n].at <= pointers[list[n].row]
                                /\ step = "runs" => list[n].row \in RunSchedules
  PROVE  Lags(Begin(step, t, list), clock, pointers)
BY BeginIsPoll DEF Lags

\* The row a worker is at.
LEMMA ItemLags ==
  ASSUME ScheduleInv, NEW w \in Workers, polls[w].list # <<>>
  PROVE  /\ Row(w) \in Rows /\ Item(w).at \in Nat /\ Item(w).at <= polls[w].now
         /\ Item(w).at <= pointer[Row(w)]
         /\ polls[w].step = "runs" => Row(w) \in RunSchedules
         /\ polls[w].now \in Nat /\ polls[w].now <= now
         /\ polls[w].due \in Nat /\ polls[w].next \in Nat /\ polls[w].due < polls[w].next
<1>1. /\ Lags(polls[w], now, pointer) /\ polls[w] \in Poll
  BY DEF ScheduleInv, PollInv
<1>2. /\ polls[w].list \in Seq(DueRow) /\ polls[w].now \in Nat
      /\ polls[w].due \in Nat /\ polls[w].next \in Nat
  BY <1>1 DEF Poll
<1>3. 1 \in DOMAIN polls[w].list /\ Item(w) = polls[w].list[1]
  BY <1>2, LenProperties, HeadTailProperties DEF Item
<1>4. Item(w) \in DueRow
  BY <1>2, <1>3
<1>5. Row(w) = Item(w).row /\ Row(w) \in Rows /\ Item(w).at \in Nat
  BY <1>4 DEF DueRow, Row
<1>6. QED BY <1>1, <1>2, <1>3, <1>5 DEF Lags

\* On to the next row of the list.
LEMMA GoesOn ==
  ASSUME ScheduleInv, NEW w \in Workers, polls[w].list # <<>>, Goes(w), StoreInv', now' = now,
         \A x \in Rows : pointer[x] <= pointer'[x]
  PROVE  PollInv'
<1> DEFINE poll == polls[w]
           rest == Tail(poll.list)
<1>1. /\ poll \in Poll /\ Lags(poll, now, pointer) /\ StoreInv /\ PollInv
      /\ polls' = [polls EXCEPT ![w] = Begin(poll.step, poll.now, rest)]
  BY DEF ScheduleInv, PollInv, Goes
<1>2. poll.step \in Steps /\ poll.now \in Nat /\ poll.list \in Seq(DueRow)
  BY <1>1 DEF Poll
<1>3. rest \in Seq(DueRow) /\ \A n \in DOMAIN rest : n + 1 \in DOMAIN poll.list /\ rest[n] = poll.list[n + 1]
  BY <1>2, HeadTailProperties, LenProperties
<1>4. Lags(poll, now', pointer')
  BY <1>1, StillLags DEF StoreInv, Shape
<1>5. \A n \in DOMAIN rest : /\ rest[n].at <= poll.now /\ rest[n].at <= pointer'[rest[n].row]
                             /\ poll.step = "runs" => rest[n].row \in RunSchedules
  BY <1>3, <1>4 DEF Lags
<1>6. now' \in Nat /\ poll.now <= now' /\ now' >= now
  BY <1>4 DEF Lags, StoreInv, Shape
<1> HIDE DEF poll, rest
<1>7. Lags(Begin(poll.step, poll.now, rest), now', pointer')
  BY <1>2, <1>3, <1>5, <1>6, BeginLags
<1>8. QED BY <1>1, <1>6, <1>7, OnePollMoves

LEMMA StopsPolling ==
  ASSUME ScheduleInv, NEW w \in Workers, Throws(w), StoreInv', now' = now, pointer' = pointer
  PROVE  PollInv'
<1>1. /\ StoreInv /\ PollInv /\ now \in Nat /\ now' \in Nat
      /\ \A x \in Rows : pointer[x] <= pointer'[x]
      /\ now' >= now
  BY DEF ScheduleInv, StoreInv, Shape
<1>2. Lags(Idle, now', pointer')
  BY <1>1, IdleLags
<1>3. QED BY <1>1, <1>2, OnePollMoves DEF Throws

-----------------------------------------------------------------------------
(* The steps of a worker.                                                  *)

LEMMA InitSchedules == Init => ScheduleInv
<1> SUFFICES ASSUME Init PROVE ScheduleInv
  OBVIOUS
<1>1. Shape /\ Passed /\ Disjoint
  BY ScheduleBounds DEF Init, Shape, Passed, Disjoint
<1>2. Covered
  BY ScheduleBounds DEF Init, Covered
<1>3. polls \in [Workers -> Poll]
  BY DEF Init, Idle, Poll, Steps
<1>4. \A w \in Workers : Lags(polls[w], now, pointer)
  BY IdleLags DEF Init
<1>5. QED BY <1>1, <1>2, <1>3, <1>4 DEF ScheduleInv, StoreInv, PollInv

\* A row is queued, or its pointer moved, and the worker goes on to the next.
LEMMA RowDone ==
  ASSUME ScheduleInv, NEW w \in Workers, polls[w].list # <<>>, Goes(w), now' = now,
         StoreInv' /\ \A x \in Rows : pointer[x] <= pointer'[x]
  PROVE  ScheduleInv'
BY GoesOn DEF ScheduleInv

\* Only the poll changed, and it starts on a new list.
LEMMA NewList ==
  ASSUME ScheduleInv, NEW w \in Workers, NEW step \in Steps, NEW t \in Nat, t <= now,
         NEW kind \in SUBSET Rows, step = "runs" => kind \subseteq RunSchedules,
         NEW order \in Listings(kind, t), polls' = [polls EXCEPT ![w] = Begin(step, t, order)],
         UNCHANGED <<now, pointer, rows, policy, queued>>
  PROVE  ScheduleInv'
<1>1. /\ StoreInv /\ PollInv /\ now \in Nat /\ now' >= now
      /\ \A x \in Rows : pointer[x] \in Nat
  BY DEF ScheduleInv, StoreInv, Shape
<1>2. StoreInv'
  BY <1>1, NothingQueued
<1>3. /\ order \in Seq(DueRow)
      /\ \A n \in DOMAIN order : /\ order[n].row \in kind /\ order[n].at <= t
                                 /\ order[n].at = pointer[order[n].row]
  BY <1>1, ListingIsDue
<1>4. \A n \in DOMAIN order : /\ order[n].at <= t /\ order[n].at <= pointer'[order[n].row]
                              /\ step = "runs" => order[n].row \in RunSchedules
  BY <1>1, <1>3
<1>5. Lags(Begin(step, t, order), now', pointer')
  BY <1>1, <1>3, <1>4, BeginLags
<1>6. PollInv'
  <2>1. \A x \in Rows : pointer[x] <= pointer'[x]
    BY <1>1
  <2>2. QED BY <1>1, <1>2, <1>5, <2>1, OnePollMoves
<1>7. QED BY <1>2, <1>6 DEF ScheduleInv

LEMMA PollStops ==
  ASSUME ScheduleInv, NEW w \in Workers, Throws(w), rows' \subseteq rows,
         UNCHANGED <<now, pointer, policy, queued>>
  PROVE  ScheduleInv'
<1>1. StoreInv'
  BY NothingQueued DEF ScheduleInv, StoreInv, Shape
<1>2. QED BY <1>1, StopsPolling DEF ScheduleInv

LEMMA PollSchedulesKeeps ==
  ASSUME ScheduleInv, NEW w \in Workers, PollSchedules(w) PROVE ScheduleInv'
<1>1. /\ now \in Nat /\ now <= now /\ "runs" \in Steps
      /\ RunSchedules \in SUBSET Rows /\ RunSchedules \subseteq RunSchedules
  BY DEF ScheduleInv, StoreInv, Shape, Steps, Rows
<1>2. PICK order \in Listings(RunSchedules, now) :
        polls' = [polls EXCEPT ![w] = Begin("runs", now, order)]
  BY DEF PollSchedules
<1>3. UNCHANGED <<now, pointer, rows, policy, queued>>
  BY DEF PollSchedules
<1>4. QED BY <1>1, <1>2, <1>3, NewList

LEMMA PollNextKeeps ==
  ASSUME ScheduleInv, NEW w \in Workers, PollNext(w) PROVE ScheduleInv'
<1> DEFINE step == After(polls[w].step)
           t == polls[w].now
<1>1. PICK order \in Listings(Kind(step), t) :
        polls' = [polls EXCEPT ![w] = Begin(step, t, order)]
  BY DEF PollNext, ScheduleInv, PollInv
<1>2. step \in Steps /\ step # "runs" /\ Kind(step) \in SUBSET Rows
  BY DEF PollNext, After, Steps, Kind, Rows
<1>3. t \in Nat /\ t <= now
  BY DEF ScheduleInv, PollInv, Lags, Poll
<1>4. UNCHANGED <<now, pointer, rows, policy, queued>>
  BY DEF PollNext
<1> HIDE DEF step, t
<1>5. QED BY <1>1, <1>2, <1>3, <1>4, NewList

LEMMA SkipKeeps ==
  ASSUME ScheduleInv, NEW w \in Workers, SkipMissed(w) PROVE ScheduleInv'
<1>1. /\ polls[w].list # <<>> /\ polls[w].step = "runs" /\ policy[Row(w)] = "skip"
      /\ UNCHANGED <<now, rows, policy, queued>> /\ Goes(w)
      /\ Advance(Row(w), Item(w).at, Following(Row(w), polls[w].now))
  BY DEF SkipMissed, AtRun
<1>2. /\ Row(w) \in Rows /\ Item(w).at \in Nat /\ Item(w).at <= polls[w].now
      /\ polls[w].now \in Nat /\ CatchesUpOrSkips(Row(w))
  BY <1>1, ItemLags DEF CatchesUpOrSkips
<1>3. /\ Following(Row(w), polls[w].now) \in Nat
      /\ Item(w).at < Following(Row(w), polls[w].now)
  BY <1>2, FollowingIsLater
<1>4. StoreInv' /\ \A x \in Rows : pointer[x] <= pointer'[x]
  BY <1>1, <1>2, <1>3, AdvanceKeeps DEF ScheduleInv
<1>5. QED BY <1>1, <1>4, RowDone

LEMMA RunOnceKeeps ==
  ASSUME ScheduleInv, NEW w \in Workers, RunOnceMissed(w) PROVE ScheduleInv'
<1>1. /\ polls[w].list # <<>> /\ UNCHANGED <<now, rows, policy>> /\ Goes(w)
      /\ Enqueue(Row(w), Item(w).at, Following(Row(w), polls[w].now))
  BY DEF RunOnceMissed, AtRun
<1>2. /\ Row(w) \in Rows /\ Item(w).at \in Nat /\ Item(w).at <= polls[w].now
      /\ Item(w).at <= pointer[Row(w)] /\ polls[w].now \in Nat /\ polls[w].now <= now
  BY <1>1, ItemLags
<1>3. /\ Following(Row(w), polls[w].now) \in Nat
      /\ Item(w).at < Following(Row(w), polls[w].now) /\ Item(w).at <= now
  BY <1>2, FollowingIsLater DEF ScheduleInv, StoreInv, Shape
<1>4. StoreInv' /\ \A x \in Rows : pointer[x] <= pointer'[x]
  BY <1>1, <1>2, <1>3, EnqueueKeeps DEF ScheduleInv
<1>5. QED BY <1>1, <1>4, RowDone

\* The pointer of a row only moves on.
LEMMA OnlyOn ==
  ASSUME ScheduleInv, NEW w \in Workers, NEW poll, polls' = [polls EXCEPT ![w] = poll],
         Lags(poll, now', pointer'), now' = now, StoreInv',
         \A x \in Rows : pointer[x] <= pointer'[x]
  PROVE  ScheduleInv'
<1>1. StoreInv /\ PollInv /\ now' >= now
  BY DEF ScheduleInv, StoreInv, Shape
<1>2. PollInv'
  BY <1>1, OnePollMoves
<1>3. QED BY <1>2 DEF ScheduleInv

Onward(poll, due, next) == [poll EXCEPT !.due = due, !.next = next, !.count = @ + 1]

LEMMA NextOccurrence ==
  ASSUME NEW poll \in Poll, NEW due \in Nat, NEW next \in Nat
  PROVE  /\ Onward(poll, due, next) \in Poll
         /\ Onward(poll, due, next).due = due /\ Onward(poll, due, next).next = next
         /\ Onward(poll, due, next).step = poll.step /\ Onward(poll, due, next).now = poll.now
         /\ Onward(poll, due, next).list = poll.list
<1> DEFINE a == [poll EXCEPT !.due = due]
           b == [a EXCEPT !.next = next]
           c == [b EXCEPT !.count = poll.count + 1]
<1>1. /\ a \in Poll /\ a.due = due
      /\ a.step = poll.step /\ a.now = poll.now /\ a.list = poll.list
  BY DEF Poll
<1>2. /\ b \in Poll /\ b.due = due /\ b.next = next
      /\ b.step = poll.step /\ b.now = poll.now /\ b.list = poll.list
  <2> HIDE DEF a
  <2>1. QED BY <1>1 DEF Poll
<1>3. poll.count + 1 \in Nat
  BY DEF Poll
<1>4. /\ c \in Poll /\ c.due = due /\ c.next = next
      /\ c.step = poll.step /\ c.now = poll.now /\ c.list = poll.list
  <2> HIDE DEF b
  <2>1. QED BY <1>2, <1>3 DEF Poll
<1>5. c = Onward(poll, due, next)
  BY DEF Onward
<1>6. QED BY <1>4, <1>5

LEMMA CatchUpKeeps ==
  ASSUME ScheduleInv, NEW w \in Workers, CatchUpMissed(w) PROVE ScheduleInv'
<1> DEFINE poll == polls[w]
           r == Row(w)
           after == Following(r, poll.next)
<1>1. /\ poll.list # <<>> /\ poll.step = "runs" /\ policy[r] = "catch_up"
      /\ UNCHANGED <<now, rows, policy>>
  BY DEF CatchUpMissed, AtRun
<1>2. /\ r \in Rows /\ poll.due \in Nat /\ poll.next \in Nat /\ poll.due < poll.next
      /\ poll.now \in Nat /\ poll.now <= now /\ CatchesUpOrSkips(r)
  BY <1>1, ItemLags DEF CatchesUpOrSkips
<1>3. CASE poll.next > poll.now
  <2>1. Advance(r, poll.due, poll.next) /\ Goes(w) /\ UNCHANGED queued
    BY <1>3 DEF CatchUpMissed
  <2>2. StoreInv' /\ \A x \in Rows : pointer[x] <= pointer'[x]
    BY <1>1, <1>2, <2>1, AdvanceKeeps DEF ScheduleInv
  <2>3. QED BY <1>1, <2>1, <2>2, RowDone
<1>4. CASE poll.next <= poll.now /\ poll.count = CatchUpMax
  <2>1. Throws(w) /\ UNCHANGED <<pointer, queued>>
    BY <1>2, <1>4 DEF CatchUpMissed
  <2>2. QED BY <1>1, <2>1, PollStops
<1>5. CASE poll.next <= poll.now /\ poll.count # CatchUpMax
  <2> DEFINE rest == Onward(poll, poll.next, after)
  <2>1. Enqueue(r, poll.due, poll.next)
    BY <1>2, <1>5 DEF CatchUpMissed
  <2>2. polls' = [polls EXCEPT ![w].due = poll.next, ![w].next = after, ![w].count = @ + 1]
    BY <1>2, <1>5 DEF CatchUpMissed
  <2>3. now \in Nat /\ poll.due <= now
    BY <1>2, <1>5 DEF ScheduleInv, StoreInv, Shape
  <2>4. StoreInv' /\ \A x \in Rows : pointer[x] <= pointer'[x]
    BY <1>1, <1>2, <2>1, <2>3, EnqueueKeeps DEF ScheduleInv
  <2>5. after \in Nat /\ poll.next < after
    BY <1>2, FollowingIsLater
  <2>6. /\ poll \in Poll /\ Lags(poll, now, pointer) /\ StoreInv
        /\ polls \in [Workers -> Poll]
    BY DEF ScheduleInv, PollInv
  <2>7. Lags(poll, now', pointer')
    BY <1>1, <2>3, <2>4, <2>6, StillLags
  <2>8. /\ rest \in Poll /\ rest.due = poll.next /\ rest.next = after
        /\ rest.step = poll.step /\ rest.now = poll.now /\ rest.list = poll.list
    <3>1. poll \in Poll /\ poll.next \in Nat /\ after \in Nat
      BY <1>2, <2>5, <2>6
    <3> HIDE DEF poll, after
    <3>2. \A a \in Poll, x, y \in Nat :
            /\ Onward(a, x, y) \in Poll /\ Onward(a, x, y).due = x /\ Onward(a, x, y).next = y
            /\ Onward(a, x, y).step = a.step /\ Onward(a, x, y).now = a.now
            /\ Onward(a, x, y).list = a.list
      BY NextOccurrence
    <3>3. QED BY <3>1, <3>2
  <2>9. polls' = [polls EXCEPT ![w] = rest]
    BY <2>2, <2>6 DEF Onward
  <2>10. Lags(rest, now', pointer')
    BY <2>5, <2>7, <2>8 DEF Lags
  <2>11. QED BY <1>1, <2>4, <2>9, <2>10, OnlyOn
<1>6. QED
  <2>1. poll.next > poll.now \/ poll.next <= poll.now
    BY <1>2
  <2>2. QED BY <1>3, <1>4, <1>5, <2>1

LEMMA ReportKeeps ==
  ASSUME ScheduleInv, NEW w \in Workers, EnqueueScheduledReport(w) PROVE ScheduleInv'
<1>1. polls[w].list # <<>> /\ UNCHANGED <<now, rows, policy>>
  BY DEF EnqueueScheduledReport
<1>2. CASE Throws(w) /\ UNCHANGED <<pointer, queued>>
  BY <1>1, <1>2, PollStops
<1>3. CASE Enqueue(Row(w), Item(w).at, Following(Row(w), polls[w].now)) /\ Goes(w)
  <2>1. /\ Row(w) \in Rows /\ Item(w).at \in Nat /\ Item(w).at <= polls[w].now
        /\ Item(w).at <= pointer[Row(w)] /\ polls[w].now \in Nat /\ polls[w].now <= now
    BY <1>1, ItemLags
  <2>2. /\ Following(Row(w), polls[w].now) \in Nat
        /\ Item(w).at < Following(Row(w), polls[w].now) /\ Item(w).at <= now
    BY <2>1, FollowingIsLater DEF ScheduleInv, StoreInv, Shape
  <2>3. StoreInv' /\ \A x \in Rows : pointer[x] <= pointer'[x]
    BY <1>1, <1>3, <2>1, <2>2, EnqueueKeeps DEF ScheduleInv
  <2>4. QED BY <1>1, <1>3, <2>3, RowDone
<1>4. QED BY <1>2, <1>3 DEF EnqueueScheduledReport

LEMMA SyncKeeps ==
  ASSUME ScheduleInv, NEW w \in Workers, EnqueueDeliverySync(w) PROVE ScheduleInv'
<1> DEFINE r == Row(w)
           next == Following(r, polls[w].now)
<1>1. polls[w].list # <<>> /\ UNCHANGED <<now, rows, policy>> /\ Goes(w)
  BY DEF EnqueueDeliverySync
<1>2. r \in Rows /\ polls[w].now \in Nat /\ polls[w].now <= now
  BY <1>1, ItemLags
<1>3. /\ next \in Nat /\ polls[w].now < next
      /\ StoreInv /\ now \in Nat /\ \A x \in Rows : pointer[x] \in Nat
  BY <1>2, FollowingIsLater DEF ScheduleInv, StoreInv, Shape
<1>4. CASE Advances(r, polls[w].now)
  <2>1. pointer[r] <= polls[w].now /\ pointer' = [pointer EXCEPT ![r] = next]
    BY <1>4 DEF EnqueueDeliverySync, Advances
  <2>2. \A q \in queued : q.row = r => q.upto # next
    BY <1>2, <1>3, <2>1 DEF StoreInv, Shape, Passed, Window
  <2>3. queued' = queued \cup {[row |-> r, from |-> pointer[r], upto |-> next]}
    BY <1>4, <2>2 DEF EnqueueDeliverySync
  <2>4. /\ pointer[r] \in Nat /\ pointer[r] <= pointer[r] /\ pointer[r] <= now
        /\ pointer[r] < next
    BY <1>2, <1>3, <2>1
  <2>5. StoreInv' /\ \A x \in Rows : pointer[x] <= pointer'[x]
    BY <1>1, <1>2, <1>3, <2>1, <2>3, <2>4, WindowQueued
  <2>6. QED BY <1>1, <2>5, RowDone
<1>5. CASE ~Advances(r, polls[w].now)
  <2>1. UNCHANGED <<pointer, queued>>
    BY <1>5 DEF EnqueueDeliverySync
  <2>2. StoreInv' /\ \A x \in Rows : pointer[x] <= pointer'[x]
    BY <1>1, <1>3, <2>1, NothingQueued
  <2>3. QED BY <1>1, <2>2, RowDone
<1>6. QED BY <1>4, <1>5

\* Time passes, a subscription or its schedule goes, or nothing happens.
LEMMA NoWorker ==
  ASSUME ScheduleInv, now' \in Nat, now' >= now, rows' \subseteq rows,
         UNCHANGED <<pointer, policy, queued, polls>>
  PROVE  ScheduleInv'
<1>1. StoreInv /\ PollInv /\ \A x \in Rows : pointer[x] <= pointer'[x]
  BY DEF ScheduleInv, StoreInv, Shape
<1>2. StoreInv'
  BY <1>1, NothingQueued
<1>3. ASSUME NEW v \in Workers PROVE Lags(polls'[v], now', pointer')
  <2>1. polls'[v] = polls[v] /\ Lags(polls[v], now, pointer)
    BY <1>1 DEF PollInv
  <2>2. Lags(polls[v], now', pointer')
    BY <1>1, <1>2, <2>1, StillLags
  <2>3. QED BY <2>1, <2>2
<1>4. QED BY <1>1, <1>2, <1>3 DEF ScheduleInv, PollInv

LEMMA ScheduleInvariant == Spec => []ScheduleInv
<1>1. ScheduleInv /\ [Next]_vars => ScheduleInv'
  <2> SUFFICES ASSUME ScheduleInv, [Next]_vars PROVE ScheduleInv'
    OBVIOUS
  <2>1. now \in Nat
    BY DEF ScheduleInv, StoreInv, Shape
  <2>2. ASSUME NEW w \in Workers, PollEnds(w) \/ Crash(w) PROVE ScheduleInv'
    BY <2>2, PollStops DEF PollEnds, Crash
  <2>3. ASSUME NEW w \in Workers, Step(w) PROVE ScheduleInv'
    BY <2>2, <2>3, PollSchedulesKeeps, SkipKeeps, RunOnceKeeps, CatchUpKeeps, PollNextKeeps,
       ReportKeeps, SyncKeeps DEF Step
  <2>4. CASE Tick
    BY <2>1, <2>4, NoWorker DEF Tick
  <2>5. ASSUME NEW r \in Reports, DeleteSubscription(r) \/ DeleteSchedule(r) PROVE ScheduleInv'
    BY <2>1, <2>5, NoWorker DEF DeleteSubscription, DeleteSchedule
  <2>6. CASE UNCHANGED vars
    BY <2>1, <2>6, NoWorker DEF vars
  <2>7. QED BY <2>2, <2>3, <2>4, <2>5, <2>6 DEF Next
<1>2. QED BY <1>1, InitSchedules, PTL DEF Spec

-----------------------------------------------------------------------------
\* No worker queues a row before its occurrence, and none queues what the pointer has not passed:
\* what a later poll starts from is never queued yet.
THEOREM NothingQueuedAhead == Spec => []NothingAhead
<1>1. ScheduleInv => NothingAhead
  BY DEF ScheduleInv, StoreInv, Passed, NothingAhead
<1>2. QED BY <1>1, ScheduleInvariant, PTL

\* Of what the pointer has passed nothing is queued twice, and of the rows that answer for all
\* they missed nothing is left out.
THEOREM EachAnsweredOnce == Spec => []AnsweredOnce
<1>1. ASSUME ScheduleInv PROVE AnsweredOnce
  <2> SUFFICES ASSUME NEW r \in Rows, NEW t \in Created[r]..(pointer[r] - 1)
               PROVE  /\ Cardinality(Windows(r, t)) <= 1
                      /\ ~CatchesUpOrSkips(r) => Windows(r, t) # {}
    BY DEF AnsweredOnce
  <2>1. \A p, q \in Windows(r, t) : p = q
    <3>1. SUFFICES ASSUME NEW p \in Windows(r, t), NEW q \in Windows(r, t) PROVE p = q
      OBVIOUS
    <3>2. /\ p \in queued /\ q \in queued /\ p.row = r /\ q.row = r
          /\ p.from <= t /\ t < p.upto /\ q.from <= t /\ t < q.upto
      BY DEF Windows
    <3>3. /\ p.from \in Nat /\ p.upto \in Nat /\ q.from \in Nat /\ q.upto \in Nat /\ t \in Int
      BY <1>1, <3>2, ScheduleBounds DEF ScheduleInv, StoreInv, Shape, Window
    <3>4. p.from < q.upto /\ q.from < p.upto
      BY <3>2, <3>3
    <3>5. QED BY <1>1, <3>2, <3>4 DEF ScheduleInv, StoreInv, Disjoint
  <2>2. Cardinality(Windows(r, t)) <= 1
    <3>1. CASE Windows(r, t) = {}
      BY <3>1, FS_EmptySet
    <3>2. CASE Windows(r, t) # {}
      <4>1. PICK q \in Windows(r, t) : TRUE
        BY <3>2
      <4>2. Windows(r, t) = {q}
        BY <2>1, <4>1
      <4>3. Cardinality({q}) = 1
        BY FS_Singleton
      <4>4. QED BY <4>2, <4>3
    <3>3. QED BY <3>1, <3>2
  <2>3. ~CatchesUpOrSkips(r) => Windows(r, t) # {}
    BY <1>1 DEF ScheduleInv, StoreInv, Covered, Covers, Windows
  <2>4. QED BY <2>2, <2>3
<1>2. QED BY <1>1, ScheduleInvariant, PTL
=============================================================================
