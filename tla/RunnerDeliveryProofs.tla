------------------------ MODULE RunnerDeliveryProofs ------------------------
(***************************************************************************)
(* What the delivery of events and completions guarantees for any number   *)
(* of jobs, leases, entries and events, whatever request, answer or        *)
(* acknowledgement fails and whenever the runner restarts.                 *)
(***************************************************************************)
EXTENDS RunnerDelivery, FiniteSetTheorems, SequenceTheorems, WellFoundedInduction, TLAPS

Kinds == {"event", "terminal", "completion"}
Id == [job : Jobs, lease : Leases, kind : Kinds, seq : Nat]
Item == [id : Id, dead : BOOLEAN]
Execution == [step : {"none", "events", "terminal", "completion", "done"}, seq : Nat,
              failing : BOOLEAN, awaits : {"none", "next", "this"}]
Row == [id : Id, under : Leases]
JobRow == [lease : 0..MaxLeases, granted : 0..MaxLeases, ended : BOOLEAN, prior : Nat,
           stored : Seq(Row)]
FlushRow == [step : {"idle", "send", "ack"}, pending : Seq(Item), done : Nat]

DeliveryTypeOK ==
  /\ queue \in Seq(Item) /\ highest \in [Jobs -> Nat]
  /\ exec \in [Jobs -> [Leases -> Execution]]
  /\ flush \in FlushRow
  /\ api \in [Jobs -> JobRow]
  /\ late \in SUBSET Seq(Item) /\ settled \in SUBSET Id

-----------------------------------------------------------------------------
(* What is taken is taken for good: no lease is granted again.             *)

\* Every id that an entry, a request, the API or the history still names.
Known ==
  IdsOf(queue) \cup IdsOf(flush.pending) \cup settled
    \cup (UNION {IdsOf(b) : b \in late}) \cup (UNION {Stored(j) : j \in Jobs})

LeasesOnce ==
  /\ \A j \in Jobs : api[j].lease \in {0, api[j].granted}
  /\ \A id \in Known : id.lease <= api[id.job].granted
  /\ \A j \in Jobs, l \in Leases : exec[j][l].step # "none" => l <= api[j].granted

\* What one request carries: a completion alone, or events of one job.
OfOneKind(batch) ==
  /\ batch # <<>>
  /\ IF IsEvent(batch[1].id)
     THEN \A i \in DOMAIN batch : IsEvent(batch[i].id) /\ batch[i].id.job = batch[1].id.job
     ELSE Len(batch) = 1

IsTaken(id) == IF IsEvent(id) THEN id \in Stored(id.job) ELSE api[id.job].lease # id.lease

SentIsTaken ==
  /\ flush.step = "idle" => flush.done = 0
  /\ flush.step = "send" => flush.done < Len(flush.pending)
  /\ flush.step = "ack" => flush.done = Len(flush.pending)
  /\ \A n \in 1..flush.done : IsTaken(flush.pending[n].id)
  /\ \A batch \in late : OfOneKind(batch)
  /\ \A id \in settled : IsTaken(id)

-----------------------------------------------------------------------------
(* A flush takes the front of the queue; a completion closes its lease.    *)

PendingIsFront ==
  /\ \A n \in DOMAIN flush.pending : \E i \in DOMAIN queue : queue[i] = flush.pending[n]
  /\ \A n \in DOMAIN flush.pending : \A i, k \in DOMAIN queue :
       queue[k] = flush.pending[n] /\ i < k /\ ~queue[i].dead =>
         \E m \in DOMAIN flush.pending : flush.pending[m] = queue[i]

Over(id) == exec[id.job][id.lease].step \in {"none", "done"}
SameLease(a, b) == a.job = b.job /\ a.lease = b.lease

CompletionIsLast ==
  /\ \A i, k \in DOMAIN queue : queue[i].id = queue[k].id => i = k
  /\ \A id \in IdsOf(queue) \cup settled : ~IsEvent(id) => Over(id)
  /\ \A i, k \in DOMAIN queue :
       IsEvent(queue[i].id) /\ ~IsEvent(queue[k].id) /\ SameLease(queue[i].id, queue[k].id) => i < k

-----------------------------------------------------------------------------
(* Numbers, and leases where no job is executed twice at a time.           *)

NumbersFollow ==
  \A j \in Jobs : \A i \in DOMAIN api[j].stored :
    api[j].stored[i].id.job = j /\ api[j].stored[i].id.seq = api[j].prior + i

InLeaseOrder(s) ==
  \A i, k \in DOMAIN s : i < k /\ s[i].id.job = s[k].id.job => s[i].id.lease <= s[k].id.lease

OneExecution ==
  /\ \A j \in Jobs, l \in Leases :
       exec[j][l].step \notin {"none", "done"} => l = api[j].granted
  /\ InLeaseOrder(queue) /\ InLeaseOrder(flush.pending)
  /\ \A batch \in late : InLeaseOrder(batch)

-----------------------------------------------------------------------------
(* Parts of a sequence.                                                    *)

LEMMA LessIsWellFounded == IsWellFoundedOn({ss \in Nat \X Nat : ss[1] < ss[2]}, Nat)
  BY NatLessThanWellFounded, Zenon DEF OpToRel

LEMMA LeastExists ==
  ASSUME NEW S \in SUBSET Nat, S # {}
  PROVE  \E x \in S : \A y \in S : x <= y
<1> DEFINE less == {ss \in Nat \X Nat : ss[1] < ss[2]}
<1>1. PICK x \in S : \A y \in S : ~(<<y, x>> \in less)
  <2>1. IsWellFoundedOn(less, Nat)
    BY LessIsWellFounded
  <2> HIDE DEF less
  <2>2. QED BY <2>1, WFMin
<1>2. ASSUME NEW y \in S, y < x PROVE FALSE
  <2>1. <<y, x>> \in Nat \X Nat /\ <<y, x>>[1] < <<y, x>>[2]
    BY <1>2
  <2>2. QED BY <1>1, <2>1, Zenon
<1>3. QED BY <1>2

UpTo(K, i) == {k \in K : k <= i}

\* Every position of a set has a place in it, and a later one a later place.
LEMMA PlacesInSet ==
  ASSUME NEW n \in Nat, NEW K \in SUBSET (1..n)
  PROVE  /\ IsFiniteSet(K) /\ Cardinality(K) \in Nat
         /\ \A i \in K : Cardinality(UpTo(K, i)) \in 1..Cardinality(K)
         /\ \A i, j \in K : i < j => Cardinality(UpTo(K, i)) < Cardinality(UpTo(K, j))
<1>1. IsFiniteSet(K) /\ Cardinality(K) \in Nat
  <2>1. IsFiniteSet(1..n)
    BY FS_Interval
  <2>2. QED BY <2>1, FS_Subset, FS_CardinalityType
<1>2. ASSUME NEW i \in K
      PROVE  /\ UpTo(K, i) \in SUBSET K /\ i \in UpTo(K, i)
             /\ IsFiniteSet(UpTo(K, i)) /\ Cardinality(UpTo(K, i)) \in 1..Cardinality(K)
  <2>1. UpTo(K, i) \in SUBSET K /\ i \in UpTo(K, i)
    BY DEF UpTo
  <2>2. IsFiniteSet(UpTo(K, i)) /\ Cardinality(UpTo(K, i)) <= Cardinality(K)
    BY <1>1, <2>1, FS_Subset
  <2>3. Cardinality(UpTo(K, i)) \in Nat /\ Cardinality(UpTo(K, i)) # 0
    BY <2>1, <2>2, FS_CardinalityType, FS_EmptySet
  <2>4. QED BY <1>1, <2>1, <2>2, <2>3
<1>3. ASSUME NEW i \in K, NEW j \in K, i < j
      PROVE  Cardinality(UpTo(K, i)) < Cardinality(UpTo(K, j))
  <2>1. UpTo(K, i) \in SUBSET UpTo(K, j) /\ j \notin UpTo(K, i) /\ j \in UpTo(K, j)
    <3>1. \A k \in K : k \in Nat
      OBVIOUS
    <3>2. \A k \in K : k <= i => k <= j
      BY <1>3, <3>1
    <3>3. ~(j <= i) /\ j <= j
      BY <1>3, <3>1
    <3>4. QED BY <3>2, <3>3 DEF UpTo
  <2>2. /\ Cardinality(UpTo(K, i)) <= Cardinality(UpTo(K, j))
        /\ Cardinality(UpTo(K, i)) # Cardinality(UpTo(K, j))
    BY <1>2, <2>1, FS_Subset
  <2>3. QED BY <1>2, <2>2
<1>4. QED BY <1>1, <1>2, <1>3

\* Nth numbers the positions of a set from the smallest on.
LEMMA NthCounts ==
  ASSUME NEW n \in Nat, NEW K \in SUBSET (1..n)
  PROVE  /\ IsFiniteSet(K) /\ Cardinality(K) \in Nat
         /\ \A m \in 1..Cardinality(K) : Nth(K, m) \in K
         /\ \A k \in K : \E m \in 1..Cardinality(K) : Nth(K, m) = k
         /\ \A l, m \in 1..Cardinality(K) : l < m => Nth(K, l) < Nth(K, m)
<1> DEFINE c == Cardinality(K)
           rank == [i \in K |-> Cardinality(UpTo(K, i))]
<1>1. IsFiniteSet(K) /\ c \in Nat /\ rank \in [K -> 1..c]
  BY PlacesInSet
<1>2. \A i, j \in K : i < j => rank[i] < rank[j]
  BY PlacesInSet
<1>3. \A i \in K : i \in Nat
  OBVIOUS
<1> HIDE DEF rank
<1>4. \A i, j \in K : rank[i] = rank[j] => i = j
  BY <1>1, <1>2, <1>3
<1>5. rank \in Surjection(K, 1..c)
  <2>1. rank \in Injection(K, 1..c)
    BY <1>1, <1>4 DEF Injection, IsInjective
  <2>2. IsFiniteSet(1..c) /\ Cardinality(1..c) = c
    BY <1>1, FS_Interval
  <2>3. QED BY <2>1, <2>2, FS_Injection
<1>6. ASSUME NEW m \in 1..c PROVE Nth(K, m) \in K /\ rank[Nth(K, m)] = m
  <2>1. PICK i \in K : rank[i] = m
    BY <1>5 DEF Surjection
  <2>2. \E k \in K : Cardinality({x \in K : x <= k}) = m
    BY <2>1 DEF rank, UpTo
  <2>3. Nth(K, m) \in K /\ Cardinality({x \in K : x <= Nth(K, m)}) = m
    BY <2>2 DEF Nth
  <2>4. QED BY <2>3 DEF rank, UpTo
<1>7. ASSUME NEW k \in K PROVE \E m \in 1..c : Nth(K, m) = k
  <2>1. rank[k] \in 1..c /\ Nth(K, rank[k]) \in K /\ rank[Nth(K, rank[k])] = rank[k]
    BY <1>1, <1>6
  <2>2. QED BY <1>4, <2>1
<1>8. ASSUME NEW l \in 1..c, NEW m \in 1..c, l < m PROVE Nth(K, l) < Nth(K, m)
  <2>1. PICK a \in K : a = Nth(K, l) /\ rank[a] = l
    BY <1>6
  <2>2. PICK b \in K : b = Nth(K, m) /\ rank[b] = m
    BY <1>6
  <2>3. a \in Nat /\ b \in Nat /\ l \in Nat /\ m \in Nat
    BY <1>3
  <2>4. ~(b < a) /\ a # b
    BY <1>2, <1>8, <2>1, <2>2, <2>3
  <2>5. a < b
    BY <2>3, <2>4
  <2>6. QED BY <2>1, <2>2, <2>5
<1>9. QED BY <1>1, <1>6, <1>7, <1>8

\* What is picked of a sequence: the elements at the positions, and no other, in their order.
LEMMA Picking ==
  ASSUME NEW S, NEW s \in Seq(S), NEW K \in SUBSET DOMAIN s
  PROVE  /\ Picked(s, K) \in Seq(S) /\ DOMAIN Picked(s, K) = 1..Cardinality(K)
         /\ Len(Picked(s, K)) = Cardinality(K) /\ Cardinality(K) \in Nat
         /\ \A n \in DOMAIN Picked(s, K) : Nth(K, n) \in K /\ Picked(s, K)[n] = s[Nth(K, n)]
         /\ \A k \in K : \E n \in DOMAIN Picked(s, K) : Nth(K, n) = k
         /\ \A m, n \in DOMAIN Picked(s, K) : m < n => Nth(K, m) < Nth(K, n)
<1>1. Len(s) \in Nat /\ K \in SUBSET (1..Len(s)) /\ s \in [1..Len(s) -> S]
  BY LenProperties
<1>2. Cardinality(K) \in Nat /\ \A n \in 1..Cardinality(K) : Nth(K, n) \in K
  BY <1>1, NthCounts
<1>3. Picked(s, K) = [n \in 1..Cardinality(K) |-> s[Nth(K, n)]]
  BY DEF Picked
<1>4. Picked(s, K) \in [1..Cardinality(K) -> S]
  BY <1>1, <1>2, <1>3
<1>5. Picked(s, K) \in Seq(S) /\ DOMAIN Picked(s, K) = 1..Cardinality(K)
  BY <1>2, <1>4, SeqDef
<1>6. Len(Picked(s, K)) = Cardinality(K)
  BY <1>2, <1>5, LenProperties
<1>7. QED BY <1>1, <1>2, <1>3, <1>5, <1>6, NthCounts

-----------------------------------------------------------------------------
(* What is sent, and what the API makes of it.                             *)

LEMMA ItemFields ==
  ASSUME NEW e \in Item
  PROVE  /\ e.id \in Id /\ e.dead \in BOOLEAN
         /\ e.id.job \in Jobs /\ e.id.lease \in Leases /\ e.id.kind \in Kinds /\ e.id.seq \in Nat
  BY DEF Item, Id

LEMMA RowFields ==
  ASSUME NEW r \in JobRow
  PROVE  /\ r.lease \in 0..MaxLeases /\ r.granted \in 0..MaxLeases /\ r.ended \in BOOLEAN
         /\ r.prior \in Nat /\ r.stored \in Seq(Row)
         /\ Len(r.stored) \in Nat /\ DOMAIN r.stored = 1..Len(r.stored)
         /\ \A i \in DOMAIN r.stored : r.stored[i] \in Row
<1>1. /\ r.lease \in 0..MaxLeases /\ r.granted \in 0..MaxLeases /\ r.ended \in BOOLEAN
      /\ r.prior \in Nat /\ r.stored \in Seq(Row)
  BY DEF JobRow
<1>2. QED BY <1>1, LenProperties, ElementOfSeq

\* The batch of a flush is the next part of what it has to send, and one request carries it.
LEMMA BatchIsNext ==
  ASSUME DeliveryTypeOK, SentIsTaken, flush.step = "send"
  PROVE  /\ Batch \in Seq(Item) /\ Len(Batch) \in Nat \ {0}
         /\ flush.done + Len(Batch) <= Len(flush.pending)
         /\ \A i \in 1..Len(Batch) : Batch[i] = flush.pending[flush.done + i]
         /\ OfOneKind(Batch)
<1> DEFINE p == flush.pending
           first == flush.done + 1
           Joins(i) == p[i].id.job = p[first].id.job /\ IsEvent(p[i].id)
           run == {n \in first..Len(p) : \A i \in first..n : Joins(i)}
           ends == {k \in first..(Len(p) + 1) : k = Len(p) + 1 \/ ~Joins(k)}
<1>1. /\ p \in Seq(Item) /\ Len(p) \in Nat /\ first \in Nat /\ first >= 1 /\ first <= Len(p)
      /\ flush.done \in Nat /\ DOMAIN p = 1..Len(p)
  <2>1. p \in Seq(Item) /\ flush.done \in Nat /\ flush.done < Len(p)
    BY DEF DeliveryTypeOK, FlushRow, SentIsTaken
  <2>2. QED BY <2>1, LenProperties
<1>2. Batch = IF IsEvent(p[first].id) THEN SubSeq(p, first, first + Cardinality(run) - 1)
              ELSE <<p[first]>>
  BY DEF Batch
<1>3. \A i \in 1..Len(p) : p[i] \in Item
  BY <1>1, ElementOfSeq
<1>4. CASE IsEvent(p[first].id)
  <2>1. PICK b \in ends : \A k \in ends : b <= k
    <3>1. ends \in SUBSET Nat /\ Len(p) + 1 \in ends
      BY <1>1
    <3>2. QED BY <3>1, LeastExists
  <2>2. b \in Nat /\ first < b /\ b <= Len(p) + 1
    BY <1>1, <1>4, <2>1
  <2>3. \A i \in first..(b - 1) : Joins(i)
    BY <1>1, <2>1, <2>2
  <2>4. b = Len(p) + 1 \/ ~Joins(b)
    BY <2>1
  <2> HIDE DEF Joins
  <2>5. run = first..(b - 1)
    BY <1>1, <2>2, <2>3, <2>4
  <2>5a. Batch = SubSeq(p, first, first + Cardinality(run) - 1)
    BY <1>2, <1>4
  <2> HIDE DEF run, first
  <2>6. Cardinality(run) = b - first
    <3>1. first \in Int /\ b - 1 \in Int
      BY <1>1, <2>2
    <3>2. Cardinality(first..(b - 1)) = IF first > b - 1 THEN 0 ELSE b - 1 - first + 1
      BY <3>1, FS_Interval
    <3>3. QED BY <1>1, <2>2, <2>5, <3>2
  <2>7. Batch = SubSeq(p, first, b - 1)
    <3>1. first + (b - first) - 1 = b - 1
      BY <1>1, <2>2
    <3>2. QED BY <2>5a, <2>6, <3>1
  <2>8. /\ Batch \in Seq(Item) /\ Len(Batch) = b - first
        /\ \A i \in 1..(b - first) : Batch[i] = p[first + i - 1]
    <3>1. \A i \in first..(b - 1) : p[i] \in Item
      BY <1>1, <1>3, <2>2
    <3>2. /\ SubSeq(p, first, b - 1) \in Seq(Item)
          /\ Len(SubSeq(p, first, b - 1)) = IF first <= b - 1 THEN b - 1 - first + 1 ELSE 0
          /\ \A i \in 1..(b - 1 - first + 1) : SubSeq(p, first, b - 1)[i] = p[first + i - 1]
      BY <1>1, <2>2, <3>1, SubSeqProperties
    <3>3. QED BY <1>1, <2>2, <2>7, <3>2
  <2>9. \A i \in 1..(b - first) :
          IsEvent(Batch[i].id) /\ Batch[i].id.job = p[first].id.job
    <3>1. ASSUME NEW i \in 1..(b - first) PROVE first + i - 1 \in first..(b - 1)
      BY <1>1, <2>2
    <3>2. QED BY <2>3, <2>8, <3>1 DEF Joins
  <2>10. Len(Batch) \in Nat \ {0} /\ DOMAIN Batch = 1..Len(Batch) /\ 1 \in 1..Len(Batch)
    BY <1>1, <2>2, <2>8, LenProperties
  <2>11. OfOneKind(Batch)
    BY <2>8, <2>9, <2>10 DEF OfOneKind
  <2>12. flush.done + Len(Batch) <= Len(p)
    BY <1>1, <2>2, <2>8 DEF first
  <2>13. ASSUME NEW i \in 1..Len(Batch) PROVE Batch[i] = flush.pending[flush.done + i]
    <3>1. first + i - 1 = flush.done + i /\ i \in 1..(b - first)
      BY <1>1, <2>2, <2>8 DEF first
    <3>2. QED BY <2>8, <3>1
  <2>14. QED BY <2>8, <2>10, <2>11, <2>12, <2>13
<1>5. CASE ~IsEvent(p[first].id)
  <2>1. Batch = <<p[first]>> /\ p[first] \in Item
    BY <1>1, <1>2, <1>3, <1>5
  <2>2. Batch \in Seq(Item) /\ Len(Batch) = 1 /\ Batch[1] = p[first]
    BY <2>1
  <2>3. OfOneKind(Batch)
    BY <1>5, <2>1, <2>2, <<p[first]>> # <<>> DEF OfOneKind
  <2>4. QED BY <1>1, <2>2, <2>3
<1>6. QED BY <1>4, <1>5

\* The new events of a batch are those of its entries whose ids are not stored.
LEMMA NewOnes ==
  ASSUME NEW batch \in Seq(Item)
  PROVE  /\ NewEvents(batch) \in Seq(Item)
         /\ \A n \in DOMAIN NewEvents(batch) : \E i \in DOMAIN batch :
              NewEvents(batch)[n] = batch[i]
         /\ \A i \in DOMAIN batch :
              \/ batch[i].id \in Stored(batch[i].id.job)
              \/ \E n \in DOMAIN NewEvents(batch) : NewEvents(batch)[n] = batch[i]
<1> DEFINE K == {i \in DOMAIN batch : batch[i].id \notin Stored(batch[i].id.job)}
<1>1. NewEvents(batch) = Picked(batch, K) /\ K \in SUBSET DOMAIN batch
  BY DEF NewEvents
<1>2. /\ Picked(batch, K) \in Seq(Item)
      /\ \A n \in DOMAIN Picked(batch, K) : Nth(K, n) \in K /\ Picked(batch, K)[n] = batch[Nth(K, n)]
      /\ \A k \in K : \E n \in DOMAIN Picked(batch, K) : Nth(K, n) = k
  <2> HIDE DEF K
  <2>1. QED BY <1>1, Picking
<1>3. \A i \in DOMAIN batch : i \in K \/ batch[i].id \in Stored(batch[i].id.job)
  OBVIOUS
<1> HIDE DEF K
<1>4. QED BY <1>1, <1>2, <1>3

\* A job's rows after an answer: its lease goes on or ends, and what is added follows in sequence
\* and was sent under the lease the job holds.
RowAfter(batch, j, old, row) ==
  LET n == Len(old.stored)
  IN  /\ row.granted = old.granted /\ row.prior = old.prior /\ row.lease \in {0, old.lease}
      /\ n <= Len(row.stored) /\ \A i \in 1..n : row.stored[i] = old.stored[i]
      /\ \A i \in (n + 1)..Len(row.stored) :
           /\ row.stored[i].id \in IdsOf(batch)
           /\ row.stored[i].id.seq = old.prior + i
           /\ row.stored[i].under = batch[1].id.lease
           /\ j = batch[1].id.job /\ old.lease = batch[1].id.lease

LEMMA RowStays ==
  ASSUME NEW batch, NEW j, NEW old \in JobRow, NEW row \in JobRow,
         row.granted = old.granted, row.prior = old.prior, row.lease \in {0, old.lease},
         row.stored = old.stored
  PROVE  RowAfter(batch, j, old, row)
<1>1. Len(old.stored) \in Nat
  BY RowFields
<1>2. QED BY <1>1 DEF RowAfter

\* The id of an entry of a batch that the API took is taken.
LEMMA Appending ==
  ASSUME DeliveryTypeOK, NEW batch \in Seq(Item), OfOneKind(batch), IsEvent(batch[1].id),
         Accepted(batch), api' = AppendEvents(batch)
  PROVE  /\ api' \in [Jobs -> JobRow]
         /\ \A k \in Jobs : RowAfter(batch, k, api[k], api'[k])
         /\ \A id \in IdsOf(batch) : IsTaken(id)'
<1> DEFINE j == batch[1].id.job
           under == batch[1].id.lease
           new == NewEvents(batch)
           rows == [i \in DOMAIN new |-> [id |-> new[i].id, under |-> under]]
           old == api[j].stored
<1>1. /\ 1 \in DOMAIN batch /\ DOMAIN batch = 1..Len(batch) /\ Len(batch) \in Nat
      /\ j \in Jobs /\ under \in Leases
  <2>1. Len(batch) \in Nat \ {0} /\ DOMAIN batch = 1..Len(batch)
    BY LenProperties, EmptySeq DEF OfOneKind
  <2>2. batch[1] \in Item
    BY <2>1, ElementOfSeq
  <2>3. QED BY <2>1, <2>2, ItemFields
<1>2. /\ new \in Seq(Item) /\ Len(new) \in Nat /\ DOMAIN new = 1..Len(new)
      /\ \A n \in DOMAIN new : new[n] \in Item
      /\ \A n \in DOMAIN new : \E i \in DOMAIN batch : new[n] = batch[i]
      /\ \A i \in DOMAIN batch :
           batch[i].id \in Stored(batch[i].id.job) \/ \E n \in DOMAIN new : new[n] = batch[i]
  BY NewOnes, LenProperties, ElementOfSeq
<1>3. api[j] \in JobRow /\ api \in [Jobs -> JobRow]
  BY <1>1 DEF DeliveryTypeOK
<1>4. /\ old \in Seq(Row) /\ Len(old) \in Nat /\ DOMAIN old = 1..Len(old) /\ api[j].prior \in Nat
  BY <1>3, RowFields
<1>5. api[j].lease = under /\ (new = <<>> \/ InSequence(j, new))
  BY DEF Accepted, HeadLease
<1>6. api' = [api EXCEPT ![j].stored = old \o rows]
  BY DEF AppendEvents
<1> HIDE DEF j, under, new
<1>7. rows \in Seq(Row) /\ Len(rows) = Len(new)
  <2>1. \A n \in 1..Len(new) : [id |-> new[n].id, under |-> under] \in Row
    BY <1>1, <1>2, ItemFields DEF Row
  <2>2. rows \in [1..Len(new) -> Row]
    BY <1>2, <2>1
  <2>3. rows \in Seq(Row)
    BY <1>2, <2>2, SeqDef
  <2>4. QED BY <1>2, <2>2, <2>3, LenProperties
<1>8. \A i \in 1..Len(new) : rows[i].id = new[i].id /\ rows[i].under = under
  BY <1>2
<1> HIDE DEF rows, old
<1>9. /\ old \o rows \in Seq(Row) /\ Len(old \o rows) = Len(old) + Len(new)
      /\ \A i \in 1..Len(old) : (old \o rows)[i] = old[i]
      /\ \A i \in (Len(old) + 1)..(Len(old) + Len(new)) : (old \o rows)[i] = rows[i - Len(old)]
  <2>1. /\ old \o rows \in Seq(Row) /\ Len(old \o rows) = Len(old) + Len(rows)
        /\ \A i \in 1..Len(old) + Len(rows) :
             (old \o rows)[i] = IF i <= Len(old) THEN old[i] ELSE rows[i - Len(old)]
    BY <1>4, <1>7, ConcatProperties
  <2>2. QED BY <1>2, <1>4, <1>7, <2>1
<1> DEFINE row == [api[j] EXCEPT !.stored = old \o rows]
<1>10. /\ row \in JobRow /\ row.stored = old \o rows /\ row.lease = api[j].lease
       /\ row.granted = api[j].granted /\ row.prior = api[j].prior
  BY <1>3, <1>9 DEF JobRow
<1>11. api' = [api EXCEPT ![j] = row]
  BY <1>6
<1> HIDE DEF row
<1>12. api' \in [Jobs -> JobRow] /\ api'[j] = row /\ \A k \in Jobs \ {j} : api'[k] = api[k]
  BY <1>1, <1>3, <1>10, <1>11
<1>13. ASSUME NEW i \in (Len(old) + 1)..(Len(old) + Len(new))
       PROVE  /\ row.stored[i].id \in IdsOf(batch)
              /\ row.stored[i].id.seq = api[j].prior + i
              /\ row.stored[i].under = under
  <2> DEFINE n == i - Len(old)
  <2>1. n \in 1..Len(new) /\ row.stored[i].id = new[n].id /\ row.stored[i].under = under
    <3>1. n \in 1..Len(new) /\ i \in Int
      BY <1>2, <1>4
    <3>2. row.stored[i] = rows[n]
      BY <1>9, <1>10
    <3>3. QED BY <1>8, <3>1, <3>2
  <2>2. new[n].id.seq = api[j].prior + Len(old) + n
    <3>1. InSequence(j, new)
      BY <1>2, <1>5, <2>1
    <3>2. QED BY <1>2, <2>1, <3>1 DEF InSequence, old
  <2>3. api[j].prior + Len(old) + n = api[j].prior + i
    <3>1. i \in Int /\ Len(old) \in Int /\ api[j].prior \in Int
      BY <1>2, <1>4
    <3>2. \A x, y, z \in Int : x + y + (z - y) = x + z
      OBVIOUS
    <3>3. QED BY <3>1, <3>2
  <2>4. new[n].id \in IdsOf(batch)
    BY <1>2, <2>1 DEF IdsOf
  <2>5. QED BY <2>1, <2>2, <2>3, <2>4
<1>14. ASSUME NEW k \in Jobs PROVE RowAfter(batch, k, api[k], api'[k])
  <2>1. CASE k = j
    <3>1. Len(row.stored) = Len(old) + Len(new) /\ api'[k] = row
      BY <1>9, <1>10, <1>12, <2>1
    <3>2. Len(old) <= Len(row.stored) /\ \A i \in 1..Len(old) : row.stored[i] = old[i]
      BY <1>2, <1>4, <1>9, <1>10, <3>1
    <3>3. \A i \in (Len(old) + 1)..Len(row.stored) :
            /\ row.stored[i].id \in IdsOf(batch)
            /\ row.stored[i].id.seq = api[j].prior + i
            /\ row.stored[i].under = under
      BY <1>13, <3>1
    <3>4. k = batch[1].id.job /\ api[k].lease = batch[1].id.lease
      BY <1>5, <2>1 DEF j, under
    <3>5. QED BY <1>10, <2>1, <3>1, <3>2, <3>3, <3>4 DEF RowAfter, old, under
  <2>2. CASE k # j
    BY <1>3, <1>12, <2>2, RowStays
  <2>3. QED BY <2>1, <2>2
<1>15. ASSUME NEW id \in IdsOf(batch) PROVE IsTaken(id)'
  <2>1. PICK i \in DOMAIN batch : id = batch[i].id
    BY DEF IdsOf
  <2>2. IsEvent(id) /\ id.job = j
    BY <2>1 DEF OfOneKind, j
  <2>3. \E n \in DOMAIN row.stored : row.stored[n].id = id
    <3>1. DOMAIN row.stored = 1..(Len(old) + Len(new))
      BY <1>9, <1>10, LenProperties
    <3>2. CASE id \in Stored(j)
      <4>1. PICK n \in DOMAIN old : old[n].id = id
        BY <3>2 DEF Stored, old
      <4>2. n \in 1..(Len(old) + Len(new)) /\ row.stored[n] = old[n]
        BY <1>2, <1>4, <1>9, <1>10, <4>1
      <4>3. QED BY <3>1, <4>1, <4>2
    <3>3. CASE id \notin Stored(j)
      <4>1. PICK n \in DOMAIN new : new[n] = batch[i]
        BY <1>2, <2>1, <2>2, <3>3
      <4>2. /\ Len(old) + n \in (Len(old) + 1)..(Len(old) + Len(new))
            /\ Len(old) + n - Len(old) = n
        BY <1>2, <1>4
      <4>3. row.stored[Len(old) + n] = rows[n]
        BY <1>9, <1>10, <4>2
      <4>4. rows[n].id = id
        BY <1>2, <1>8, <2>1, <4>1
      <4>5. Len(old) + n \in 1..(Len(old) + Len(new))
        BY <1>2, <1>4
      <4>6. QED BY <3>1, <4>3, <4>4, <4>5
    <3>4. QED BY <3>2, <3>3
  <2>4. QED BY <1>12, <2>2, <2>3 DEF IsTaken, Stored
<1>16. QED BY <1>12, <1>14, <1>15

\* What handling a batch does to the rows, and what its sender may conclude from the answer.
LEMMA Handling ==
  ASSUME DeliveryTypeOK, NEW batch \in Seq(Item), OfOneKind(batch), api' = Handled(batch)
  PROVE  /\ api' \in [Jobs -> JobRow]
         /\ \A k \in Jobs : RowAfter(batch, k, api[k], api'[k])
         /\ SettledBy(batch) => \A id \in IdsOf(batch) : IsTaken(id)'
<1> DEFINE j == batch[1].id.job
<1>1. DOMAIN batch = 1..Len(batch) /\ 1 \in DOMAIN batch /\ j \in Jobs /\ batch[1].id.lease \in Leases
  <2>1. Len(batch) \in Nat \ {0} /\ DOMAIN batch = 1..Len(batch)
    BY LenProperties, EmptySeq DEF OfOneKind
  <2>2. batch[1] \in Item
    BY <2>1, ElementOfSeq
  <2>3. QED BY <2>1, <2>2, ItemFields
<1>2. api \in [Jobs -> JobRow]
  BY DEF DeliveryTypeOK
<1>3. CASE IsEvent(batch[1].id)
  <2>1. CASE Accepted(batch)
    BY <1>3, <2>1, Appending DEF Handled
  <2>2. CASE ~Accepted(batch)
    <3>1. UNCHANGED api /\ ~SettledBy(batch)
      BY <1>3, <2>2 DEF Handled, AppendEvents, SettledBy
    <3>2. QED BY <1>2, <3>1, RowStays
  <2>3. QED BY <2>1, <2>2
<1>4. CASE ~IsEvent(batch[1].id)
  <2>1. IdsOf(batch) = {batch[1].id}
    BY <1>1, <1>4 DEF OfOneKind, IdsOf
  <2>2. CASE HeadLease(batch)
    <3> DEFINE row == [api[j] EXCEPT !.lease = 0, !.ended = TRUE]
    <3>1. api' = [api EXCEPT ![j] = row]
      BY <1>4, <2>2 DEF Handled, CompleteJob
    <3>2. /\ row \in JobRow /\ row.lease = 0 /\ row.granted = api[j].granted
          /\ row.prior = api[j].prior /\ row.stored = api[j].stored
      <4> DEFINE closed == [api[j] EXCEPT !.lease = 0]
      <4>1. /\ closed \in JobRow /\ closed.lease = 0 /\ closed.granted = api[j].granted
            /\ closed.prior = api[j].prior /\ closed.stored = api[j].stored
        <5>1. api[j] \in JobRow /\ 0 \in 0..MaxLeases
          BY <1>1, <1>2, DeliveryBounds
        <5> HIDE DEF j
        <5>2. QED BY <5>1 DEF JobRow
      <4>2. row = [closed EXCEPT !.ended = TRUE]
        OBVIOUS
      <4> HIDE DEF closed
      <4>3. QED BY <4>1, <4>2 DEF JobRow
    <3> HIDE DEF row
    <3>3. api' \in [Jobs -> JobRow] /\ api'[j] = row /\ \A k \in Jobs \ {j} : api'[k] = api[k]
      BY <1>1, <1>2, <3>1, <3>2
    <3>4. ASSUME NEW k \in Jobs PROVE RowAfter(batch, k, api[k], api'[k])
      BY <1>1, <1>2, <3>2, <3>3, RowStays
    <3>5. batch[1].id.lease # 0
      BY <1>1 DEF Leases
    <3>6. QED BY <1>1, <1>4, <2>1, <3>2, <3>3, <3>4, <3>5 DEF IsTaken
  <2>3. CASE ~HeadLease(batch)
    <3>1. UNCHANGED api
      BY <1>4, <2>3 DEF Handled, CompleteJob
    <3>2. api'[j].lease # batch[1].id.lease
      BY <2>3, <3>1 DEF HeadLease
    <3>3. \A id \in IdsOf(batch) : IsTaken(id)'
      BY <1>4, <2>1, <3>2 DEF IsTaken
    <3>4. QED BY <1>2, <3>1, <3>3, RowStays
  <2>4. QED BY <2>2, <2>3
<1>5. QED BY <1>3, <1>4

-----------------------------------------------------------------------------
(* What a step does to the spool and the executions.                       *)

LEMMA ExecutionFields ==
  ASSUME NEW x \in Execution
  PROVE  /\ x.step \in {"none", "events", "terminal", "completion", "done"}
         /\ x.seq \in Nat /\ x.failing \in BOOLEAN /\ x.awaits \in {"none", "next", "this"}
  BY DEF Execution

\* Executions go on where they are, or are gone.
Calm ==
  /\ exec' \in [Jobs -> [Leases -> Execution]]
  /\ \A j \in Jobs, l \in Leases : exec'[j][l].step \in {exec[j][l].step, "none"}

\* What the spool holds is what it held, in that order, without some entries; none is revived.
Thinned ==
  /\ queue' \in Seq(Item)
  /\ \E h \in [DOMAIN queue' -> DOMAIN queue] :
       /\ \A i, k \in DOMAIN queue' : i < k => h[i] < h[k]
       /\ \A i \in DOMAIN queue' : /\ queue'[i].id = queue[h[i]].id
                                   /\ queue[h[i]].dead => queue'[i].dead

\* An execution goes on and spools an entry of its own, or finds no room.
Emits(j, l) ==
  /\ exec[j][l].step \in {"events", "terminal", "completion"}
  /\ exec' \in [Jobs -> [Leases -> Execution]]
  /\ \A k \in Jobs, m \in Leases : k # j \/ m # l => exec'[k][m] = exec[k][m]
  /\ exec'[j][l].step # "none"
  /\ highest' \in [Jobs -> Nat]
  /\ UNCHANGED <<flush, api, late, settled>>
  /\ \/ queue' = queue
     \/ \E e \in Item : /\ e.id.job = j /\ e.id.lease = l
                        /\ e.id \notin IdsOf(queue) /\ queue' = Append(queue, e)
                        /\ IsEvent(e.id) \/ exec'[j][l].step = "done"

\* A flush ends, or is ended; an acknowledged one takes what it sent out of the spool.
Stops ==
  /\ flush' = NoFlush /\ Calm /\ Thinned /\ UNCHANGED highest
  /\ late' = late \/ (flush.step = "send" /\ late' = late \cup {Batch})
  /\ \/ settled' = settled
     \/ /\ flush.step = "ack" /\ settled' = settled \cup Settling
        /\ \A i \in DOMAIN queue' : queue'[i].id \notin Settling

Elsewhere == UNCHANGED <<queue, highest, exec, flush, settled>> /\ late' \subseteq late

LEMMA WaitingIsCalm ==
  ASSUME DeliveryTypeOK, NEW from, NEW to \in {"none", "next", "this"}, Awaiting(from, to)
  PROVE  Calm
<1>1. ASSUME NEW j \in Jobs, NEW l \in Leases
      PROVE  /\ exec[j][l] \in Execution
             /\ [exec[j][l] EXCEPT !.awaits = to] \in Execution
             /\ [exec[j][l] EXCEPT !.awaits = to].step = exec[j][l].step
  <2>1. exec[j][l] \in Execution
    BY DEF DeliveryTypeOK
  <2>2. QED BY <2>1 DEF Execution
<1> DEFINE after(j, l) == IF exec[j][l].awaits = from THEN [exec[j][l] EXCEPT !.awaits = to]
                          ELSE exec[j][l]
<1>2. exec' = [j \in Jobs |-> [l \in Leases |-> after(j, l)]]
  BY DEF Awaiting
<1>3. \A j \in Jobs, l \in Leases :
        after(j, l) \in Execution /\ after(j, l).step = exec[j][l].step
  BY <1>1
<1> HIDE DEF after
<1>4. QED BY <1>2, <1>3 DEF Calm

LEMMA StartingIsCalm ==
  ASSUME exec' = [j \in Jobs |-> [l \in Leases |-> NoExec]]
  PROVE  Calm
<1>1. NoExec \in Execution /\ NoExec.step = "none"
  BY DEF NoExec, Execution
<1>2. QED BY <1>1 DEF Calm

LEMMA SameIsThinned ==
  ASSUME DeliveryTypeOK, queue' = queue
  PROVE  Thinned
<1> DEFINE h == [i \in DOMAIN queue |-> i]
<1>1. queue' \in Seq(Item)
  BY DEF DeliveryTypeOK
<1>2. /\ h \in [DOMAIN queue' -> DOMAIN queue]
      /\ \A i, k \in DOMAIN queue' : i < k => h[i] < h[k]
      /\ \A i \in DOMAIN queue' : /\ queue'[i].id = queue[h[i]].id
                                  /\ queue[h[i]].dead => queue'[i].dead
  OBVIOUS
<1>3. QED BY <1>1, <1>2 DEF Thinned

LEMMA DeadIsThinned ==
  ASSUME DeliveryTypeOK, NEW ids, Q!MarkDead(ids)
  PROVE  Thinned
<1> DEFINE after(i) == IF queue[i].id \in ids THEN [queue[i] EXCEPT !.dead = TRUE] ELSE queue[i]
           h == [i \in DOMAIN queue |-> i]
<1>1. queue \in Seq(Item) /\ Len(queue) \in Nat /\ DOMAIN queue = 1..Len(queue)
  BY LenProperties DEF DeliveryTypeOK
<1>2. queue' = [i \in DOMAIN queue |-> after(i)]
  BY DEF Q!MarkDead
<1>3. ASSUME NEW i \in DOMAIN queue
      PROVE  after(i) \in Item /\ after(i).id = queue[i].id /\ (queue[i].dead => after(i).dead)
  <2>1. queue[i] \in Item
    BY <1>1, ElementOfSeq
  <2>2. QED BY <2>1 DEF Item
<1> HIDE DEF after
<1>4. queue' \in [1..Len(queue) -> Item]
  BY <1>1, <1>2, <1>3
<1>5. queue' \in Seq(Item)
  BY <1>1, <1>4, SeqDef
<1>6. /\ h \in [DOMAIN queue' -> DOMAIN queue]
      /\ \A i, k \in DOMAIN queue' : i < k => h[i] < h[k]
      /\ \A i \in DOMAIN queue' : /\ queue'[i].id = queue[h[i]].id
                                  /\ queue[h[i]].dead => queue'[i].dead
  BY <1>2, <1>3
<1>7. QED BY <1>5, <1>6 DEF Thinned

LEMMA SettledIsThinned ==
  ASSUME DeliveryTypeOK, NEW ids, Q!Settle(ids)
  PROVE  Thinned /\ \A i \in DOMAIN queue' : queue'[i].id \notin ids
<1> DEFINE K == {i \in DOMAIN queue : queue[i].id \notin ids}
           h == [i \in DOMAIN queue' |-> Nth(K, i)]
<1>1. queue \in Seq(Item) /\ K \in SUBSET DOMAIN queue /\ \A k \in K : queue[k].id \notin ids
  BY DEF DeliveryTypeOK
<1>2. queue' = Picked(queue, K)
  BY Zenon DEF Q!Settle, Q!Picked, Picked, Q!Nth, Nth, Q!Cardinality, Cardinality
<1> HIDE DEF K
<1>3. /\ queue' \in Seq(Item)
      /\ \A n \in DOMAIN queue' : Nth(K, n) \in K /\ queue'[n] = queue[Nth(K, n)]
      /\ \A m, n \in DOMAIN queue' : m < n => Nth(K, m) < Nth(K, n)
  BY <1>1, <1>2, Picking
<1>4. /\ h \in [DOMAIN queue' -> DOMAIN queue]
      /\ \A i, k \in DOMAIN queue' : i < k => h[i] < h[k]
      /\ \A i \in DOMAIN queue' : /\ queue'[i].id = queue[h[i]].id
                                  /\ queue[h[i]].dead => queue'[i].dead
  BY <1>1, <1>3
<1>5. QED BY <1>1, <1>3, <1>4 DEF Thinned

LEMMA Spooling ==
  ASSUME DeliveryTypeOK, NEW j \in Jobs, NEW l \in Leases, NEW kind \in Kinds, NEW seq \in Nat,
         Enqueue(Entry(j, l, kind, seq))
  PROVE  /\ highest' \in [Jobs -> Nat]
         /\ \E e \in Item : /\ e.id.job = j /\ e.id.lease = l /\ e.id.kind = kind
                            /\ e.id \notin IdsOf(queue) /\ queue' = Append(queue, e)
<1> DEFINE e == Entry(j, l, kind, seq)
<1>1. /\ e \in Item /\ e.id.job = j /\ e.id.lease = l /\ e.id.kind = kind /\ e.id.seq = seq
  BY DEF Entry, Item, Id
<1>2. e.id \notin IdsOf(queue) /\ queue' = Append(queue, e)
  BY DEF Enqueue, Q!Put, Q!Ids, IdsOf
<1>3. highest' = [highest EXCEPT ![j] = IF seq > highest[j] THEN seq ELSE highest[j]]
  BY <1>1 DEF Enqueue
<1>4. highest' \in [Jobs -> Nat]
  BY <1>3 DEF DeliveryTypeOK
<1> HIDE DEF e
<1>5. QED BY <1>1, <1>2, <1>4

LEMMA EmitSteps ==
  ASSUME DeliveryTypeOK, NEW j \in Jobs, NEW l \in Leases,
         EmitEvent(j, l) \/ EmitTerminal(j, l) \/ EmitCompletion(j, l)
  PROVE  Emits(j, l)
<1> DEFINE x == exec[j][l]
<1>1. x \in Execution /\ exec \in [Jobs -> [Leases -> Execution]]
  BY DEF DeliveryTypeOK
<1>2. x.seq \in Nat /\ x.seq + 1 \in Nat /\ x.failing \in BOOLEAN
  BY <1>1, ExecutionFields
<1>3. ASSUME NEW y \in Execution, exec' = [exec EXCEPT ![j][l] = y]
      PROVE  /\ exec' \in [Jobs -> [Leases -> Execution]] /\ exec'[j][l] = y
             /\ \A k \in Jobs, m \in Leases : k # j \/ m # l => exec'[k][m] = exec[k][m]
  <2>1. [exec[j] EXCEPT ![l] = y] \in [Leases -> Execution]
    BY <1>1
  <2>2. QED BY <1>1, <1>3, <2>1
<1>4. CASE EmitEvent(j, l)
  <2>1. x.step = "events" /\ UNCHANGED <<flush, api, late, settled>>
    BY <1>4 DEF EmitEvent
  <2>2. CASE Room
    <3> DEFINE a == [x EXCEPT !.seq = x.seq + 1]
               y == [a EXCEPT !.awaits = "next"]
    <3>1. Enqueue(Entry(j, l, "event", x.seq + 1))
      BY <1>4, <2>2 DEF EmitEvent
    <3>2. exec' = [exec EXCEPT ![j][l] = y]
      BY <1>1, <1>4, <2>2 DEF EmitEvent
    <3>3. a \in Execution /\ a.step = "events"
      BY <1>1, <1>2, <2>1 DEF Execution
    <3> HIDE DEF a
    <3>4. y \in Execution /\ y.step = "events"
      BY <3>3 DEF Execution
    <3> HIDE DEF y
    <3>5. /\ exec' \in [Jobs -> [Leases -> Execution]] /\ exec'[j][l] = y
          /\ \A k \in Jobs, m \in Leases : k # j \/ m # l => exec'[k][m] = exec[k][m]
      BY <1>3, <3>2, <3>4
    <3>6. /\ highest' \in [Jobs -> Nat]
          /\ \E e \in Item : /\ e.id.job = j /\ e.id.lease = l /\ e.id.kind = "event"
                             /\ e.id \notin IdsOf(queue) /\ queue' = Append(queue, e)
      BY <1>2, <3>1, Spooling DEF Kinds
    <3>7. QED BY <2>1, <3>4, <3>5, <3>6 DEF Emits, IsEvent
  <2>3. CASE ~Room
    <3> DEFINE a == [x EXCEPT !.step = "terminal"]
               b == [a EXCEPT !.seq = x.seq + 1]
               y == [b EXCEPT !.failing = TRUE]
    <3>1. queue' = queue /\ highest' = highest /\ exec' = [exec EXCEPT ![j][l] = y]
      BY <1>1, <1>4, <2>3 DEF EmitEvent, NotEnqueued
    <3>2. a \in Execution /\ a.step = "terminal"
      BY <1>1 DEF Execution
    <3> HIDE DEF a
    <3>3. b \in Execution /\ b.step = "terminal"
      BY <1>2, <3>2 DEF Execution
    <3> HIDE DEF b
    <3>4. y \in Execution /\ y.step = "terminal"
      BY <3>3 DEF Execution
    <3> HIDE DEF y
    <3>5. /\ exec' \in [Jobs -> [Leases -> Execution]] /\ exec'[j][l] = y
          /\ \A k \in Jobs, m \in Leases : k # j \/ m # l => exec'[k][m] = exec[k][m]
      BY <1>3, <3>1, <3>4
    <3>6. QED BY <2>1, <3>1, <3>4, <3>5 DEF Emits, DeliveryTypeOK
  <2>4. QED BY <2>2, <2>3
<1>5. ASSUME NEW kind \in {"terminal", "completion"}, NEW step \in {"completion", "done"},
             NEW seq \in Nat, x.step \in {"events", "terminal", "completion"},
             kind = "completion" => step = "done",
             Ends(j, l, Entry(j, l, kind, seq), step, seq)
      PROVE  Emits(j, l)
  <2>1. UNCHANGED <<flush, api, late, settled>>
    BY <1>5 DEF Ends
  <2>2. CASE Room
    <3> DEFINE y == [step |-> step, seq |-> seq, failing |-> x.failing, awaits |-> "next"]
    <3>1. exec' = [exec EXCEPT ![j][l] = y] /\ Enqueue(Entry(j, l, kind, seq))
      BY <1>5, <2>2 DEF Ends
    <3>2. y \in Execution /\ y.step = step
      BY <1>2 DEF Execution
    <3> HIDE DEF y
    <3>3. /\ exec' \in [Jobs -> [Leases -> Execution]] /\ exec'[j][l] = y
          /\ \A k \in Jobs, m \in Leases : k # j \/ m # l => exec'[k][m] = exec[k][m]
      BY <1>3, <3>1, <3>2
    <3>4. /\ highest' \in [Jobs -> Nat]
          /\ \E e \in Item : /\ e.id.job = j /\ e.id.lease = l /\ e.id.kind = kind
                             /\ e.id \notin IdsOf(queue) /\ queue' = Append(queue, e)
      BY <3>1, Spooling DEF Kinds
    <3>5. QED BY <1>5, <2>1, <3>2, <3>3, <3>4 DEF Emits, IsEvent
  <2>3. CASE ~Room
    <3> DEFINE to == IF x.failing THEN step ELSE "terminal"
               y == [step |-> to, seq |-> seq, failing |-> TRUE, awaits |-> "none"]
    <3>1. exec' = [exec EXCEPT ![j][l] = y] /\ UNCHANGED <<queue, highest>>
      BY <1>5, <2>3 DEF Ends, NotEnqueued
    <3>2. to \in {"terminal", "completion", "done"}
      OBVIOUS
    <3> HIDE DEF to
    <3>3. y \in Execution /\ y.step = to
      BY <3>2 DEF Execution
    <3> HIDE DEF y
    <3>4. /\ exec' \in [Jobs -> [Leases -> Execution]] /\ exec'[j][l] = y
          /\ \A k \in Jobs, m \in Leases : k # j \/ m # l => exec'[k][m] = exec[k][m]
      BY <1>3, <3>1, <3>3
    <3>5. QED BY <1>5, <2>1, <3>1, <3>2, <3>3, <3>4 DEF Emits, DeliveryTypeOK
  <2>4. QED BY <2>2, <2>3
<1>6. CASE EmitTerminal(j, l)
  BY <1>2, <1>5, <1>6 DEF EmitTerminal
<1>7. CASE EmitCompletion(j, l)
  BY <1>2, <1>5, <1>7 DEF EmitCompletion
<1>8. QED BY <1>4, <1>6, <1>7

LEMMA Stopping ==
  ASSUME DeliveryTypeOK, SentIsTaken,
         Refused \/ Ack \/ AckFails \/ AnswerLost \/ RequestLost \/ Restart
  PROVE  Stops
<1>1. ASSUME FlushEnds PROVE flush' = NoFlush /\ Calm
  BY <1>1, WaitingIsCalm DEF FlushEnds
<1>2. ASSUME NEW ids, RetryOrDeadLetter(ids)
      PROVE  flush' = NoFlush /\ Calm /\ Thinned /\ settled' = settled
  <2>1. Thinned
    BY <1>2, SameIsThinned, DeadIsThinned DEF RetryOrDeadLetter, Spend
  <2>2. QED BY <1>1, <1>2, <2>1 DEF RetryOrDeadLetter
<1>3. CASE Refused
  BY <1>2, <1>3 DEF Refused, Stops
<1>4. CASE AnswerLost
  BY <1>2, <1>4 DEF AnswerLost, Stops
<1>5. CASE RequestLost
  BY <1>2, <1>5 DEF RequestLost, Stops
<1>6. CASE Ack
  <2>1. Q!Settle(Settling) /\ flush.step = "ack" /\ settled' = settled \cup Settling
        /\ FlushEnds /\ UNCHANGED <<highest, late>>
    BY <1>6 DEF Ack
  <2>2. PICK ids : ids = Settling
    OBVIOUS
  <2>3. Thinned /\ \A i \in DOMAIN queue' : queue'[i].id \notin ids
    BY <2>1, <2>2, SettledIsThinned
  <2>4. QED BY <1>1, <2>1, <2>2, <2>3 DEF Stops
<1>7. CASE AckFails
  BY <1>1, <1>7, SameIsThinned DEF AckFails, Stops
<1>8. CASE Restart
  BY <1>8, SameIsThinned, StartingIsCalm DEF Restart, Stops
<1>9. QED BY <1>3, <1>4, <1>5, <1>6, <1>7, <1>8

\* Every step is of one of these kinds.
LEMMA StepKinds ==
  ASSUME DeliveryTypeOK, SentIsTaken, [Next]_vars
  PROVE  \/ \E j \in Jobs : Claim(j)
         \/ \E j \in Jobs, l \in Leases : Emits(j, l)
         \/ FlushStart \/ Delivered \/ Stops
         \/ Elsewhere
<1>1. ASSUME NEW j \in Jobs, LoseLease(j) PROVE Elsewhere
  BY <1>1 DEF LoseLease, Elsewhere, runner
<1>2. CASE LateRequest
  BY <1>2 DEF LateRequest, Elsewhere, runner
<1>3. CASE UNCHANGED vars
  BY <1>3 DEF vars, Elsewhere, runner
<1>4. QED BY <1>1, <1>2, <1>3, EmitSteps, Stopping DEF Next, Flushing

-----------------------------------------------------------------------------
(* What a step does to the API's rows.                                     *)

RowsFollow(batch) ==
  api' \in [Jobs -> JobRow] /\ \A k \in Jobs : RowAfter(batch, k, api[k], api'[k])

\* A batch that the API may be handling, or none.
Carried(batch) ==
  \/ batch = <<>>
  \/ flush.step = "send" /\ batch = Batch
  \/ batch \in late

\* Only a claim grants a lease; any other step takes leases away or adds the events of a batch.
LEMMA RowSteps ==
  ASSUME DeliveryTypeOK, SentIsTaken, [Next]_vars
  PROVE  (\E j \in Jobs : Claim(j)) \/ \E batch : Carried(batch) /\ RowsFollow(batch)
<1>1. api \in [Jobs -> JobRow]
  BY DEF DeliveryTypeOK
<1>2. ASSUME UNCHANGED api PROVE \E batch : Carried(batch) /\ RowsFollow(batch)
  <2>1. RowsFollow(<<>>)
    BY <1>1, <1>2, RowStays DEF RowsFollow
  <2>2. QED BY <2>1 DEF Carried
<1>3. ASSUME NEW j \in Jobs, LoseLease(j) PROVE \E batch : Carried(batch) /\ RowsFollow(batch)
  <2>1. PICK ended \in BOOLEAN : api' = [api EXCEPT ![j].lease = 0, ![j].ended = ended]
    BY <1>3 DEF LoseLease
  <2> DEFINE freed == [api[j] EXCEPT !.lease = 0]
             row == [freed EXCEPT !.ended = ended]
  <2>2. api' = [api EXCEPT ![j] = row]
    BY <1>1, <2>1
  <2>3. /\ freed \in JobRow /\ freed.lease = 0 /\ freed.granted = api[j].granted
        /\ freed.prior = api[j].prior /\ freed.stored = api[j].stored
    <3>1. api[j] \in JobRow /\ 0 \in 0..MaxLeases
      BY <1>1, DeliveryBounds
    <3>2. QED BY <3>1 DEF JobRow
  <2> HIDE DEF freed
  <2>4. /\ row \in JobRow /\ row.lease = 0 /\ row.granted = api[j].granted
        /\ row.prior = api[j].prior /\ row.stored = api[j].stored
    BY <2>3 DEF JobRow
  <2> HIDE DEF row
  <2>5. api' \in [Jobs -> JobRow] /\ api'[j] = row /\ \A k \in Jobs \ {j} : api'[k] = api[k]
    BY <1>1, <2>2, <2>4
  <2>6. \A k \in Jobs : RowAfter(<<>>, k, api[k], api'[k])
    BY <1>1, <2>4, <2>5, RowStays
  <2>7. QED BY <2>5, <2>6 DEF RowsFollow, Carried
<1>4. ASSUME flush.step = "send", api' = Handled(Batch)
      PROVE  \E batch : Carried(batch) /\ RowsFollow(batch)
  <2>1. PICK b : b = Batch
    OBVIOUS
  <2>2. b \in Seq(Item) /\ OfOneKind(b) /\ api' = Handled(b)
    BY <1>4, <2>1, BatchIsNext
  <2>3. RowsFollow(b)
    BY <2>2, Handling DEF RowsFollow
  <2>4. QED BY <1>4, <2>1, <2>3 DEF Carried
<1>5. CASE LateRequest
  <2>1. PICK b \in late : api' = Handled(b)
    BY <1>5 DEF LateRequest
  <2>2. b \in Seq(Item) /\ OfOneKind(b)
    BY DEF DeliveryTypeOK, SentIsTaken
  <2>3. RowsFollow(b)
    BY <2>1, <2>2, Handling DEF RowsFollow
  <2>4. QED BY <2>3 DEF Carried
<1>6. CASE Delivered \/ AnswerLost
  BY <1>4, <1>6 DEF Delivered, AnswerLost
<1>7. CASE \/ FlushStart \/ Refused \/ Ack \/ AckFails \/ RequestLost \/ Restart
           \/ UNCHANGED vars
  BY <1>2, <1>7 DEF FlushStart, Refused, Ack, AckFails, RequestLost, Restart, vars
<1>8. ASSUME NEW j \in Jobs, NEW l \in Leases,
             EmitEvent(j, l) \/ EmitTerminal(j, l) \/ EmitCompletion(j, l)
      PROVE  UNCHANGED api
  BY <1>8, EmitSteps DEF Emits
<1>9. QED BY <1>2, <1>3, <1>5, <1>6, <1>7, <1>8 DEF Next, Flushing

-----------------------------------------------------------------------------
(* The shape of every variable, for good.                                  *)

LEMMA FlushFields ==
  ASSUME DeliveryTypeOK
  PROVE  /\ flush.step \in {"idle", "send", "ack"} /\ flush.done \in Nat
         /\ flush.pending \in Seq(Item) /\ Len(flush.pending) \in Nat
         /\ DOMAIN flush.pending = 1..Len(flush.pending)
         /\ \A n \in DOMAIN flush.pending : flush.pending[n] \in Item
<1>1. /\ flush.step \in {"idle", "send", "ack"} /\ flush.done \in Nat
      /\ flush.pending \in Seq(Item)
  BY DEF DeliveryTypeOK, FlushRow
<1>2. QED BY <1>1, LenProperties, ElementOfSeq

LEMMA QueueFields ==
  ASSUME DeliveryTypeOK
  PROVE  /\ queue \in Seq(Item) /\ Len(queue) \in Nat /\ DOMAIN queue = 1..Len(queue)
         /\ \A i \in DOMAIN queue : queue[i] \in Item
  BY LenProperties, ElementOfSeq DEF DeliveryTypeOK

LEMMA KnownTyped ==
  ASSUME DeliveryTypeOK
  PROVE  Known \subseteq Id
<1>1. \A s \in Seq(Item) : IdsOf(s) \subseteq Id
  BY LenProperties, ElementOfSeq, ItemFields DEF IdsOf
<1>2. ASSUME NEW j \in Jobs PROVE Stored(j) \subseteq Id
  <2>1. api[j] \in JobRow
    BY DEF DeliveryTypeOK
  <2>2. \A i \in DOMAIN api[j].stored : api[j].stored[i].id \in Id
    BY <2>1, RowFields DEF Row
  <2>3. QED BY <2>2 DEF Stored
<1>3. /\ IdsOf(queue) \subseteq Id /\ IdsOf(flush.pending) \subseteq Id
      /\ \A b \in late : IdsOf(b) \subseteq Id
      /\ settled \subseteq Id
  BY <1>1, FlushFields DEF DeliveryTypeOK
<1>4. UNION {IdsOf(b) : b \in late} \subseteq Id /\ UNION {Stored(j) : j \in Jobs} \subseteq Id
  BY <1>2, <1>3
<1>5. QED BY <1>3, <1>4 DEF Known

\* A flush takes the front of what can be delivered.
LEMMA Front ==
  ASSUME DeliveryTypeOK, FlushStart
  PROVE  /\ flush' \in FlushRow /\ flush'.step = "send" /\ flush'.done = 0
         /\ Len(flush'.pending) \in Nat \ {0} /\ DOMAIN flush'.pending = 1..Len(flush'.pending)
         /\ \E h \in [DOMAIN flush'.pending -> DOMAIN queue] :
              /\ \A n \in DOMAIN flush'.pending : flush'.pending[n] = queue[h[n]]
              /\ \A m, n \in DOMAIN flush'.pending : m < n => h[m] < h[n]
              /\ \A n \in DOMAIN flush'.pending : \A i \in DOMAIN queue :
                   i < h[n] /\ ~queue[i].dead => \E m \in DOMAIN flush'.pending : h[m] = i
<1> DEFINE K == {i \in DOMAIN queue : ~queue[i].dead}
           s == Picked(queue, K)
           c == IF Len(s) < MaxBatch THEN Len(s) ELSE MaxBatch
           h == [n \in 1..c |-> Nth(K, n)]
           p == SubSeq(s, 1, c)
<1>1. K \in SUBSET DOMAIN queue /\ \A i \in DOMAIN queue : ~queue[i].dead => i \in K
  OBVIOUS
<1>2. s = Deliverable /\ s # <<>>
  BY DEF Deliverable, FlushStart
<1> HIDE DEF K
<1>3. /\ s \in Seq(Item) /\ DOMAIN s = 1..Len(s) /\ Len(s) \in Nat
      /\ \A n \in DOMAIN s : Nth(K, n) \in K /\ s[n] = queue[Nth(K, n)]
      /\ \A k \in K : \E n \in DOMAIN s : Nth(K, n) = k
      /\ \A m, n \in DOMAIN s : m < n => Nth(K, m) < Nth(K, n)
  BY <1>1, QueueFields, Picking
<1>4. flush' = [step |-> "send", pending |-> p, done |-> 0]
  BY <1>2 DEF FlushStart, FirstOf
<1> HIDE DEF s
<1>5. c \in Nat \ {0} /\ c <= Len(s)
  BY <1>2, <1>3, EmptySeq, DeliveryBounds
<1> HIDE DEF c
<1>6. p \in Seq(Item) /\ Len(p) = c /\ \A n \in 1..c : p[n] = s[n]
  <2>1. \A i \in 1..c : s[i] \in Item
    BY <1>3, <1>5, ElementOfSeq
  <2>2. /\ p \in Seq(Item) /\ Len(p) = IF 1 <= c THEN c - 1 + 1 ELSE 0
        /\ \A i \in 1..(c - 1 + 1) : p[i] = s[1 + i - 1]
    BY <1>5, <2>1, SubSeqProperties
  <2> HIDE DEF p
  <2>3. QED BY <1>5, <2>2
<1> HIDE DEF p
<1>7. DOMAIN p = 1..c
  BY <1>6, LenProperties
<1>8. \A n \in 1..c : n \in DOMAIN s
  BY <1>3, <1>5
<1>9. /\ h \in [1..c -> DOMAIN queue]
      /\ \A n \in 1..c : p[n] = queue[h[n]]
      /\ \A m, n \in 1..c : m < n => h[m] < h[n]
  BY <1>1, <1>3, <1>6, <1>8
<1>10. ASSUME NEW n \in 1..c, NEW i \in DOMAIN queue, i < h[n], ~queue[i].dead
       PROVE  \E m \in 1..c : h[m] = i
  <2>1. PICK m \in 1..Len(s) : Nth(K, m) = i
    BY <1>1, <1>3, <1>10
  <2>2. Nth(K, m) < Nth(K, n)
    BY <1>10, <2>1
  <2>3. n \in 1..Len(s) /\ i \in Nat /\ Nth(K, n) \in Nat
    BY <1>1, <1>3, <1>8, QueueFields
  <2>4. ~(n < m)
    BY <1>3, <2>1, <2>2, <2>3
  <2>5. m \in 1..c
    BY <1>5, <2>1, <2>4
  <2>6. QED BY <2>1, <2>5
<1> HIDE DEF h
<1>11. flush' \in FlushRow
  BY <1>4, <1>6 DEF FlushRow
<1>12. flush'.pending = p /\ flush'.step = "send" /\ flush'.done = 0
  BY <1>4
<1>13. \A n \in 1..c : \A i \in DOMAIN queue :
         i < h[n] /\ ~queue[i].dead => \E m \in 1..c : h[m] = i
  BY <1>10
<1>14. \E g \in [1..c -> DOMAIN queue] :
         /\ \A n \in 1..c : p[n] = queue[g[n]]
         /\ \A m, n \in 1..c : m < n => g[m] < g[n]
         /\ \A n \in 1..c : \A i \in DOMAIN queue :
              i < g[n] /\ ~queue[i].dead => \E m \in 1..c : g[m] = i
  BY <1>9, <1>13, Zenon
<1>15. Len(p) = c /\ c \in Nat \ {0}
  BY <1>5, <1>6
<1>16. QED BY <1>7, <1>11, <1>12, <1>14, <1>15

LEMMA Claiming ==
  ASSUME DeliveryTypeOK, NEW j \in Jobs, Claim(j)
  PROVE  LET l == api[j].granted + 1
         IN  /\ l \in Leases
             /\ exec' \in [Jobs -> [Leases -> Execution]]
             /\ \A k \in Jobs, m \in Leases : k # j \/ m # l => exec'[k][m] = exec[k][m]
             /\ api' \in [Jobs -> JobRow]
             /\ api'[j].lease = l /\ api'[j].granted = l
             /\ \A k \in Jobs : /\ api'[k].prior = api[k].prior /\ api'[k].stored = api[k].stored
                                /\ k # j => api'[k] = api[k]
             /\ UNCHANGED <<queue, highest, flush, late, settled>>
<1> DEFINE l == api[j].granted + 1
           x == Started(highest[j])
           leased == [api[j] EXCEPT !.lease = l]
           row == [leased EXCEPT !.granted = l]
<1>1. /\ l \in Leases /\ exec' = [exec EXCEPT ![j][l] = x]
      /\ api' = [api EXCEPT ![j].lease = l, ![j].granted = l]
      /\ UNCHANGED <<queue, highest, flush, late, settled>>
  BY DEF Claim
<1>2. api[j] \in JobRow /\ highest[j] \in Nat /\ exec \in [Jobs -> [Leases -> Execution]]
      /\ api \in [Jobs -> JobRow]
  BY DEF DeliveryTypeOK
<1>3. x \in Execution
  BY <1>2 DEF Started, NoExec, Execution
<1>4. api' = [api EXCEPT ![j] = row]
  BY <1>1, <1>2
<1> HIDE DEF l, x
<1>5. [exec[j] EXCEPT ![l] = x] \in [Leases -> Execution]
  BY <1>1, <1>2, <1>3
<1>6. /\ exec' \in [Jobs -> [Leases -> Execution]]
      /\ \A k \in Jobs, m \in Leases : k # j \/ m # l => exec'[k][m] = exec[k][m]
  BY <1>1, <1>2, <1>5
<1>7. /\ leased \in JobRow /\ leased.lease = l /\ leased.granted = api[j].granted
      /\ leased.prior = api[j].prior /\ leased.stored = api[j].stored
  <2>1. l \in 0..MaxLeases
    BY <1>1, DeliveryBounds DEF Leases
  <2>2. QED BY <1>2, <2>1 DEF JobRow
<1> HIDE DEF leased
<1>8. /\ row \in JobRow /\ row.lease = l /\ row.granted = l
      /\ row.prior = api[j].prior /\ row.stored = api[j].stored
  <2>1. l \in 0..MaxLeases
    BY <1>1, DeliveryBounds DEF Leases
  <2>2. QED BY <1>7, <2>1 DEF JobRow
<1> HIDE DEF row
<1>9. api' \in [Jobs -> JobRow] /\ api'[j] = row /\ \A k \in Jobs : k # j => api'[k] = api[k]
  BY <1>2, <1>4, <1>8
<1>10. QED BY <1>1, <1>6, <1>8, <1>9 DEF l

\* An answer moves the flush on by what was sent.
LEMMA Delivering ==
  ASSUME DeliveryTypeOK, SentIsTaken, Delivered
  PROVE  /\ flush.step = "send" /\ SettledBy(Batch) /\ api' = Handled(Batch)
         /\ flush' \in FlushRow /\ flush'.pending = flush.pending
         /\ flush'.done = flush.done + Len(Batch)
         /\ flush'.step = IF flush'.done = Len(flush.pending) THEN "ack" ELSE "send"
         /\ UNCHANGED <<queue, highest, exec, late, settled>>
<1> DEFINE done == flush.done + Len(Batch)
           step == IF done = Len(flush.pending) THEN "ack" ELSE "send"
           moved == [flush EXCEPT !.done = done]
<1>1. /\ flush.step = "send" /\ SettledBy(Batch) /\ api' = Handled(Batch)
      /\ flush' = [moved EXCEPT !.step = step]
      /\ UNCHANGED <<queue, highest, exec, late, settled>>
  BY DEF Delivered
<1>2. done \in Nat /\ flush \in FlushRow /\ step \in {"send", "ack"}
  BY <1>1, BatchIsNext, FlushFields DEF DeliveryTypeOK
<1>3. step = IF done = Len(flush.pending) THEN "ack" ELSE "send"
  OBVIOUS
<1> HIDE DEF done, step
<1>4. /\ moved \in FlushRow /\ moved.done = done /\ moved.pending = flush.pending
  BY <1>2 DEF FlushRow
<1> HIDE DEF moved
<1>5. /\ flush' \in FlushRow /\ flush'.done = done /\ flush'.pending = flush.pending
      /\ flush'.step = step
  BY <1>1, <1>2, <1>4 DEF FlushRow
<1>6. QED BY <1>1, <1>3, <1>5 DEF done

LEMMA InitTyped == Init => DeliveryTypeOK
<1> SUFFICES ASSUME Init PROVE DeliveryTypeOK
  OBVIOUS
<1>1. <<>> \in Seq(Item) /\ <<>> \in Seq(Row)
  BY EmptySeq
<1>2. NoExec \in Execution
  BY DEF NoExec, Execution
<1>3. NoFlush \in FlushRow
  BY <1>1 DEF NoFlush, FlushRow
<1>4. ASSUME NEW j \in Jobs
      PROVE  [lease |-> 0, granted |-> 0, ended |-> FALSE, prior |-> Prior[j], stored |-> <<>>]
               \in JobRow
  BY <1>1, DeliveryBounds DEF JobRow
<1>5. queue \in Seq(Item) /\ late \in SUBSET Seq(Item) /\ settled \in SUBSET Id
      /\ flush \in FlushRow /\ highest \in [Jobs -> Nat]
  BY <1>1, <1>3 DEF Init
<1>6. exec \in [Jobs -> [Leases -> Execution]]
  BY <1>2 DEF Init
<1>7. api \in [Jobs -> JobRow]
  BY <1>4 DEF Init
<1>8. QED BY <1>5, <1>6, <1>7 DEF DeliveryTypeOK

LEMMA NextTyped ==
  ASSUME DeliveryTypeOK, SentIsTaken, [Next]_vars
  PROVE  DeliveryTypeOK'
<1>1. ASSUME NEW j \in Jobs, Claim(j) PROVE DeliveryTypeOK'
  BY <1>1, Claiming DEF DeliveryTypeOK
<1>2. CASE ~\E j \in Jobs : Claim(j)
  <2>1. api' \in [Jobs -> JobRow]
    BY <1>2, RowSteps DEF RowsFollow
  <2>2. ASSUME NEW j \in Jobs, NEW l \in Leases, Emits(j, l) PROVE DeliveryTypeOK'
    <3>1. queue' \in Seq(Item)
      <4>1. CASE queue' = queue
        BY <4>1 DEF DeliveryTypeOK
      <4>2. ASSUME NEW e \in Item, queue' = Append(queue, e) PROVE queue' \in Seq(Item)
        BY <4>2, QueueFields, AppendProperties
      <4>3. QED BY <2>2, <4>1, <4>2 DEF Emits
    <3>2. QED BY <2>1, <2>2, <3>1 DEF Emits, DeliveryTypeOK
  <2>3. CASE FlushStart
    <3>1. exec' \in [Jobs -> [Leases -> Execution]]
      BY <2>3, WaitingIsCalm DEF FlushStart, FlushBegins, Calm
    <3>2. UNCHANGED <<queue, highest, late, settled>>
      BY <2>3 DEF FlushStart
    <3>3. QED BY <2>1, <2>3, <3>1, <3>2, Front DEF DeliveryTypeOK
  <2>4. CASE Delivered
    BY <2>1, <2>4, Delivering DEF DeliveryTypeOK
  <2>5. CASE Stops
    <3>1. exec' \in [Jobs -> [Leases -> Execution]] /\ queue' \in Seq(Item) /\ highest' = highest
      BY <2>5 DEF Stops, Calm, Thinned
    <3>2. flush' \in FlushRow
      <4>1. <<>> \in Seq(Item)
        BY EmptySeq
      <4>2. QED BY <2>5, <4>1 DEF Stops, NoFlush, FlushRow
    <3>3. late' \in SUBSET Seq(Item)
      BY <2>5, BatchIsNext DEF Stops, DeliveryTypeOK
    <3>4. settled' \in SUBSET Id
      <4>1. Settling \subseteq Id
        BY FlushFields, ItemFields DEF Settling, IdsOf
      <4>2. QED BY <2>5, <4>1 DEF Stops, DeliveryTypeOK
    <3>5. QED BY <2>1, <3>1, <3>2, <3>3, <3>4 DEF DeliveryTypeOK
  <2>6. CASE Elsewhere
    BY <2>1, <2>6 DEF Elsewhere, DeliveryTypeOK
  <2>7. QED BY <1>2, <2>2, <2>3, <2>4, <2>5, <2>6, StepKinds
<1>3. QED BY <1>1, <1>2

-----------------------------------------------------------------------------
(* What is taken stays taken.                                              *)

LEMMA CarriedFields ==
  ASSUME DeliveryTypeOK, SentIsTaken, NEW batch, Carried(batch)
  PROVE  /\ batch \in Seq(Item) /\ IdsOf(batch) \subseteq Known
         /\ batch = <<>> \/ OfOneKind(batch)
<1>1. CASE batch = <<>>
  <2>1. IdsOf(batch) = {}
    BY <1>1 DEF IdsOf
  <2>2. QED BY <1>1, <2>1, EmptySeq
<1>2. CASE flush.step = "send" /\ batch = Batch
  <2>1. /\ batch \in Seq(Item) /\ OfOneKind(batch) /\ Len(batch) \in Nat
        /\ flush.done + Len(batch) <= Len(flush.pending)
        /\ \A i \in 1..Len(batch) : batch[i] = flush.pending[flush.done + i]
    BY <1>2, BatchIsNext
  <2>2. ASSUME NEW i \in DOMAIN batch PROVE batch[i].id \in IdsOf(flush.pending)
    <3>1. i \in 1..Len(batch) /\ flush.done + i \in DOMAIN flush.pending
      BY <2>1, FlushFields, LenProperties
    <3>2. QED BY <2>1, <3>1 DEF IdsOf
  <2>3. IdsOf(batch) \subseteq IdsOf(flush.pending)
    <3>1. ASSUME NEW id \in IdsOf(batch) PROVE id \in IdsOf(flush.pending)
      <4>1. PICK i \in DOMAIN batch : id = batch[i].id
        BY DEF IdsOf
      <4>2. QED BY <2>2, <4>1
    <3>2. QED BY <3>1
  <2>4. QED BY <2>1, <2>3 DEF Known
<1>3. CASE batch \in late
  BY <1>3 DEF DeliveryTypeOK, SentIsTaken, Known
<1>4. QED BY <1>1, <1>2, <1>3 DEF Carried

\* What is stored stays stored.
LEMMA StoredStays ==
  ASSUME DeliveryTypeOK, SentIsTaken, [Next]_vars, NEW j \in Jobs
  PROVE  Stored(j) \subseteq Stored(j)'
<1>1. SUFFICES ASSUME NEW i \in DOMAIN api[j].stored
               PROVE  i \in DOMAIN api'[j].stored /\ api'[j].stored[i] = api[j].stored[i]
  BY DEF Stored
<1>2. CASE \E k \in Jobs : Claim(k)
  BY <1>2, Claiming
<1>3. ASSUME NEW batch, RowsFollow(batch)
      PROVE  i \in DOMAIN api'[j].stored /\ api'[j].stored[i] = api[j].stored[i]
  <2>1. api[j] \in JobRow /\ api'[j] \in JobRow /\ RowAfter(batch, j, api[j], api'[j])
    BY <1>3 DEF DeliveryTypeOK, RowsFollow
  <2>2. i \in 1..Len(api[j].stored) /\ DOMAIN api'[j].stored = 1..Len(api'[j].stored)
        /\ Len(api[j].stored) \in Nat /\ Len(api'[j].stored) \in Nat
    BY <2>1, RowFields
  <2>3. QED BY <2>1, <2>2 DEF RowAfter
<1>4. QED BY <1>2, <1>3, RowSteps

LEMMA TakenStays ==
  ASSUME DeliveryTypeOK, LeasesOnce, SentIsTaken, [Next]_vars, NEW id \in Known, IsTaken(id)
  PROVE  IsTaken(id)'
<1>1. id \in Id /\ id.job \in Jobs /\ id.lease \in Leases /\ id.lease <= api[id.job].granted
  BY KnownTyped DEF LeasesOnce, Id
<1>2. CASE IsEvent(id)
  BY <1>1, <1>2, StoredStays DEF IsTaken
<1>3. CASE ~IsEvent(id)
  <2>1. api[id.job] \in JobRow /\ id.lease \in Nat /\ id.lease # 0 /\ api[id.job].lease # id.lease
    BY <1>1, <1>3 DEF DeliveryTypeOK, Leases, IsTaken
  <2>2. api[id.job].granted \in Nat
    BY <2>1, RowFields
  <2>3. ASSUME NEW j \in Jobs, Claim(j) PROVE api'[id.job].lease # id.lease
    BY <1>1, <2>1, <2>2, <2>3, Claiming
  <2>4. ASSUME NEW batch, RowsFollow(batch) PROVE api'[id.job].lease # id.lease
    BY <1>1, <2>1, <2>4 DEF RowsFollow, RowAfter
  <2>5. QED BY <1>3, <2>3, <2>4, RowSteps DEF IsTaken
<1>4. QED BY <1>2, <1>3

\* What a step names was named before, or is of a lease that was granted.
LEMMA KnownSteps ==
  ASSUME DeliveryTypeOK, LeasesOnce, SentIsTaken, [Next]_vars, NEW id \in Known'
  PROVE  id.job \in Jobs /\ id.lease \in Leases /\ id.lease <= api[id.job].granted
<1> DEFINE Ok(x) == x.job \in Jobs /\ x.lease \in Leases /\ x.lease <= api[x.job].granted
<1>1. \A x \in Known : Ok(x)
  BY KnownTyped DEF LeasesOnce, Id
<1>2. /\ \A x \in IdsOf(queue) : Ok(x)
      /\ \A x \in IdsOf(flush.pending) : Ok(x)
      /\ \A x \in settled : Ok(x)
      /\ \A b \in late : \A x \in IdsOf(b) : Ok(x)
      /\ \A j \in Jobs : \A x \in Stored(j) : Ok(x)
  BY <1>1 DEF Known
<1>3. ASSUME NEW x \in IdsOf(queue)' PROVE Ok(x)
  <2>1. PICK i \in DOMAIN queue' : x = queue'[i].id
    BY DEF IdsOf
  <2>2. CASE queue' = queue
    BY <1>2, <2>1, <2>2 DEF IdsOf
  <2>3. ASSUME NEW j \in Jobs, NEW l \in Leases, Emits(j, l), NEW e \in Item,
               e.id.job = j, e.id.lease = l, queue' = Append(queue, e)
        PROVE  Ok(x)
    <3>1. l <= api[j].granted
      BY <2>3 DEF Emits, LeasesOnce
    <3>2. /\ DOMAIN queue' = 1..(Len(queue) + 1) /\ queue'[Len(queue) + 1] = e
          /\ \A k \in 1..Len(queue) : queue'[k] = queue[k]
      BY <2>3, QueueFields, AppendProperties, LenProperties
    <3>3. CASE i = Len(queue) + 1
      BY <2>1, <2>3, <3>1, <3>2, <3>3
    <3>4. CASE i # Len(queue) + 1
      <4>1. i \in DOMAIN queue /\ queue'[i] = queue[i]
        BY <3>2, <3>4, QueueFields
      <4>2. QED BY <1>2, <2>1, <4>1 DEF IdsOf
    <3>5. QED BY <3>3, <3>4
  <2>4. CASE Thinned
    <3>1. \E k \in DOMAIN queue : queue'[i].id = queue[k].id
      BY <2>4 DEF Thinned
    <3>2. QED BY <1>2, <2>1, <3>1 DEF IdsOf
  <2>5. (\E j \in Jobs, l \in Leases : Emits(j, l)) \/ queue' = queue \/ Thinned
    BY StepKinds, Claiming, Delivering DEF FlushStart, Stops, Elsewhere
  <2>6. QED BY <2>2, <2>3, <2>4, <2>5 DEF Emits
<1>4. ASSUME NEW x \in IdsOf(flush.pending)' PROVE Ok(x)
  <2>1. PICK n \in DOMAIN flush'.pending : x = flush'.pending[n].id
    BY DEF IdsOf
  <2>2. CASE flush'.pending = flush.pending
    BY <1>2, <2>1, <2>2 DEF IdsOf
  <2>3. CASE FlushStart
    <3>1. \E k \in DOMAIN queue : flush'.pending[n] = queue[k]
      BY <2>3, Front
    <3>2. QED BY <1>2, <2>1, <3>1 DEF IdsOf
  <2>4. CASE flush' = NoFlush
    BY <2>1, <2>4 DEF NoFlush
  <2>5. QED BY <2>2, <2>3, <2>4, StepKinds, Claiming, Delivering DEF Emits, Stops, Elsewhere
<1>5. ASSUME NEW b \in late', NEW x \in IdsOf(b) PROVE Ok(x)
  <2>1. CASE b \in late
    BY <1>2, <2>1
  <2>2. CASE flush.step = "send" /\ b = Batch
    BY <1>1, <2>2, CarriedFields DEF Carried
  <2>3. b \in late \/ (flush.step = "send" /\ b = Batch)
    BY StepKinds, Claiming, Delivering DEF FlushStart, Emits, Stops, Elsewhere
  <2>4. QED BY <2>1, <2>2, <2>3
<1>6. ASSUME NEW x \in settled' PROVE Ok(x)
  <2>1. settled' = settled \/ settled' = settled \cup IdsOf(flush.pending)
    BY StepKinds, Claiming, Delivering DEF FlushStart, Emits, Stops, Elsewhere, Settling
  <2>2. QED BY <1>2, <2>1
<1>7. ASSUME NEW j \in Jobs, NEW x \in Stored(j)' PROVE Ok(x)
  <2>1. PICK i \in DOMAIN api'[j].stored : x = api'[j].stored[i].id
    BY DEF Stored
  <2>2. CASE api'[j].stored = api[j].stored
    BY <1>2, <2>1, <2>2 DEF Stored
  <2>3. ASSUME NEW batch, Carried(batch), RowsFollow(batch) PROVE Ok(x)
    <3>1. api[j] \in JobRow /\ api'[j] \in JobRow /\ RowAfter(batch, j, api[j], api'[j])
      BY <2>3 DEF DeliveryTypeOK, RowsFollow
    <3>2. i \in 1..Len(api'[j].stored) /\ DOMAIN api[j].stored = 1..Len(api[j].stored)
          /\ Len(api[j].stored) \in Nat /\ Len(api'[j].stored) \in Nat
      BY <3>1, RowFields
    <3>3. CASE i <= Len(api[j].stored)
      <4>1. i \in DOMAIN api[j].stored /\ api'[j].stored[i] = api[j].stored[i]
        BY <3>1, <3>2, <3>3 DEF RowAfter
      <4>2. QED BY <1>2, <2>1, <4>1 DEF Stored
    <3>4. CASE ~(i <= Len(api[j].stored))
      <4>1. i \in (Len(api[j].stored) + 1)..Len(api'[j].stored)
        BY <3>2, <3>4
      <4>2. x \in IdsOf(batch)
        BY <2>1, <3>1, <4>1 DEF RowAfter
      <4>3. QED BY <1>1, <2>3, <4>2, CarriedFields
    <3>5. QED BY <3>3, <3>4
  <2>4. QED BY <2>2, <2>3, RowSteps, Claiming
<1> HIDE DEF Ok
<1>8. Ok(id)
  BY <1>3, <1>4, <1>5, <1>6, <1>7 DEF Known
<1>9. QED BY <1>8 DEF Ok

LEMMA NextLeases ==
  ASSUME DeliveryTypeOK, LeasesOnce, SentIsTaken, [Next]_vars
  PROVE  LeasesOnce'
<1>1. \A j \in Jobs : api[j].granted \in Nat /\ api[j].granted <= api'[j].granted
                      /\ api'[j].lease \in {0, api'[j].granted}
  <2>1. ASSUME NEW j \in Jobs
        PROVE  api[j].granted \in Nat /\ api[j].lease \in {0, api[j].granted}
    BY RowFields DEF DeliveryTypeOK, LeasesOnce
  <2>2. ASSUME NEW k \in Jobs, Claim(k), NEW j \in Jobs
        PROVE  api[j].granted <= api'[j].granted /\ api'[j].lease \in {0, api'[j].granted}
    BY <2>1, <2>2, Claiming
  <2>3. ASSUME NEW batch, RowsFollow(batch), NEW j \in Jobs
        PROVE  api[j].granted <= api'[j].granted /\ api'[j].lease \in {0, api'[j].granted}
    BY <2>1, <2>3 DEF RowsFollow, RowAfter
  <2>4. QED BY <2>1, <2>2, <2>3, RowSteps
<1>2. \A id \in Known' : id.lease <= api'[id.job].granted
  <2>1. ASSUME NEW id \in Known' PROVE id.lease <= api'[id.job].granted
    <3>1. id.job \in Jobs /\ id.lease <= api[id.job].granted /\ id.lease \in Nat
      BY KnownSteps DEF Leases
    <3>2. api'[id.job].granted \in Nat
      BY <3>1, NextTyped, RowFields DEF DeliveryTypeOK
    <3>3. QED BY <1>1, <3>1, <3>2
  <2>2. QED BY <2>1
<1>3. ASSUME NEW j \in Jobs, NEW l \in Leases, exec'[j][l].step # "none"
      PROVE  l <= api'[j].granted
  <2>1. CASE exec[j][l].step # "none"
    <3>1. l <= api[j].granted /\ l \in Nat /\ api'[j].granted \in Nat
      BY <2>1, NextTyped, RowFields DEF LeasesOnce, DeliveryTypeOK, Leases
    <3>2. QED BY <1>1, <3>1
  <2>2. CASE exec[j][l].step = "none"
    <3>1. \E k \in Jobs : Claim(k)
      BY <1>3, <2>2, StepKinds, Delivering, WaitingIsCalm
      DEF FlushStart, FlushBegins, Emits, Stops, Elsewhere, Calm
    <3>2. PICK k \in Jobs : Claim(k)
      BY <3>1
    <3>3. k = j /\ l = api[j].granted + 1
      BY <1>3, <2>2, <3>2, Claiming
    <3>4. api'[j].granted = l
      BY <3>2, <3>3, Claiming
    <3>5. QED BY <3>4 DEF Leases
  <2>3. QED BY <2>1, <2>2
<1>4. QED BY <1>1, <1>2, <1>3 DEF LeasesOnce

LEMMA NextTaken ==
  ASSUME DeliveryTypeOK, LeasesOnce, SentIsTaken, [Next]_vars
  PROVE  SentIsTaken'
<1>1. \A n \in 1..flush.done : n \in DOMAIN flush.pending
  BY FlushFields DEF SentIsTaken
<1>2. \A id \in Known : IsTaken(id) => IsTaken(id)'
  BY TakenStays
<1>3. /\ \A n \in 1..flush.done : IsTaken(flush.pending[n].id) /\ flush.pending[n].id \in Known
      /\ \A id \in settled : IsTaken(id) /\ id \in Known
      /\ \A batch \in late : OfOneKind(batch)
  BY <1>1 DEF Known, IdsOf, SentIsTaken
<1>4. CASE UNCHANGED <<flush, settled>> /\ late' \subseteq late
  <2>1. \A n \in 1..flush.done : IsTaken(flush.pending[n].id)'
    <3>1. ASSUME NEW n \in 1..flush.done PROVE IsTaken(flush.pending[n].id)'
      <4>1. PICK id : id = flush.pending[n].id
        OBVIOUS
      <4>2. IsTaken(id)' /\ id = flush'.pending[n].id
        BY <1>2, <1>3, <1>4, <4>1
      <4>3. QED BY <4>2 DEF IsTaken, Stored
    <3>2. QED BY <3>1
  <2>2. QED BY <1>2, <1>3, <1>4, <2>1 DEF SentIsTaken
<1>5. CASE FlushStart
  <2>1. UNCHANGED <<settled, late>>
    BY <1>5 DEF FlushStart
  <2>2. 1..flush'.done = {}
    BY <1>5, Front
  <2>3. QED BY <1>2, <1>3, <1>5, <2>1, <2>2, Front DEF SentIsTaken
<1>6. CASE Delivered
  <2>1. PICK batch : batch = Batch
    OBVIOUS
  <2>2. /\ batch \in Seq(Item) /\ OfOneKind(batch) /\ Len(batch) \in Nat \ {0}
        /\ flush.done + Len(batch) <= Len(flush.pending)
        /\ \A i \in 1..Len(batch) : batch[i] = flush.pending[flush.done + i]
    BY <1>6, <2>1, Delivering, BatchIsNext
  <2>3. /\ flush'.pending = flush.pending /\ flush'.done = flush.done + Len(batch)
        /\ flush'.step = IF flush'.done = Len(flush.pending) THEN "ack" ELSE "send"
        /\ UNCHANGED <<late, settled>>
    BY <1>6, <2>1, Delivering
  <2>4. \A id \in IdsOf(batch) : IsTaken(id)'
    BY <1>6, <2>1, <2>2, Delivering, Handling
  <2>5. ASSUME NEW n \in 1..flush'.done PROVE IsTaken(flush.pending[n].id)'
    <3>1. PICK id : id = flush.pending[n].id
      OBVIOUS
    <3>2. CASE n <= flush.done
      <4>1. n \in 1..flush.done
        BY <2>2, <2>3, <3>2, FlushFields
      <4>2. IsTaken(id)' /\ id = flush'.pending[n].id
        BY <1>2, <1>3, <2>3, <3>1, <4>1
      <4>3. QED BY <4>2 DEF IsTaken, Stored
    <3>3. CASE ~(n <= flush.done)
      <4>1. n - flush.done \in 1..Len(batch) /\ flush.done + (n - flush.done) = n
        BY <2>2, <2>3, <3>3, FlushFields
      <4>2. n - flush.done \in DOMAIN batch /\ batch[n - flush.done] = flush.pending[n]
        BY <2>2, <4>1, LenProperties
      <4>3. id \in IdsOf(batch) /\ id = flush'.pending[n].id
        BY <2>3, <3>1, <4>2 DEF IdsOf
      <4>4. QED BY <2>4, <4>3 DEF IsTaken, Stored
    <3>4. QED BY <3>2, <3>3
  <2>6. \A n \in 1..flush'.done : IsTaken(flush.pending[n].id)'
    BY <2>5
  <2>7. /\ flush'.step = "idle" => flush'.done = 0
        /\ flush'.step = "send" => flush'.done < Len(flush'.pending)
        /\ flush'.step = "ack" => flush'.done = Len(flush'.pending)
    BY <2>2, <2>3, FlushFields
  <2>8. QED BY <1>2, <1>3, <2>3, <2>6, <2>7 DEF SentIsTaken
<1>7. CASE Stops
  <2>1. flush'.step = "idle" /\ flush'.done = 0
    BY <1>7 DEF Stops, NoFlush
  <2>2. 1..flush'.done = {}
    BY <2>1
  <2>3. \A batch \in late' : OfOneKind(batch)
    BY <1>3, <1>7, BatchIsNext DEF Stops
  <2>4. \A id \in settled' : IsTaken(id)'
    <3>1. CASE settled' = settled
      BY <1>2, <1>3, <3>1
    <3>2. CASE flush.step = "ack" /\ settled' = settled \cup Settling
      <4>1. ASSUME NEW id \in Settling PROVE IsTaken(id)'
        <5>1. PICK n \in DOMAIN flush.pending : id = flush.pending[n].id
          BY DEF Settling, IdsOf
        <5>2. n \in 1..flush.done
          BY <3>2, FlushFields DEF SentIsTaken
        <5>3. QED BY <1>2, <1>3, <5>1, <5>2
      <4>2. QED BY <1>2, <1>3, <3>2, <4>1
    <3>3. QED BY <1>7, <3>1, <3>2 DEF Stops
  <2>5. QED BY <2>1, <2>2, <2>3, <2>4 DEF SentIsTaken
<1>8. QED
  BY <1>4, <1>5, <1>6, <1>7, StepKinds, Claiming DEF Emits, Elsewhere

LEMMA InitTaken == Init => LeasesOnce /\ SentIsTaken
<1> SUFFICES ASSUME Init PROVE LeasesOnce /\ SentIsTaken
  OBVIOUS
<1>1. /\ queue = <<>> /\ flush.pending = <<>> /\ flush.step = "idle" /\ flush.done = 0
      /\ late = {} /\ settled = {}
      /\ \A j \in Jobs : /\ api[j].lease = 0 /\ api[j].granted = 0 /\ api[j].stored = <<>>
                         /\ \A l \in Leases : exec[j][l].step = "none"
  BY DEF Init, NoFlush, NoExec
<1>2. IdsOf(queue) = {} /\ IdsOf(flush.pending) = {} /\ \A j \in Jobs : Stored(j) = {}
  BY <1>1 DEF IdsOf, Stored
<1>3. Known = {}
  BY <1>1, <1>2 DEF Known
<1>4. QED BY <1>1, <1>3 DEF LeasesOnce, SentIsTaken

\* The strengthening that AckedWereTaken needs: leases are granted once, and a flush counts as
\* sent only what the API took.
DeliveryInv == DeliveryTypeOK /\ LeasesOnce /\ SentIsTaken

LEMMA AlwaysTaken == Spec => []DeliveryInv
<1>1. Init => DeliveryInv
  BY InitTyped, InitTaken DEF DeliveryInv
<1>2. DeliveryInv /\ [Next]_vars => DeliveryInv'
  BY NextTyped, NextLeases, NextTaken DEF DeliveryInv
<1>3. QED BY <1>1, <1>2, PTL DEF Spec

\* Nothing is forgotten before it is taken: an acknowledged event is stored, and the lease of an
\* acknowledged completion is over, whatever is lost, late or sent twice, and whether or not a
\* job is executed twice at a time.
THEOREM NothingForgotten == Spec => []AckedWereTaken
<1>1. DeliveryInv => AckedWereTaken
  BY DEF DeliveryInv, SentIsTaken, IsTaken, AckedWereTaken
<1>2. QED BY <1>1, AlwaysTaken, PTL

-----------------------------------------------------------------------------
(* A completion comes after the events of its lease.                       *)

\* An entry that joins the queue is its last.
LEMMA Joining ==
  ASSUME DeliveryTypeOK, NEW e \in Item, queue' = Append(queue, e)
  PROVE  /\ DOMAIN queue' = 1..(Len(queue) + 1) /\ queue'[Len(queue) + 1] = e
         /\ \A i \in DOMAIN queue' :
              i = Len(queue) + 1 \/ (i \in DOMAIN queue /\ queue'[i] = queue[i])
         /\ \A i \in DOMAIN queue : i \in DOMAIN queue' /\ i < Len(queue) + 1 /\ queue'[i] = queue[i]
<1>1. /\ queue' \in Seq(Item) /\ Len(queue') = Len(queue) + 1
      /\ \A i \in 1..Len(queue) : queue'[i] = queue[i]
      /\ queue'[Len(queue) + 1] = e
  BY QueueFields, AppendProperties
<1>2. DOMAIN queue' = 1..(Len(queue) + 1)
  BY <1>1, LenProperties
<1>3. QED BY <1>1, <1>2, QueueFields

LEMMA NextFront ==
  ASSUME DeliveryTypeOK, SentIsTaken, PendingIsFront, CompletionIsLast, [Next]_vars
  PROVE  PendingIsFront'
<1>1. CASE queue' = queue /\ flush'.pending = flush.pending
  BY <1>1 DEF PendingIsFront
<1>2. ASSUME NEW e \in Item, queue' = Append(queue, e), e.id \notin IdsOf(queue),
             flush' = flush
      PROVE  PendingIsFront'
  <2>1. ASSUME NEW n \in DOMAIN flush.pending
        PROVE  \E i \in DOMAIN queue' : queue'[i] = flush.pending[n]
    <3>1. PICK i \in DOMAIN queue : queue[i] = flush.pending[n]
      BY DEF PendingIsFront
    <3>2. QED BY <1>2, <3>1, Joining
  <2>2. ASSUME NEW n \in DOMAIN flush.pending, NEW i \in DOMAIN queue', NEW k \in DOMAIN queue',
               queue'[k] = flush.pending[n], i < k, ~queue'[i].dead
        PROVE  \E m \in DOMAIN flush.pending : flush.pending[m] = queue'[i]
    <3>1. flush.pending[n].id \in IdsOf(queue)
      BY DEF PendingIsFront, IdsOf
    <3>2. k # Len(queue) + 1
      BY <1>2, <2>2, <3>1, Joining
    <3>3. k \in DOMAIN queue /\ queue'[k] = queue[k]
      BY <1>2, <3>2, Joining
    <3>4. i # Len(queue) + 1
      BY <1>2, <2>2, <3>3, Joining, QueueFields
    <3>5. i \in DOMAIN queue /\ queue'[i] = queue[i]
      BY <1>2, <3>4, Joining
    <3>6. QED BY <2>2, <3>3, <3>5 DEF PendingIsFront
  <2>3. QED BY <1>2, <2>1, <2>2 DEF PendingIsFront
<1>3. CASE FlushStart
  <2>1. queue' = queue
    BY <1>3 DEF FlushStart
  <2>2. PICK h \in [DOMAIN flush'.pending -> DOMAIN queue] :
          /\ \A n \in DOMAIN flush'.pending : flush'.pending[n] = queue[h[n]]
          /\ \A n \in DOMAIN flush'.pending : \A i \in DOMAIN queue :
               i < h[n] /\ ~queue[i].dead => \E m \in DOMAIN flush'.pending : h[m] = i
    BY <1>3, Front
  <2>3. ASSUME NEW n \in DOMAIN flush'.pending, NEW i \in DOMAIN queue, NEW k \in DOMAIN queue,
               queue[k] = flush'.pending[n], i < k, ~queue[i].dead
        PROVE  \E m \in DOMAIN flush'.pending : flush'.pending[m] = queue[i]
    <3>1. k = h[n]
      BY <2>2, <2>3 DEF CompletionIsLast
    <3>2. PICK m \in DOMAIN flush'.pending : h[m] = i
      BY <2>2, <2>3, <3>1
    <3>3. QED BY <2>2, <3>2
  <2>4. QED BY <2>1, <2>2, <2>3 DEF PendingIsFront
<1>4. CASE flush' = NoFlush
  BY <1>4 DEF NoFlush, PendingIsFront
<1>5. QED
  BY <1>1, <1>2, <1>3, <1>4, StepKinds, Claiming, Delivering DEF Emits, Stops, Elsewhere

\* An execution that is over stays over.
LEMMA OverStays ==
  ASSUME DeliveryTypeOK, LeasesOnce, SentIsTaken, [Next]_vars, NEW id \in Known, Over(id)
  PROVE  Over(id)'
<1>1. id.job \in Jobs /\ id.lease \in Leases /\ id.lease <= api[id.job].granted
  BY KnownTyped DEF LeasesOnce, Id
<1>2. ASSUME NEW j \in Jobs, Claim(j) PROVE Over(id)'
  <2>1. id.lease # api[id.job].granted + 1
    <3>1. id.lease \in Nat /\ api[id.job].granted \in Nat
      BY <1>1, RowFields DEF DeliveryTypeOK, Leases
    <3>2. QED BY <1>1, <3>1
  <2>2. exec'[id.job][id.lease] = exec[id.job][id.lease]
    BY <1>1, <1>2, <2>1, Claiming
  <2>3. QED BY <2>2 DEF Over
<1>3. ASSUME NEW j \in Jobs, NEW l \in Leases, Emits(j, l) PROVE Over(id)'
  <2>1. id.job # j \/ id.lease # l
    BY <1>3 DEF Emits, Over
  <2>2. exec'[id.job][id.lease] = exec[id.job][id.lease]
    BY <1>1, <1>3, <2>1 DEF Emits
  <2>3. QED BY <2>2 DEF Over
<1>4. CASE Calm
  BY <1>1, <1>4 DEF Calm, Over
<1>5. CASE exec' = exec
  BY <1>5 DEF Over
<1>6. FlushStart => Calm
  BY WaitingIsCalm DEF FlushStart, FlushBegins
<1>7. QED BY <1>2, <1>3, <1>4, <1>5, <1>6, StepKinds, Delivering DEF Stops, Elsewhere

\* What is settled was in the queue.
LEMMA SettlesQueued ==
  ASSUME PendingIsFront
  PROVE  Settling \subseteq IdsOf(queue)
  BY DEF PendingIsFront, Settling, IdsOf

LEMMA NextLast ==
  ASSUME DeliveryTypeOK, LeasesOnce, SentIsTaken, PendingIsFront, CompletionIsLast, [Next]_vars
  PROVE  CompletionIsLast'
<1>1. \A id \in IdsOf(queue) \cup settled : ~IsEvent(id) => Over(id)'
  BY OverStays DEF CompletionIsLast, Known
<1>2. settled' \subseteq settled \cup IdsOf(queue)
  BY StepKinds, Claiming, Delivering, SettlesQueued DEF FlushStart, Emits, Stops, Elsewhere
<1>3. CASE Thinned
  <2>1. PICK h \in [DOMAIN queue' -> DOMAIN queue] :
          /\ \A i, k \in DOMAIN queue' : i < k => h[i] < h[k]
          /\ \A i \in DOMAIN queue' : queue'[i].id = queue[h[i]].id
    BY <1>3 DEF Thinned
  <2>2. queue' \in Seq(Item) /\ DOMAIN queue' \subseteq Nat /\ DOMAIN queue \subseteq Nat
    BY <1>3, LenProperties, QueueFields DEF Thinned
  <2>3. ASSUME NEW i \in DOMAIN queue', NEW k \in DOMAIN queue', queue'[i].id = queue'[k].id
        PROVE  i = k
    <3>1. h[i] = h[k]
      BY <2>1, <2>3 DEF CompletionIsLast
    <3>2. ~(i < k) /\ ~(k < i)
      BY <2>1, <2>2, <3>1
    <3>3. QED BY <2>2, <3>2
  <2>4. IdsOf(queue)' \subseteq IdsOf(queue)
    BY <2>1 DEF IdsOf
  <2>5. ASSUME NEW i \in DOMAIN queue', NEW k \in DOMAIN queue',
               IsEvent(queue'[i].id), ~IsEvent(queue'[k].id),
               SameLease(queue'[i].id, queue'[k].id)
        PROVE  i < k
    <3>1. h[i] < h[k]
      BY <2>1, <2>5 DEF CompletionIsLast
    <3>2. ~(k < i) /\ i # k
      BY <2>1, <2>2, <2>5, <3>1
    <3>3. QED BY <2>2, <3>2
  <2>6. \A id \in IdsOf(queue)' \cup settled' : ~IsEvent(id) => Over(id)'
    BY <1>1, <1>2, <2>4
  <2>7. QED BY <2>3, <2>5, <2>6 DEF CompletionIsLast
<1>4. ASSUME NEW j \in Jobs, NEW l \in Leases, Emits(j, l), NEW e \in Item,
             e.id.job = j, e.id.lease = l, e.id \notin IdsOf(queue), queue' = Append(queue, e),
             IsEvent(e.id) \/ exec'[j][l].step = "done"
      PROVE  CompletionIsLast'
  <2>1. \A i \in DOMAIN queue : queue[i].id \in IdsOf(queue)
    BY DEF IdsOf
  <2>2. ASSUME NEW i \in DOMAIN queue', NEW k \in DOMAIN queue', queue'[i].id = queue'[k].id
        PROVE  i = k
    BY <1>4, <2>1, <2>2, Joining DEF CompletionIsLast
  <2>3. IdsOf(queue)' \subseteq IdsOf(queue) \cup {e.id}
    BY <1>4, <2>1, Joining DEF IdsOf
  <2>4. ~IsEvent(e.id) => Over(e.id)'
    BY <1>4 DEF Over
  <2>5. \A id \in IdsOf(queue)' \cup settled' : ~IsEvent(id) => Over(id)'
    BY <1>1, <1>2, <2>3, <2>4
  <2>6. ASSUME NEW i \in DOMAIN queue', NEW k \in DOMAIN queue',
               IsEvent(queue'[i].id), ~IsEvent(queue'[k].id),
               SameLease(queue'[i].id, queue'[k].id)
        PROVE  i < k
    <3>1. CASE i \in DOMAIN queue /\ queue'[i] = queue[i]
      BY <1>4, <2>6, <3>1, Joining DEF CompletionIsLast
    <3>2. CASE i = Len(queue) + 1
      <4>1. queue'[i] = e /\ k # i
        BY <1>4, <2>6, <3>2, Joining
      <4>2. k \in DOMAIN queue /\ queue'[k] = queue[k]
        BY <1>4, <3>2, <4>1, Joining
      <4>3. Over(queue[k].id) /\ queue[k].id.job = j /\ queue[k].id.lease = l
        BY <1>4, <2>1, <2>6, <4>1, <4>2 DEF CompletionIsLast, SameLease
      <4>4. FALSE
        BY <1>4, <4>3 DEF Over, Emits
      <4>5. QED BY <4>4
    <3>3. QED BY <1>4, <3>1, <3>2, Joining
  <2>7. QED BY <2>2, <2>5, <2>6 DEF CompletionIsLast
<1>5. CASE queue' = queue
  BY <1>3, <1>5, SameIsThinned
<1>6. QED
  BY <1>3, <1>4, <1>5, StepKinds, Claiming, Delivering DEF FlushStart, Emits, Stops, Elsewhere

LEMMA NextAfter ==
  ASSUME DeliveryTypeOK, LeasesOnce, SentIsTaken, PendingIsFront, CompletionIsLast,
         CompletionAfterEvents, [Next]_vars
  PROVE  CompletionAfterEvents'
<1> SUFFICES ASSUME NEW id \in settled', ~IsEvent(id), NEW i \in DOMAIN queue',
                    SameLease(queue'[i].id, id), IsEvent(queue'[i].id)
             PROVE  queue'[i].dead \/ queue'[i].id \in Stored(id.job)'
  BY DEF CompletionAfterEvents, Entries, IsEvent, SameLease
<1>1. id \in Known
  BY StepKinds, Claiming, Delivering DEF FlushStart, Emits, Stops, Elsewhere, Settling, Known
<1>2. id.job \in Jobs /\ Stored(id.job) \subseteq Stored(id.job)'
  BY <1>1, KnownTyped, StoredStays DEF Id
<1>3. ASSUME id \in settled, NEW k \in DOMAIN queue, queue[k].id = queue'[i].id,
             queue[k].dead => queue'[i].dead
      PROVE  queue'[i].dead \/ queue'[i].id \in Stored(id.job)'
  <2>1. queue[k] \in Item /\ queue[k].id.kind \in {"event", "terminal"}
    BY <1>3, QueueFields, ItemFields DEF IsEvent, Kinds
  <2>2. k \in Entries(id.job, id.lease, {"event", "terminal"})
    BY <1>3, <2>1 DEF Entries, SameLease
  <2>3. queue[k].dead \/ queue[k].id \in Stored(id.job)
    BY <1>3, <2>2 DEF CompletionAfterEvents
  <2>4. QED BY <1>2, <1>3, <2>3
<1>4. CASE Thinned
  <2>1. PICK h \in [DOMAIN queue' -> DOMAIN queue] :
          \A m \in DOMAIN queue' : /\ queue'[m].id = queue[h[m]].id
                                   /\ queue[h[m]].dead => queue'[m].dead
    BY <1>4 DEF Thinned
  <2>2. CASE id \in settled
    BY <1>3, <2>1, <2>2
  <2>3. CASE id \notin settled
    <3>1. id \in Settling /\ queue'[i].id \notin Settling
      BY <2>3, StepKinds, Claiming, Delivering DEF FlushStart, Emits, Stops, Elsewhere
    <3>2. PICK n \in DOMAIN flush.pending : id = flush.pending[n].id
      BY <3>1 DEF Settling, IdsOf
    <3>3. PICK k \in DOMAIN queue : queue[k] = flush.pending[n]
      BY DEF PendingIsFront
    <3>4. h[i] \in DOMAIN queue /\ h[i] < k
      BY <2>1, <3>2, <3>3 DEF CompletionIsLast
    <3>5. ASSUME ~queue[h[i]].dead PROVE FALSE
      <4>1. PICK m \in DOMAIN flush.pending : flush.pending[m] = queue[h[i]]
        BY <3>3, <3>4, <3>5 DEF PendingIsFront
      <4>2. queue'[i].id \in Settling
        BY <2>1, <4>1 DEF Settling, IdsOf
      <4>3. QED BY <3>1, <4>2
    <3>6. QED BY <2>1, <3>5
  <2>4. QED BY <2>2, <2>3
<1>5. ASSUME NEW j \in Jobs, NEW l \in Leases, Emits(j, l), NEW e \in Item,
             e.id.job = j, e.id.lease = l, queue' = Append(queue, e)
      PROVE  queue'[i].dead \/ queue'[i].id \in Stored(id.job)'
  <2>1. id \in settled
    BY <1>5 DEF Emits
  <2>2. CASE i \in DOMAIN queue /\ queue'[i] = queue[i]
    BY <1>3, <2>1, <2>2
  <2>3. CASE i = Len(queue) + 1
    <3>1. id.job = j /\ id.lease = l
      BY <1>5, <2>3, Joining DEF SameLease
    <3>2. Over(id)
      BY <2>1 DEF CompletionIsLast
    <3>3. FALSE
      BY <1>5, <3>1, <3>2 DEF Over, Emits
    <3>4. QED BY <3>3
  <2>4. QED BY <1>5, <2>2, <2>3, Joining
<1>6. CASE queue' = queue
  BY <1>4, <1>6, SameIsThinned
<1>7. QED
  BY <1>4, <1>5, <1>6, StepKinds, Claiming, Delivering DEF FlushStart, Emits, Stops, Elsewhere

\* What is being sent is the front of the queue, in which a completion is the last entry of its
\* lease.
OrderInv == PendingIsFront /\ CompletionIsLast /\ CompletionAfterEvents

LEMMA AlwaysOrdered == Spec => [](DeliveryInv /\ OrderInv)
<1>1. Init => OrderInv
  <2> SUFFICES ASSUME Init PROVE OrderInv
    OBVIOUS
  <2>1. queue = <<>> /\ flush.pending = <<>> /\ settled = {}
    BY DEF Init, NoFlush
  <2>2. IdsOf(queue) = {}
    BY <2>1 DEF IdsOf
  <2>3. QED
    BY <2>1, <2>2 DEF OrderInv, PendingIsFront, CompletionIsLast, CompletionAfterEvents
<1>2. DeliveryInv /\ OrderInv /\ [Next]_vars => OrderInv'
  BY NextFront, NextLast, NextAfter DEF DeliveryInv, OrderInv
<1>3. QED BY <1>1, <1>2, AlwaysTaken, PTL DEF Spec

\* A completion that is settled leaves no event of its lease behind that could still be sent,
\* though batches are cut, given up and sent again and the runner restarts.
THEOREM CompletionComesLast == Spec => []CompletionAfterEvents
<1>1. DeliveryInv /\ OrderInv => CompletionAfterEvents
  BY DEF OrderInv
<1>2. QED BY <1>1, AlwaysOrdered, PTL

-----------------------------------------------------------------------------
(* The numbers and the leases of what is stored.                           *)

\* A stored row was there before, or is an event of the batch being handled: of the batch's job,
\* and sent under the lease that job holds.
LEMMA StoredRows ==
  ASSUME DeliveryTypeOK, SentIsTaken, NEW batch, Carried(batch), RowsFollow(batch),
         NEW j \in Jobs, NEW i \in DOMAIN api'[j].stored
  PROVE  \/ i \in DOMAIN api[j].stored /\ api'[j].stored[i] = api[j].stored[i]
         \/ /\ api'[j].stored[i].id.seq = api[j].prior + i
            /\ api'[j].stored[i].under = api[j].lease /\ api[j].lease = batch[1].id.lease
            /\ batch # <<>> /\ batch[1].id.job = j
            /\ \E m \in DOMAIN batch : api'[j].stored[i].id = batch[m].id /\ batch[m].id.job = j
<1>1. api[j] \in JobRow /\ api'[j] \in JobRow /\ RowAfter(batch, j, api[j], api'[j])
  BY DEF DeliveryTypeOK, RowsFollow
<1>2. /\ i \in 1..Len(api'[j].stored) /\ DOMAIN api[j].stored = 1..Len(api[j].stored)
      /\ Len(api[j].stored) \in Nat /\ Len(api'[j].stored) \in Nat
  BY <1>1, RowFields
<1>3. CASE i <= Len(api[j].stored)
  BY <1>1, <1>2, <1>3 DEF RowAfter
<1>4. CASE ~(i <= Len(api[j].stored))
  <2>1. i \in (Len(api[j].stored) + 1)..Len(api'[j].stored)
    BY <1>2, <1>4
  <2>2. /\ api'[j].stored[i].id \in IdsOf(batch)
        /\ api'[j].stored[i].id.seq = api[j].prior + i
        /\ api'[j].stored[i].under = batch[1].id.lease
        /\ j = batch[1].id.job /\ api[j].lease = batch[1].id.lease
    BY <1>1, <2>1 DEF RowAfter
  <2>3. PICK m \in DOMAIN batch : api'[j].stored[i].id = batch[m].id
    BY <2>2 DEF IdsOf
  <2>4. batch # <<>> /\ OfOneKind(batch) /\ DOMAIN batch = 1..Len(batch)
    BY <2>3, CarriedFields, LenProperties
  <2>5. batch[m].id.job = batch[1].id.job
    BY <2>3, <2>4 DEF OfOneKind
  <2>6. QED BY <2>2, <2>3, <2>4, <2>5
<1>5. QED BY <1>3, <1>4

LEMMA NextNumbers ==
  ASSUME DeliveryTypeOK, SentIsTaken, NumbersFollow, [Next]_vars
  PROVE  NumbersFollow'
<1>1. ASSUME NEW k \in Jobs, Claim(k) PROVE NumbersFollow'
  BY <1>1, Claiming DEF NumbersFollow
<1>2. ASSUME NEW batch, Carried(batch), RowsFollow(batch) PROVE NumbersFollow'
  <2>1. ASSUME NEW j \in Jobs, NEW i \in DOMAIN api'[j].stored
        PROVE  /\ api'[j].stored[i].id.job = j
               /\ api'[j].stored[i].id.seq = api'[j].prior + i
    <3>1. api'[j].prior = api[j].prior
      BY <1>2 DEF RowsFollow, RowAfter
    <3>2. QED BY <1>2, <3>1, StoredRows DEF NumbersFollow
  <2>2. QED BY <2>1 DEF NumbersFollow
<1>3. QED BY <1>1, <1>2, RowSteps

LEMMA AlwaysNumbered == Spec => [](DeliveryInv /\ NumbersFollow)
<1>1. Init => NumbersFollow
  <2> SUFFICES ASSUME Init, NEW j \in Jobs PROVE DOMAIN api[j].stored = {}
    BY DEF NumbersFollow
  <2>1. QED BY DEF Init
<1>2. DeliveryInv /\ NumbersFollow /\ [Next]_vars => NumbersFollow'
  BY NextNumbers DEF DeliveryInv
<1>3. QED BY <1>1, <1>2, AlwaysTaken, PTL DEF Spec

\* The numbers of a run's events have no hole, no duplicate and no swapped pair, although batches
\* are sent again, come late and overtake each other, and whether or not a job is executed twice
\* at a time.
THEOREM NumbersHaveNoHole == Spec => []NumbersFollow
BY AlwaysNumbered, PTL

\* Every request is in the order in which its entries were spooled.
LEMMA BatchesInOrder ==
  ASSUME DeliveryTypeOK, SentIsTaken, OneExecution, NEW batch, Carried(batch)
  PROVE  InLeaseOrder(batch)
<1>1. CASE batch = <<>>
  BY <1>1 DEF InLeaseOrder
<1>2. CASE flush.step = "send" /\ batch = Batch
  <2>1. /\ batch \in Seq(Item) /\ Len(batch) \in Nat /\ DOMAIN batch = 1..Len(batch)
        /\ flush.done + Len(batch) <= Len(flush.pending)
        /\ \A i \in 1..Len(batch) : batch[i] = flush.pending[flush.done + i]
    BY <1>2, BatchIsNext, LenProperties
  <2>2. ASSUME NEW i \in DOMAIN batch, NEW k \in DOMAIN batch, i < k
        PROVE  /\ flush.done + i \in DOMAIN flush.pending /\ flush.done + k \in DOMAIN flush.pending
               /\ flush.done + i < flush.done + k
    BY <2>1, <2>2, FlushFields
  <2>3. InLeaseOrder(flush.pending)
    BY DEF OneExecution
  <2>4. QED BY <2>1, <2>2, <2>3 DEF InLeaseOrder
<1>3. CASE batch \in late
  BY <1>3 DEF OneExecution
<1>4. QED BY <1>1, <1>2, <1>3 DEF Carried

\* Entries sent under the lease that the job holds are all of that lease: an earlier one comes
\* first in the batch, and none is later.
LEMMA HeadLeaseIsAll ==
  ASSUME DeliveryTypeOK, LeasesOnce, SentIsTaken, OneExecution, NEW batch, Carried(batch),
         NEW j \in Jobs, batch # <<>>, batch[1].id.job = j, api[j].lease = batch[1].id.lease,
         NEW m \in DOMAIN batch, batch[m].id.job = j
  PROVE  batch[m].id.lease = api[j].lease /\ api[j].lease = api[j].granted
<1>1. batch \in Seq(Item) /\ IdsOf(batch) \subseteq Known /\ DOMAIN batch = 1..Len(batch)
      /\ Len(batch) \in Nat
  BY CarriedFields, LenProperties
<1>2. 1 \in DOMAIN batch /\ m \in Nat /\ 1 <= m
  BY <1>1
<1>3. batch[1] \in Item /\ batch[m] \in Item
  BY <1>1, <1>2, ElementOfSeq
<1>4. batch[1].id.lease \in Nat \ {0} /\ batch[m].id.lease \in Nat
  BY <1>3, ItemFields DEF Leases
<1>5. api[j].lease = api[j].granted
  BY <1>4 DEF LeasesOnce
<1>6. batch[m].id.lease <= api[j].granted
  BY <1>1 DEF LeasesOnce, IdsOf
<1>7. batch[1].id.lease <= batch[m].id.lease
  <2>1. CASE m = 1
    BY <1>4, <2>1
  <2>2. CASE m # 1
    BY <1>2, <2>2, BatchesInOrder DEF InLeaseOrder
  <2>3. QED BY <2>1, <2>2
<1>8. QED BY <1>4, <1>5, <1>6, <1>7

-----------------------------------------------------------------------------
(* Where no job is executed twice at a time, leases follow one another.    *)

\* A step that runs no execution further leaves running only what ran.
LEMMA RunningStays ==
  ASSUME OneExecution, Calm \/ exec' = exec, \A j \in Jobs : api'[j].granted = api[j].granted
  PROVE  \A j \in Jobs, l \in Leases : exec'[j][l].step \notin {"none", "done"} => l = api'[j].granted
  BY DEF OneExecution, Calm

LEMMA ThinnedInOrder ==
  ASSUME DeliveryTypeOK, InLeaseOrder(queue), Thinned
  PROVE  InLeaseOrder(queue')
<1>1. PICK h \in [DOMAIN queue' -> DOMAIN queue] :
        /\ \A i, k \in DOMAIN queue' : i < k => h[i] < h[k]
        /\ \A i \in DOMAIN queue' : queue'[i].id = queue[h[i]].id
  BY DEF Thinned
<1>2. QED BY <1>1 DEF InLeaseOrder

LEMMA NextOne ==
  ASSUME Rejoin = FALSE, DeliveryTypeOK, LeasesOnce, SentIsTaken, OneExecution, [Next]_vars
  PROVE  OneExecution'
<1>1. ASSUME NEW j \in Jobs, Claim(j) PROVE OneExecution'
  <2>1. /\ api'[j].granted = api[j].granted + 1
        /\ \A k \in Jobs : k # j => api'[k] = api[k]
        /\ \A k \in Jobs, m \in Leases : k # j \/ m # api[j].granted + 1 => exec'[k][m] = exec[k][m]
        /\ UNCHANGED <<queue, flush, late>>
    BY <1>1, Claiming
  <2>2. \A l \in Leases : exec[j][l].step \in {"none", "done"}
    BY <1>1 DEF Claim, Executing
  <2>3. ASSUME NEW k \in Jobs, NEW l \in Leases, exec'[k][l].step \notin {"none", "done"}
        PROVE  l = api'[k].granted
    BY <2>1, <2>2, <2>3 DEF OneExecution
  <2>4. QED BY <2>1, <2>3 DEF OneExecution
<1>2. CASE ~\E j \in Jobs : Claim(j)
  <2>1. \A j \in Jobs : api'[j].granted = api[j].granted
    BY <1>2, RowSteps DEF RowsFollow, RowAfter
  <2>2. ASSUME NEW j \in Jobs, NEW l \in Leases, Emits(j, l) PROVE OneExecution'
    <3>1. l = api[j].granted /\ UNCHANGED <<flush, late>>
      BY <2>2 DEF Emits, OneExecution
    <3>2. ASSUME NEW k \in Jobs, NEW m \in Leases, exec'[k][m].step \notin {"none", "done"}
          PROVE  m = api'[k].granted
      BY <2>1, <2>2, <3>1, <3>2 DEF Emits, OneExecution
    <3>3. InLeaseOrder(queue')
      <4>1. CASE queue' = queue
        BY <4>1 DEF OneExecution
      <4>2. ASSUME NEW e \in Item, e.id.job = j, e.id.lease = l, queue' = Append(queue, e)
            PROVE  InLeaseOrder(queue')
        <5>1. SUFFICES ASSUME NEW i \in DOMAIN queue', NEW k \in DOMAIN queue', i < k,
                              queue'[i].id.job = queue'[k].id.job
                       PROVE  queue'[i].id.lease <= queue'[k].id.lease
          BY DEF InLeaseOrder
        <5>2. i \in DOMAIN queue /\ queue'[i] = queue[i]
          BY <4>2, <5>1, Joining, QueueFields
        <5>3. CASE k \in DOMAIN queue /\ queue'[k] = queue[k]
          BY <5>1, <5>2, <5>3 DEF OneExecution, InLeaseOrder
        <5>4. CASE k = Len(queue) + 1
          <6>1. queue'[k] = e
            BY <4>2, <5>4, Joining
          <6>2. queue[i].id \in Known
            BY <5>2 DEF Known, IdsOf
          <6>3. queue[i].id.lease <= api[j].granted
            BY <4>2, <5>1, <5>2, <6>1, <6>2 DEF LeasesOnce
          <6>4. QED BY <3>1, <4>2, <5>2, <6>1, <6>3
        <5>5. QED BY <4>2, <5>3, <5>4, Joining
      <4>3. QED BY <2>2, <4>1, <4>2 DEF Emits
    <3>4. QED BY <3>1, <3>2, <3>3 DEF OneExecution
  <2>3. CASE FlushStart
    <3>1. Calm /\ UNCHANGED <<queue, late>>
      BY <2>3, WaitingIsCalm DEF FlushStart, FlushBegins
    <3>2. PICK h \in [DOMAIN flush'.pending -> DOMAIN queue] :
            /\ \A n \in DOMAIN flush'.pending : flush'.pending[n] = queue[h[n]]
            /\ \A m, n \in DOMAIN flush'.pending : m < n => h[m] < h[n]
      BY <2>3, Front
    <3>3. InLeaseOrder(flush'.pending)
      BY <3>2 DEF OneExecution, InLeaseOrder
    <3>4. QED BY <2>1, <3>1, <3>3, RunningStays DEF OneExecution
  <2>4. CASE Delivered
    <3>1. UNCHANGED <<queue, exec, late>> /\ flush'.pending = flush.pending
      BY <2>4, Delivering
    <3>2. QED BY <2>1, <3>1, RunningStays DEF OneExecution
  <2>5. CASE Stops
    <3>1. Calm /\ Thinned /\ flush'.pending = <<>>
      BY <2>5 DEF Stops, NoFlush
    <3>2. InLeaseOrder(queue') /\ InLeaseOrder(flush'.pending)
      BY <3>1, ThinnedInOrder DEF OneExecution, InLeaseOrder
    <3>3. \A batch \in late' : InLeaseOrder(batch)
      <4>1. flush.step = "send" => InLeaseOrder(Batch)
        BY BatchesInOrder DEF Carried
      <4>2. QED BY <2>5, <4>1 DEF Stops, OneExecution
    <3>4. QED BY <2>1, <3>1, <3>2, <3>3, RunningStays DEF OneExecution
  <2>6. CASE Elsewhere
    BY <2>1, <2>6, RunningStays DEF Elsewhere, OneExecution
  <2>7. QED BY <1>2, <2>2, <2>3, <2>4, <2>5, <2>6, StepKinds
<1>3. QED BY <1>1, <1>2

\* What is stored is in the order of its leases, each row under its own.
StoredInOrder ==
  \A j \in Jobs : \A i \in DOMAIN api[j].stored :
    /\ api[j].stored[i].under = api[j].stored[i].id.lease
    /\ \A k \in DOMAIN api[j].stored :
         k < i => api[j].stored[k].id.lease <= api[j].stored[i].id.lease

LEMMA NextStored ==
  ASSUME DeliveryTypeOK, LeasesOnce, SentIsTaken, NumbersFollow, OneExecution, StoredInOrder,
         [Next]_vars
  PROVE  StoredInOrder'
<1>1. ASSUME NEW k \in Jobs, Claim(k) PROVE StoredInOrder'
  BY <1>1, Claiming DEF StoredInOrder
<1>2. ASSUME NEW batch, Carried(batch), RowsFollow(batch) PROVE StoredInOrder'
  <2>1. SUFFICES ASSUME NEW j \in Jobs
                 PROVE  \A i \in DOMAIN api'[j].stored :
                          /\ api'[j].stored[i].under = api'[j].stored[i].id.lease
                          /\ \A k \in DOMAIN api'[j].stored : k < i =>
                               api'[j].stored[k].id.lease <= api'[j].stored[i].id.lease
    BY DEF StoredInOrder
  <2> DEFINE old(i) == i \in DOMAIN api[j].stored /\ api'[j].stored[i] = api[j].stored[i]
             new(i) == /\ api'[j].stored[i].id.lease = api[j].granted
                       /\ api'[j].stored[i].under = api[j].granted
  <2>2. ASSUME NEW i \in DOMAIN api'[j].stored PROVE old(i) \/ new(i)
    <3>1. CASE ~old(i)
      <4>1. /\ api'[j].stored[i].under = api[j].lease /\ api[j].lease = batch[1].id.lease
            /\ batch # <<>> /\ batch[1].id.job = j
            /\ \E m \in DOMAIN batch : api'[j].stored[i].id = batch[m].id /\ batch[m].id.job = j
        BY <1>2, <3>1, StoredRows
      <4>2. PICK m \in DOMAIN batch : api'[j].stored[i].id = batch[m].id /\ batch[m].id.job = j
        BY <4>1
      <4>3. batch[m].id.lease = api[j].lease /\ api[j].lease = api[j].granted
        BY <1>2, <4>1, <4>2, HeadLeaseIsAll
      <4>4. QED BY <4>1, <4>2, <4>3
    <3>2. QED BY <3>1
  <2>3. ASSUME NEW i \in DOMAIN api[j].stored
        PROVE  /\ api[j].stored[i].id.lease <= api[j].granted
               /\ api[j].stored[i].under = api[j].stored[i].id.lease
    <3>1. api[j].stored[i].id \in Known /\ api[j].stored[i].id.job = j
      BY DEF Known, Stored, NumbersFollow
    <3>2. QED BY <3>1 DEF LeasesOnce, StoredInOrder
  <2>4. DOMAIN api'[j].stored \subseteq Nat \ {0} /\ api[j].granted \in Nat
        /\ DOMAIN api[j].stored = 1..Len(api[j].stored) /\ Len(api[j].stored) \in Nat
    BY <1>2, RowFields DEF DeliveryTypeOK, RowsFollow
  <2>5. ASSUME NEW i \in DOMAIN api'[j].stored, NEW k \in DOMAIN api'[j].stored, k < i
        PROVE  api'[j].stored[k].id.lease <= api'[j].stored[i].id.lease
    <3>1. CASE old(k) /\ old(i)
      BY <2>5, <3>1 DEF StoredInOrder
    <3>2. CASE old(k) /\ new(i)
      BY <2>3, <3>2
    <3>3. CASE new(k) /\ ~old(k) /\ old(i)
      <4>1. k \in DOMAIN api[j].stored
        BY <2>4, <2>5, <3>3
      <4>2. api'[j].stored[k] = api[j].stored[k]
        <5>1. RowAfter(batch, j, api[j], api'[j])
          BY <1>2 DEF RowsFollow
        <5>2. QED BY <2>4, <4>1, <5>1 DEF RowAfter
      <4>3. QED BY <3>3, <4>1, <4>2
    <3>4. CASE new(k) /\ new(i)
      BY <2>4, <3>4
    <3>5. QED BY <2>2, <3>1, <3>2, <3>3, <3>4
  <2> HIDE DEF old
  <2>6. ASSUME NEW i \in DOMAIN api'[j].stored
        PROVE  api'[j].stored[i].under = api'[j].stored[i].id.lease
    BY <2>2, <2>3 DEF old
  <2>7. QED BY <2>5, <2>6
<1>3. QED BY <1>1, <1>2, RowSteps

LeaseOrderInv ==
  /\ Rejoin = FALSE
  /\ DeliveryInv /\ NumbersFollow /\ OneExecution /\ StoredInOrder

LEMMA AlwaysInOrder == Rejoin = FALSE /\ Spec => []LeaseOrderInv
<1>1. Rejoin = FALSE /\ Init => LeaseOrderInv
  <2> SUFFICES ASSUME Rejoin = FALSE, Init PROVE LeaseOrderInv
    OBVIOUS
  <2>1. DeliveryInv
    BY InitTyped, InitTaken DEF DeliveryInv
  <2>2. /\ queue = <<>> /\ flush.pending = <<>> /\ late = {}
        /\ \A j \in Jobs : api[j].stored = <<>> /\ \A l \in Leases : exec[j][l].step = "none"
    BY DEF Init, NoFlush, NoExec
  <2>3. OneExecution
    BY <2>2 DEF OneExecution, InLeaseOrder
  <2>4. NumbersFollow /\ StoredInOrder
    BY <2>2 DEF NumbersFollow, StoredInOrder
  <2>5. QED BY <2>1, <2>3, <2>4 DEF LeaseOrderInv
<1>2. LeaseOrderInv /\ [Next]_vars => LeaseOrderInv'
  BY NextTyped, NextLeases, NextTaken, NextNumbers, NextOne, NextStored
  DEF LeaseOrderInv, DeliveryInv
<1>3. QED BY <1>1, <1>2, PTL DEF Spec

\* Where a runner is granted no job that it still executes, the events of a later lease also come
\* after those of every earlier one.
THEOREM EventsHaveNoHole == Rejoin = FALSE /\ Spec => []NoHoles
<1>1. ASSUME LeaseOrderInv PROVE NoHoles
  <2>1. ASSUME NEW j \in Jobs, NEW i \in DOMAIN api[j].stored
        PROVE  /\ api[j].stored[i].id.seq = api[j].prior + i
               /\ i < Len(api[j].stored) =>
                    api[j].stored[i].id.lease <= api[j].stored[i + 1].id.lease
    <3>1. DOMAIN api[j].stored = 1..Len(api[j].stored) /\ Len(api[j].stored) \in Nat
      BY <1>1, RowFields DEF LeaseOrderInv, DeliveryInv, DeliveryTypeOK
    <3>2. i < Len(api[j].stored) => i + 1 \in DOMAIN api[j].stored /\ i < i + 1
      BY <3>1
    <3>3. QED BY <1>1, <3>2 DEF LeaseOrderInv, NumbersFollow, StoredInOrder
  <2>2. QED BY <2>1 DEF NoHoles
<1>2. QED BY <1>1, AlwaysInOrder, PTL

\* Where a runner is granted no job that it still executes, a batch sent under the lease of its
\* first entry stores no event that another lease produced.
THEOREM EventsUnderOwnLease == Rejoin = FALSE /\ Spec => []StoredUnderOwnLease
<1>1. LeaseOrderInv => StoredUnderOwnLease
  BY DEF LeaseOrderInv, StoredInOrder, StoredUnderOwnLease
<1>2. QED BY <1>1, AlwaysInOrder, PTL
=============================================================================
