---------------------------- MODULE SpoolProofs ----------------------------
(***************************************************************************)
(* What the spool keeps when its operations do not overlap, for any number *)
(* of jobs, entries and crashes and any limits, wherever the process dies  *)
(* and however much of a write reaches the disk.                           *)
(***************************************************************************)
EXTENDS Spool, FiniteSetTheorems, SequenceTheorems, WellFoundedInduction, TLAPS

\* The frames the file may hold, when `born' entries were made.
Made(born) == [id : 0..born, job : Jobs, seq : 0..born, dead : BOOLEAN]
Frame(born) == Made(born) \cup {Header, Torn}

WriterRow(born) ==
  {NoWrite}
    \cup [step : {"stat", "open", "count"}, first : BOOLEAN, entry : Made(born)]
    \cup [step : {"guard"}, first : BOOLEAN, entry : Made(born), size : Nat]
    \cup [step : {"truncate"}, first : BOOLEAN, entry : Made(born), length : Nat]
    \cup [step : {"write"}, first : BOOLEAN, entry : Made(born), unlinked : {FALSE}]

FlushRow(born) ==
  {NoFlush}
    \cup [step : {"acks", "sequences", "decide"}, kind : {"ack"}, ids : SUBSET (0..born)]
    \cup [step : {"rename", "settle", "clear"}, buffer : Seq(Frame(born)),
          kind : {"ack", "mark", "open"}, ids : SUBSET (0..born)]

SeenRow(born) ==
  [born : Nat, crashes : Nat, told : SUBSET (0..born), given : SUBSET (0..born),
   settled : SUBSET (0..born), marked : SUBSET (0..born), top : [Jobs -> 0..born]]

Alive == mode \in {"up", "opening"}

SpoolTypeOK ==
  /\ mode \in {"up", "opening", "down", "refused"}
  /\ entries \in Seq(Made(seen.born)) /\ acked \in SUBSET (0..seen.born)
  /\ sequences \in [Jobs -> 0..seen.born] /\ committed \in Nat
  /\ writer \in [Jobs -> WriterRow(seen.born)] /\ flusher \in FlushRow(seen.born)
  /\ file \in Seq(Frame(seen.born)) /\ ackFile \in SUBSET (0..seen.born)
  /\ seqFile \in [Jobs -> 0..seen.born]
  /\ seen \in SeenRow(seen.born)

-----------------------------------------------------------------------------
(* The file and who may be writing to it.                                  *)

\* How many frames can be read: only the last may be torn.
Whole(f) == IF f # <<>> /\ f[Len(f)] = Torn THEN Len(f) - 1 ELSE Len(f)

Shaped(f) ==
  \A i \in DOMAIN f : /\ f[i] = Torn => i = Len(f)
                      /\ f[i] # Torn => (f[i] = Header <=> i = 1)

\* One operation at a time; a process that is down has no operation and no memory.
Alone ==
  /\ Flushing => Alive /\ Writing = {}
  /\ \A j, k \in Writing : j = k
  /\ Writing # {} => mode = "up"
  /\ mode = "opening" => Flushing
  /\ Flushing => (mode = "opening" <=> flusher.step \in {"rename", "settle", "clear"}
                                        /\ flusher.kind = "open")
  /\ ~Alive => entries = <<>> /\ acked = {} /\ committed = 0

\* What was read or written last is what the count of the queue says, or begins the file.
Counts(n, f) == n = Whole(f) \/ (n = 0 /\ Whole(f) <= 1)

\* Where an enqueue stands, when the file is f and the queue counts n frames of it.
WriterAt(w, f, n) ==
  /\ w.step \in {"stat", "guard", "truncate"} => Counts(n, f)
  /\ w.step = "guard" => w.size = Len(f)
  /\ w.step = "truncate" => w.length = n
  /\ w.step \in {"open", "write"} => Len(f) = n /\ Whole(f) = n
  /\ w.step = "count" => Len(f) = n + Len(Payload(w)) /\ Whole(f) = Len(f)

LengthsFit ==
  /\ \A j \in Writing : /\ writer[j].first = (committed = 0) /\ writer[j].entry.job = j
                        /\ WriterAt(writer[j], file, committed)
  /\ Alive /\ Writing = {} /\ ~(Flushing /\ flusher.step = "settle") => Counts(committed, file)
  /\ Flushing /\ flusher.step \in {"rename", "settle", "clear"} =>
       /\ flusher.buffer = <<Header>> \o entries
       /\ flusher.step = "settle" => file = flusher.buffer

FileInv == SpoolTypeOK /\ Shaped(file) /\ Alone /\ LengthsFit

-----------------------------------------------------------------------------
(* What the files hold, and what the callers were told.                    *)

Read(f) == Entries(GoodPrefix(f))

Found == Read(file)

FlushAt(steps) == Flushing /\ flusher.step \in steps
MarkingAt(steps) == Flushing /\ flusher.step \in steps /\ flusher.kind = "mark"
CountingOf(e) == \E j \in Writing : writer[j].step = "count" /\ writer[j].entry = e

\* Memory is what a restart would find, but for the operation under way.
MemoryFollows ==
  /\ Alive /\ ~FlushAt({"acks", "settle"}) =>
       \A i \in DOMAIN Found : Found[i].id \in acked <=> Found[i].id \in ackFile
  /\ FlushAt({"acks"}) => \A i \in DOMAIN Found : Found[i].id \in ackFile => Found[i].id \in acked
  /\ FlushAt({"settle"}) => Found = entries /\ IdsOf(Found) \cap ackFile = {}
  /\ MarkingAt({"rename"}) => entries = Marked(Without(Found, acked), flusher.ids)
  /\ \A j \in Writing : writer[j].step = "count" =>
       Without(Found, acked) = Append(entries, writer[j].entry)
  /\ /\ Alive /\ ~FlushAt({"settle"}) /\ ~MarkingAt({"rename"})
     /\ \A j \in Writing : writer[j].step # "count"
     => entries = Without(Found, acked)

\* An entry on its way to the file is new.
WritesNew ==
  \A j \in Writing : LET e == writer[j].entry
                     IN  /\ ~e.dead
                         /\ e.id \notin acked \cup ackFile \cup seen.settled \cup seen.marked
                         /\ writer[j].step # "count" => e.id \notin IdsOf(Found)

ToldIsKept ==
  /\ seen.told \ seen.given \subseteq IdsOf(Found)
  /\ acked \cup ackFile \subseteq seen.given

SettledIsAcked ==
  /\ seen.settled \cap IdsOf(Found) \subseteq ackFile
  /\ FlushAt({"acks"}) => flusher.ids \subseteq acked
  /\ Flushing /\ flusher.kind = "ack" /\ flusher.step # "acks" =>
       flusher.ids \cap IdsOf(Found) \subseteq ackFile

MarkedIsDead ==
  /\ \A i \in DOMAIN Found : Found[i].id \in seen.marked => Found[i].dead
  /\ MarkingAt({"settle", "clear"}) => \A i \in DOMAIN Found : Found[i].id \in flusher.ids => Found[i].dead

QueueInv == MemoryFollows /\ WritesNew /\ ToldIsKept /\ SettledIsAcked /\ MarkedIsDead

-----------------------------------------------------------------------------
(* The sequences.                                                          *)

DiskRemembers ==
  \A j \in Jobs : \/ seen.top[j] <= seqFile[j]
                  \/ \E i \in DOMAIN Found : Found[i].job = j /\ seen.top[j] <= Found[i].seq

SequencesInv ==
  /\ Alive /\ seen.crashes <= 1 => \A j \in Jobs : seen.top[j] <= sequences[j]
  /\ Alive => \A i \in DOMAIN Found :
       Found[i].seq <= sequences[Found[i].job] \/ CountingOf(Found[i])
  /\ seen.crashes = 0 \/ (seen.crashes = 1 /\ ~Alive) => DiskRemembers
  /\ seen.crashes = 0 /\ ~FlushAt({"acks", "sequences"}) =>
       \A i \in DOMAIN Found : Found[i].id \in ackFile => Found[i].seq <= seqFile[Found[i].job]

SpoolInv == FileInv /\ QueueInv /\ SequencesInv

-----------------------------------------------------------------------------
(* Parts of a sequence.                                                    *)

LEMMA LessIsWellFounded == IsWellFoundedOn({ss \in Nat \X Nat : ss[1] < ss[2]}, Nat)
  BY NatLessThanWellFounded, Zenon DEF OpToRel

LEMMA LeastExists ==
  ASSUME NEW S \in SUBSET Nat, S # {}
  PROVE  \E x \in S : \A y \in S : x <= y
<1> DEFINE less == {ss \in Nat \X Nat : ss[1] < ss[2]}
<1>1. PICK x \in S : \A y \in S : ~(<<y, x>> \in less)
  <2>1. IsWellFoundedOn(less, Nat)
    BY LessIsWellFounded
  <2> HIDE DEF less
  <2>2. QED BY <2>1, WFMin
<1>2. ASSUME NEW y \in S, y < x PROVE FALSE
  <2>1. <<y, x>> \in Nat \X Nat /\ <<y, x>>[1] < <<y, x>>[2]
    BY <1>2
  <2>2. QED BY <1>1, <2>1, Zenon
<1>3. QED BY <1>2

UpTo(K, i) == {k \in K : k <= i}

\* Every position of a set has a place in it, and a later one a later place.
LEMMA PlacesInSet ==
  ASSUME NEW n \in Nat, NEW K \in SUBSET (1..n)
  PROVE  /\ IsFiniteSet(K) /\ Cardinality(K) \in Nat
         /\ \A i \in K : Cardinality(UpTo(K, i)) \in 1..Cardinality(K)
         /\ \A i, j \in K : i < j => Cardinality(UpTo(K, i)) < Cardinality(UpTo(K, j))
<1>1. IsFiniteSet(K) /\ Cardinality(K) \in Nat
  <2>1. IsFiniteSet(1..n)
    BY FS_Interval
  <2>2. QED BY <2>1, FS_Subset, FS_CardinalityType
<1>2. ASSUME NEW i \in K
      PROVE  /\ UpTo(K, i) \in SUBSET K /\ i \in UpTo(K, i)
             /\ IsFiniteSet(UpTo(K, i)) /\ Cardinality(UpTo(K, i)) \in 1..Cardinality(K)
  <2>1. UpTo(K, i) \in SUBSET K /\ i \in UpTo(K, i)
    BY DEF UpTo
  <2>2. IsFiniteSet(UpTo(K, i)) /\ Cardinality(UpTo(K, i)) <= Cardinality(K)
    BY <1>1, <2>1, FS_Subset
  <2>3. Cardinality(UpTo(K, i)) \in Nat /\ Cardinality(UpTo(K, i)) # 0
    BY <2>1, <2>2, FS_CardinalityType, FS_EmptySet
  <2>4. QED BY <1>1, <2>1, <2>2, <2>3
<1>3. ASSUME NEW i \in K, NEW j \in K, i < j
      PROVE  Cardinality(UpTo(K, i)) < Cardinality(UpTo(K, j))
  <2>1. UpTo(K, i) \in SUBSET UpTo(K, j) /\ j \notin UpTo(K, i) /\ j \in UpTo(K, j)
    <3>1. \A k \in K : k \in Nat
      OBVIOUS
    <3>2. \A k \in K : k <= i => k <= j
      BY <1>3, <3>1
    <3>3. ~(j <= i) /\ j <= j
      BY <1>3, <3>1
    <3>4. QED BY <3>2, <3>3 DEF UpTo
  <2>2. /\ Cardinality(UpTo(K, i)) <= Cardinality(UpTo(K, j))
        /\ Cardinality(UpTo(K, i)) # Cardinality(UpTo(K, j))
    BY <1>2, <2>1, FS_Subset
  <2>3. QED BY <1>2, <2>2
<1>4. QED BY <1>1, <1>2, <1>3

\* Nth numbers the positions of a set from the smallest on.
LEMMA NthCounts ==
  ASSUME NEW n \in Nat, NEW K \in SUBSET (1..n)
  PROVE  /\ IsFiniteSet(K) /\ Cardinality(K) \in Nat
         /\ \A m \in 1..Cardinality(K) : Nth(K, m) \in K
         /\ \A k \in K : \E m \in 1..Cardinality(K) : Nth(K, m) = k
         /\ \A l, m \in 1..Cardinality(K) : l < m => Nth(K, l) < Nth(K, m)
<1> DEFINE c == Cardinality(K)
           rank == [i \in K |-> Cardinality(UpTo(K, i))]
<1>1. IsFiniteSet(K) /\ c \in Nat /\ rank \in [K -> 1..c]
  BY PlacesInSet
<1>2. \A i, j \in K : i < j => rank[i] < rank[j]
  BY PlacesInSet
<1>3. \A i \in K : i \in Nat
  OBVIOUS
<1> HIDE DEF rank
<1>4. \A i, j \in K : rank[i] = rank[j] => i = j
  BY <1>1, <1>2, <1>3
<1>5. rank \in Surjection(K, 1..c)
  <2>1. rank \in Injection(K, 1..c)
    BY <1>1, <1>4 DEF Injection, IsInjective
  <2>2. IsFiniteSet(1..c) /\ Cardinality(1..c) = c
    BY <1>1, FS_Interval
  <2>3. QED BY <2>1, <2>2, FS_Injection
<1>6. ASSUME NEW m \in 1..c PROVE Nth(K, m) \in K /\ rank[Nth(K, m)] = m
  <2>1. PICK i \in K : rank[i] = m
    BY <1>5 DEF Surjection
  <2>2. \E k \in K : Cardinality({x \in K : x <= k}) = m
    BY <2>1 DEF rank, UpTo
  <2>3. Nth(K, m) \in K /\ Cardinality({x \in K : x <= Nth(K, m)}) = m
    BY <2>2 DEF Nth
  <2>4. QED BY <2>3 DEF rank, UpTo
<1>7. ASSUME NEW k \in K PROVE \E m \in 1..c : Nth(K, m) = k
  <2>1. rank[k] \in 1..c /\ Nth(K, rank[k]) \in K /\ rank[Nth(K, rank[k])] = rank[k]
    BY <1>1, <1>6
  <2>2. QED BY <1>4, <2>1
<1>8. ASSUME NEW l \in 1..c, NEW m \in 1..c, l < m PROVE Nth(K, l) < Nth(K, m)
  <2>1. PICK a \in K : a = Nth(K, l) /\ rank[a] = l
    BY <1>6
  <2>2. PICK b \in K : b = Nth(K, m) /\ rank[b] = m
    BY <1>6
  <2>3. a \in Nat /\ b \in Nat /\ l \in Nat /\ m \in Nat
    BY <1>3
  <2>4. ~(b < a) /\ a # b
    BY <1>2, <1>8, <2>1, <2>2, <2>3
  <2>5. a < b
    BY <2>3, <2>4
  <2>6. QED BY <2>1, <2>2, <2>5
<1>9. QED BY <1>1, <1>6, <1>7, <1>8

\* What is picked of a sequence: the elements at the positions, and no other, in their order.
LEMMA Picking ==
  ASSUME NEW S, NEW s \in Seq(S), NEW K \in SUBSET DOMAIN s
  PROVE  /\ Picked(s, K) \in Seq(S) /\ DOMAIN Picked(s, K) = 1..Cardinality(K)
         /\ Len(Picked(s, K)) = Cardinality(K) /\ Cardinality(K) \in Nat
         /\ \A n \in DOMAIN Picked(s, K) : Nth(K, n) \in K /\ Picked(s, K)[n] = s[Nth(K, n)]
         /\ \A k \in K : \E n \in DOMAIN Picked(s, K) : Nth(K, n) = k
         /\ \A m, n \in DOMAIN Picked(s, K) : m < n => Nth(K, m) < Nth(K, n)
<1>1. Len(s) \in Nat /\ K \in SUBSET (1..Len(s)) /\ s \in [1..Len(s) -> S]
  BY LenProperties
<1>2. Cardinality(K) \in Nat /\ \A n \in 1..Cardinality(K) : Nth(K, n) \in K
  BY <1>1, NthCounts
<1>3. Picked(s, K) = [n \in 1..Cardinality(K) |-> s[Nth(K, n)]]
  BY DEF Picked
<1>4. Picked(s, K) \in [1..Cardinality(K) -> S]
  BY <1>1, <1>2, <1>3
<1>5. Picked(s, K) \in Seq(S) /\ DOMAIN Picked(s, K) = 1..Cardinality(K)
  BY <1>2, <1>4, SeqDef
<1>6. Len(Picked(s, K)) = Cardinality(K)
  BY <1>2, <1>5, LenProperties
<1>7. QED BY <1>1, <1>2, <1>3, <1>5, <1>6, NthCounts

\* Positions listed in their order are the ones Nth counts.
Lists(h, c, K) ==
  /\ h \in [1..c -> K]
  /\ \A k \in K : \E m \in 1..c : h[m] = k
  /\ \A l, m \in 1..c : l < m => h[l] < h[m]

LEMMA ListedByNth ==
  ASSUME NEW K \in SUBSET Nat, NEW c \in Nat, NEW h, Lists(h, c, K)
  PROVE  c = Cardinality(K) /\ \A m \in 1..c : Nth(K, m) = h[m]
<1>0. /\ h \in [1..c -> K] /\ \A k \in K : \E m \in 1..c : h[m] = k
      /\ \A l, m \in 1..c : l < m => h[l] < h[m]
  BY DEF Lists
<1>1. \A m \in 1..c : h[m] \in Nat /\ m \in Nat
  <2>1. \A m \in 1..c : h[m] \in K
    BY <1>0
  <2>2. \A k \in K : k \in Nat
    OBVIOUS
  <2>3. \A m \in 1..c : h[m] \in Nat
    BY <2>1, <2>2, Zenon
  <2>4. \A m \in 1..c : m \in Nat
    OBVIOUS
  <2>5. QED BY <2>3, <2>4, Zenon
<1>2. \A l, m \in 1..c : h[l] <= h[m] <=> l <= m
  BY <1>0, <1>1
<1>3. \A l, m \in 1..c : h[l] = h[m] => l = m
  BY <1>0, <1>1
<1>4. ASSUME NEW m \in 1..c
      PROVE  IsFiniteSet(UpTo(K, h[m])) /\ Cardinality(UpTo(K, h[m])) = m
  <2> DEFINE g == [l \in 1..m |-> h[l]]
  <2>1. \A l \in 1..m : l \in 1..c /\ l <= m
    OBVIOUS
  <2>2. g \in [1..m -> UpTo(K, h[m])]
    BY <1>0, <1>2, <2>1 DEF UpTo
  <2>3. \A k \in UpTo(K, h[m]) : \E l \in 1..m : g[l] = k
    <3> SUFFICES ASSUME NEW k \in K, k <= h[m] PROVE \E l \in 1..m : h[l] = k
      BY DEF UpTo
    <3>1. PICK l \in 1..c : h[l] = k
      BY <1>0
    <3>2. l <= m
      BY <1>2, <3>1
    <3>3. QED BY <3>1, <3>2
  <2>4. \A k, l \in 1..m : g[k] = g[l] => k = l
    BY <1>3, <2>1
  <2> HIDE DEF g
  <2>5. ExistsBijection(1..m, UpTo(K, h[m]))
    BY <2>2, <2>3, <2>4 DEF ExistsBijection, Bijection, Injection, Surjection, IsInjective
  <2>6. IsFiniteSet(1..m) /\ Cardinality(1..m) = m
    BY FS_Interval
  <2>7. QED BY <2>5, <2>6, FS_Bijection
<1>5. c = Cardinality(K)
  <2>1. ExistsBijection(1..c, K)
    BY <1>0, <1>3 DEF ExistsBijection, Bijection, Injection, Surjection, IsInjective
  <2>2. IsFiniteSet(1..c) /\ Cardinality(1..c) = c
    BY FS_Interval
  <2>3. QED BY <2>1, <2>2, FS_Bijection
<1>6. ASSUME NEW m \in 1..c PROVE Nth(K, m) = h[m]
  <2> DEFINE rank(i) == Cardinality({k \in K : k <= i})
  <2>1. h[m] \in K /\ rank(h[m]) = m
    BY <1>0, <1>4 DEF UpTo
  <2>2. Nth(K, m) \in K /\ rank(Nth(K, m)) = m
    BY <2>1 DEF Nth
  <2>3. PICK l \in 1..c : h[l] = Nth(K, m)
    BY <1>0, <2>2
  <2>4. rank(h[l]) = l
    BY <1>4 DEF UpTo
  <2>5. QED BY <2>2, <2>3, <2>4
<1>7. QED BY <1>5, <1>6

\* What is picked at positions that are listed in their order.
LEMMA PickedInOrder ==
  ASSUME NEW s, NEW K \in SUBSET Nat, NEW c \in Nat, NEW h, Lists(h, c, K)
  PROVE  /\ DOMAIN Picked(s, K) = 1..c
         /\ \A m \in 1..c : Picked(s, K)[m] = s[h[m]]
<1>1. c = Cardinality(K) /\ \A m \in 1..c : Nth(K, m) = h[m]
  BY ListedByNth
<1>2. QED BY <1>1 DEF Picked

-----------------------------------------------------------------------------
(* What is left of a sequence without some ids.                            *)

Stay(s, ids) == {i \in DOMAIN s : s[i].id \notin ids}

LEMMA WithoutElements ==
  ASSUME NEW S, NEW s \in Seq(S), NEW ids
  PROVE  LET w == Without(s, ids)
         IN  /\ w \in Seq(S) /\ Len(w) \in Nat /\ DOMAIN w = 1..Len(w)
             /\ \A n \in DOMAIN w : \E k \in DOMAIN s : w[n] = s[k] /\ s[k].id \notin ids
             /\ \A k \in DOMAIN s : s[k].id \notin ids => \E n \in DOMAIN w : w[n] = s[k]
<1> DEFINE K == Stay(s, ids)
<1>1. K \in SUBSET DOMAIN s /\ Without(s, ids) = Picked(s, K)
  BY DEF Stay, Without
<1>2. \A k \in DOMAIN s : s[k].id \notin ids <=> k \in K
  BY DEF Stay
<1> HIDE DEF K
<1>3. /\ Picked(s, K) \in Seq(S)
      /\ \A n \in DOMAIN Picked(s, K) : Nth(K, n) \in K /\ Picked(s, K)[n] = s[Nth(K, n)]
      /\ \A k \in K : \E n \in DOMAIN Picked(s, K) : Nth(K, n) = k
  BY <1>1, Picking
<1>4. Len(Picked(s, K)) \in Nat /\ DOMAIN Picked(s, K) = 1..Len(Picked(s, K))
  BY <1>3, LenProperties
<1>5. QED BY <1>1, <1>2, <1>3, <1>4

LEMMA WithoutSame ==
  ASSUME NEW s, NEW A, NEW B, \A i \in DOMAIN s : s[i].id \in A <=> s[i].id \in B
  PROVE  Without(s, A) = Without(s, B)
<1>1. {i \in DOMAIN s : s[i].id \notin A} = {i \in DOMAIN s : s[i].id \notin B}
  OBVIOUS
<1>2. QED BY <1>1 DEF Without

LEMMA WithoutNone ==
  ASSUME NEW S, NEW s \in Seq(S), NEW ids, \A i \in DOMAIN s : s[i].id \notin ids
  PROVE  Without(s, ids) = s
<1> DEFINE c == Len(s)
           K == Stay(s, ids)
           h == [n \in 1..c |-> n]
<1>1. c \in Nat /\ DOMAIN s = 1..c /\ s \in [1..c -> S]
  BY LenProperties
<1>2. K = 1..c
  BY <1>1 DEF Stay
<1>3. Without(s, ids) = Picked(s, K)
  BY DEF Without, Stay
<1> HIDE DEF K
<1>4. Lists(h, c, K)
  BY <1>2 DEF Lists
<1>5. \A m \in 1..c : h[m] = m
  OBVIOUS
<1> HIDE DEF h
<1>6. DOMAIN Picked(s, K) = 1..c /\ \A m \in 1..c : Picked(s, K)[m] = s[h[m]]
  <2>1. K \in SUBSET Nat /\ c \in Nat
    BY <1>1, <1>2
  <2> HIDE DEF c
  <2>2. QED BY <1>4, <2>1, PickedInOrder
<1>7. Picked(s, K) \in Seq(S) /\ Len(Picked(s, K)) = c
  <2>1. K \in SUBSET DOMAIN s
    BY <1>1, <1>2
  <2>2. Picked(s, K) \in Seq(S)
    BY <2>1, Picking
  <2>3. QED BY <1>1, <1>6, <2>2, LenProperties
<1>8. Picked(s, K) = s
  BY <1>1, <1>5, <1>6, <1>7, SeqEqual
<1>9. QED BY <1>3, <1>8

LEMMA WithoutTwice ==
  ASSUME NEW S, NEW s \in Seq(S), NEW A, NEW B
  PROVE  Without(Without(s, A), B) = Without(s, A \cup B)
<1> DEFINE K == Stay(s, A)
           t == Without(s, A)
           L == Stay(t, B)
           c == Cardinality(L)
           M == Stay(s, A \cup B)
           h == [n \in 1..c |-> Nth(K, Nth(L, n))]
<1>1. /\ K \in SUBSET DOMAIN s /\ t = Picked(s, K) /\ M \in SUBSET DOMAIN s
      /\ L \in SUBSET DOMAIN t /\ Without(t, B) = Picked(t, L)
      /\ Without(s, A \cup B) = Picked(s, M)
  BY DEF Stay, Without
<1>2. /\ \A k \in DOMAIN s : k \in K <=> s[k].id \notin A
      /\ \A n \in DOMAIN t : n \in L <=> t[n].id \notin B
      /\ \A k \in DOMAIN s : k \in M <=> s[k].id \notin A /\ s[k].id \notin B
  BY DEF Stay
<1> HIDE DEF K, L, M, t
<1>3. /\ t \in Seq(S)
      /\ \A n \in DOMAIN t : Nth(K, n) \in K /\ t[n] = s[Nth(K, n)]
      /\ \A k \in K : \E n \in DOMAIN t : Nth(K, n) = k
      /\ \A m, n \in DOMAIN t : m < n => Nth(K, m) < Nth(K, n)
  BY <1>1, Picking
<1>4. /\ DOMAIN Picked(t, L) = 1..c /\ c \in Nat
      /\ \A n \in 1..c : Nth(L, n) \in L /\ Picked(t, L)[n] = t[Nth(L, n)]
      /\ \A k \in L : \E n \in 1..c : Nth(L, n) = k
      /\ \A m, n \in 1..c : m < n => Nth(L, m) < Nth(L, n)
  <2>1. /\ DOMAIN Picked(t, L) = 1..c /\ c \in Nat
        /\ \A n \in DOMAIN Picked(t, L) : Nth(L, n) \in L /\ Picked(t, L)[n] = t[Nth(L, n)]
        /\ \A k \in L : \E n \in DOMAIN Picked(t, L) : Nth(L, n) = k
        /\ \A m, n \in DOMAIN Picked(t, L) : m < n => Nth(L, m) < Nth(L, n)
    <3>1. t \in Seq(S) /\ L \in SUBSET DOMAIN t
      BY <1>1, <1>3
    <3>2. QED BY <3>1, Picking
  <2> HIDE DEF c
  <2>2. QED BY <2>1
<1>5. \A n \in 1..c : h[n] = Nth(K, Nth(L, n))
  OBVIOUS
<1>6. \A n \in 1..c : Nth(L, n) \in DOMAIN t /\ h[n] \in K /\ t[Nth(L, n)] = s[h[n]]
  BY <1>1, <1>3, <1>4, <1>5
<1>7. \A n \in 1..c : h[n] \in M
  BY <1>1, <1>2, <1>4, <1>6
<1>8. \A k \in M : \E n \in 1..c : h[n] = k
  <2> SUFFICES ASSUME NEW k \in M PROVE \E n \in 1..c : h[n] = k
    OBVIOUS
  <2>1. k \in K
    BY <1>1, <1>2
  <2>2. PICK m \in DOMAIN t : Nth(K, m) = k
    BY <1>3, <2>1
  <2>3. m \in L
    BY <1>1, <1>2, <1>3, <2>2
  <2>4. QED BY <1>4, <1>5, <2>2, <2>3
<1>9. \A l, m \in 1..c : l < m => h[l] < h[m]
  BY <1>3, <1>4, <1>5, <1>6
<1>10. h \in [1..c -> M]
  BY <1>7
<1> HIDE DEF h
<1>11. DOMAIN Picked(s, M) = 1..c /\ \A n \in 1..c : Picked(s, M)[n] = s[h[n]]
  <2>1. M \in SUBSET Nat /\ c \in Nat
    BY <1>1, <1>4, LenProperties
  <2> HIDE DEF c
  <2>2. Lists(h, c, M)
    BY <1>8, <1>9, <1>10 DEF Lists
  <2>3. QED BY <2>1, <2>2, PickedInOrder
<1> HIDE DEF c
<1>12. Picked(s, M) \in Seq(S) /\ Picked(t, L) \in Seq(S)
  BY <1>1, <1>3, Picking
<1>13. Len(Picked(s, M)) = c /\ Len(Picked(t, L)) = c
  BY <1>4, <1>11, <1>12, LenProperties
<1>14. \A n \in 1..c : Picked(t, L)[n] = Picked(s, M)[n]
  BY <1>4, <1>6, <1>11
<1>15. Picked(t, L) = Picked(s, M)
  BY <1>12, <1>13, <1>14, SeqEqual
<1>16. QED BY <1>1, <1>15 DEF t

LEMMA WithoutAppend ==
  ASSUME NEW S, NEW s \in Seq(S), NEW e \in S, NEW ids, e.id \notin ids
  PROVE  Without(Append(s, e), ids) = Append(Without(s, ids), e)
<1> DEFINE n == Len(s)
           t == Append(s, e)
           K == Stay(s, ids)
           w == Without(s, ids)
           c == Len(w)
           L == Stay(t, ids)
           h == [m \in 1..(c + 1) |-> IF m = c + 1 THEN n + 1 ELSE Nth(K, m)]
<1>1. n \in Nat /\ DOMAIN s = 1..n
  BY LenProperties
<1>2. /\ t \in Seq(S) /\ Len(t) = n + 1 /\ DOMAIN t = 1..(n + 1) /\ t[n + 1] = e
      /\ \A i \in 1..n : t[i] = s[i]
  <2>1. t \in Seq(S) /\ Len(t) = n + 1
    BY <1>1
  <2>2. QED BY <1>1, <2>1, LenProperties
<1>3. /\ K \in SUBSET DOMAIN s /\ w = Picked(s, K)
      /\ L \in SUBSET DOMAIN t /\ Without(t, ids) = Picked(t, L)
  BY DEF Stay, Without
<1>4. /\ \A k \in 1..n : k \in K <=> s[k].id \notin ids
      /\ \A k \in 1..(n + 1) : k \in L <=> t[k].id \notin ids
  BY <1>1, <1>2 DEF Stay
<1> HIDE DEF t, K, L, w
<1>5. L = K \cup {n + 1}
  <2>1. \A k : k \in 1..(n + 1) <=> k \in 1..n \/ k = n + 1
    BY <1>1
  <2>2. \A k : k \in L <=> k \in K \/ k = n + 1
    BY <1>1, <1>2, <1>3, <1>4, <2>1
  <2>3. QED BY <2>2
<1>6. /\ w \in Seq(S)
      /\ \A m \in DOMAIN w : Nth(K, m) \in K /\ w[m] = s[Nth(K, m)]
      /\ \A k \in K : \E m \in DOMAIN w : Nth(K, m) = k
      /\ \A l, m \in DOMAIN w : l < m => Nth(K, l) < Nth(K, m)
  BY <1>3, Picking
<1>7. c \in Nat /\ DOMAIN w = 1..c
  BY <1>6, LenProperties
<1>8. \A m \in 1..c : h[m] = Nth(K, m) /\ h[m] \in K /\ h[m] \in 1..n /\ h[m] < n + 1
  <2> SUFFICES ASSUME NEW m \in 1..c
               PROVE  h[m] = Nth(K, m) /\ h[m] \in K /\ h[m] \in 1..n /\ h[m] < n + 1
    OBVIOUS
  <2>1. m # c + 1 /\ m \in 1..(c + 1)
    BY <1>7
  <2>2. h[m] = Nth(K, m) /\ h[m] \in K
    BY <1>6, <1>7, <2>1
  <2>3. h[m] \in 1..n
    BY <1>1, <1>3, <2>2
  <2> HIDE DEF h
  <2>4. QED BY <1>1, <2>2, <2>3
<1>9. h[c + 1] = n + 1
  BY <1>7
<1>10. \A m : m \in 1..(c + 1) <=> m \in 1..c \/ m = c + 1
  BY <1>7
<1>11. h \in [1..(c + 1) -> L]
  <2>1. \A m \in 1..(c + 1) : h[m] \in L
    BY <1>5, <1>8, <1>9, <1>10
  <2>2. QED BY <2>1
<1>12. DOMAIN h = 1..(c + 1)
  OBVIOUS
<1> HIDE DEF h
<1>13. \A k \in L : \E m \in 1..(c + 1) : h[m] = k
  <2>1. \A k \in K : \E m \in 1..c : h[m] = k
    BY <1>6, <1>7, <1>8
  <2>2. QED BY <1>5, <1>9, <1>10, <2>1
<1>14. ASSUME NEW l \in 1..(c + 1), NEW m \in 1..(c + 1), l < m PROVE h[l] < h[m]
  <2>1. l \in 1..c
    BY <1>7, <1>14
  <2>2. CASE m = c + 1
    BY <1>8, <1>9, <2>1, <2>2
  <2>3. CASE m \in 1..c
    <3>1. Nth(K, l) < Nth(K, m)
      BY <1>6, <1>7, <1>14, <2>1, <2>3
    <3>2. QED BY <1>8, <2>1, <2>3, <3>1
  <2>4. QED BY <1>10, <2>2, <2>3
<1>15. DOMAIN Picked(t, L) = 1..(c + 1) /\ \A m \in 1..(c + 1) : Picked(t, L)[m] = t[h[m]]
  <2> DEFINE d == c + 1
  <2>1. d \in Nat /\ L \in SUBSET Nat
    BY <1>1, <1>2, <1>3, <1>7
  <2>2. Lists(h, d, L)
    BY <1>11, <1>13, <1>14 DEF Lists
  <2> HIDE DEF d
  <2>3. DOMAIN Picked(t, L) = 1..d /\ \A m \in 1..d : Picked(t, L)[m] = t[h[m]]
    BY <2>1, <2>2, PickedInOrder
  <2>4. QED BY <2>3 DEF d
<1>16. /\ Append(w, e) \in Seq(S) /\ Len(Append(w, e)) = c + 1
       /\ Append(w, e)[c + 1] = e /\ \A m \in 1..c : Append(w, e)[m] = w[m]
  BY <1>6, <1>7
<1>17. \A m \in 1..(c + 1) : t[h[m]] = Append(w, e)[m]
  <2>1. \A m \in 1..c : t[h[m]] = Append(w, e)[m]
    <3> SUFFICES ASSUME NEW m \in 1..c PROVE t[h[m]] = Append(w, e)[m]
      OBVIOUS
    <3>1. h[m] = Nth(K, m) /\ h[m] \in 1..n
      BY <1>8
    <3>2. t[h[m]] = s[h[m]]
      BY <1>2, <3>1
    <3>3. w[m] = s[Nth(K, m)]
      BY <1>6, <1>7
    <3>4. Append(w, e)[m] = w[m]
      BY <1>16
    <3>5. QED BY <3>1, <3>2, <3>3, <3>4
  <2>2. QED BY <1>2, <1>9, <1>10, <1>16, <2>1
<1>18. Picked(t, L) \in Seq(S) /\ Len(Picked(t, L)) = c + 1
  <2>1. Picked(t, L) \in Seq(S)
    BY <1>2, <1>3, Picking
  <2>2. QED BY <1>7, <1>15, <2>1, LenProperties
<1>19. Picked(t, L) = Append(w, e)
  BY <1>15, <1>16, <1>17, <1>18, SeqEqual
<1>20. QED BY <1>3, <1>19 DEF t, w

-----------------------------------------------------------------------------
(* What can be read of a file.                                             *)

LEMMA FramesKnown ==
  ASSUME NEW b \in Nat
  PROVE  /\ Made(b) \subseteq Frame(b) /\ Header \in Frame(b) /\ Torn \in Frame(b)
         /\ \A e \in Made(b) : e # Header /\ e # Torn
         /\ Header # Torn
<1>1. Made(b) \subseteq Entry
  BY DEF Made, Entry
<1>2. \A e \in Made(b) : e # Header /\ e # Torn
  BY <1>1, FramesDiffer
<1>3. QED BY <1>2, SpoolBounds DEF Frame

LEMMA GoodIsWhole ==
  ASSUME NEW b \in Nat, NEW f \in Seq(Frame(b)), Shaped(f)
  PROVE  /\ Whole(f) \in Nat /\ Whole(f) <= Len(f) /\ Len(f) \in Nat /\ DOMAIN f = 1..Len(f)
         /\ \A i \in 1..Whole(f) : f[i] \in Frame(b) /\ f[i] # Torn
         /\ GoodPrefix(f) = SubSeq(f, 1, Whole(f))
<1> DEFINE n == Len(f)
           bad == {i \in DOMAIN f : IsBad(f, i)}
<1>1. n \in Nat /\ DOMAIN f = 1..n /\ \A i \in 1..n : f[i] \in Frame(b)
  BY LenProperties, ElementOfSeq
<1>2. bad = {i \in 1..n : f[i] = Torn}
  <2>1. \A i \in 1..n : IsBad(f, i) <=> f[i] = Torn
    BY <1>1 DEF IsBad, Shaped
  <2>2. QED BY <1>1, <2>1
<1>3. \A i \in 1..n : f[i] = Torn => i = n
  BY <1>1 DEF Shaped
<1>4. f = <<>> <=> n = 0
  BY <1>1, EmptySeq
<1>5. CASE n # 0 /\ f[n] = Torn
  <2>1. Whole(f) = n - 1
    BY <1>4, <1>5 DEF Whole
  <2>2. bad = {n}
    <3>1. n \in 1..n
      BY <1>1, <1>5
    <3> HIDE DEF bad, n
    <3>2. \A i : i \in bad <=> i = n
      BY <1>2, <1>3, <1>5, <3>1
    <3>3. QED BY <3>2
  <2>3. GoodPrefix(f) = SubSeq(f, 1, n - 1)
    <3> DEFINE first == CHOOSE i \in bad : \A k \in bad : i <= k
    <3>1. first = n
      BY <1>1, <2>2
    <3>2. GoodPrefix(f) = SubSeq(f, 1, first - 1)
      BY <2>2 DEF GoodPrefix
    <3>3. QED BY <3>1, <3>2
  <2>4. n - 1 \in Nat /\ n - 1 <= n /\ \A i \in 1..(n - 1) : i \in 1..n /\ i # n
    <3>1. n \in Nat /\ n # 0
      BY <1>1, <1>5
    <3> HIDE DEF n
    <3>2. QED BY <3>1
  <2>5. QED BY <1>1, <1>3, <2>1, <2>3, <2>4
<1>6. CASE ~(n # 0 /\ f[n] = Torn)
  <2>1. Whole(f) = n
    BY <1>4, <1>6 DEF Whole
  <2>2. bad = {}
    <3>1. n # 0 \/ \A i \in 1..n : FALSE
      OBVIOUS
    <3> HIDE DEF bad, n
    <3>2. \A i : i \notin bad
      BY <1>2, <1>3, <1>6, <3>1
    <3>3. QED BY <3>2
  <2>3. GoodPrefix(f) = f
    BY <2>2 DEF GoodPrefix
  <2>4. QED BY <1>1, <1>2, <2>1, <2>2, <2>3, SubSeqFull
<1>7. QED BY <1>5, <1>6

LEMMA Reading ==
  ASSUME NEW b \in Nat, NEW f \in Seq(Frame(b)), Shaped(f)
  PROVE  /\ Read(f) \in Seq(Made(b)) /\ DOMAIN Read(f) = 1..Len(Read(f))
         /\ Len(Read(f)) = IF Whole(f) = 0 THEN 0 ELSE Whole(f) - 1
         /\ \A i \in 1..Len(Read(f)) : i + 1 \in 2..Whole(f) /\ Read(f)[i] = f[i + 1]
         /\ Len(GoodPrefix(f)) = Whole(f)
<1> DEFINE w == Whole(f)
           g == GoodPrefix(f)
<1>1. /\ w \in Nat /\ w <= Len(f) /\ Len(f) \in Nat /\ DOMAIN f = 1..Len(f)
      /\ \A i \in 1..w : f[i] \in Frame(b) /\ f[i] # Torn
      /\ g = SubSeq(f, 1, w)
  BY GoodIsWhole
<1> HIDE DEF w, g
<1>2. Len(g) = w /\ \A i \in 1..w : g[i] = f[i]
  <2>1. /\ Len(SubSeq(f, 1, w)) = IF 1 <= w THEN w - 1 + 1 ELSE 0
        /\ \A i \in 1..(w - 1 + 1) : SubSeq(f, 1, w)[i] = f[1 + i - 1]
    BY <1>1, SubSeqProperties
  <2>2. QED BY <1>1, <2>1
<1>3. \A i \in 2..w : f[i] \in Made(b) /\ g[i] = f[i]
  <2> SUFFICES ASSUME NEW i \in 2..w PROVE f[i] \in Made(b) /\ g[i] = f[i]
    OBVIOUS
  <2>1. i \in 1..w /\ i \in DOMAIN f /\ i # 1
    BY <1>1
  <2>2. f[i] # Header /\ f[i] # Torn
    BY <1>1, <2>1 DEF Shaped
  <2>3. QED BY <1>1, <1>2, <2>1, <2>2 DEF Frame
<1>4. /\ Read(f) \in Seq(Made(b))
      /\ Len(Read(f)) = IF 2 <= w THEN w - 2 + 1 ELSE 0
      /\ \A i \in 1..(w - 2 + 1) : Read(f)[i] = g[2 + i - 1]
  <2>1. Read(f) = SubSeq(g, 2, w)
    BY <1>2 DEF Read, Entries, g
  <2>2. \A i \in 2..w : g[i] \in Made(b)
    BY <1>3
  <2>3. QED BY <1>1, <2>1, <2>2, SubSeqProperties
<1>5. Len(Read(f)) = IF w = 0 THEN 0 ELSE w - 1
  BY <1>1, <1>4
<1>6. ASSUME NEW i \in 1..Len(Read(f)) PROVE i + 1 \in 2..w /\ Read(f)[i] = f[i + 1]
  <2>1. i + 1 \in 2..w /\ i \in 1..(w - 2 + 1) /\ 2 + i - 1 = i + 1
    BY <1>1, <1>5
  <2>2. QED BY <1>3, <1>4, <2>1
<1>7. DOMAIN Read(f) = 1..Len(Read(f))
  BY <1>4, LenProperties
<1>8. QED BY <1>2, <1>4, <1>5, <1>6, <1>7 DEF w, g

\* Two files with the same whole frames read the same.
LEMMA SameReads ==
  ASSUME NEW b \in Nat, NEW f \in Seq(Frame(b)), NEW g \in Seq(Frame(b)), Shaped(f), Shaped(g),
         Whole(f) = Whole(g) \/ (Whole(f) <= 1 /\ Whole(g) <= 1),
         \A i \in 2..Whole(f) : f[i] = g[i]
  PROVE  Read(f) = Read(g)
<1>1. /\ Read(f) \in Seq(Made(b)) /\ Read(g) \in Seq(Made(b))
      /\ Len(Read(f)) = IF Whole(f) = 0 THEN 0 ELSE Whole(f) - 1
      /\ Len(Read(g)) = IF Whole(g) = 0 THEN 0 ELSE Whole(g) - 1
      /\ \A i \in 1..Len(Read(f)) : i + 1 \in 2..Whole(f) /\ Read(f)[i] = f[i + 1]
      /\ \A i \in 1..Len(Read(g)) : i + 1 \in 2..Whole(g) /\ Read(g)[i] = g[i + 1]
  BY Reading
<1>2. Whole(f) \in Nat /\ Whole(g) \in Nat
  BY GoodIsWhole
<1>3. Len(Read(f)) = Len(Read(g))
  BY <1>1, <1>2
<1>4. \A i \in 1..Len(Read(f)) : Read(f)[i] = Read(g)[i]
  BY <1>1, <1>3
<1>5. QED BY <1>1, <1>3, <1>4, SeqEqual

\* Cutting a file to what was counted keeps all that is read of it.
LEMMA Cutting ==
  ASSUME NEW b \in Nat, NEW f \in Seq(Frame(b)), Shaped(f), NEW n,
         n = Whole(f) \/ (n = 0 /\ Whole(f) <= 1)
  PROVE  LET g == Truncated(f, n)
         IN  /\ g \in Seq(Frame(b)) /\ Shaped(g) /\ Len(g) = n /\ Whole(g) = n
             /\ Read(g) = Read(f)
<1> DEFINE g == Truncated(f, n)
<1>1. /\ n \in Nat /\ n <= Len(f) /\ Len(f) \in Nat /\ DOMAIN f = 1..Len(f)
      /\ \A i \in 1..n : f[i] \in Frame(b) /\ f[i] # Torn
  BY GoodIsWhole
<1>2. DOMAIN g = 1..n /\ \A i \in 1..n : g[i] = f[i] /\ i \in DOMAIN f
  BY <1>1 DEF Truncated
<1>3. g \in Seq(Frame(b))
  <2>1. g = [i \in 1..n |-> IF i \in DOMAIN f THEN f[i] ELSE Torn]
    BY DEF Truncated
  <2> HIDE DEF g
  <2>2. g \in [1..n -> Frame(b)]
    BY <1>1, <1>2, <2>1
  <2>3. QED BY <1>1, <2>2, SeqDef
<1> HIDE DEF g
<1>4. Len(g) = n
  BY <1>1, <1>2, <1>3, LenProperties
<1>5. Shaped(g)
  BY <1>1, <1>2 DEF Shaped
<1>6. Whole(g) = n
  <2>1. CASE g = <<>>
    BY <1>4, <2>1 DEF Whole
  <2>2. CASE g # <<>>
    <3>1. n # 0
      BY <1>3, <1>4, <2>2, EmptySeq
    <3>2. g[n] # Torn
      BY <1>1, <1>2, <3>1
    <3>3. QED BY <1>4, <3>2 DEF Whole
  <2>3. QED BY <2>1, <2>2
<1>7. Read(g) = Read(f)
  <2>1. n = Whole(f) \/ (n <= 1 /\ Whole(f) <= 1)
    OBVIOUS
  <2>2. \A i \in 2..n : g[i] = f[i]
    BY <1>1, <1>2
  <2>3. QED BY <1>3, <1>5, <1>6, <2>1, <2>2, SameReads
<1>8. QED BY <1>3, <1>4, <1>5, <1>6, <1>7 DEF g

\* The first entry brings the header with it.
LEMMA PayloadIs ==
  ASSUME NEW b \in Nat, NEW n \in Nat, NEW w, w.first = (n = 0), w.entry \in Made(b)
  PROVE  /\ Payload(w) \in Seq(Frame(b)) /\ Len(Payload(w)) = IF n = 0 THEN 2 ELSE 1
         /\ n = 0 => Payload(w)[1] = Header /\ Payload(w)[2] = w.entry
         /\ n # 0 => Payload(w)[1] = w.entry
<1>1. w.entry \in Frame(b) /\ Header \in Frame(b)
  BY FramesKnown
<1>2. <<w.entry>> \in Seq(Frame(b)) /\ <<Header>> \in Seq(Frame(b)) /\ <<>> \in Seq(Frame(b))
  BY <1>1
<1>3. CASE n = 0
  <2>1. Payload(w) = <<Header>> \o <<w.entry>>
    BY <1>3 DEF Payload
  <2>2. /\ Payload(w) \in Seq(Frame(b)) /\ Len(Payload(w)) = 1 + 1
        /\ \A i \in 1..(1 + 1) :
             Payload(w)[i] = IF i <= 1 THEN <<Header>>[i] ELSE <<w.entry>>[i - 1]
    BY <1>2, <2>1, ConcatProperties
  <2>3. QED BY <1>3, <2>2
<1>4. CASE n # 0
  <2>1. Payload(w) = <<w.entry>>
    BY <1>2, <1>4, ConcatEmptySeq DEF Payload
  <2>2. QED BY <1>2, <1>4, <2>1
<1>5. QED BY <1>3, <1>4

\* A whole append is read as one more entry.
LEMMA Growing ==
  ASSUME NEW b \in Nat, NEW f \in Seq(Frame(b)), Shaped(f), Whole(f) = Len(f),
         NEW w, w.first = (Len(f) = 0), w.entry \in Made(b)
  PROVE  LET g == f \o Payload(w)
         IN  /\ g \in Seq(Frame(b)) /\ Shaped(g)
             /\ Len(g) = Len(f) + Len(Payload(w)) /\ Whole(g) = Len(g)
             /\ g[Len(g)] = w.entry /\ Len(Payload(w)) \in Nat
             /\ Read(g) = Append(Read(f), w.entry)
<1> DEFINE p == Payload(w)
           g == f \o p
           n == Len(f)
           e == w.entry
<1>1. /\ n \in Nat /\ DOMAIN f = 1..n /\ \A i \in 1..n : f[i] # Torn
  BY GoodIsWhole
<1>2. /\ p \in Seq(Frame(b)) /\ Len(p) = IF n = 0 THEN 2 ELSE 1
      /\ n = 0 => p[1] = Header /\ p[2] = e
      /\ n # 0 => p[1] = e
  BY <1>1, PayloadIs
<1> HIDE DEF p
<1>3. /\ g \in Seq(Frame(b)) /\ Len(g) = n + Len(p)
      /\ \A i \in 1..(n + Len(p)) : g[i] = IF i <= n THEN f[i] ELSE p[i - n]
  BY <1>2, ConcatProperties
<1>4. DOMAIN g = 1..Len(g)
  BY <1>3, LenProperties
<1> HIDE DEF g, n
<1>5. e # Header /\ e # Torn /\ Header # Torn
  BY FramesKnown
<1>6. Shaped(g) /\ g[Len(g)] = e /\ Len(p) \in Nat /\ Len(g) \in Nat /\ Len(g) >= 1
  <2>1. CASE n = 0
    <3>1. Len(p) = 2 /\ Len(g) = 2 /\ g[1] = Header /\ g[2] = e
      <4>1. Len(p) = 2 /\ p[1] = Header /\ p[2] = e
        BY <1>2, <2>1
      <4>2. QED BY <1>3, <2>1, <4>1
    <3>2. \A i \in DOMAIN g : i = 1 \/ i = 2
      BY <1>4, <3>1
    <3>3. QED BY <1>5, <3>1, <3>2 DEF Shaped
  <2>2. CASE n # 0
    <3>1. /\ Len(p) = 1 /\ Len(g) = n + 1 /\ g[n + 1] = e
          /\ \A i \in 1..n : g[i] = f[i]
      <4>1. Len(p) = 1 /\ p[1] = e
        BY <1>2, <2>2
      <4>2. QED BY <1>1, <1>3, <4>1
    <3>2. \A i \in DOMAIN g : i \in 1..n \/ i = n + 1
      BY <1>1, <1>4, <3>1
    <3>3. ASSUME NEW i \in DOMAIN g
          PROVE  /\ g[i] = Torn => i = Len(g)
                 /\ g[i] # Torn => (g[i] = Header <=> i = 1)
      <4>1. CASE i \in 1..n
        BY <1>1, <3>1, <4>1 DEF Shaped
      <4>2. CASE i = n + 1
        BY <1>1, <1>5, <2>2, <3>1, <4>2
      <4>3. QED BY <3>2, <4>1, <4>2
    <3>4. QED BY <1>1, <3>1, <3>3 DEF Shaped
  <2>3. QED BY <2>1, <2>2
<1>7. Whole(g) = Len(g)
  BY <1>5, <1>6 DEF Whole
<1>8. /\ Read(f) \in Seq(Made(b)) /\ Len(Read(f)) = IF n = 0 THEN 0 ELSE n - 1
      /\ \A i \in 1..Len(Read(f)) : i + 1 \in 2..n /\ Read(f)[i] = f[i + 1]
  BY Reading DEF n
<1>9. /\ Read(g) \in Seq(Made(b)) /\ Len(Read(g)) = Len(g) - 1
      /\ \A i \in 1..Len(Read(g)) : i + 1 \in 2..Len(g) /\ Read(g)[i] = g[i + 1]
  BY <1>3, <1>6, <1>7, Reading
<1>10. /\ Append(Read(f), e) \in Seq(Made(b)) /\ Len(Append(Read(f), e)) = Len(Read(f)) + 1
       /\ Append(Read(f), e)[Len(Read(f)) + 1] = e
       /\ \A i \in 1..Len(Read(f)) : Append(Read(f), e)[i] = Read(f)[i]
  BY <1>8
<1>11. Len(Read(g)) = Len(Read(f)) + 1 /\ Len(Read(f)) \in Nat
  <2>1. n \in Nat /\ Len(p) = IF n = 0 THEN 2 ELSE 1
    BY <1>1, <1>2
  <2>2. QED BY <1>3, <1>8, <1>9, <2>1
<1>12. ASSUME NEW i \in 1..Len(Read(g)) PROVE Read(g)[i] = Append(Read(f), e)[i]
  <2>1. CASE i = Len(Read(f)) + 1
    <3>1. i + 1 = Len(g)
      BY <1>9, <1>11, <1>6, <2>1
    <3>2. QED BY <1>6, <1>9, <1>10, <1>12, <2>1, <3>1
  <2>2. CASE i # Len(Read(f)) + 1
    <3>1. i \in 1..Len(Read(f))
      BY <1>11, <1>12, <2>2
    <3>2. g[i + 1] = f[i + 1]
      <4>1. i + 1 \in 1..n /\ Len(p) \in Nat
        BY <1>1, <1>6, <1>8, <3>1
      <4>2. QED BY <1>1, <1>3, <4>1
    <3>3. QED BY <1>8, <1>9, <1>10, <1>12, <3>1, <3>2
  <2>3. QED BY <2>1, <2>2
<1>13. Read(g) = Append(Read(f), e)
  BY <1>9, <1>10, <1>11, <1>12, SeqEqual
<1>14. QED BY <1>3, <1>6, <1>7, <1>13 DEF g, p

\* An interrupted append is read as nothing.
LEMMA Interrupted ==
  ASSUME NEW b \in Nat, NEW f \in Seq(Frame(b)), Shaped(f), Whole(f) = Len(f),
         NEW w, w.first = (Len(f) = 0), w.entry \in Made(b), NEW r \in Residues(w)
  PROVE  LET g == f \o r
         IN  /\ g \in Seq(Frame(b)) /\ Shaped(g)
             /\ Whole(g) = Whole(f) \/ (Len(f) = 0 /\ Whole(g) <= 1)
             /\ Read(g) = Read(f)
<1> DEFINE p == Payload(w)
           g == f \o r
           n == Len(f)
<1>1. /\ n \in Nat /\ DOMAIN f = 1..n /\ \A i \in 1..n : f[i] # Torn
  BY GoodIsWhole
<1>2. /\ p \in Seq(Frame(b)) /\ Len(p) = IF n = 0 THEN 2 ELSE 1
      /\ n = 0 => p[1] = Header
  BY <1>1, PayloadIs
<1>3. r = <<>> \/ \E m \in 0..(Len(p) - 1) : r = Append(SubSeq(p, 1, m), Torn)
  BY DEF Residues
<1> HIDE DEF p
<1>4. Torn \in Frame(b) /\ Header \in Frame(b) /\ Header # Torn
  BY FramesKnown
<1>5. CASE r = <<>>
  <2>1. g = f
    BY <1>5, ConcatEmptySeq
  <2>2. QED BY <2>1
<1>6. ASSUME NEW m \in 0..(Len(p) - 1), r = Append(SubSeq(p, 1, m), Torn)
      PROVE  /\ g \in Seq(Frame(b)) /\ Shaped(g)
             /\ Whole(g) = n \/ (n = 0 /\ Whole(g) <= 1)
             /\ Read(g) = Read(f)
  <2> DEFINE q == SubSeq(p, 1, m)
  <2>1. m = 0 \/ (m = 1 /\ n = 0)
    BY <1>1, <1>2
  <2>2. /\ q \in Seq(Frame(b)) /\ Len(q) = m /\ (m = 1 => q[1] = Header)
    <3>1. \A i \in 1..m : i \in 1..Len(p) /\ p[i] \in Frame(b)
      BY <1>1, <1>2, <2>1, ElementOfSeq
    <3>2. /\ q \in Seq(Frame(b)) /\ Len(q) = IF 1 <= m THEN m - 1 + 1 ELSE 0
          /\ \A i \in 1..(m - 1 + 1) : q[i] = p[1 + i - 1]
      BY <3>1, SubSeqProperties
    <3>3. QED BY <1>2, <2>1, <3>2
  <2> HIDE DEF q
  <2>3. /\ r \in Seq(Frame(b)) /\ Len(r) = m + 1 /\ r[m + 1] = Torn
        /\ m = 1 => r[1] = Header
    <3>1. r = Append(q, Torn)
      BY <1>6 DEF q
    <3>2. QED BY <1>4, <2>1, <2>2, <3>1
  <2>4. /\ g \in Seq(Frame(b)) /\ Len(g) = n + (m + 1)
        /\ \A i \in 1..(n + (m + 1)) : g[i] = IF i <= n THEN f[i] ELSE r[i - n]
    <3>1. /\ f \o r \in Seq(Frame(b)) /\ Len(f \o r) = Len(f) + Len(r)
          /\ \A i \in 1..(Len(f) + Len(r)) :
               (f \o r)[i] = IF i <= Len(f) THEN f[i] ELSE r[i - Len(f)]
      <4>1. r \in Seq(Frame(b))
        BY <2>3
      <4>2. QED BY <4>1, ConcatProperties, Zenon
    <3>2. QED BY <2>3, <3>1
  <2>5. DOMAIN g = 1..Len(g)
    BY <2>4, LenProperties
  <2> HIDE DEF g
  <2> HIDE DEF n
  <2>6. CASE m = 0
    <3>1. /\ Len(g) = n + 1 /\ g[n + 1] = Torn /\ \A i \in 1..n : g[i] = f[i]
      BY <1>1, <2>3, <2>4, <2>6
    <3>2. \A i \in DOMAIN g : i \in 1..n \/ i = n + 1
      BY <1>1, <2>5, <3>1
    <3>3. ASSUME NEW i \in DOMAIN g
          PROVE  /\ g[i] = Torn => i = Len(g)
                 /\ g[i] # Torn => (g[i] = Header <=> i = 1)
      <4>1. CASE i \in 1..n
        BY <1>1, <3>1, <4>1 DEF Shaped
      <4>2. CASE i = n + 1
        BY <3>1, <4>2
      <4>3. QED BY <3>2, <4>1, <4>2
    <3>4. Shaped(g)
      BY <3>3 DEF Shaped
    <3>5. Whole(g) = n
      <4>1. g # <<>>
        BY <1>1, <3>1, <2>4, EmptySeq
      <4>2. QED BY <1>1, <3>1, <4>1 DEF Whole
    <3>6. Read(g) = Read(f)
      <4>1. Whole(f) = Whole(g) /\ \A i \in 2..Whole(g) : g[i] = f[i]
        BY <1>1, <3>1, <3>5 DEF n
      <4>2. QED BY <2>4, <3>4, <4>1, SameReads
    <3>7. QED BY <2>4, <3>4, <3>5, <3>6
  <2>7. CASE m = 1 /\ n = 0
    <3>1. Len(g) = 2 /\ g[1] = Header /\ g[2] = Torn
      BY <2>3, <2>4, <2>7
    <3>2. \A i \in DOMAIN g : i = 1 \/ i = 2
      BY <2>5, <3>1
    <3>3. Shaped(g)
      BY <1>4, <3>1, <3>2 DEF Shaped
    <3>4. Whole(g) = 1
      <4>1. g # <<>>
        BY <3>1, <2>4, EmptySeq
      <4>2. QED BY <3>1, <4>1 DEF Whole
    <3>5. Read(g) = Read(f)
      <4>1. Whole(g) <= 1 /\ Whole(f) <= 1 /\ \A i \in 2..Whole(g) : g[i] = f[i]
        BY <3>4, <2>7 DEF n
      <4>2. QED BY <2>4, <3>3, <4>1, SameReads
    <3>6. QED BY <2>4, <2>7, <3>3, <3>4, <3>5
  <2>8. QED BY <2>1, <2>6, <2>7
<1>7. QED BY <1>3, <1>5, <1>6 DEF n

\* A compacted file is read as the queue it was made of.
LEMMA Compacting ==
  ASSUME NEW b \in Nat, NEW s \in Seq(Made(b))
  PROVE  LET g == <<Header>> \o s
         IN  /\ g \in Seq(Frame(b)) /\ Shaped(g) /\ Whole(g) = Len(g) /\ Len(g) \in Nat
             /\ Read(g) = s
<1> DEFINE g == <<Header>> \o s
           h == <<Header>>
           n == Len(s)
<1>1. n \in Nat /\ DOMAIN s = 1..n /\ \A i \in 1..n : s[i] \in Made(b)
  BY LenProperties, ElementOfSeq
<1>2. /\ Made(b) \subseteq Frame(b) /\ Header \in Frame(b)
      /\ \A e \in Made(b) : e # Header /\ e # Torn
      /\ Header # Torn
  BY FramesKnown
<1>3. s \in Seq(Frame(b)) /\ h \in Seq(Frame(b)) /\ Len(h) = 1 /\ h[1] = Header
  BY <1>2, SeqMonotonic
<1> HIDE DEF h
<1>4. /\ g \in Seq(Frame(b)) /\ Len(g) = 1 + n
      /\ \A i \in 1..(1 + n) : g[i] = IF i <= 1 THEN h[i] ELSE s[i - 1]
  <2>1. /\ h \o s \in Seq(Frame(b)) /\ Len(h \o s) = Len(h) + n
        /\ \A i \in 1..(Len(h) + n) : (h \o s)[i] = IF i <= Len(h) THEN h[i] ELSE s[i - Len(h)]
    BY <1>3, ConcatProperties
  <2>2. g = h \o s
    BY DEF h
  <2> HIDE DEF g
  <2>3. QED BY <1>3, <2>1, <2>2
<1>5. DOMAIN g = 1..Len(g)
  BY <1>4, LenProperties
<1> HIDE DEF g, n
<1>6. g[1] = Header /\ \A i \in 1..n : i + 1 \in DOMAIN g /\ g[i + 1] = s[i]
  BY <1>1, <1>3, <1>4, <1>5
<1>7. \A i \in DOMAIN g : i # 1 => i - 1 \in 1..n /\ g[i] = s[i - 1]
  BY <1>1, <1>4, <1>5
<1>8. Shaped(g)
  <2>1. ASSUME NEW i \in DOMAIN g
        PROVE  /\ g[i] = Torn => i = Len(g)
               /\ g[i] # Torn => (g[i] = Header <=> i = 1)
    <3>1. CASE i = 1
      BY <1>2, <1>6, <3>1
    <3>2. CASE i # 1
      <4>1. g[i] \in Made(b)
        BY <1>1, <1>7, <3>2
      <4>2. QED BY <1>2, <3>2, <4>1
    <3>3. QED BY <3>1, <3>2
  <2>2. QED BY <2>1 DEF Shaped
<1>9. Whole(g) = Len(g) /\ Len(g) \in Nat
  <2>1. Len(g) \in Nat /\ Len(g) \in DOMAIN g
    BY <1>1, <1>4, <1>5
  <2>2. g[Len(g)] # Torn
    <3>1. CASE Len(g) = 1
      BY <1>2, <1>6, <3>1
    <3>2. CASE Len(g) # 1
      <4>1. g[Len(g)] \in Made(b)
        BY <1>1, <1>7, <2>1, <3>2
      <4>2. QED BY <1>2, <4>1
    <3>3. QED BY <3>1, <3>2
  <2>3. QED BY <2>1, <2>2 DEF Whole
<1>10. /\ Read(g) \in Seq(Made(b)) /\ Len(Read(g)) = n
       /\ \A i \in 1..n : Read(g)[i] = s[i]
  <2>1. /\ Read(g) \in Seq(Made(b))
        /\ Len(Read(g)) = IF Whole(g) = 0 THEN 0 ELSE Whole(g) - 1
        /\ \A i \in 1..Len(Read(g)) : i + 1 \in 2..Whole(g) /\ Read(g)[i] = g[i + 1]
    BY <1>4, <1>8, Reading
  <2>2. Len(Read(g)) = n
    BY <1>1, <1>4, <1>9, <2>1
  <2>3. QED BY <1>6, <2>1, <2>2
<1>11. Read(g) = s
  BY <1>10, SeqEqual DEF n
<1>12. QED BY <1>4, <1>8, <1>9, <1>11 DEF g

-----------------------------------------------------------------------------
(* Numbers, and the shapes of what is under way.                           *)

LEMMA HighestIs ==
  ASSUME NEW b \in Nat, NEW S \in SUBSET (0..b), S # {}
  PROVE  Highest(S) \in S /\ \A m \in S : m <= Highest(S)
<1> DEFINE T == {b - m : m \in S}
<1>1. \A m \in S : m \in Nat /\ m <= b
  OBVIOUS
<1>2. T \in SUBSET Nat /\ T # {}
  <2>1. \A m \in S : b - m \in Nat
    BY <1>1
  <2>2. QED BY <2>1
<1>3. PICK x \in T : \A y \in T : x <= y
  BY <1>2, LeastExists
<1>4. PICK n \in S : x = b - n
  BY <1>3
<1>5. \A m \in S : b - n <= b - m
  BY <1>3, <1>4
<1>6. \A m \in S : m <= n
  BY <1>1, <1>5
<1>7. QED BY <1>6 DEF Highest

LEMMA MadeFields ==
  ASSUME NEW b \in Nat, NEW e \in Made(b)
  PROVE  e.id \in 0..b /\ e.job \in Jobs /\ e.seq \in 0..b /\ e.dead \in BOOLEAN
  BY DEF Made

LEMMA HighestOfSome ==
  ASSUME NEW b \in Nat, NEW s \in Seq(Made(b)), NEW j
  PROVE  /\ HighestSequence(s, j) \in 0..b
         /\ \A i \in DOMAIN s : s[i].job = j => s[i].seq <= HighestSequence(s, j)
<1> DEFINE S == {0} \cup {s[i].seq : i \in {k \in DOMAIN s : s[k].job = j}}
<1>1. \A i \in DOMAIN s : s[i].seq \in 0..b
  BY LenProperties, ElementOfSeq, MadeFields
<1>2. S \in SUBSET (0..b) /\ S # {}
  BY <1>1
<1>3. HighestSequence(s, j) = Highest(S)
  BY DEF HighestSequence
<1>4. \A i \in DOMAIN s : s[i].job = j => s[i].seq \in S
  OBVIOUS
<1> HIDE DEF S
<1>5. QED BY <1>2, <1>3, <1>4, HighestIs

LEMMA HighestOfTwo ==
  ASSUME NEW b \in Nat, NEW m \in 0..b, NEW n \in 0..b
  PROVE  /\ Highest({m, n}) \in 0..b /\ m <= Highest({m, n}) /\ n <= Highest({m, n})
         /\ Highest({m, n}) = m \/ Highest({m, n}) = n
<1>1. {m, n} \in SUBSET (0..b) /\ {m, n} # {}
  OBVIOUS
<1>2. QED BY <1>1, HighestIs

LEMMA WriterFields ==
  ASSUME NEW b \in Nat, NEW w \in WriterRow(b), w # NoWrite
  PROVE  /\ w.first \in BOOLEAN /\ w.entry \in Made(b)
         /\ w.step \in {"stat", "guard", "truncate", "open", "write", "count"}
         /\ w.step = "guard" => w.size \in Nat
         /\ w.step = "truncate" => w.length \in Nat
         /\ w.step = "write" => w.unlinked = FALSE
  BY DEF WriterRow, NoWrite

LEMMA FlushFields ==
  ASSUME NEW b \in Nat, NEW x \in FlushRow(b), x # NoFlush
  PROVE  /\ x.ids \in SUBSET (0..b)
         /\ \/ x.step \in {"acks", "sequences", "decide"} /\ x.kind = "ack"
            \/ /\ x.step \in {"rename", "settle", "clear"} /\ x.kind \in {"ack", "mark", "open"}
               /\ x.buffer \in Seq(Frame(b))
  BY DEF FlushRow, NoFlush

\* What was made stays what may be made.
LEMMA MoreMade ==
  ASSUME NEW b \in Nat
  PROVE  /\ Made(b) \subseteq Made(b + 1) /\ Frame(b) \subseteq Frame(b + 1)
         /\ Seq(Made(b)) \subseteq Seq(Made(b + 1)) /\ Seq(Frame(b)) \subseteq Seq(Frame(b + 1))
         /\ WriterRow(b) \subseteq WriterRow(b + 1) /\ FlushRow(b) \subseteq FlushRow(b + 1)
         /\ 0..b \subseteq 0..(b + 1)
<1>1. 0..b \subseteq 0..(b + 1)
  OBVIOUS
<1>2. Made(b) \subseteq Made(b + 1)
  BY <1>1 DEF Made
<1>3. Frame(b) \subseteq Frame(b + 1)
  BY <1>2 DEF Frame
<1>4. Seq(Made(b)) \subseteq Seq(Made(b + 1)) /\ Seq(Frame(b)) \subseteq Seq(Frame(b + 1))
  BY <1>2, <1>3, SeqMonotonic
<1>5. WriterRow(b) \subseteq WriterRow(b + 1)
  BY <1>2 DEF WriterRow
<1>6. FlushRow(b) \subseteq FlushRow(b + 1)
  BY <1>1, <1>4 DEF FlushRow
<1>7. QED BY <1>1, <1>2, <1>3, <1>4, <1>5, <1>6

-----------------------------------------------------------------------------
(* The file is counted right, and one operation at a time touches it.      *)

LEMMA InitFile == Init => FileInv
<1> SUFFICES ASSUME Init PROVE FileInv
  OBVIOUS
<1>1. seen.born = 0 /\ 0 \in 0..seen.born
  BY DEF Init
<1>2. SpoolTypeOK
  BY <1>1 DEF Init, SpoolTypeOK, WriterRow, FlushRow, SeenRow
<1>3. DOMAIN file = {}
  BY DEF Init
<1>4. Shaped(file)
  BY <1>3 DEF Shaped
<1>5. Writing = {} /\ ~Flushing /\ ~Alive
  BY DEF Init, Writing, Flushing, Alive
<1>6. Alone
  BY <1>5 DEF Alone, Init
<1>7. LengthsFit
  BY <1>5 DEF LengthsFit
<1>8. QED BY <1>2, <1>4, <1>6, <1>7 DEF FileInv

\* Who is at a step of an enqueue is alone, and so is who is at a step of a flush.
LEMMA WriterAlone ==
  ASSUME FileInv, NEW j \in Jobs, writer[j] # NoWrite
  PROVE  /\ Writing = {j} /\ ~Flushing /\ mode = "up" /\ Alive /\ seen \in SeenRow(seen.born)
         /\ writer \in [Jobs -> WriterRow(seen.born)] /\ writer[j] \in WriterRow(seen.born)
         /\ seen.born \in Nat /\ committed \in Nat /\ writer[j].entry.job = j
         /\ writer[j].first = (committed = 0) /\ WriterAt(writer[j], file, committed)
<1>1. j \in Writing
  BY DEF Writing
<1>2. \A k \in Writing : k = j
  BY <1>1 DEF FileInv, Alone
<1>3. Writing = {j}
  BY <1>1, <1>2
<1>4. ~Flushing /\ mode = "up" /\ Alive
  BY <1>3 DEF FileInv, Alone, Alive
<1>5. QED BY <1>1, <1>3, <1>4 DEF FileInv, SpoolTypeOK, LengthsFit, SeenRow

LEMMA FlusherAlone ==
  ASSUME FileInv, Flushing
  PROVE  /\ Alive /\ Writing = {} /\ flusher \in FlushRow(seen.born) /\ seen.born \in Nat
         /\ \A j \in Jobs : writer[j] = NoWrite
  BY DEF FileInv, SpoolTypeOK, Alone, Writing, SeenRow

\* What a step of an enqueue has to show: where it goes on.
LEMMA WriterMoves ==
  ASSUME FileInv, NEW j \in Jobs, writer[j] # NoWrite, NEW row \in WriterRow(seen.born),
         writer' = [writer EXCEPT ![j] = row], UNCHANGED <<mode, flusher>>,
         row = NoWrite => Counts(committed', file'),
         row # NoWrite => /\ row.first = (committed' = 0) /\ row.entry.job = j
                          /\ WriterAt(row, file', committed')
  PROVE  Alone' /\ LengthsFit' /\ writer' \in [Jobs -> WriterRow(seen.born)]
<1>1. /\ Writing = {j} /\ ~Flushing /\ mode = "up"
      /\ writer \in [Jobs -> WriterRow(seen.born)]
  BY WriterAlone
<1>2. /\ writer'[j] = row /\ \A k \in Jobs \ {j} : writer'[k] = NoWrite
      /\ writer' \in [Jobs -> WriterRow(seen.born)]
  BY <1>1 DEF Writing
<1>3. mode' = "up" /\ ~Flushing' /\ Writing' \subseteq {j} /\ Alive'
  BY <1>1, <1>2 DEF Flushing, Writing, Alive
<1>4. Alone'
  BY <1>3 DEF Alone
<1>5. CASE row = NoWrite
  <2>1. Writing' = {} /\ Counts(committed', file')
    BY <1>2, <1>3, <1>5 DEF Writing
  <2>2. QED BY <1>2, <1>3, <1>4, <2>1 DEF LengthsFit
<1>6. CASE row # NoWrite
  <2>1. Writing' = {j}
    BY <1>2, <1>3, <1>6 DEF Writing
  <2>2. QED BY <1>2, <1>3, <1>4, <1>6, <2>1 DEF LengthsFit
<1>7. QED BY <1>5, <1>6

\* An enqueue that goes on without adding to what a restart finds.
LEMMA WriterGoesOn ==
  ASSUME FileInv, NEW j \in Jobs, writer[j] # NoWrite,
         UNCHANGED <<mode, memory, flusher, ackFile, seqFile, seen>>,
         NEW row \in WriterRow(seen.born), writer' = [writer EXCEPT ![j] = row],
         row = NoWrite => Counts(committed, file'),
         row # NoWrite => /\ row.first = writer[j].first /\ row.entry = writer[j].entry
                          /\ WriterAt(row, file', committed),
         file' \in Seq(Frame(seen.born)), Shaped(file')
  PROVE  FileInv'
<1>1. /\ mode' = mode /\ flusher' = flusher /\ committed' = committed /\ seen' = seen
      /\ entries' = entries /\ acked' = acked /\ sequences' = sequences
      /\ ackFile' = ackFile /\ seqFile' = seqFile
  BY DEF memory
<1>2. writer[j].first = (committed = 0) /\ writer[j].entry.job = j
  BY WriterAlone
<1>3. Alone' /\ LengthsFit' /\ writer' \in [Jobs -> WriterRow(seen.born)]
  BY <1>1, <1>2, WriterMoves
<1>4. SpoolTypeOK'
  BY <1>1, <1>3 DEF FileInv, SpoolTypeOK
<1>5. QED BY <1>3, <1>4 DEF FileInv

\* The next row of an enqueue, at a step that only names the entry.
LEMMA RowAt ==
  ASSUME NEW b \in Nat, NEW w \in WriterRow(b), w # NoWrite, NEW s \in {"open", "count"}
  PROVE  LET row == [step |-> s, first |-> w.first, entry |-> w.entry]
         IN  row \in WriterRow(b) /\ row # NoWrite
  BY WriterFields DEF WriterRow, NoWrite

\* The steps of an enqueue up to its write.
Prepares(j) == Stat(j) \/ Guard(j) \/ Truncate(j) \/ OpenForAppend(j)

LEMMA WriterPrepares ==
  ASSUME FileInv, NEW j \in Jobs, Prepares(j)
  PROVE  /\ FileInv' /\ Read(file') = Read(file)
         /\ UNCHANGED <<mode, memory, flusher, ackFile, seqFile, seen>>
         /\ writer[j] # NoWrite /\ writer[j].step # "count"
         /\ \E row : /\ writer' = [writer EXCEPT ![j] = row]
                     /\ row # NoWrite /\ row.entry = writer[j].entry /\ row.step # "count"
<1> DEFINE b == seen.born
           w == writer[j]
           open == [step |-> "open", first |-> w.first, entry |-> w.entry]
<1>1. w # NoWrite /\ w.step \in {"stat", "guard", "truncate", "open"}
  BY DEF Prepares, Stat, Guard, Truncate, OpenForAppend, NoWrite
<1>2. /\ w \in WriterRow(b) /\ b \in Nat /\ writer \in [Jobs -> WriterRow(b)]
      /\ committed \in Nat /\ WriterAt(w, file, committed)
  BY <1>1, WriterAlone
<1>3. w.first \in BOOLEAN /\ w.entry \in Made(b) /\ (w.step = "guard" => w.size \in Nat)
  BY <1>1, <1>2, WriterFields
<1>4. UNCHANGED <<mode, memory, flusher, ackFile, seqFile, seen>>
  BY DEF Prepares, Stat, Guard, Truncate, OpenForAppend, disk
<1>5. file \in Seq(Frame(b)) /\ Shaped(file)
  BY DEF FileInv, SpoolTypeOK
<1>6. Len(file) \in Nat /\ Whole(file) \in Nat /\ Whole(file) <= Len(file)
  BY <1>2, <1>5, GoodIsWhole
<1>7. open \in WriterRow(b) /\ open # NoWrite
  BY <1>1, <1>2, RowAt
<1>8. ASSUME NEW r \in WriterRow(b), writer' = [writer EXCEPT ![j] = r], r # NoWrite,
             r.first = w.first, r.entry = w.entry, r.step # "count",
             file' \in Seq(Frame(b)), Shaped(file'), Read(file') = Read(file),
             WriterAt(r, file', committed)
      PROVE  /\ FileInv' /\ Read(file') = Read(file)
             /\ \E x : /\ writer' = [writer EXCEPT ![j] = x]
                       /\ x # NoWrite /\ x.entry = w.entry /\ x.step # "count"
  <2>1. FileInv'
    BY <1>1, <1>4, <1>8, WriterGoesOn
  <2>2. QED BY <1>8, <2>1
<1> HIDE DEF open
<1>9. CASE Stat(j)
  <2> DEFINE r == [step |-> "guard", first |-> w.first, entry |-> w.entry, size |-> Len(file)]
  <2>1. w.step = "stat" /\ writer' = [writer EXCEPT ![j] = r] /\ file' = file
    BY <1>9 DEF Stat, disk
  <2>2. r \in WriterRow(b) /\ r # NoWrite
    BY <1>3, <1>6 DEF WriterRow, NoWrite
  <2>3. r.first = w.first /\ r.entry = w.entry /\ r.step = "guard" /\ r.size = Len(file)
    OBVIOUS
  <2> HIDE DEF r
  <2>4. WriterAt(r, file', committed)
    BY <1>2, <2>1, <2>3 DEF WriterAt
  <2>5. QED BY <1>1, <1>4, <1>5, <1>8, <2>1, <2>2, <2>3, <2>4
<1>10. CASE Guard(j)
  <2>1. w.step = "guard" /\ file' = file /\ Counts(committed, file) /\ w.size = Len(file)
    BY <1>2, <1>10 DEF Guard, WriterAt, disk
  <2>2. CASE w.size > committed
    <3> DEFINE r == [step |-> "truncate", first |-> w.first, entry |-> w.entry,
                     length |-> committed]
    <3>1. writer' = [writer EXCEPT ![j] = r]
      BY <1>10, <2>2 DEF Guard
    <3>2. r \in WriterRow(b) /\ r # NoWrite
      BY <1>2, <1>3 DEF WriterRow, NoWrite
    <3>3. r.first = w.first /\ r.entry = w.entry /\ r.step = "truncate" /\ r.length = committed
      OBVIOUS
    <3> HIDE DEF r
    <3>4. WriterAt(r, file', committed)
      BY <2>1, <3>3 DEF WriterAt
    <3>5. QED BY <1>1, <1>4, <1>5, <1>8, <2>1, <3>1, <3>2, <3>3, <3>4
  <2>3. CASE ~(w.size > committed)
    <3>1. writer' = [writer EXCEPT ![j] = open]
      BY <1>10, <2>3 DEF Guard, Step, open
    <3>2. open.first = w.first /\ open.entry = w.entry /\ open.step = "open"
      BY DEF open
    <3>3. Len(file) = committed /\ Whole(file) = committed
      BY <1>2, <1>6, <2>1, <2>3 DEF Counts
    <3>4. WriterAt(open, file', committed)
      BY <2>1, <3>2, <3>3 DEF WriterAt
    <3>5. QED BY <1>1, <1>4, <1>5, <1>7, <1>8, <2>1, <3>1, <3>2, <3>4
  <2>4. QED BY <2>2, <2>3
<1>11. CASE Truncate(j)
  <2>1. /\ w.step = "truncate" /\ Counts(committed, file) /\ w.length = committed
        /\ file' = Truncated(file, w.length)
    BY <1>2, <1>11 DEF Truncate, WriterAt
  <2>2. writer' = [writer EXCEPT ![j] = open]
    BY <1>11 DEF Truncate, Step, open
  <2>3. /\ file' \in Seq(Frame(b)) /\ Shaped(file') /\ Len(file') = committed
        /\ Whole(file') = committed /\ Read(file') = Read(file)
    <3>1. committed = Whole(file) \/ (committed = 0 /\ Whole(file) <= 1)
      BY <2>1 DEF Counts
    <3>2. QED BY <1>2, <1>5, <2>1, <3>1, Cutting
  <2>4. open.first = w.first /\ open.entry = w.entry /\ open.step = "open"
    BY DEF open
  <2>5. WriterAt(open, file', committed)
    BY <2>3, <2>4 DEF WriterAt
  <2>6. QED BY <1>1, <1>4, <1>7, <1>8, <2>2, <2>3, <2>4, <2>5
<1>12. CASE OpenForAppend(j)
  <2> DEFINE r == [step |-> "write", first |-> w.first, entry |-> w.entry, unlinked |-> FALSE]
  <2>1. w.step = "open" /\ writer' = [writer EXCEPT ![j] = r] /\ file' = file
    BY <1>12 DEF OpenForAppend, disk
  <2>2. r \in WriterRow(b) /\ r # NoWrite
    BY <1>3 DEF WriterRow, NoWrite
  <2>3. r.first = w.first /\ r.entry = w.entry /\ r.step = "write"
    OBVIOUS
  <2> HIDE DEF r
  <2>4. WriterAt(r, file', committed)
    BY <1>2, <2>1, <2>3 DEF WriterAt
  <2>5. QED BY <1>1, <1>4, <1>5, <1>8, <2>1, <2>2, <2>3, <2>4
<1>13. QED BY <1>1, <1>4, <1>9, <1>10, <1>11, <1>12 DEF Prepares

\* The write itself, whole or not.
LEMMA WriterWrites ==
  ASSUME FileInv, NEW j \in Jobs, writer[j] # NoWrite, writer[j].step = "write"
  PROVE  /\ writer[j].entry \in Made(seen.born) /\ ~writer[j].unlinked
         /\ file \in Seq(Frame(seen.born)) /\ Shaped(file) /\ seen.born \in Nat
         /\ Whole(file) = Len(file) /\ Len(file) = committed
         /\ writer[j].first = (Len(file) = 0)
<1>1. /\ writer[j] \in WriterRow(seen.born) /\ seen.born \in Nat
      /\ writer[j].first = (committed = 0) /\ WriterAt(writer[j], file, committed)
  BY WriterAlone
<1>2. writer[j].entry \in Made(seen.born) /\ ~writer[j].unlinked
  BY <1>1, WriterFields
<1>3. Whole(file) = Len(file) /\ Len(file) = committed
  BY <1>1 DEF WriterAt
<1>4. file \in Seq(Frame(seen.born)) /\ Shaped(file)
  BY DEF FileInv, SpoolTypeOK
<1>5. QED BY <1>1, <1>2, <1>3, <1>4

LEMMA WriterAppends ==
  ASSUME FileInv, NEW j \in Jobs, AppendDurably(j)
  PROVE  /\ FileInv' /\ Read(file') = Append(Read(file), writer[j].entry)
         /\ UNCHANGED <<mode, memory, flusher, ackFile, seqFile, seen>>
         /\ writer[j] # NoWrite /\ writer[j].step = "write"
         /\ writer' = [writer EXCEPT ![j] = Step(j, "count")]
         /\ Step(j, "count") # NoWrite
<1> DEFINE w == writer[j]
           row == [step |-> "count", first |-> w.first, entry |-> w.entry]
<1>1. w # NoWrite /\ w.step = "write"
  BY DEF AppendDurably, NoWrite
<1>2. /\ w.entry \in Made(seen.born) /\ ~w.unlinked /\ seen.born \in Nat
      /\ file \in Seq(Frame(seen.born)) /\ Shaped(file)
      /\ Whole(file) = Len(file) /\ Len(file) = committed /\ w.first = (Len(file) = 0)
  BY <1>1, WriterWrites
<1>3. /\ file' = file \o Payload(w) /\ writer' = [writer EXCEPT ![j] = row]
      /\ UNCHANGED <<mode, memory, flusher, ackFile, seqFile, seen>>
  BY <1>2 DEF AppendDurably, Step
<1>4. row \in WriterRow(seen.born) /\ row # NoWrite
  <2>1. w \in WriterRow(seen.born)
    BY <1>1, WriterAlone
  <2>2. QED BY <1>1, <1>2, <2>1, RowAt
<1>5. row.first = w.first /\ row.entry = w.entry /\ row.step = "count"
  OBVIOUS
<1>6. row = Step(j, "count")
  BY DEF Step
<1> HIDE DEF row
<1>7. /\ file' \in Seq(Frame(seen.born)) /\ Shaped(file')
      /\ Len(file') = committed + Len(Payload(w)) /\ Whole(file') = Len(file')
      /\ Read(file') = Append(Read(file), w.entry)
  BY <1>2, <1>3, Growing
<1>8. Payload(row) = Payload(w)
  BY <1>5 DEF Payload
<1>9. WriterAt(row, file', committed)
  BY <1>5, <1>7, <1>8 DEF WriterAt
<1>10. FileInv'
  BY <1>1, <1>3, <1>4, <1>5, <1>7, <1>9, WriterGoesOn
<1>11. QED BY <1>1, <1>3, <1>4, <1>6, <1>7, <1>10

LEMMA WriterFails ==
  ASSUME FileInv, NEW j \in Jobs, AppendFails(j)
  PROVE  /\ FileInv' /\ Read(file') = Read(file)
         /\ UNCHANGED <<mode, memory, flusher, ackFile, seqFile, seen>>
         /\ writer[j] # NoWrite /\ writer[j].step = "write"
         /\ writer' = [writer EXCEPT ![j] = NoWrite]
<1> DEFINE w == writer[j]
<1>1. w # NoWrite /\ w.step = "write"
  BY DEF AppendFails, NoWrite
<1>2. /\ w.entry \in Made(seen.born) /\ ~w.unlinked /\ seen.born \in Nat
      /\ file \in Seq(Frame(seen.born)) /\ Shaped(file)
      /\ Whole(file) = Len(file) /\ Len(file) = committed /\ w.first = (Len(file) = 0)
  BY <1>1, WriterWrites
<1>3. PICK r \in Residues(w) : file' = file \o r
  BY <1>2 DEF AppendFails
<1>4. /\ writer' = [writer EXCEPT ![j] = NoWrite]
      /\ UNCHANGED <<mode, memory, flusher, ackFile, seqFile, seen>>
  BY DEF AppendFails
<1>5. /\ file' \in Seq(Frame(seen.born)) /\ Shaped(file') /\ Read(file') = Read(file)
      /\ Whole(file') = Whole(file) \/ (Len(file) = 0 /\ Whole(file') <= 1)
  BY <1>2, <1>3, Interrupted
<1>6. Counts(committed, file')
  BY <1>2, <1>5 DEF Counts
<1>7. NoWrite \in WriterRow(seen.born)
  BY DEF WriterRow
<1>8. FileInv'
  BY <1>1, <1>4, <1>5, <1>6, <1>7, WriterGoesOn
<1>9. QED BY <1>1, <1>4, <1>5, <1>8

LEMMA WriterCounts ==
  ASSUME FileInv, NEW j \in Jobs, Count(j)
  PROVE  /\ FileInv' /\ UNCHANGED <<mode, acked, flusher, disk>>
         /\ writer[j] # NoWrite /\ writer[j].step = "count"
         /\ writer[j].entry \in Made(seen.born) /\ writer[j].entry.job = j
         /\ writer' = [writer EXCEPT ![j] = NoWrite]
         /\ entries' = Append(entries, writer[j].entry)
         /\ sequences' = [sequences EXCEPT ![j] = Highest({@, writer[j].entry.seq})]
         /\ seen' = [seen EXCEPT !.told = @ \cup {writer[j].entry.id},
                                 !.top[j] = Highest({@, writer[j].entry.seq})]
<1> DEFINE b == seen.born
           w == writer[j]
           e == w.entry
<1>1. w # NoWrite /\ w.step = "count"
  BY DEF Count, NoWrite
<1>2. /\ w \in WriterRow(b) /\ b \in Nat /\ committed \in Nat /\ w.entry.job = j
      /\ WriterAt(w, file, committed) /\ seen \in SeenRow(b)
  BY <1>1, WriterAlone
<1>3. e \in Made(b) /\ e.id \in 0..b /\ e.seq \in 0..b
  BY <1>1, <1>2, WriterFields, MadeFields
<1>4. /\ entries' = Append(entries, e)
      /\ sequences' = [sequences EXCEPT ![j] = Highest({@, e.seq})]
      /\ committed' = committed + Len(Payload(w))
      /\ seen' = [seen EXCEPT !.told = @ \cup {e.id}, !.top[j] = Highest({@, e.seq})]
      /\ writer' = [writer EXCEPT ![j] = NoWrite]
      /\ UNCHANGED <<mode, acked, flusher, disk>>
  BY DEF Count
<1>5. /\ Whole(file) \in Nat /\ Whole(file) = committed'
      /\ file' = file /\ ackFile' = ackFile /\ seqFile' = seqFile
  <2>1. file \in Seq(Frame(b)) /\ Shaped(file)
    BY DEF FileInv, SpoolTypeOK
  <2>2. Whole(file) \in Nat
    BY <1>2, <2>1, GoodIsWhole
  <2>3. QED BY <1>1, <1>2, <1>4, <2>2 DEF WriterAt, disk
<1>6. Alone' /\ LengthsFit' /\ writer' \in [Jobs -> WriterRow(b)]
  <2>1. NoWrite \in WriterRow(b)
    BY DEF WriterRow
  <2>2. Counts(committed', file')
    BY <1>5 DEF Counts
  <2>3. QED BY <1>1, <1>4, <2>1, <2>2, WriterMoves
<1>7. SpoolTypeOK'
  <2>1. entries' \in Seq(Made(b))
    <3>1. entries \in Seq(Made(b))
      BY DEF FileInv, SpoolTypeOK
    <3>2. QED BY <1>3, <1>4, <3>1
  <2>2. sequences' \in [Jobs -> 0..b]
    <3>1. sequences \in [Jobs -> 0..b]
      BY DEF FileInv, SpoolTypeOK
    <3>2. Highest({sequences[j], e.seq}) \in 0..b
      BY <1>2, <1>3, <3>1, HighestOfTwo
    <3>3. QED BY <1>4, <3>1, <3>2
  <2>3. seen' \in SeenRow(b) /\ seen'.born = b
    <3>1. seen.top \in [Jobs -> 0..b]
      BY <1>2 DEF SeenRow
    <3>2. Highest({seen.top[j], e.seq}) \in 0..b
      BY <1>2, <1>3, <3>1, HighestOfTwo
    <3>3. QED BY <1>2, <1>3, <1>4, <3>2 DEF SeenRow
  <2>4. committed' \in Nat
    BY <1>5
  <2>5. QED BY <1>4, <1>5, <1>6, <2>1, <2>2, <2>3, <2>4 DEF FileInv, SpoolTypeOK
<1>8. Shaped(file')
  BY <1>5 DEF FileInv
<1>9. QED BY <1>1, <1>2, <1>3, <1>4, <1>6, <1>7, <1>8 DEF FileInv

LEMMA WriterBegins ==
  ASSUME FileInv, ~Overlap, NEW j \in Jobs, Enqueue(j)
  PROVE  LET e == [id |-> seen.born + 1, job |-> j, seq |-> LastSequence(j) + 1, dead |-> FALSE]
             row == [step |-> "stat", first |-> committed = 0, entry |-> e]
         IN  /\ FileInv' /\ UNCHANGED <<mode, memory, flusher, disk>>
             /\ seen.born \in Nat /\ seen' = [seen EXCEPT !.born = @ + 1]
             /\ mode = "up" /\ Writing = {} /\ ~Flushing
             /\ e \in Made(seen.born + 1) /\ row # NoWrite
             /\ writer' = [writer EXCEPT ![j] = row]
<1> DEFINE b == seen.born
           e == [id |-> b + 1, job |-> j, seq |-> LastSequence(j) + 1, dead |-> FALSE]
           row == [step |-> "stat", first |-> committed = 0, entry |-> e]
<1>1. /\ mode = "up" /\ Writing = {} /\ ~Flushing
      /\ writer' = [writer EXCEPT ![j] = row]
      /\ seen' = [seen EXCEPT !.born = @ + 1]
      /\ UNCHANGED <<mode, memory, flusher, disk>>
  BY DEF Enqueue, MayEnqueue
<1>2. /\ entries \in Seq(Made(b)) /\ acked \in SUBSET (0..b) /\ sequences \in [Jobs -> 0..b]
      /\ committed \in Nat /\ writer \in [Jobs -> WriterRow(b)] /\ flusher \in FlushRow(b)
      /\ file \in Seq(Frame(b)) /\ ackFile \in SUBSET (0..b) /\ seqFile \in [Jobs -> 0..b]
      /\ seen \in SeenRow(b)
  BY DEF FileInv, SpoolTypeOK
<1>3. b \in Nat
  BY <1>2 DEF SeenRow
<1>4. LastSequence(j) \in 0..b
  <2>1. HighestSequence(entries, j) \in 0..b
    BY <1>2, <1>3, HighestOfSome
  <2>2. sequences[j] \in 0..b
    BY <1>2
  <2>3. QED BY <1>3, <2>1, <2>2, HighestOfTwo DEF LastSequence
<1>5. b + 1 \in Nat /\ b + 1 \in 0..(b + 1) /\ LastSequence(j) + 1 \in 0..(b + 1)
  BY <1>3, <1>4
<1>6. e \in Made(b + 1)
  BY <1>5 DEF Made
<1>7. e.job = j
  OBVIOUS
<1> HIDE DEF e
<1>8. row.first = (committed = 0) /\ row.entry = e /\ row.step = "stat"
  OBVIOUS
<1>9. row \in WriterRow(b + 1) /\ row # NoWrite
  BY <1>6 DEF WriterRow, NoWrite
<1> HIDE DEF row
<1>10. /\ Made(b) \subseteq Made(b + 1) /\ Frame(b) \subseteq Frame(b + 1)
       /\ Seq(Made(b)) \subseteq Seq(Made(b + 1)) /\ Seq(Frame(b)) \subseteq Seq(Frame(b + 1))
       /\ WriterRow(b) \subseteq WriterRow(b + 1) /\ FlushRow(b) \subseteq FlushRow(b + 1)
       /\ 0..b \subseteq 0..(b + 1)
  BY <1>3, MoreMade
<1>11. /\ entries' = entries /\ acked' = acked /\ sequences' = sequences
       /\ committed' = committed /\ file' = file /\ ackFile' = ackFile /\ seqFile' = seqFile
       /\ mode' = mode /\ flusher' = flusher
  BY <1>1 DEF memory, disk
<1>12. seen' \in SeenRow(b + 1) /\ seen'.born = b + 1
  <2>1. SeenRow(b) \subseteq SeenRow(b + 1)
    BY <1>10 DEF SeenRow
  <2>2. seen \in SeenRow(b + 1)
    BY <1>2, <2>1
  <2>3. QED BY <1>1, <1>5, <2>2 DEF SeenRow
<1>13. writer' \in [Jobs -> WriterRow(b + 1)] /\ writer'[j] = row
       /\ \A k \in Jobs \ {j} : writer'[k] = NoWrite
  <2>1. \A k \in Jobs : writer[k] \in WriterRow(b + 1)
    BY <1>2, <1>10
  <2>2. \A k \in Jobs : writer[k] = NoWrite
    BY <1>1 DEF Writing
  <2>3. QED BY <1>1, <1>2, <1>9, <2>1, <2>2
<1>14. SpoolTypeOK'
  <2>1. entries' \in Seq(Made(b + 1)) /\ file' \in Seq(Frame(b + 1)) /\ flusher' \in FlushRow(b + 1)
    BY <1>2, <1>10, <1>11
  <2>2. acked' \in SUBSET (0..(b + 1)) /\ ackFile' \in SUBSET (0..(b + 1))
    BY <1>2, <1>10, <1>11
  <2>3. sequences' \in [Jobs -> 0..(b + 1)] /\ seqFile' \in [Jobs -> 0..(b + 1)]
    BY <1>2, <1>10, <1>11
  <2>4. QED BY <1>1, <1>2, <1>11, <1>12, <1>13, <2>1, <2>2, <2>3 DEF SpoolTypeOK
<1>15. Writing' = {j} /\ ~Flushing' /\ Alive'
  BY <1>1, <1>9, <1>11, <1>13 DEF Writing, Flushing, Alive
<1>16. Alone'
  BY <1>1, <1>11, <1>15 DEF Alone
<1>17. LengthsFit'
  <2>1. Counts(committed, file)
    BY <1>1 DEF FileInv, LengthsFit, Alive
  <2>2. WriterAt(row, file, committed)
    BY <1>8, <2>1 DEF WriterAt
  <2>3. QED BY <1>7, <1>8, <1>11, <1>13, <1>15, <2>2 DEF LengthsFit
<1>18. Shaped(file')
  BY <1>11 DEF FileInv
<1>19. QED BY <1>1, <1>3, <1>6, <1>9, <1>14, <1>16, <1>17, <1>18 DEF FileInv, row, e

-----------------------------------------------------------------------------
(* The steps of the flush loop, and what a process finds when it opens.    *)

\* The file is not touched, and no enqueue is under way.
LEMMA Unwritten ==
  ASSUME FileInv, Alive, Writing = {}, ~(Flushing /\ flusher.step = "settle")
  PROVE  Counts(committed, file)
  BY DEF FileInv, LengthsFit

LEMMA StepTo ==
  ASSUME NEW b \in Nat, NEW x \in FlushRow(b), x # NoFlush, NEW s,
         \/ x.step \in {"acks", "sequences"} /\ s \in {"sequences", "decide"}
         \/ x.step \in {"rename", "settle"} /\ s \in {"settle", "clear"}
  PROVE  LET y == [x EXCEPT !.step = s]
         IN  /\ y \in FlushRow(b) /\ y # NoFlush
             /\ y.step = s /\ y.kind = x.kind /\ y.ids = x.ids
             /\ x.step \in {"rename", "settle"} => y.buffer = x.buffer
<1> DEFINE Early == [step : {"acks", "sequences", "decide"}, kind : {"ack"}, ids : SUBSET (0..b)]
           Late == [step : {"rename", "settle", "clear"}, buffer : Seq(Frame(b)),
                    kind : {"ack", "mark", "open"}, ids : SUBSET (0..b)]
<1>1. x \in Early \/ x \in Late
  BY DEF FlushRow
<1>2. CASE x \in Early
  <2>1. x.step \in {"acks", "sequences"} /\ s \in {"sequences", "decide"}
    BY <1>2
  <2>2. [x EXCEPT !.step = s] \in Early
    BY <1>2, <2>1
  <2>3. QED BY <1>2, <2>1, <2>2 DEF FlushRow, NoFlush
<1>3. CASE x \in Late
  <2>1. x.step \in {"rename", "settle"} /\ s \in {"settle", "clear"}
    BY <1>3
  <2>2. [x EXCEPT !.step = s] \in Late
    BY <1>3, <2>1
  <2>3. QED BY <1>3, <2>1, <2>2 DEF FlushRow, NoFlush
<1>4. QED BY <1>1, <1>2, <1>3

\* What a step of the flush loop has to show.
LEMMA FlushTo ==
  ASSUME SpoolTypeOK', Shaped(file'), \A j \in Jobs : writer'[j] = NoWrite,
         mode' \in {"up", "opening"},
         flusher' = NoFlush => mode' = "up" /\ Counts(committed', file'),
         flusher' # NoFlush =>
           /\ mode' = "opening" <=> /\ flusher'.step \in {"rename", "settle", "clear"}
                                    /\ flusher'.kind = "open"
           /\ flusher'.step # "settle" => Counts(committed', file')
           /\ flusher'.step \in {"rename", "settle", "clear"} =>
                flusher'.buffer = <<Header>> \o entries'
           /\ flusher'.step = "settle" => file' = flusher'.buffer
  PROVE  FileInv'
<1>1. Writing' = {} /\ Alive' /\ (Flushing' <=> flusher' # NoFlush)
  BY DEF Writing, Alive, Flushing
<1>2. Alone'
  BY <1>1 DEF Alone
<1>3. LengthsFit'
  BY <1>1 DEF LengthsFit
<1>4. QED BY <1>2, <1>3 DEF FileInv

LEMMA Renames ==
  ASSUME FileInv, Rename
  PROVE  /\ FileInv' /\ Flushing /\ flusher.step = "rename"
         /\ Read(file') = entries /\ writer' = writer
         /\ flusher' # NoFlush /\ flusher'.step = "settle"
         /\ flusher'.kind = flusher.kind /\ flusher'.ids = flusher.ids
         /\ UNCHANGED <<mode, memory, ackFile, seqFile, seen>>
<1> DEFINE b == seen.born
<1>1. flusher.step = "rename" /\ flusher # NoFlush /\ Flushing
  BY DEF Rename, NoFlush, Flushing
<1>2. /\ Alive /\ flusher \in FlushRow(b) /\ b \in Nat
      /\ \A j \in Jobs : writer[j] = NoWrite
  BY <1>1, FlusherAlone
<1>3. /\ file' = flusher.buffer /\ flusher' = [flusher EXCEPT !.step = "settle"]
      /\ writer' = [j \in Jobs |-> Unlinked(writer[j])]
      /\ UNCHANGED <<mode, memory, ackFile, seqFile, seen>>
  BY DEF Rename
<1>4. /\ flusher' \in FlushRow(b) /\ flusher' # NoFlush /\ flusher'.step = "settle"
      /\ flusher'.kind = flusher.kind /\ flusher'.ids = flusher.ids
      /\ flusher'.buffer = flusher.buffer
  BY <1>1, <1>2, <1>3, StepTo
<1>5. flusher.buffer = <<Header>> \o entries /\ entries \in Seq(Made(b))
  BY <1>1 DEF FileInv, LengthsFit, SpoolTypeOK
<1>6. file' \in Seq(Frame(b)) /\ Shaped(file') /\ Read(file') = entries
  BY <1>2, <1>3, <1>5, Compacting
<1>7. writer' = writer
  <2>1. Unlinked(NoWrite) = NoWrite
    BY DEF Unlinked, NoWrite
  <2>2. writer \in [Jobs -> WriterRow(b)]
    BY DEF FileInv, SpoolTypeOK
  <2>3. QED BY <1>2, <1>3, <2>1, <2>2
<1>8. SpoolTypeOK'
  BY <1>3, <1>4, <1>6, <1>7 DEF FileInv, SpoolTypeOK, memory
<1>9. entries' = entries /\ mode' = mode
  BY <1>3 DEF memory
<1>10. mode = "opening" <=> flusher.kind = "open"
  BY <1>1 DEF FileInv, Alone
<1>11. FileInv'
  BY <1>2, <1>3, <1>4, <1>5, <1>6, <1>7, <1>8, <1>9, <1>10, FlushTo DEF Alive
<1>12. QED BY <1>1, <1>3, <1>4, <1>6, <1>7, <1>11

LEMMA Settles ==
  ASSUME FileInv, Settle
  PROVE  /\ FileInv' /\ Flushing /\ flusher.step = "settle"
         /\ Read(file) = entries /\ acked' = {}
         /\ flusher' # NoFlush /\ flusher'.step = "clear"
         /\ flusher'.kind = flusher.kind /\ flusher'.ids = flusher.ids
         /\ UNCHANGED <<mode, entries, sequences, writer, disk, seen>>
<1> DEFINE b == seen.born
<1>1. flusher.step = "settle" /\ flusher # NoFlush /\ Flushing
  BY DEF Settle, NoFlush, Flushing
<1>2. /\ Alive /\ flusher \in FlushRow(b) /\ b \in Nat
      /\ \A j \in Jobs : writer[j] = NoWrite
  BY <1>1, FlusherAlone
<1>3. /\ committed' = Len(flusher.buffer) /\ flusher' = [flusher EXCEPT !.step = "clear"]
      /\ acked' = {} /\ UNCHANGED <<mode, entries, sequences, writer, disk, seen>>
  BY DEF Settle
<1>4. /\ flusher' \in FlushRow(b) /\ flusher' # NoFlush /\ flusher'.step = "clear"
      /\ flusher'.kind = flusher.kind /\ flusher'.ids = flusher.ids
      /\ flusher'.buffer = flusher.buffer
  BY <1>1, <1>2, <1>3, StepTo
<1>5. /\ flusher.buffer = <<Header>> \o entries /\ entries \in Seq(Made(b))
      /\ file = flusher.buffer
  BY <1>1 DEF FileInv, LengthsFit, SpoolTypeOK
<1>6. Read(file) = entries /\ committed' = Whole(file) /\ committed' \in Nat
  BY <1>2, <1>3, <1>5, Compacting
<1>7. /\ file' = file /\ ackFile' = ackFile /\ seqFile' = seqFile /\ Shaped(file')
  BY <1>3 DEF disk, FileInv
<1>8. SpoolTypeOK'
  BY <1>3, <1>4, <1>6, <1>7 DEF FileInv, SpoolTypeOK
<1>9. Counts(committed', file')
  BY <1>6, <1>7 DEF Counts
<1>10. mode = "opening" <=> flusher.kind = "open"
  BY <1>1 DEF FileInv, Alone
<1>11. FileInv'
  BY <1>2, <1>3, <1>4, <1>5, <1>7, <1>8, <1>9, <1>10, FlushTo DEF Alive
<1>12. QED BY <1>1, <1>3, <1>4, <1>6, <1>11

\* What the operation that returns had told its caller to expect.
LEMMA SeenReturned ==
  ASSUME NEW b \in Nat, seen \in SeenRow(b), NEW kind, NEW ids \in SUBSET (0..b),
         Returned(kind, ids)
  PROVE  /\ flusher' = NoFlush /\ mode' = "up" /\ seen' \in SeenRow(b)
         /\ seen'.born = seen.born /\ seen'.crashes = seen.crashes
         /\ seen'.told = seen.told /\ seen'.given = seen.given /\ seen'.top = seen.top
         /\ seen'.settled = IF kind = "ack" THEN seen.settled \cup ids ELSE seen.settled
         /\ seen'.marked = IF kind = "mark" THEN seen.marked \cup ids ELSE seen.marked
  BY DEF Returned, SeenRow

LEMMA Clears ==
  ASSUME FileInv, Clear
  PROVE  /\ FileInv' /\ Flushing /\ flusher.step = "clear" /\ flusher.kind \in {"ack", "mark", "open"}
         /\ ackFile' = acked /\ Returned(flusher.kind, flusher.ids)
         /\ flusher.ids \in SUBSET (0..seen.born) /\ seen \in SeenRow(seen.born)
         /\ UNCHANGED <<memory, writer, file, seqFile>>
<1> DEFINE b == seen.born
<1>1. flusher.step = "clear" /\ flusher # NoFlush /\ Flushing
  BY DEF Clear, NoFlush, Flushing
<1>2. /\ Alive /\ flusher \in FlushRow(b) /\ b \in Nat /\ Writing = {}
      /\ \A j \in Jobs : writer[j] = NoWrite
  BY <1>1, FlusherAlone
<1>3. /\ ackFile' = acked /\ Returned(flusher.kind, flusher.ids)
      /\ UNCHANGED <<memory, writer, file, seqFile>>
  BY DEF Clear
<1>4. flusher.ids \in SUBSET (0..b) /\ flusher.kind \in {"ack", "mark", "open"}
  BY <1>1, <1>2, FlushFields
<1>5. seen \in SeenRow(b)
  BY DEF FileInv, SpoolTypeOK
<1>6. /\ flusher' = NoFlush /\ mode' = "up" /\ seen' \in SeenRow(b) /\ seen'.born = b
  BY <1>2, <1>3, <1>4, <1>5, SeenReturned
<1>7. NoFlush \in FlushRow(b)
  BY DEF FlushRow
<1>8. SpoolTypeOK'
  BY <1>3, <1>6, <1>7 DEF FileInv, SpoolTypeOK, memory
<1>9. Counts(committed', file')
  <2>1. Counts(committed, file)
    BY <1>1, <1>2, Unwritten
  <2>2. QED BY <1>3, <2>1 DEF memory
<1>10. Shaped(file')
  BY <1>3 DEF FileInv
<1>11. FileInv'
  BY <1>2, <1>3, <1>6, <1>8, <1>9, <1>10, FlushTo
<1>12. QED BY <1>1, <1>3, <1>4, <1>5, <1>11

\* What may be delivered: the entries that are not dead, and no other.
LEMMA DeliverableElements ==
  ASSUME NEW S, NEW s \in Seq(S)
  PROVE  LET d == Deliverable(s)
         IN  /\ d \in Seq(S) /\ Len(d) \in Nat /\ DOMAIN d = 1..Len(d)
             /\ \A n \in DOMAIN d : \E k \in DOMAIN s : d[n] = s[k] /\ ~s[k].dead
<1> DEFINE K == {i \in DOMAIN s : ~s[i].dead}
<1>1. K \in SUBSET DOMAIN s /\ Deliverable(s) = Picked(s, K)
  BY DEF Deliverable
<1>2. \A k \in K : k \in DOMAIN s /\ ~s[k].dead
  OBVIOUS
<1> HIDE DEF K
<1>3. /\ Picked(s, K) \in Seq(S)
      /\ \A n \in DOMAIN Picked(s, K) : Nth(K, n) \in K /\ Picked(s, K)[n] = s[Nth(K, n)]
  BY <1>1, Picking
<1>4. Len(Picked(s, K)) \in Nat /\ DOMAIN Picked(s, K) = 1..Len(Picked(s, K))
  BY <1>3, LenProperties
<1>5. QED BY <1>1, <1>2, <1>3, <1>4

LEMMA IdsMade ==
  ASSUME NEW b \in Nat, NEW s \in Seq(Made(b))
  PROVE  IdsOf(s) \in SUBSET (0..b) /\ IdsOf(Deliverable(s)) \subseteq IdsOf(s)
<1>1. \A i \in DOMAIN s : s[i].id \in 0..b
  BY LenProperties, ElementOfSeq, MadeFields
<1>2. \A n \in DOMAIN Deliverable(s) : \E k \in DOMAIN s : Deliverable(s)[n] = s[k]
  BY DeliverableElements
<1>3. QED BY <1>1, <1>2 DEF IdsOf

\* Neither what is acknowledged nor what is dead-lettered is anything but a deliverable entry.
LEMMA IdsOfHead ==
  ASSUME NEW b \in Nat, NEW s \in Seq(Made(b)), NEW n \in 1..Len(Deliverable(s))
  PROVE  IdsOf(SubSeq(Deliverable(s), 1, n)) \subseteq IdsOf(Deliverable(s))
<1> DEFINE d == Deliverable(s)
<1>1. d \in Seq(Made(b)) /\ Len(d) \in Nat /\ DOMAIN d = 1..Len(d)
  BY DeliverableElements
<1> HIDE DEF d
<1>2. n \in 1..Len(d)
  BY DEF d
<1>3. \A i \in 1..n : i \in DOMAIN d /\ d[i] \in Made(b)
  BY <1>1, <1>2, ElementOfSeq
<1>4. /\ SubSeq(d, 1, n) \in Seq(Made(b)) /\ Len(SubSeq(d, 1, n)) = n
      /\ \A i \in 1..n : SubSeq(d, 1, n)[i] = d[i]
  <2>1. /\ SubSeq(d, 1, n) \in Seq(Made(b))
        /\ Len(SubSeq(d, 1, n)) = IF 1 <= n THEN n - 1 + 1 ELSE 0
        /\ \A i \in 1..(n - 1 + 1) : SubSeq(d, 1, n)[i] = d[1 + i - 1]
    BY <1>1, <1>2, <1>3, SubSeqProperties
  <2>2. QED BY <1>1, <1>2, <2>1
<1>5. DOMAIN SubSeq(d, 1, n) = 1..n
  BY <1>4, LenProperties
<1>6. QED BY <1>3, <1>4, <1>5 DEF IdsOf, d

LEMMA MarkedElements ==
  ASSUME NEW b \in Nat, NEW s \in Seq(Made(b)), NEW ids
  PROVE  LET m == Marked(s, ids)
         IN  /\ m \in Seq(Made(b)) /\ DOMAIN m = DOMAIN s /\ Len(m) = Len(s)
             /\ \A i \in DOMAIN s :
                  /\ m[i].id = s[i].id /\ m[i].job = s[i].job /\ m[i].seq = s[i].seq
                  /\ m[i].dead = (s[i].dead \/ s[i].id \in ids)
<1> DEFINE m == Marked(s, ids)
<1>1. DOMAIN s = 1..Len(s) /\ Len(s) \in Nat /\ \A i \in DOMAIN s : s[i] \in Made(b)
  BY LenProperties, ElementOfSeq
<1>2. m = [i \in DOMAIN s |-> IF s[i].id \in ids THEN [s[i] EXCEPT !.dead = TRUE] ELSE s[i]]
  BY DEF Marked
<1> HIDE DEF m
<1>3. ASSUME NEW i \in DOMAIN s
      PROVE  /\ m[i] \in Made(b)
             /\ m[i].id = s[i].id /\ m[i].job = s[i].job /\ m[i].seq = s[i].seq
             /\ m[i].dead = (s[i].dead \/ s[i].id \in ids)
  <2>1. s[i] \in Made(b)
    BY <1>1
  <2>2. CASE s[i].id \in ids
    <3>1. m[i] = [s[i] EXCEPT !.dead = TRUE]
      BY <1>2, <2>2
    <3>2. QED BY <2>1, <2>2, <3>1 DEF Made
  <2>3. CASE s[i].id \notin ids
    <3>1. m[i] = s[i]
      BY <1>2, <2>3
    <3>2. s[i].dead \in BOOLEAN
      BY <2>1 DEF Made
    <3>3. QED BY <2>1, <2>3, <3>1, <3>2
  <2>4. QED BY <2>2, <2>3
<1>4. m \in Seq(Made(b))
  <2>1. m \in [1..Len(s) -> Made(b)]
    BY <1>1, <1>2, <1>3
  <2>2. QED BY <1>1, <2>1, SeqDef
<1>5. DOMAIN m = DOMAIN s /\ Len(m) = Len(s)
  BY <1>1, <1>2, <1>4, LenProperties
<1>6. QED BY <1>3, <1>4, <1>5 DEF m

LEMMA Acks ==
  ASSUME FileInv, ~Overlap, Ack
  PROVE  /\ FileInv' /\ mode = "up" /\ Writing = {} /\ ~Flushing
         /\ UNCHANGED <<mode, sequences, committed, writer, disk>>
         /\ seen \in SeenRow(seen.born) /\ entries \in Seq(Made(seen.born))
         /\ \E ids \in SUBSET IdsOf(entries) :
              /\ entries' = Without(entries, ids) /\ acked' = acked \cup ids
              /\ flusher' = [step |-> "acks", kind |-> "ack", ids |-> ids]
              /\ seen' = [seen EXCEPT !.given = @ \cup ids]
<1> DEFINE b == seen.born
<1>1. /\ mode = "up" /\ Writing = {} /\ ~Flushing
      /\ UNCHANGED <<mode, sequences, committed, writer, disk>>
  BY DEF Ack, MayFlush
<1>2. entries \in Seq(Made(b)) /\ seen \in SeenRow(b) /\ b \in Nat
  BY DEF FileInv, SpoolTypeOK, SeenRow
<1>3. PICK ids \in SUBSET IdsOf(entries) :
             /\ entries' = Without(entries, ids) /\ acked' = acked \cup ids
             /\ flusher' = [step |-> "acks", kind |-> "ack", ids |-> ids]
             /\ seen' = [seen EXCEPT !.given = @ \cup ids]
  <2>1. PICK n \in 1..Len(Deliverable(entries)) :
               LET ids == IdsOf(SubSeq(Deliverable(entries), 1, n))
               IN  /\ entries' = Without(entries, ids) /\ acked' = acked \cup ids
                   /\ flusher' = [step |-> "acks", kind |-> "ack", ids |-> ids]
                   /\ seen' = [seen EXCEPT !.given = @ \cup ids]
    BY DEF Ack
  <2>2. IdsOf(SubSeq(Deliverable(entries), 1, n)) \in SUBSET IdsOf(entries)
    BY <1>2, IdsOfHead, IdsMade
  <2>3. QED BY <2>1, <2>2
<1>4. ids \in SUBSET (0..b)
  BY <1>2, <1>3, IdsMade
<1>5. flusher' \in FlushRow(b) /\ flusher' # NoFlush /\ flusher'.step = "acks"
  BY <1>3, <1>4 DEF FlushRow, NoFlush
<1>6. entries' \in Seq(Made(b))
  BY <1>2, <1>3, WithoutElements
<1>7. seen' \in SeenRow(b) /\ seen'.born = b
  BY <1>2, <1>3, <1>4 DEF SeenRow
<1>8. file' = file /\ ackFile' = ackFile /\ seqFile' = seqFile
  BY <1>1 DEF disk
<1>9. SpoolTypeOK'
  BY <1>1, <1>3, <1>4, <1>5, <1>6, <1>7, <1>8 DEF FileInv, SpoolTypeOK
<1>10. Counts(committed', file') /\ Shaped(file')
  BY <1>1, <1>8, Unwritten DEF FileInv, Alive
<1>11. \A j \in Jobs : writer'[j] = NoWrite
  BY <1>1 DEF Writing
<1>12. FileInv'
  BY <1>1, <1>5, <1>9, <1>10, <1>11, FlushTo
<1>13. QED BY <1>1, <1>2, <1>3, <1>12

LEMMA Persists ==
  ASSUME FileInv, PersistAcknowledgements \/ PersistSequences
  PROVE  /\ FileInv' /\ Flushing /\ flusher.step \in {"acks", "sequences"}
         /\ flusher.kind = "ack" /\ flusher' = [flusher EXCEPT !.step = flusher'.step]
         /\ flusher' # NoFlush /\ flusher'.kind = "ack" /\ flusher'.ids = flusher.ids
         /\ UNCHANGED <<mode, memory, writer, file, seen>>
         /\ \/ /\ flusher.step = "acks" /\ flusher'.step = "sequences"
               /\ ackFile' = acked /\ seqFile' = seqFile
            \/ /\ flusher.step = "sequences" /\ flusher'.step = "decide"
               /\ ackFile' = ackFile /\ seqFile' = sequences
<1> DEFINE b == seen.born
<1>1. flusher # NoFlush /\ Flushing /\ flusher.step \in {"acks", "sequences"}
  BY DEF PersistAcknowledgements, PersistSequences, NoFlush, Flushing
<1>2. /\ Alive /\ flusher \in FlushRow(b) /\ b \in Nat /\ Writing = {}
      /\ \A j \in Jobs : writer[j] = NoWrite
  BY <1>1, FlusherAlone
<1>3. /\ UNCHANGED <<mode, memory, writer, file, seen>>
      /\ \/ /\ flusher.step = "acks" /\ flusher' = [flusher EXCEPT !.step = "sequences"]
            /\ ackFile' = acked /\ seqFile' = seqFile
         \/ /\ flusher.step = "sequences" /\ flusher' = [flusher EXCEPT !.step = "decide"]
            /\ ackFile' = ackFile /\ seqFile' = sequences
  BY DEF PersistAcknowledgements, PersistSequences
<1>4. flusher.kind = "ack"
  BY <1>1, <1>2, FlushFields
<1>5. /\ flusher' \in FlushRow(b) /\ flusher' # NoFlush /\ flusher'.kind = "ack"
      /\ flusher'.ids = flusher.ids /\ flusher'.step \in {"sequences", "decide"}
      /\ flusher.step = "acks" => flusher'.step = "sequences"
      /\ flusher.step = "sequences" => flusher'.step = "decide"
      /\ flusher' = [flusher EXCEPT !.step = flusher'.step]
  <2>1. CASE flusher' = [flusher EXCEPT !.step = "sequences"] /\ flusher.step = "acks"
    BY <1>1, <1>2, <1>4, <2>1, StepTo
  <2>2. CASE flusher' = [flusher EXCEPT !.step = "decide"] /\ flusher.step = "sequences"
    BY <1>1, <1>2, <1>4, <2>2, StepTo
  <2>3. QED BY <1>3, <2>1, <2>2
<1>6. SpoolTypeOK'
  <2>1. ackFile' \in SUBSET (0..b) /\ seqFile' \in [Jobs -> 0..b]
    BY <1>3 DEF FileInv, SpoolTypeOK
  <2>2. QED BY <1>3, <1>5, <2>1 DEF FileInv, SpoolTypeOK, memory
<1>7. Counts(committed', file') /\ Shaped(file')
  <2>1. Counts(committed, file)
    BY <1>1, <1>2, Unwritten
  <2>2. QED BY <1>3, <2>1 DEF memory, FileInv
<1>8. mode = "up"
  BY <1>1, <1>2 DEF FileInv, Alone, Alive
<1>9. FileInv'
  BY <1>2, <1>3, <1>5, <1>6, <1>7, <1>8, FlushTo
<1>10. QED BY <1>1, <1>3, <1>4, <1>5, <1>9

\* A compaction begins.
LEMMA BeginsCompaction ==
  ASSUME NEW b \in Nat, entries' \in Seq(Made(b)), committed' \in Nat,
         NEW kind \in {"ack", "mark", "open"}, NEW ids \in SUBSET (0..b),
         flusher' = Compaction(entries', committed', kind, ids)
  PROVE  /\ flusher' \in FlushRow(b) /\ flusher' # NoFlush /\ flusher'.step \in {"rename", "clear"}
         /\ flusher'.step = "clear" => entries' = <<>> /\ committed' = 0
         /\ flusher'.buffer = <<Header>> \o entries'
         /\ flusher'.kind = kind /\ flusher'.ids = ids
<1> DEFINE s == entries'
           c == committed'
           x == Compaction(s, c, kind, ids)
           step == IF s = <<>> /\ c = 0 THEN "clear" ELSE "rename"
           buffer == <<Header>> \o s
<1>1. s \in Seq(Made(b)) /\ c \in Nat /\ flusher' = x
  OBVIOUS
<1> HIDE DEF s, c
<1>2. x = [step |-> step, buffer |-> buffer, kind |-> kind, ids |-> ids]
  BY DEF Compaction
<1>3. buffer \in Seq(Frame(b))
  BY <1>1, Compacting
<1>4. step \in {"rename", "clear"} /\ (step = "clear" => s = <<>> /\ c = 0)
  OBVIOUS
<1> HIDE DEF buffer, step, x
<1>5. x \in FlushRow(b) /\ x # NoFlush
  BY <1>2, <1>3, <1>4 DEF FlushRow, NoFlush
<1>6. x.step = step /\ x.buffer = buffer /\ x.kind = kind /\ x.ids = ids
  BY <1>2
<1>7. QED BY <1>1, <1>4, <1>5, <1>6 DEF s, c, buffer

LEMMA Decides ==
  ASSUME FileInv, CompactOrReturn
  PROVE  /\ FileInv' /\ Flushing /\ flusher.step = "decide" /\ flusher.kind = "ack"
         /\ flusher.ids \in SUBSET (0..seen.born) /\ seen \in SeenRow(seen.born)
         /\ UNCHANGED <<memory, writer, disk>>
         /\ \/ /\ UNCHANGED <<mode, seen>>
               /\ flusher' # NoFlush /\ flusher'.step \in {"rename", "clear"}
               /\ flusher'.step = "clear" => entries = <<>> /\ committed = 0
               /\ flusher'.kind = "ack" /\ flusher'.ids = flusher.ids
            \/ Returned("ack", flusher.ids)
<1> DEFINE b == seen.born
<1>1. flusher # NoFlush /\ Flushing /\ flusher.step = "decide"
  BY DEF CompactOrReturn, NoFlush, Flushing
<1>2. /\ Alive /\ flusher \in FlushRow(b) /\ b \in Nat /\ Writing = {}
      /\ \A j \in Jobs : writer[j] = NoWrite
  BY <1>1, FlusherAlone
<1>3. flusher.ids \in SUBSET (0..b) /\ flusher.kind = "ack"
  BY <1>1, <1>2, FlushFields
<1>4. UNCHANGED <<memory, writer, disk>>
  BY DEF CompactOrReturn
<1>5. /\ entries' = entries /\ committed' = committed /\ acked' = acked
      /\ sequences' = sequences /\ file' = file /\ ackFile' = ackFile /\ seqFile' = seqFile
  BY <1>4 DEF memory, disk
<1>6. /\ mode = "up"
  BY <1>1, <1>2 DEF FileInv, Alone, Alive
<1>7. Counts(committed', file') /\ Shaped(file') /\ \A j \in Jobs : writer'[j] = NoWrite
  <2>1. Counts(committed, file)
    BY <1>1, <1>2, Unwritten
  <2>2. QED BY <1>2, <1>4, <1>5, <2>1 DEF FileInv
<1>8. entries' \in Seq(Made(b)) /\ committed' \in Nat /\ seen \in SeenRow(b)
  BY <1>5 DEF FileInv, SpoolTypeOK
<1>9. CASE flusher' = Compaction(entries, committed, "ack", flusher.ids) /\ UNCHANGED <<mode, seen>>
  <2>1. flusher' = Compaction(entries', committed', "ack", flusher.ids)
    BY <1>5, <1>9
  <2>2. /\ flusher' \in FlushRow(b) /\ flusher' # NoFlush /\ flusher'.step \in {"rename", "clear"}
        /\ flusher'.step = "clear" => entries' = <<>> /\ committed' = 0
        /\ flusher'.buffer = <<Header>> \o entries'
        /\ flusher'.kind = "ack" /\ flusher'.ids = flusher.ids
    BY <1>2, <1>3, <1>8, <2>1, BeginsCompaction
  <2>3. SpoolTypeOK'
    BY <1>4, <1>5, <1>9, <2>2 DEF FileInv, SpoolTypeOK
  <2>4. FileInv'
    BY <1>6, <1>7, <1>9, <2>2, <2>3, FlushTo
  <2>5. QED BY <1>1, <1>3, <1>4, <1>5, <1>8, <1>9, <2>2, <2>4
<1>10. CASE Returned("ack", flusher.ids)
  <2>1. flusher' = NoFlush /\ mode' = "up" /\ seen' \in SeenRow(b) /\ seen'.born = b
    BY <1>2, <1>3, <1>8, <1>10, SeenReturned
  <2>2. NoFlush \in FlushRow(b)
    BY DEF FlushRow
  <2>3. SpoolTypeOK'
    BY <1>4, <1>5, <2>1, <2>2 DEF FileInv, SpoolTypeOK
  <2>4. FileInv'
    BY <1>7, <2>1, <2>3, FlushTo
  <2>5. QED BY <1>1, <1>3, <1>4, <1>8, <1>10, <2>4
<1>11. QED BY <1>9, <1>10 DEF CompactOrReturn

LEMMA DeadLetters ==
  ASSUME FileInv, ~Overlap, DeadLetter
  PROVE  /\ FileInv' /\ mode = "up" /\ Writing = {} /\ ~Flushing
         /\ UNCHANGED <<mode, acked, sequences, committed, writer, disk, seen>>
         /\ entries \in Seq(Made(seen.born))
         /\ flusher' # NoFlush /\ flusher'.step = "rename" /\ flusher'.kind = "mark"
         /\ flusher'.ids \in SUBSET IdsOf(entries)
         /\ entries' = Marked(entries, flusher'.ids)
<1> DEFINE b == seen.born
<1>1. /\ mode = "up" /\ Writing = {} /\ ~Flushing
      /\ UNCHANGED <<mode, acked, sequences, committed, writer, disk, seen>>
  BY DEF DeadLetter, MayFlush
<1>2. entries \in Seq(Made(b)) /\ b \in Nat
  BY DEF FileInv, SpoolTypeOK, SeenRow
<1>3. PICK ids \in (SUBSET IdsOf(Deliverable(entries))) \ {{}} :
             /\ entries' = Marked(entries, ids)
             /\ flusher' = Compaction(entries', committed, "mark", ids)
  BY DEF DeadLetter
<1>4. ids \in SUBSET IdsOf(entries) /\ ids \in SUBSET (0..b) /\ ids # {}
  <2>1. IdsOf(entries) \in SUBSET (0..b) /\ IdsOf(Deliverable(entries)) \subseteq IdsOf(entries)
    BY <1>2, IdsMade
  <2>2. QED BY <1>3, <2>1
<1>5. entries' \in Seq(Made(b)) /\ Len(entries') = Len(entries)
  BY <1>2, <1>3, MarkedElements
<1>6. committed' = committed /\ committed' \in Nat
  BY <1>1 DEF FileInv, SpoolTypeOK
<1>7. /\ flusher' \in FlushRow(b) /\ flusher' # NoFlush /\ flusher'.step \in {"rename", "clear"}
      /\ flusher'.step = "clear" => entries' = <<>> /\ committed' = 0
      /\ flusher'.buffer = <<Header>> \o entries'
      /\ flusher'.kind = "mark" /\ flusher'.ids = ids
  BY <1>2, <1>3, <1>4, <1>5, <1>6, BeginsCompaction
<1>8. flusher'.step # "clear"
  <2>1. PICK i : i \in DOMAIN entries
    BY <1>4 DEF IdsOf
  <2>2. Len(entries) # 0
    BY <1>2, <2>1, LenProperties
  <2>3. entries' # <<>>
    BY <1>5, <2>2
  <2>4. QED BY <1>7, <2>3
<1>9. file' = file /\ ackFile' = ackFile /\ seqFile' = seqFile
  BY <1>1 DEF disk
<1>10. SpoolTypeOK'
  BY <1>1, <1>5, <1>6, <1>7, <1>9 DEF FileInv, SpoolTypeOK
<1>11. Counts(committed', file') /\ Shaped(file') /\ \A j \in Jobs : writer'[j] = NoWrite
  <2>1. Counts(committed, file)
    BY <1>1, Unwritten DEF Alive
  <2>2. QED BY <1>1, <1>9, <2>1 DEF FileInv, Writing
<1>12. FileInv'
  BY <1>1, <1>7, <1>10, <1>11, FlushTo
<1>13. QED BY <1>1, <1>2, <1>3, <1>4, <1>7, <1>8, <1>12

LEMMA Opening ==
  ASSUME FileInv, NEW tornTail, Open(tornTail)
  PROVE  /\ FileInv' /\ ~Alive /\ Writing = {} /\ ~Flushing /\ UNCHANGED <<writer, disk, seen>>
         /\ \/ mode' = "refused" /\ UNCHANGED <<memory, flusher>>
            \/ /\ entries' = Without(Read(file), ackFile) /\ acked' = ackFile
               /\ sequences' = [j \in Jobs |->
                                  Highest({seqFile[j], HighestSequence(Read(file), j)})]
               /\ \/ mode' = "up" /\ flusher' = NoFlush
                  \/ /\ mode' = "opening" /\ flusher' # NoFlush
                     /\ flusher'.step \in {"rename", "clear"} /\ flusher'.kind = "open"
<1> DEFINE b == seen.born
<1>1. /\ mode \in {"down", "refused"} /\ ~Alive
      /\ UNCHANGED <<writer, disk, seen>>
  BY DEF Open, Alive
<1>2. Writing = {} /\ ~Flushing /\ flusher = NoFlush
  BY <1>1 DEF FileInv, Alone, Flushing
<1>3. /\ b \in Nat /\ file \in Seq(Frame(b)) /\ Shaped(file) /\ ackFile \in SUBSET (0..b)
      /\ seqFile \in [Jobs -> 0..b] /\ entries \in Seq(Made(b))
  BY DEF FileInv, SpoolTypeOK, SeenRow
<1>4. file' = file /\ ackFile' = ackFile /\ seqFile' = seqFile /\ seen' = seen /\ writer' = writer
  BY <1>1 DEF disk
<1>5. CASE mode' = "refused" /\ UNCHANGED <<memory, flusher>>
  <2>1. /\ entries' = entries /\ acked' = acked /\ sequences' = sequences
        /\ committed' = committed /\ flusher' = flusher
    BY <1>5 DEF memory
  <2>2. SpoolTypeOK'
    BY <1>4, <1>5, <2>1 DEF FileInv, SpoolTypeOK
  <2>3. ~Alive' /\ Writing' = {} /\ ~Flushing'
    BY <1>2, <1>4, <1>5, <2>1 DEF Alive, Writing, Flushing
  <2>4. entries = <<>> /\ acked = {} /\ committed = 0
    BY <1>1 DEF FileInv, Alone
  <2>5. Alone' /\ LengthsFit'
    BY <1>5, <2>1, <2>3, <2>4 DEF Alone, LengthsFit
  <2>6. QED BY <1>1, <1>2, <1>3, <1>4, <1>5, <2>2, <2>5 DEF FileInv
<1>6. CASE /\ entries' = Without(Entries(GoodPrefix(file)), ackFile)
           /\ acked' = ackFile
           /\ committed' = Len(GoodPrefix(file))
           /\ sequences' = [j \in Jobs |->
                 Highest({seqFile[j], HighestSequence(Entries(GoodPrefix(file)), j)})]
           /\ IF ackFile = {}
              THEN mode' = "up" /\ UNCHANGED flusher
              ELSE /\ mode' = "opening"
                   /\ flusher' = Compaction(entries', committed', "open", {})
  <2> DEFINE r == Read(file)
  <2>1. r = Entries(GoodPrefix(file)) /\ r \in Seq(Made(b)) /\ Len(GoodPrefix(file)) = Whole(file)
    BY <1>3, Reading DEF Read
  <2>2. Whole(file) \in Nat
    BY <1>3, GoodIsWhole
  <2>3. /\ entries' = Without(r, ackFile) /\ acked' = ackFile /\ committed' = Whole(file)
        /\ sequences' = [j \in Jobs |-> Highest({seqFile[j], HighestSequence(r, j)})]
    BY <1>6, <2>1
  <2> HIDE DEF r
  <2>4. entries' \in Seq(Made(b)) /\ committed' \in Nat
    BY <2>1, <2>2, <2>3, WithoutElements
  <2>5. sequences' \in [Jobs -> 0..b]
    <3>1. ASSUME NEW j \in Jobs PROVE Highest({seqFile[j], HighestSequence(r, j)}) \in 0..b
      <4>1. HighestSequence(r, j) \in 0..b /\ seqFile[j] \in 0..b
        BY <1>3, <2>1, HighestOfSome
      <4>2. QED BY <1>3, <4>1, HighestOfTwo
    <3>2. QED BY <2>3, <3>1
  <2>6. Counts(committed', file') /\ Shaped(file') /\ \A j \in Jobs : writer'[j] = NoWrite
    BY <1>2, <1>3, <1>4, <2>3 DEF Counts, Writing
  <2>7. CASE ackFile = {}
    <3>1. mode' = "up" /\ flusher' = NoFlush
      BY <1>2, <1>6, <2>7
    <3>2. NoFlush \in FlushRow(b)
      BY DEF FlushRow
    <3>3. SpoolTypeOK'
      BY <1>3, <1>4, <2>3, <2>4, <2>5, <3>1, <3>2 DEF FileInv, SpoolTypeOK
    <3>4. FileInv'
      BY <2>6, <3>1, <3>3, FlushTo
    <3>5. QED BY <1>1, <1>2, <2>3, <3>1, <3>4 DEF r
  <2>8. CASE ackFile # {}
    <3>1. mode' = "opening" /\ flusher' = Compaction(entries', committed', "open", {})
      BY <1>6, <2>8
    <3>2. /\ flusher' \in FlushRow(b) /\ flusher' # NoFlush
          /\ flusher'.step \in {"rename", "clear"} /\ flusher'.buffer = <<Header>> \o entries'
          /\ flusher'.kind = "open"
      <4>1. {} \in SUBSET (0..b)
        OBVIOUS
      <4>2. QED BY <1>3, <2>4, <3>1, <4>1, BeginsCompaction
    <3>3. SpoolTypeOK'
      BY <1>3, <1>4, <2>3, <2>4, <2>5, <3>1, <3>2 DEF FileInv, SpoolTypeOK
    <3>4. FileInv'
      BY <2>6, <3>1, <3>2, <3>3, FlushTo
    <3>5. QED BY <1>1, <1>2, <2>3, <3>1, <3>2, <3>4 DEF r
  <2>9. QED BY <2>7, <2>8
<1>7. QED BY <1>5, <1>6 DEF Open

LEMMA Crashes ==
  ASSUME FileInv, Crash
  PROVE  /\ FileInv' /\ Alive /\ ~Alive' /\ Read(file') = Read(file)
         /\ ackFile' = ackFile /\ seqFile' = seqFile
         /\ flusher' = NoFlush /\ Writing' = {} /\ ~Flushing'
         /\ seen \in SeenRow(seen.born) /\ seen' = [seen EXCEPT !.crashes = @ + 1]
<1> DEFINE b == seen.born
<1>1. /\ Alive /\ mode' = "down" /\ entries' = <<>> /\ acked' = {} /\ committed' = 0
      /\ sequences' = [j \in Jobs |-> 0] /\ writer' = [j \in Jobs |-> NoWrite]
      /\ flusher' = NoFlush /\ ackFile' = ackFile /\ seqFile' = seqFile
      /\ seen' = [seen EXCEPT !.crashes = @ + 1]
  BY DEF Crash, Alive
<1>2. /\ b \in Nat /\ file \in Seq(Frame(b)) /\ Shaped(file) /\ ackFile \in SUBSET (0..b)
      /\ seqFile \in [Jobs -> 0..b] /\ seen \in SeenRow(b)
  BY DEF FileInv, SpoolTypeOK, SeenRow
<1>3. file' \in Seq(Frame(b)) /\ Shaped(file') /\ Read(file') = Read(file)
  <2>1. CASE file' = file
    BY <1>2, <2>1
  <2>2. CASE file' # file
    <3>1. PICK j \in Jobs : /\ writer[j] # NoWrite /\ writer[j].step = "write"
                            /\ \E r \in Residues(writer[j]) : file' = file \o r
      BY <2>2 DEF Crash
    <3>2. PICK r \in Residues(writer[j]) : file' = file \o r
      BY <3>1
    <3>3. /\ writer[j].entry \in Made(b) /\ Whole(file) = Len(file)
          /\ writer[j].first = (Len(file) = 0)
      BY <3>1, WriterWrites
    <3>4. QED BY <1>2, <3>2, <3>3, Interrupted
  <2>3. QED BY <2>1, <2>2
<1>4. seen' \in SeenRow(b) /\ seen'.born = b
  <2>1. seen.crashes + 1 \in Nat
    BY <1>2 DEF SeenRow
  <2>2. seen' = [seen EXCEPT !.crashes = seen.crashes + 1]
    BY <1>1
  <2>3. QED BY <1>2, <2>1, <2>2 DEF SeenRow
<1>5. SpoolTypeOK'
  <2>1. sequences' \in [Jobs -> 0..b] /\ writer' \in [Jobs -> WriterRow(b)] /\ flusher' \in FlushRow(b)
    BY <1>1, <1>2 DEF WriterRow, FlushRow
  <2>2. entries' \in Seq(Made(b))
    BY <1>1
  <2>3. QED BY <1>1, <1>2, <1>3, <1>4, <2>1, <2>2 DEF SpoolTypeOK
<1>6. ~Alive' /\ Writing' = {} /\ ~Flushing'
  BY <1>1 DEF Alive, Writing, Flushing
<1>7. Alone' /\ LengthsFit'
  BY <1>1, <1>6 DEF Alone, LengthsFit
<1>8. QED BY <1>1, <1>2, <1>3, <1>5, <1>6, <1>7 DEF FileInv

-----------------------------------------------------------------------------
(* The ids of what is on disk.                                             *)

LEMMA IdsWithout ==
  ASSUME NEW S, NEW s \in Seq(S), NEW ids
  PROVE  IdsOf(Without(s, ids)) = IdsOf(s) \ ids
<1> DEFINE w == Without(s, ids)
<1>1. /\ \A n \in DOMAIN w : \E k \in DOMAIN s : w[n] = s[k] /\ s[k].id \notin ids
      /\ \A k \in DOMAIN s : s[k].id \notin ids => \E n \in DOMAIN w : w[n] = s[k]
  <2> DEFINE K == Stay(s, ids)
  <2>1. K \in SUBSET DOMAIN s /\ w = Picked(s, K)
    BY DEF Stay, Without
  <2>2. \A k \in DOMAIN s : s[k].id \notin ids <=> k \in K
    BY DEF Stay
  <2> HIDE DEF K, w
  <2>3. /\ \A n \in DOMAIN w : Nth(K, n) \in K /\ w[n] = s[Nth(K, n)]
        /\ \A k \in K : \E n \in DOMAIN w : Nth(K, n) = k
    BY <2>1, Picking
  <2>4. QED BY <2>1, <2>2, <2>3
<1> HIDE DEF w
<1>2. ASSUME NEW x \in IdsOf(w) PROVE x \in IdsOf(s) /\ x \notin ids
  BY <1>1 DEF IdsOf
<1>3. ASSUME NEW x \in IdsOf(s), x \notin ids PROVE x \in IdsOf(w)
  BY <1>1, <1>3 DEF IdsOf
<1>4. QED BY <1>2, <1>3 DEF w

LEMMA IdsAppended ==
  ASSUME NEW S, NEW s \in Seq(S), NEW e \in S
  PROVE  /\ IdsOf(Append(s, e)) = IdsOf(s) \cup {e.id}
         /\ DOMAIN s \subseteq DOMAIN Append(s, e)
         /\ \A i \in DOMAIN s : Append(s, e)[i] = s[i]
         /\ \A i \in DOMAIN Append(s, e) : i \in DOMAIN s \/ Append(s, e)[i] = e
         /\ \E i \in DOMAIN Append(s, e) : Append(s, e)[i] = e
<1> DEFINE t == Append(s, e)
           n == Len(s)
<1>1. n \in Nat /\ DOMAIN s = 1..n
  BY LenProperties
<1>2. /\ t \in Seq(S) /\ Len(t) = n + 1 /\ t[n + 1] = e /\ \A i \in 1..n : t[i] = s[i]
  BY <1>1, AppendProperties
<1>3. DOMAIN t = 1..(n + 1)
  BY <1>2, LenProperties
<1> HIDE DEF t
<1>4. /\ DOMAIN s \subseteq DOMAIN t /\ \A i \in DOMAIN s : t[i] = s[i]
      /\ \A i \in DOMAIN t : i \in DOMAIN s \/ t[i] = e
      /\ \E i \in DOMAIN t : t[i] = e
  <2>1. \A i : i \in 1..(n + 1) <=> i \in 1..n \/ i = n + 1
    BY <1>1
  <2>2. QED BY <1>1, <1>2, <1>3, <2>1
<1>5. IdsOf(t) = IdsOf(s) \cup {e.id}
  <2>1. ASSUME NEW x \in IdsOf(t) PROVE x \in IdsOf(s) \/ x = e.id
    BY <1>4 DEF IdsOf
  <2>2. ASSUME NEW x \in IdsOf(s) PROVE x \in IdsOf(t)
    BY <1>4 DEF IdsOf
  <2>3. e.id \in IdsOf(t)
    BY <1>4 DEF IdsOf
  <2>4. QED BY <2>1, <2>2, <2>3
<1>6. QED BY <1>4, <1>5 DEF t

LEMMA IdsMarked ==
  ASSUME NEW b \in Nat, NEW s \in Seq(Made(b)), NEW ids
  PROVE  IdsOf(Marked(s, ids)) = IdsOf(s)
<1>1. DOMAIN Marked(s, ids) = DOMAIN s /\ \A i \in DOMAIN s : Marked(s, ids)[i].id = s[i].id
  BY MarkedElements
<1>2. QED BY <1>1 DEF IdsOf

LEMMA FoundTyped ==
  ASSUME FileInv
  PROVE  /\ seen.born \in Nat /\ seen \in SeenRow(seen.born)
         /\ Found \in Seq(Made(seen.born)) /\ entries \in Seq(Made(seen.born))
         /\ IdsOf(Found) \in SUBSET (0..seen.born)
         /\ \A i \in DOMAIN Found : Found[i] \in Made(seen.born) /\ Found[i].id \in IdsOf(Found)
         /\ acked \in SUBSET (0..seen.born) /\ ackFile \in SUBSET (0..seen.born)
         /\ sequences \in [Jobs -> 0..seen.born] /\ seqFile \in [Jobs -> 0..seen.born]
<1> DEFINE b == seen.born
<1>1. /\ b \in Nat /\ seen \in SeenRow(b) /\ file \in Seq(Frame(b)) /\ Shaped(file)
      /\ entries \in Seq(Made(b)) /\ acked \in SUBSET (0..b) /\ ackFile \in SUBSET (0..b)
      /\ sequences \in [Jobs -> 0..b] /\ seqFile \in [Jobs -> 0..b]
  BY DEF FileInv, SpoolTypeOK, SeenRow
<1>2. Found \in Seq(Made(b))
  BY <1>1, Reading DEF Found
<1>3. IdsOf(Found) \in SUBSET (0..b)
  BY <1>1, <1>2, IdsMade
<1>4. \A i \in DOMAIN Found : Found[i] \in Made(b) /\ Found[i].id \in IdsOf(Found)
  BY <1>2, LenProperties, ElementOfSeq DEF IdsOf
<1>5. QED BY <1>1, <1>2, <1>3, <1>4

-----------------------------------------------------------------------------
(* Nothing that was promised is lost: the steps of an enqueue.             *)

LEMMA InitQueue == Init => QueueInv
<1> SUFFICES ASSUME Init PROVE QueueInv
  OBVIOUS
<1>1. ~Alive /\ Writing = {} /\ ~Flushing /\ acked = {} /\ ackFile = {}
      /\ seen.told = {} /\ seen.settled = {} /\ seen.marked = {}
  BY DEF Init, Alive, Writing, Flushing
<1>2. QED BY <1>1 DEF QueueInv, MemoryFollows, WritesNew, ToldIsKept, SettledIsAcked, MarkedIsDead,
                      FlushAt, MarkingAt

\* An enqueue that writes nothing of its entry: where it stands is all that changes.
LEMMA QueueWaits ==
  ASSUME FileInv, QueueInv, NEW j \in Jobs, Prepares(j) \/ AppendFails(j)
  PROVE  QueueInv'
<1>1. /\ writer[j] # NoWrite /\ writer[j].step # "count" /\ Found' = Found
      /\ UNCHANGED <<mode, memory, flusher, ackFile, seqFile, seen>>
      /\ \E row : /\ writer' = [writer EXCEPT ![j] = row]
                  /\ row # NoWrite => row.entry = writer[j].entry /\ row.step # "count"
  <2>1. CASE Prepares(j)
    BY <2>1, WriterPrepares DEF Found
  <2>2. CASE AppendFails(j)
    BY <2>2, WriterFails DEF Found
  <2>3. QED BY <2>1, <2>2
<1>2. /\ Writing = {j} /\ ~Flushing /\ Alive /\ writer \in [Jobs -> WriterRow(seen.born)]
  BY <1>1, WriterAlone
<1>3. /\ \A k \in Writing' : k = j
      /\ j \in Writing' => writer'[j].entry = writer[j].entry /\ writer'[j].step # "count"
  BY <1>1, <1>2 DEF Writing
<1>4. /\ ~Flushing' /\ Alive' /\ entries' = entries /\ acked' = acked
      /\ ackFile' = ackFile /\ seen' = seen
  BY <1>1, <1>2 DEF memory, Flushing, Alive
<1>5. entries = Without(Found, acked)
  BY <1>1, <1>2 DEF QueueInv, MemoryFollows, FlushAt, MarkingAt
<1>6. MemoryFollows'
  BY <1>1, <1>2, <1>3, <1>4, <1>5 DEF QueueInv, MemoryFollows, FlushAt, MarkingAt
<1>7. WritesNew'
  BY <1>1, <1>2, <1>3, <1>4 DEF QueueInv, WritesNew
<1>8. ToldIsKept'
  BY <1>1, <1>4 DEF QueueInv, ToldIsKept
<1>9. SettledIsAcked'
  BY <1>1, <1>4 DEF QueueInv, SettledIsAcked, FlushAt
<1>10. MarkedIsDead'
  BY <1>1, <1>4 DEF QueueInv, MarkedIsDead, MarkingAt
<1>11. QED BY <1>6, <1>7, <1>8, <1>9, <1>10 DEF QueueInv

LEMMA QueueBegins ==
  ASSUME FileInv, ~Overlap, QueueInv, NEW j \in Jobs, Enqueue(j)
  PROVE  QueueInv'
<1> DEFINE b == seen.born
           e == [id |-> b + 1, job |-> j, seq |-> LastSequence(j) + 1, dead |-> FALSE]
           row == [step |-> "stat", first |-> committed = 0, entry |-> e]
<1>1. /\ UNCHANGED <<mode, memory, flusher, disk>>
      /\ b \in Nat /\ seen' = [seen EXCEPT !.born = @ + 1]
      /\ mode = "up" /\ Writing = {} /\ ~Flushing
      /\ row # NoWrite /\ writer' = [writer EXCEPT ![j] = row]
  BY WriterBegins
<1>2. row.entry = e /\ row.step = "stat" /\ e.id = b + 1 /\ ~e.dead
  OBVIOUS
<1> HIDE DEF row, e
<1>3. /\ Found' = Found /\ entries' = entries /\ acked' = acked /\ ackFile' = ackFile
      /\ ~Flushing' /\ Alive /\ Alive'
  BY <1>1 DEF memory, disk, Flushing, Alive, Found
<1>4. /\ seen \in SeenRow(b) /\ IdsOf(Found) \in SUBSET (0..b)
      /\ acked \in SUBSET (0..b) /\ ackFile \in SUBSET (0..b)
  BY FoundTyped
<1>5. /\ seen'.told = seen.told /\ seen'.given = seen.given
      /\ seen'.settled = seen.settled /\ seen'.marked = seen.marked
      /\ seen.settled \in SUBSET (0..b) /\ seen.marked \in SUBSET (0..b)
  BY <1>1, <1>4 DEF SeenRow
<1>6. writer \in [Jobs -> WriterRow(b)]
  BY DEF FileInv, SpoolTypeOK
<1>7. Writing' = {j} /\ writer'[j] = row
  BY <1>1, <1>6 DEF Writing
<1>8. entries = Without(Found, acked)
  BY <1>1, <1>3 DEF QueueInv, MemoryFollows, FlushAt, MarkingAt
<1>9. MemoryFollows'
  BY <1>1, <1>2, <1>3, <1>7, <1>8 DEF QueueInv, MemoryFollows, FlushAt, MarkingAt
<1>10. WritesNew'
  <2>1. b + 1 \notin 0..b
    BY <1>1
  <2>2. /\ e.id \notin acked \cup ackFile \cup seen.settled \cup seen.marked
        /\ e.id \notin IdsOf(Found)
    BY <1>2, <1>4, <1>5, <2>1
  <2>3. QED BY <1>2, <1>3, <1>5, <1>7, <2>2 DEF WritesNew
<1>11. ToldIsKept'
  BY <1>3, <1>5 DEF QueueInv, ToldIsKept
<1>12. SettledIsAcked'
  BY <1>3, <1>5 DEF QueueInv, SettledIsAcked, FlushAt
<1>13. MarkedIsDead'
  BY <1>3, <1>5 DEF QueueInv, MarkedIsDead, MarkingAt
<1>14. QED BY <1>9, <1>10, <1>11, <1>12, <1>13 DEF QueueInv

LEMMA QueueAppends ==
  ASSUME FileInv, QueueInv, NEW j \in Jobs, AppendDurably(j)
  PROVE  /\ QueueInv' /\ Found' = Append(Found, writer[j].entry) /\ ackFile' = ackFile
         /\ writer[j].entry.id \notin IdsOf(Found) /\ writer[j].entry.id \notin ackFile
         /\ writer[j].entry \in Made(seen.born) /\ \A e : ~CountingOf(e)
         /\ j \in Writing' /\ writer'[j].step = "count" /\ writer'[j].entry = writer[j].entry
<1> DEFINE b == seen.born
           e == writer[j].entry
           row == Step(j, "count")
<1>1. /\ Found' = Append(Found, e) /\ writer[j] # NoWrite /\ writer[j].step = "write"
      /\ UNCHANGED <<mode, memory, flusher, ackFile, seqFile, seen>>
      /\ writer' = [writer EXCEPT ![j] = row] /\ row # NoWrite
  BY WriterAppends DEF Found
<1>2. row.entry = e /\ row.step = "count"
  BY DEF Step
<1>3. e \in Made(b)
  BY <1>1, WriterWrites
<1> HIDE DEF row, e
<1>4. /\ Writing = {j} /\ ~Flushing /\ Alive /\ writer \in [Jobs -> WriterRow(b)]
  BY <1>1, WriterAlone
<1>5. /\ Writing' = {j} /\ writer'[j] = row
  BY <1>1, <1>4 DEF Writing
<1>6. /\ ~Flushing' /\ Alive' /\ entries' = entries /\ acked' = acked
      /\ ackFile' = ackFile /\ seen' = seen
  BY <1>1, <1>4 DEF memory, Flushing, Alive
<1>7. /\ ~e.dead /\ e.id \notin acked \cup ackFile \cup seen.settled \cup seen.marked
      /\ e.id \notin IdsOf(Found)
  BY <1>1, <1>4 DEF QueueInv, WritesNew, e
<1>8. entries = Without(Found, acked)
  BY <1>1, <1>4 DEF QueueInv, MemoryFollows, FlushAt, MarkingAt
<1>9. /\ Found \in Seq(Made(b))
  BY FoundTyped
<1>10. /\ IdsOf(Found') = IdsOf(Found) \cup {e.id}
       /\ \A i \in DOMAIN Found' : (i \in DOMAIN Found /\ Found'[i] = Found[i]) \/ Found'[i] = e
  BY <1>1, <1>3, <1>9, IdsAppended
<1>11. Without(Found', acked) = Append(entries, e)
  BY <1>1, <1>3, <1>7, <1>8, <1>9, WithoutAppend
<1>12. MemoryFollows'
  <2>1. \A i \in DOMAIN Found : Found[i].id \in acked <=> Found[i].id \in ackFile
    BY <1>4 DEF QueueInv, MemoryFollows, FlushAt
  <2>2. \A i \in DOMAIN Found' : Found'[i].id \in acked' <=> Found'[i].id \in ackFile'
    BY <1>6, <1>7, <1>10, <2>1
  <2>3. QED BY <1>2, <1>5, <1>6, <1>11, <2>2 DEF MemoryFollows, FlushAt, MarkingAt
<1>13. WritesNew'
  BY <1>2, <1>5, <1>6, <1>7 DEF WritesNew
<1>14. ToldIsKept'
  BY <1>6, <1>10 DEF QueueInv, ToldIsKept
<1>15. SettledIsAcked'
  BY <1>6, <1>7, <1>10 DEF QueueInv, SettledIsAcked, FlushAt
<1>16. MarkedIsDead'
  BY <1>6, <1>7, <1>10 DEF QueueInv, MarkedIsDead, MarkingAt
<1>17. /\ j \in Writing' /\ writer'[j].step = "count" /\ writer'[j].entry = e
       /\ \A f : ~CountingOf(f)
  <2>1. j \in Writing' /\ writer'[j].step = "count" /\ writer'[j].entry = e
    BY <1>2, <1>5
  <2>2. \A k \in Writing : writer[k].step # "count"
    BY <1>1, <1>4
  <2>3. QED BY <2>1, <2>2 DEF CountingOf
<1>18. QED BY <1>1, <1>3, <1>6, <1>7, <1>12, <1>13, <1>14, <1>15, <1>16, <1>17 DEF QueueInv, e

LEMMA QueueCounts ==
  ASSUME FileInv, QueueInv, NEW j \in Jobs, Count(j)
  PROVE  /\ QueueInv' /\ \E k \in DOMAIN Found : Found[k] = writer[j].entry
<1> DEFINE b == seen.born
           e == writer[j].entry
<1>1. /\ UNCHANGED <<mode, acked, flusher, disk>>
      /\ writer[j] # NoWrite /\ writer[j].step = "count" /\ e \in Made(b)
      /\ writer' = [writer EXCEPT ![j] = NoWrite]
      /\ entries' = Append(entries, e)
      /\ seen' = [seen EXCEPT !.told = @ \cup {e.id}, !.top[j] = Highest({@, e.seq})]
  BY WriterCounts
<1> HIDE DEF e
<1>2. /\ Writing = {j} /\ ~Flushing /\ Alive /\ writer \in [Jobs -> WriterRow(b)]
      /\ seen \in SeenRow(b)
  BY <1>1, WriterAlone
<1>3. Writing' = {}
  BY <1>1, <1>2 DEF Writing
<1>4. /\ ~Flushing' /\ Alive' /\ acked' = acked /\ ackFile' = ackFile /\ Found' = Found
  BY <1>1, <1>2 DEF disk, Flushing, Alive, Found
<1>5. /\ seen'.told = seen.told \cup {e.id} /\ seen'.given = seen.given
      /\ seen'.settled = seen.settled /\ seen'.marked = seen.marked
  BY <1>1, <1>2 DEF SeenRow
<1>6. Without(Found, acked) = Append(entries, e)
  BY <1>1, <1>2 DEF QueueInv, MemoryFollows, e
<1>7. Found \in Seq(Made(b)) /\ entries \in Seq(Made(b))
  BY FoundTyped
<1>8. PICK k \in DOMAIN Found : Found[k] = e
  <2>1. PICK i \in DOMAIN Append(entries, e) : Append(entries, e)[i] = e
    BY <1>1, <1>7, IdsAppended
  <2>2. i \in DOMAIN Without(Found, acked) /\ Without(Found, acked)[i] = e
    BY <1>6, <2>1
  <2>3. \A n \in DOMAIN Without(Found, acked) :
          \E k \in DOMAIN Found : Without(Found, acked)[n] = Found[k]
    BY <1>7, WithoutElements
  <2>4. QED BY <2>2, <2>3
<1>9. e.id \in IdsOf(Found)
  BY <1>8 DEF IdsOf
<1>10. MemoryFollows'
  BY <1>1, <1>2, <1>3, <1>4, <1>6 DEF QueueInv, MemoryFollows, FlushAt, MarkingAt
<1>11. WritesNew'
  BY <1>3 DEF WritesNew
<1>12. ToldIsKept'
  BY <1>4, <1>5, <1>9 DEF QueueInv, ToldIsKept
<1>13. SettledIsAcked'
  BY <1>4, <1>5 DEF QueueInv, SettledIsAcked, FlushAt
<1>14. MarkedIsDead'
  BY <1>4, <1>5 DEF QueueInv, MarkedIsDead, MarkingAt
<1>15. QED BY <1>8, <1>10, <1>11, <1>12, <1>13, <1>14 DEF QueueInv, e

-----------------------------------------------------------------------------
(* Nothing that was promised is lost: the steps of the flush loop.         *)

LEMMA QueueAcks ==
  ASSUME FileInv, ~Overlap, QueueInv, Ack
  PROVE  QueueInv'
<1> DEFINE b == seen.born
<1>1. /\ FileInv' /\ mode = "up" /\ Writing = {} /\ ~Flushing
      /\ UNCHANGED <<mode, sequences, committed, writer, disk>> /\ seen \in SeenRow(b)
  BY Acks
<1>2. PICK ids \in SUBSET IdsOf(entries) :
              /\ entries' = Without(entries, ids) /\ acked' = acked \cup ids
              /\ flusher' = [step |-> "acks", kind |-> "ack", ids |-> ids]
              /\ seen' = [seen EXCEPT !.given = @ \cup ids]
  BY Acks
<1>3. /\ Found' = Found /\ ackFile' = ackFile /\ Writing' = {} /\ Alive /\ Alive'
  BY <1>1 DEF disk, Found, Writing, Alive
<1>4. /\ Flushing' /\ flusher'.step = "acks" /\ flusher'.kind = "ack" /\ flusher'.ids = ids
  BY <1>2 DEF Flushing, NoFlush
<1>5. /\ seen'.told = seen.told /\ seen'.given = seen.given \cup ids
      /\ seen'.settled = seen.settled /\ seen'.marked = seen.marked
  BY <1>1, <1>2 DEF SeenRow
<1>6. entries = Without(Found, acked) /\ Found \in Seq(Made(b))
  BY <1>1, <1>3, FoundTyped DEF QueueInv, MemoryFollows, FlushAt, MarkingAt
<1>7. entries' = Without(Found, acked \cup ids)
  BY <1>2, <1>6, WithoutTwice
<1>8. MemoryFollows'
  <2>1. \A i \in DOMAIN Found : Found[i].id \in ackFile => Found[i].id \in acked
    BY <1>1, <1>3 DEF QueueInv, MemoryFollows, FlushAt
  <2>2. \A i \in DOMAIN Found' : Found'[i].id \in ackFile' => Found'[i].id \in acked'
    BY <1>2, <1>3, <2>1
  <2>3. QED BY <1>2, <1>3, <1>4, <1>7, <2>2 DEF MemoryFollows, FlushAt, MarkingAt
<1>9. WritesNew'
  BY <1>3 DEF WritesNew
<1>10. ToldIsKept'
  BY <1>2, <1>3, <1>5 DEF QueueInv, ToldIsKept
<1>11. SettledIsAcked'
  BY <1>2, <1>3, <1>4, <1>5 DEF QueueInv, SettledIsAcked, FlushAt
<1>12. MarkedIsDead'
  BY <1>3, <1>4, <1>5 DEF QueueInv, MarkedIsDead, MarkingAt
<1>13. QED BY <1>8, <1>9, <1>10, <1>11, <1>12 DEF QueueInv

LEMMA QueuePersists ==
  ASSUME FileInv, QueueInv, PersistAcknowledgements \/ PersistSequences
  PROVE  QueueInv'
<1>1. /\ Flushing /\ flusher.kind = "ack" /\ flusher' # NoFlush
      /\ flusher'.kind = "ack" /\ flusher'.ids = flusher.ids
      /\ UNCHANGED <<mode, memory, writer, file, seen>>
      /\ \/ /\ flusher.step = "acks" /\ flusher'.step = "sequences" /\ ackFile' = acked
         \/ /\ flusher.step = "sequences" /\ flusher'.step = "decide" /\ ackFile' = ackFile
  BY Persists
<1>2. Writing = {} /\ Alive
  BY <1>1, FlusherAlone
<1>3. /\ Found' = Found /\ acked' = acked /\ entries' = entries /\ seen' = seen
      /\ Writing' = {} /\ Flushing' /\ Alive'
  BY <1>1, <1>2 DEF memory, Found, Writing, Flushing, Alive
<1>4. entries = Without(Found, acked)
  BY <1>1, <1>2 DEF QueueInv, MemoryFollows, FlushAt, MarkingAt
<1>5. \A i \in DOMAIN Found : Found[i].id \in ackFile => Found[i].id \in acked
  BY <1>1, <1>2 DEF QueueInv, MemoryFollows, FlushAt
<1>6. \A i \in DOMAIN Found : Found[i].id \in acked <=> Found[i].id \in ackFile'
  BY <1>1, <1>2 DEF QueueInv, MemoryFollows, FlushAt
<1>7. IdsOf(Found) \cap ackFile \subseteq acked /\ IdsOf(Found) \cap acked \subseteq ackFile'
      /\ IdsOf(Found) \cap ackFile \subseteq ackFile'
  BY <1>5, <1>6 DEF IdsOf
<1>8. MemoryFollows'
  <2>1. \A i \in DOMAIN Found' : Found'[i].id \in acked' <=> Found'[i].id \in ackFile'
    BY <1>3, <1>6
  <2>2. QED BY <1>1, <1>3, <1>4, <2>1 DEF MemoryFollows, FlushAt, MarkingAt
<1>9. WritesNew'
  BY <1>3 DEF WritesNew
<1>10. ToldIsKept'
  BY <1>1, <1>3 DEF QueueInv, ToldIsKept
<1>11. SettledIsAcked'
  <2>1. flusher.ids \cap IdsOf(Found) \subseteq ackFile'
    BY <1>1, <1>7 DEF QueueInv, SettledIsAcked, FlushAt
  <2>2. QED BY <1>1, <1>3, <1>7, <2>1 DEF QueueInv, SettledIsAcked, FlushAt
<1>12. MarkedIsDead'
  BY <1>1, <1>3 DEF QueueInv, MarkedIsDead, MarkingAt
<1>13. QED BY <1>8, <1>9, <1>10, <1>11, <1>12 DEF QueueInv

LEMMA QueueDecides ==
  ASSUME FileInv, QueueInv, CompactOrReturn
  PROVE  QueueInv'
<1>1. /\ Flushing /\ flusher.step = "decide" /\ flusher.kind = "ack"
      /\ flusher.ids \in SUBSET (0..seen.born) /\ seen \in SeenRow(seen.born)
      /\ UNCHANGED <<memory, writer, disk>> /\ seen.born \in Nat
  BY Decides DEF SeenRow
<1>2. Writing = {} /\ Alive
  BY <1>1, FlusherAlone
<1>3. /\ Found' = Found /\ acked' = acked /\ entries' = entries /\ ackFile' = ackFile
      /\ Writing' = {}
  BY <1>1, <1>2 DEF memory, disk, Found, Writing
<1>4. /\ entries = Without(Found, acked)
      /\ \A i \in DOMAIN Found : Found[i].id \in acked <=> Found[i].id \in ackFile
  BY <1>1, <1>2 DEF QueueInv, MemoryFollows, FlushAt, MarkingAt
<1>5. flusher.ids \cap IdsOf(Found) \subseteq ackFile
  BY <1>1 DEF QueueInv, SettledIsAcked
<1>6. /\ seen'.told = seen.told /\ seen'.given = seen.given /\ seen'.marked = seen.marked
      /\ ~FlushAt({"acks"})' /\ ~FlushAt({"settle"})' /\ ~MarkingAt({"rename"})'
      /\ ~MarkingAt({"settle", "clear"})'
      /\ \/ seen'.settled = seen.settled
         \/ seen'.settled = seen.settled \cup flusher.ids
      /\ Flushing' => flusher'.ids = flusher.ids
  <2>1. CASE /\ UNCHANGED <<mode, seen>>
             /\ flusher' # NoFlush /\ flusher'.step \in {"rename", "clear"}
             /\ flusher'.kind = "ack" /\ flusher'.ids = flusher.ids
    BY <2>1 DEF FlushAt, MarkingAt
  <2>2. CASE Returned("ack", flusher.ids)
    <3>1. /\ flusher' = NoFlush
          /\ seen'.told = seen.told /\ seen'.given = seen.given /\ seen'.marked = seen.marked
          /\ seen'.settled = seen.settled \cup flusher.ids
      BY <1>1, <2>2, SeenReturned
    <3>2. ~Flushing'
      BY <3>1 DEF Flushing
    <3>3. QED BY <3>1, <3>2 DEF FlushAt, MarkingAt
  <2>3. QED BY <2>1, <2>2, Decides
<1>7. MemoryFollows'
  BY <1>3, <1>4, <1>6 DEF MemoryFollows
<1>8. WritesNew'
  BY <1>3 DEF WritesNew
<1>9. ToldIsKept'
  BY <1>3, <1>6 DEF QueueInv, ToldIsKept
<1>10. SettledIsAcked'
  BY <1>3, <1>5, <1>6 DEF QueueInv, SettledIsAcked
<1>11. MarkedIsDead'
  BY <1>3, <1>6 DEF QueueInv, MarkedIsDead
<1>12. QED BY <1>7, <1>8, <1>9, <1>10, <1>11 DEF QueueInv

LEMMA QueueDeadLetters ==
  ASSUME FileInv, ~Overlap, QueueInv, DeadLetter
  PROVE  QueueInv'
<1>1. /\ mode = "up" /\ Writing = {} /\ ~Flushing
      /\ UNCHANGED <<mode, acked, sequences, committed, writer, disk, seen>>
      /\ flusher' # NoFlush /\ flusher'.step = "rename" /\ flusher'.kind = "mark"
      /\ entries' = Marked(entries, flusher'.ids)
  BY DeadLetters
<1>2. /\ Found' = Found /\ ackFile' = ackFile /\ Writing' = {} /\ Flushing' /\ Alive
      /\ acked' = acked /\ seen' = seen
  BY <1>1 DEF disk, Found, Writing, Flushing, Alive
<1>3. /\ entries = Without(Found, acked)
      /\ \A i \in DOMAIN Found : Found[i].id \in acked <=> Found[i].id \in ackFile
  BY <1>1, <1>2 DEF QueueInv, MemoryFollows, FlushAt, MarkingAt
<1>4. /\ ~FlushAt({"acks"})' /\ ~FlushAt({"settle"})' /\ MarkingAt({"rename"})'
      /\ ~MarkingAt({"settle", "clear"})'
  BY <1>1, <1>2 DEF FlushAt, MarkingAt
<1>5. MemoryFollows'
  BY <1>1, <1>2, <1>3, <1>4 DEF MemoryFollows
<1>6. WritesNew'
  BY <1>2 DEF WritesNew
<1>7. ToldIsKept'
  BY <1>2 DEF QueueInv, ToldIsKept
<1>8. SettledIsAcked'
  BY <1>1, <1>2, <1>4 DEF QueueInv, SettledIsAcked
<1>9. MarkedIsDead'
  BY <1>2, <1>4 DEF QueueInv, MarkedIsDead
<1>10. QED BY <1>5, <1>6, <1>7, <1>8, <1>9 DEF QueueInv

\* The new file holds what was in memory: what was found, without what is acknowledged.
LEMMA QueueRenames ==
  ASSUME FileInv, QueueInv, Rename
  PROVE  /\ QueueInv' /\ Found' = entries /\ IdsOf(Found') \cap ackFile' = {}
         /\ ackFile' = ackFile /\ Writing' = {}
         /\ \A i \in DOMAIN Found : Found[i].id \in acked <=> Found[i].id \in ackFile
         /\ \/ Found' = Without(Found, acked)
            \/ Found' = Marked(Without(Found, acked), flusher.ids)
<1> DEFINE b == seen.born
           kept == Without(Found, acked)
<1>1. /\ Flushing /\ flusher.step = "rename" /\ Found' = entries /\ writer' = writer
      /\ flusher' # NoFlush /\ flusher'.step = "settle"
      /\ flusher'.kind = flusher.kind /\ flusher'.ids = flusher.ids
      /\ UNCHANGED <<mode, memory, ackFile, seqFile, seen>>
  BY Renames DEF Found
<1>2. Writing = {} /\ Alive
  BY <1>1, FlusherAlone
<1>3. /\ acked' = acked /\ entries' = entries /\ ackFile' = ackFile /\ seen' = seen
      /\ Writing' = {} /\ Flushing'
  BY <1>1, <1>2 DEF memory, Writing, Flushing
<1>4. b \in Nat /\ Found \in Seq(Made(b))
  BY FoundTyped
<1>5. kept \in Seq(Made(b)) /\ IdsOf(kept) = IdsOf(Found) \ acked
      /\ \A n \in DOMAIN kept : \E k \in DOMAIN Found : kept[n] = Found[k]
  BY <1>4, WithoutElements, IdsWithout
<1>6. \A i \in DOMAIN Found : Found[i].id \in acked <=> Found[i].id \in ackFile
  BY <1>1, <1>2 DEF QueueInv, MemoryFollows, FlushAt
<1>7. IF flusher.kind = "mark" THEN entries = Marked(kept, flusher.ids) ELSE entries = kept
  BY <1>1, <1>2 DEF QueueInv, MemoryFollows, FlushAt, MarkingAt
<1> HIDE DEF kept
<1>8. IdsOf(entries) = IdsOf(Found) \ acked
  <2>1. IdsOf(Marked(kept, flusher.ids)) = IdsOf(kept)
    BY <1>4, <1>5, IdsMarked
  <2>2. QED BY <1>5, <1>7, <2>1
<1>9. \A x \in IdsOf(Found) : x \in acked <=> x \in ackFile
  BY <1>6 DEF IdsOf
<1>10. IdsOf(Found') \cap ackFile' = {}
  BY <1>1, <1>3, <1>8, <1>9
<1>11. \A i \in DOMAIN entries :
         \E k \in DOMAIN Found : /\ entries[i].id = Found[k].id
                                 /\ Found[k].dead => entries[i].dead
                                 /\ flusher.kind = "mark" /\ entries[i].id \in flusher.ids =>
                                      entries[i].dead
  <2> SUFFICES ASSUME NEW i \in DOMAIN entries
               PROVE  \E k \in DOMAIN Found :
                        /\ entries[i].id = Found[k].id
                        /\ Found[k].dead => entries[i].dead
                        /\ flusher.kind = "mark" /\ entries[i].id \in flusher.ids =>
                             entries[i].dead
    OBVIOUS
  <2>1. CASE flusher.kind = "mark"
    <3>1. entries = Marked(kept, flusher.ids)
      BY <1>7, <2>1
    <3>2. /\ i \in DOMAIN kept /\ entries[i].id = kept[i].id
          /\ entries[i].dead = (kept[i].dead \/ kept[i].id \in flusher.ids)
      BY <1>4, <1>5, <3>1, MarkedElements
    <3>3. PICK k \in DOMAIN Found : kept[i] = Found[k]
      BY <1>5, <3>2
    <3>4. QED BY <3>2, <3>3
  <2>2. CASE flusher.kind # "mark"
    <3>1. entries = kept
      BY <1>7, <2>2
    <3>2. PICK k \in DOMAIN Found : kept[i] = Found[k]
      BY <1>5, <3>1
    <3>3. QED BY <2>2, <3>1, <3>2
  <2>3. QED BY <2>1, <2>2
<1>12. MemoryFollows'
  BY <1>1, <1>3, <1>10 DEF MemoryFollows, FlushAt, MarkingAt
<1>13. WritesNew'
  BY <1>3 DEF WritesNew
<1>14. ToldIsKept'
  BY <1>1, <1>3, <1>8 DEF QueueInv, ToldIsKept
<1>15. SettledIsAcked'
  <2>1. seen.settled \cap IdsOf(Found') \subseteq ackFile
    BY <1>1, <1>8 DEF QueueInv, SettledIsAcked
  <2>2. flusher.kind = "ack" => flusher.ids \cap IdsOf(Found') \subseteq ackFile
    BY <1>1, <1>8 DEF QueueInv, SettledIsAcked
  <2>3. QED BY <1>1, <1>3, <2>1, <2>2 DEF SettledIsAcked, FlushAt
<1>16. MarkedIsDead'
  <2>1. \A i \in DOMAIN entries : entries[i].id \in seen.marked => entries[i].dead
    BY <1>11 DEF QueueInv, MarkedIsDead
  <2>2. flusher.kind = "mark" =>
          \A i \in DOMAIN entries : entries[i].id \in flusher.ids => entries[i].dead
    BY <1>11
  <2>3. QED BY <1>1, <1>3, <2>1, <2>2 DEF MarkedIsDead, MarkingAt
<1>17. QED BY <1>1, <1>3, <1>6, <1>7, <1>10, <1>12, <1>13, <1>14, <1>15, <1>16 DEF QueueInv, kept

LEMMA QueueSettles ==
  ASSUME FileInv, QueueInv, Settle
  PROVE  QueueInv'
<1>1. /\ Flushing /\ flusher.step = "settle" /\ acked' = {}
      /\ flusher' # NoFlush /\ flusher'.step = "clear"
      /\ flusher'.kind = flusher.kind /\ flusher'.ids = flusher.ids
      /\ UNCHANGED <<mode, entries, sequences, writer, disk, seen>>
  BY Settles
<1>2. Writing = {} /\ Alive
  BY <1>1, FlusherAlone
<1>3. /\ Found' = Found /\ entries' = entries /\ ackFile' = ackFile /\ seen' = seen
      /\ Writing' = {} /\ Flushing'
  BY <1>1, <1>2 DEF disk, Writing, Flushing, Found
<1>4. Found = entries /\ IdsOf(Found) \cap ackFile = {}
  BY <1>1 DEF QueueInv, MemoryFollows, FlushAt
<1>5. \A i \in DOMAIN Found : Found[i].id \notin ackFile /\ Found[i].id \notin {}
  BY <1>4 DEF IdsOf
<1>6. Without(Found, {}) = entries
  BY <1>4, <1>5, FoundTyped, WithoutNone
<1>7. MemoryFollows'
  <2>1. \A i \in DOMAIN Found' : Found'[i].id \in acked' <=> Found'[i].id \in ackFile'
    BY <1>1, <1>3, <1>5
  <2>2. entries' = Without(Found', acked')
    BY <1>1, <1>3, <1>6
  <2>3. QED BY <1>1, <1>3, <2>1, <2>2 DEF MemoryFollows, FlushAt, MarkingAt
<1>8. WritesNew'
  BY <1>3 DEF WritesNew
<1>9. ToldIsKept'
  BY <1>1, <1>3 DEF QueueInv, ToldIsKept
<1>10. SettledIsAcked'
  BY <1>1, <1>3 DEF QueueInv, SettledIsAcked, FlushAt
<1>11. MarkedIsDead'
  BY <1>1, <1>3 DEF QueueInv, MarkedIsDead, MarkingAt
<1>12. QED BY <1>7, <1>8, <1>9, <1>10, <1>11 DEF QueueInv

LEMMA QueueClears ==
  ASSUME FileInv, QueueInv, Clear
  PROVE  QueueInv' /\ \A i \in DOMAIN Found : Found[i].id \in acked <=> Found[i].id \in ackFile
<1>1. /\ Flushing /\ flusher.step = "clear" /\ ackFile' = acked
      /\ Returned(flusher.kind, flusher.ids) /\ flusher.ids \in SUBSET (0..seen.born)
      /\ seen \in SeenRow(seen.born) /\ UNCHANGED <<memory, writer, file, seqFile>>
      /\ seen.born \in Nat
  BY Clears DEF SeenRow
<1>2. Writing = {} /\ Alive
  BY <1>1, FlusherAlone
<1>3. /\ flusher' = NoFlush
      /\ seen'.told = seen.told /\ seen'.given = seen.given
      /\ seen'.settled = IF flusher.kind = "ack" THEN seen.settled \cup flusher.ids ELSE seen.settled
      /\ seen'.marked = IF flusher.kind = "mark" THEN seen.marked \cup flusher.ids ELSE seen.marked
  BY <1>1 DEF Returned, SeenRow
<1>4. /\ Found' = Found /\ entries' = entries /\ acked' = acked /\ Writing' = {} /\ ~Flushing'
  BY <1>1, <1>2, <1>3 DEF memory, Writing, Flushing, Found
<1>5. /\ entries = Without(Found, acked)
      /\ \A i \in DOMAIN Found : Found[i].id \in acked <=> Found[i].id \in ackFile
  BY <1>1, <1>2 DEF QueueInv, MemoryFollows, FlushAt, MarkingAt
<1>6. IdsOf(Found) \cap ackFile \subseteq acked
  BY <1>5 DEF IdsOf
<1>7. MemoryFollows'
  BY <1>1, <1>4, <1>5 DEF MemoryFollows, FlushAt, MarkingAt
<1>8. WritesNew'
  BY <1>4 DEF WritesNew
<1>9. ToldIsKept'
  BY <1>1, <1>3, <1>4 DEF QueueInv, ToldIsKept
<1>10. SettledIsAcked'
  <2>1. seen.settled \cap IdsOf(Found) \subseteq acked
    BY <1>6 DEF QueueInv, SettledIsAcked
  <2>2. flusher.kind = "ack" => flusher.ids \cap IdsOf(Found) \subseteq acked
    BY <1>1, <1>6 DEF QueueInv, SettledIsAcked
  <2>3. QED BY <1>1, <1>3, <1>4, <2>1, <2>2 DEF SettledIsAcked, FlushAt
<1>11. MarkedIsDead'
  <2>1. flusher.kind = "mark" => \A i \in DOMAIN Found : Found[i].id \in flusher.ids => Found[i].dead
    BY <1>1 DEF QueueInv, MarkedIsDead, MarkingAt
  <2>2. QED BY <1>3, <1>4, <2>1 DEF QueueInv, MarkedIsDead, MarkingAt
<1>12. QED BY <1>5, <1>7, <1>8, <1>9, <1>10, <1>11 DEF QueueInv

LEMMA QueueOpens ==
  ASSUME FileInv, QueueInv, NEW tornTail, Open(tornTail)
  PROVE  QueueInv'
<1>1. /\ FileInv' /\ ~Alive /\ Writing = {} /\ ~Flushing /\ UNCHANGED <<writer, disk, seen>>
      /\ \/ mode' = "refused" /\ UNCHANGED <<memory, flusher>>
         \/ /\ entries' = Without(Found, ackFile) /\ acked' = ackFile
            /\ \/ mode' = "up" /\ flusher' = NoFlush
               \/ /\ mode' = "opening" /\ flusher' # NoFlush
                  /\ flusher'.step \in {"rename", "clear"} /\ flusher'.kind = "open"
  BY Opening DEF Found
<1>2. /\ Found' = Found /\ ackFile' = ackFile /\ seen' = seen /\ Writing' = {}
  BY <1>1 DEF disk, Found, Writing
<1>3. /\ acked' \subseteq ackFile
      /\ ~FlushAt({"acks"})' /\ ~FlushAt({"settle"})' /\ ~MarkingAt({"rename"})'
      /\ ~MarkingAt({"settle", "clear"})' /\ (Flushing' => flusher'.kind # "ack")
      /\ Alive' => entries' = Without(Found, ackFile) /\ acked' = ackFile
  <2>1. CASE mode' = "refused" /\ UNCHANGED <<memory, flusher>>
    <3>1. acked = {}
      BY <1>1 DEF FileInv, Alone
    <3>2. QED BY <1>1, <2>1, <3>1 DEF Alive, memory, FlushAt, MarkingAt, Flushing
  <2>2. CASE /\ entries' = Without(Found, ackFile) /\ acked' = ackFile
             /\ mode' = "up" /\ flusher' = NoFlush
    BY <2>2 DEF Alive, FlushAt, MarkingAt, Flushing
  <2>3. CASE /\ entries' = Without(Found, ackFile) /\ acked' = ackFile
             /\ mode' = "opening" /\ flusher' # NoFlush
             /\ flusher'.step \in {"rename", "clear"} /\ flusher'.kind = "open"
    BY <2>3 DEF Alive, FlushAt, MarkingAt, Flushing
  <2>4. QED BY <1>1, <2>1, <2>2, <2>3
<1>4. MemoryFollows'
  BY <1>2, <1>3 DEF MemoryFollows
<1>5. WritesNew'
  BY <1>2 DEF WritesNew
<1>6. ToldIsKept'
  BY <1>2, <1>3 DEF QueueInv, ToldIsKept
<1>7. SettledIsAcked'
  BY <1>2, <1>3 DEF QueueInv, SettledIsAcked
<1>8. MarkedIsDead'
  BY <1>2, <1>3 DEF QueueInv, MarkedIsDead
<1>9. QED BY <1>4, <1>5, <1>6, <1>7, <1>8 DEF QueueInv

LEMMA QueueCrashes ==
  ASSUME FileInv, QueueInv, Crash
  PROVE  QueueInv'
<1>1. /\ ~Alive' /\ Found' = Found /\ ackFile' = ackFile
      /\ Writing' = {} /\ ~Flushing' /\ acked' = {}
      /\ seen \in SeenRow(seen.born) /\ seen' = [seen EXCEPT !.crashes = @ + 1]
  BY Crashes DEF Found, Crash
<1>2. /\ seen'.told = seen.told /\ seen'.given = seen.given
      /\ seen'.settled = seen.settled /\ seen'.marked = seen.marked
  BY <1>1 DEF SeenRow
<1>3. MemoryFollows'
  BY <1>1 DEF MemoryFollows, FlushAt, MarkingAt
<1>4. WritesNew'
  BY <1>1 DEF WritesNew
<1>5. ToldIsKept'
  BY <1>1, <1>2 DEF QueueInv, ToldIsKept
<1>6. SettledIsAcked'
  BY <1>1, <1>2 DEF QueueInv, SettledIsAcked, FlushAt
<1>7. MarkedIsDead'
  BY <1>1, <1>2 DEF QueueInv, MarkedIsDead, MarkingAt
<1>8. QED BY <1>3, <1>4, <1>5, <1>6, <1>7 DEF QueueInv

-----------------------------------------------------------------------------
(* The sequences: what a restart would find of the numbers given.          *)

LEMMA InitSequences == Init => SequencesInv
<1> SUFFICES ASSUME Init PROVE SequencesInv
  OBVIOUS
<1>1. /\ ~Alive /\ ackFile = {} /\ seen.crashes = 0
      /\ \A j \in Jobs : seen.top[j] = 0 /\ seqFile[j] = 0
  BY DEF Init, Alive
<1>2. QED BY <1>1 DEF SequencesInv, DiskRemembers

\* A step that leaves the files, the sequences and the numbers told as they are.
LEMMA SequencesKept ==
  ASSUME SequencesInv, Found' = Found, sequences' = sequences, seqFile' = seqFile,
         seen'.crashes = seen.crashes, seen'.top = seen.top,
         Alive' => Alive,
         \A i \in DOMAIN Found : CountingOf(Found[i]) => \E j \in Writing' :
             writer'[j].step = "count" /\ writer'[j].entry = Found[i],
         ~FlushAt({"acks", "sequences"})' =>
           /\ ~FlushAt({"acks", "sequences"})
           /\ \A i \in DOMAIN Found : Found[i].id \in ackFile' => Found[i].id \in ackFile,
         ~Alive' => ~Alive
  PROVE  SequencesInv'
<1>1. (Alive /\ seen.crashes <= 1 => \A j \in Jobs : seen.top[j] <= sequences[j])'
  BY DEF SequencesInv
<1>2. (Alive => \A i \in DOMAIN Found :
         Found[i].seq <= sequences[Found[i].job] \/ CountingOf(Found[i]))'
  BY DEF SequencesInv, CountingOf
<1>3. (seen.crashes = 0 \/ (seen.crashes = 1 /\ ~Alive) => DiskRemembers)'
  BY DEF SequencesInv, DiskRemembers
<1>4. (seen.crashes = 0 /\ ~FlushAt({"acks", "sequences"}) =>
         \A i \in DOMAIN Found : Found[i].id \in ackFile => Found[i].seq <= seqFile[Found[i].job])'
  BY DEF SequencesInv
<1>5. QED BY <1>1, <1>2, <1>3, <1>4 DEF SequencesInv

LEMMA SequencesWait ==
  ASSUME FileInv, ~Overlap, QueueInv, SequencesInv, NEW j \in Jobs,
         Prepares(j) \/ AppendFails(j) \/ Enqueue(j)
  PROVE  SequencesInv'
<1>1. CASE Prepares(j) \/ AppendFails(j)
  <2>1. /\ writer[j] # NoWrite /\ writer[j].step # "count" /\ Found' = Found
        /\ UNCHANGED <<mode, memory, flusher, ackFile, seqFile, seen>>
    <3>1. CASE Prepares(j)
      BY <3>1, WriterPrepares DEF Found
    <3>2. CASE AppendFails(j)
      BY <3>2, WriterFails DEF Found
    <3>3. QED BY <1>1, <3>1, <3>2
  <2>2. Writing = {j} /\ ~Flushing /\ Alive
    BY <2>1, WriterAlone
  <2>3. ~Flushing' /\ Alive' /\ sequences' = sequences /\ seqFile' = seqFile /\ ackFile' = ackFile
        /\ seen' = seen
    BY <2>1, <2>2 DEF memory, Flushing, Alive
  <2>4. \A e : ~CountingOf(e)
    BY <2>1, <2>2 DEF CountingOf
  <2>5. ~FlushAt({"acks", "sequences"}) /\ ~FlushAt({"acks", "sequences"})'
    BY <2>2, <2>3 DEF FlushAt
  <2>6. QED BY <2>1, <2>2, <2>3, <2>4, <2>5, SequencesKept
<1>2. CASE Enqueue(j)
  <2>1. /\ UNCHANGED <<mode, memory, flusher, disk>> /\ seen' = [seen EXCEPT !.born = @ + 1]
        /\ mode = "up" /\ Writing = {} /\ ~Flushing
    BY <1>2, WriterBegins
  <2>2. seen'.crashes = seen.crashes /\ seen'.top = seen.top
    BY <2>1, FoundTyped DEF SeenRow
  <2>3. /\ ~Flushing' /\ Alive /\ Alive' /\ sequences' = sequences /\ seqFile' = seqFile
        /\ ackFile' = ackFile /\ Found' = Found
    BY <2>1 DEF memory, disk, Flushing, Alive, Found
  <2>4. \A e : ~CountingOf(e)
    BY <2>1 DEF CountingOf
  <2>5. ~FlushAt({"acks", "sequences"}) /\ ~FlushAt({"acks", "sequences"})'
    BY <2>1, <2>3 DEF FlushAt
  <2>6. QED BY <2>2, <2>3, <2>4, <2>5, SequencesKept
<1>3. QED BY <1>1, <1>2

LEMMA SequencesAppend ==
  ASSUME FileInv, QueueInv, SequencesInv, NEW j \in Jobs, AppendDurably(j)
  PROVE  SequencesInv'
<1> DEFINE e == writer[j].entry
<1>1. /\ Found' = Append(Found, e) /\ ackFile' = ackFile /\ e.id \notin ackFile
      /\ e \in Made(seen.born)
      /\ j \in Writing' /\ writer'[j].step = "count" /\ writer'[j].entry = e
      /\ \A f : ~CountingOf(f)
  BY QueueAppends
<1>2. /\ writer[j] # NoWrite /\ UNCHANGED <<mode, memory, flusher, ackFile, seqFile, seen>>
  BY WriterAppends
<1>3. Alive /\ ~Flushing
  BY <1>2, WriterAlone
<1> HIDE DEF e
<1>4. ~Flushing' /\ Alive' /\ sequences' = sequences /\ seqFile' = seqFile /\ seen' = seen
  BY <1>2, <1>3 DEF memory, Flushing, Alive
<1>5. /\ DOMAIN Found \subseteq DOMAIN Found' /\ \A i \in DOMAIN Found : Found'[i] = Found[i]
      /\ \A i \in DOMAIN Found' : i \in DOMAIN Found \/ Found'[i] = e
  BY <1>1, FoundTyped, IdsAppended
<1>6. (Alive /\ seen.crashes <= 1 => \A k \in Jobs : seen.top[k] <= sequences[k])'
  BY <1>3, <1>4 DEF SequencesInv
<1>7. (Alive => \A i \in DOMAIN Found :
         Found[i].seq <= sequences[Found[i].job] \/ CountingOf(Found[i]))'
  <2> SUFFICES ASSUME NEW i \in DOMAIN Found'
               PROVE  \/ Found'[i].seq <= sequences[Found'[i].job]
                      \/ \E k \in Writing' : writer'[k].step = "count" /\ writer'[k].entry = Found'[i]
    BY <1>4 DEF CountingOf
  <2>1. CASE i \in DOMAIN Found
    BY <1>1, <1>3, <1>5, <2>1 DEF SequencesInv
  <2>2. CASE Found'[i] = e
    BY <1>1, <2>2
  <2>3. QED BY <1>5, <2>1, <2>2
<1>8. (seen.crashes = 0 \/ (seen.crashes = 1 /\ ~Alive) => DiskRemembers)'
  <2> SUFFICES ASSUME seen.crashes = 0, NEW k \in Jobs
               PROVE  \/ seen.top[k] <= seqFile[k]
                      \/ \E i \in DOMAIN Found' : Found'[i].job = k /\ seen.top[k] <= Found'[i].seq
    BY <1>4 DEF DiskRemembers
  <2>1. \/ seen.top[k] <= seqFile[k]
        \/ \E i \in DOMAIN Found : Found[i].job = k /\ seen.top[k] <= Found[i].seq
    BY DEF SequencesInv, DiskRemembers
  <2>2. QED BY <1>5, <2>1
<1>9. (seen.crashes = 0 /\ ~FlushAt({"acks", "sequences"}) =>
         \A i \in DOMAIN Found : Found[i].id \in ackFile => Found[i].seq <= seqFile[Found[i].job])'
  <2> SUFFICES ASSUME seen.crashes = 0, NEW i \in DOMAIN Found', Found'[i].id \in ackFile
               PROVE  Found'[i].seq <= seqFile[Found'[i].job]
    BY <1>1, <1>4
  <2>1. ~FlushAt({"acks", "sequences"})
    BY <1>3 DEF FlushAt
  <2>2. i \in DOMAIN Found /\ Found'[i] = Found[i]
    BY <1>1, <1>5
  <2>3. QED BY <2>1, <2>2 DEF SequencesInv
<1>10. QED BY <1>6, <1>7, <1>8, <1>9 DEF SequencesInv

LEMMA SequencesCount ==
  ASSUME FileInv, QueueInv, SequencesInv, NEW j \in Jobs, Count(j)
  PROVE  SequencesInv'
<1> DEFINE b == seen.born
           e == writer[j].entry
<1>1. /\ UNCHANGED <<mode, acked, flusher, disk>>
      /\ writer[j] # NoWrite /\ writer[j].step = "count" /\ e \in Made(b) /\ e.job = j
      /\ sequences' = [sequences EXCEPT ![j] = Highest({@, e.seq})]
      /\ seen' = [seen EXCEPT !.told = @ \cup {e.id}, !.top[j] = Highest({@, e.seq})]
  BY WriterCounts
<1>2. Writing = {j} /\ Alive /\ ~Flushing
  BY <1>1, WriterAlone
<1>3. PICK n \in DOMAIN Found : Found[n] = e
  BY QueueCounts
<1>4. \A f : CountingOf(f) => f = e
  BY <1>2 DEF CountingOf
<1> HIDE DEF e
<1>5. /\ b \in Nat /\ seen \in SeenRow(b) /\ sequences \in [Jobs -> 0..b]
      /\ seqFile \in [Jobs -> 0..b] /\ \A i \in DOMAIN Found : Found[i] \in Made(b)
  BY FoundTyped
<1>6. /\ seen'.crashes = seen.crashes /\ seen.top \in [Jobs -> 0..b]
      /\ seen'.top = [seen.top EXCEPT ![j] = Highest({@, e.seq})]
      /\ seen.crashes \in Nat
  BY <1>1, <1>5 DEF SeenRow
<1>7. e.seq \in 0..b /\ \A i \in DOMAIN Found : Found[i].seq \in 0..b /\ Found[i].job \in Jobs
  BY <1>1, <1>5, MadeFields
<1>8. /\ Found' = Found /\ ackFile' = ackFile /\ seqFile' = seqFile /\ Alive' /\ ~Flushing'
      /\ ~FlushAt({"acks", "sequences"})
  BY <1>1, <1>2 DEF disk, Alive, Flushing, Found, FlushAt
<1> DEFINE q == Highest({sequences[j], e.seq})
           t == Highest({seen.top[j], e.seq})
<1>9. /\ q \in 0..b /\ sequences[j] <= q /\ e.seq <= q
      /\ t \in 0..b /\ (t = seen.top[j] \/ t = e.seq)
  <2>1. sequences[j] \in 0..b /\ seen.top[j] \in 0..b
    BY <1>5, <1>6
  <2>2. QED BY <1>5, <1>7, <2>1, HighestOfTwo
<1> HIDE DEF q, t
<1>10. /\ sequences'[j] = q /\ seen'.top[j] = t
       /\ \A k \in Jobs \ {j} : sequences'[k] = sequences[k] /\ seen'.top[k] = seen.top[k]
  BY <1>1, <1>5, <1>6 DEF q, t
<1>11. \A k \in Jobs : sequences[k] <= sequences'[k]
  BY <1>5, <1>9, <1>10
<1>12. (Alive /\ seen.crashes <= 1 => \A k \in Jobs : seen.top[k] <= sequences[k])'
  <2> SUFFICES ASSUME seen.crashes <= 1, NEW k \in Jobs PROVE seen'.top[k] <= sequences'[k]
    BY <1>6
  <2>1. seen.top[k] <= sequences[k] /\ seen.top[k] \in 0..b /\ sequences[k] \in 0..b
    BY <1>2, <1>5, <1>6 DEF SequencesInv
  <2>2. CASE k = j
    BY <1>7, <1>9, <1>10, <2>1, <2>2
  <2>3. CASE k # j
    BY <1>10, <2>1, <2>3
  <2>4. QED BY <2>2, <2>3
<1>13. (Alive => \A i \in DOMAIN Found :
          Found[i].seq <= sequences[Found[i].job] \/ CountingOf(Found[i]))'
  <2> SUFFICES ASSUME NEW i \in DOMAIN Found PROVE Found[i].seq <= sequences'[Found[i].job]
    BY <1>8
  <2>1. CASE Found[i].seq <= sequences[Found[i].job]
    <3>1. /\ sequences[Found[i].job] <= sequences'[Found[i].job]
          /\ Found[i].seq \in Nat /\ sequences[Found[i].job] \in Nat
          /\ sequences'[Found[i].job] \in Nat
      BY <1>5, <1>7, <1>9, <1>10, <1>11
    <3>2. QED BY <2>1, <3>1
  <2>2. CASE CountingOf(Found[i])
    <3>1. Found[i] = e
      BY <1>4, <2>2
    <3>2. QED BY <1>1, <1>9, <1>10, <3>1
  <2>3. QED BY <1>2, <2>1, <2>2 DEF SequencesInv
<1>14. (seen.crashes = 0 \/ (seen.crashes = 1 /\ ~Alive) => DiskRemembers)'
  <2> SUFFICES ASSUME seen.crashes = 0, NEW k \in Jobs
               PROVE  \/ seen'.top[k] <= seqFile[k]
                      \/ \E i \in DOMAIN Found : Found[i].job = k /\ seen'.top[k] <= Found[i].seq
    BY <1>6, <1>8 DEF DiskRemembers
  <2>1. \/ seen.top[k] <= seqFile[k]
        \/ \E i \in DOMAIN Found : Found[i].job = k /\ seen.top[k] <= Found[i].seq
    BY DEF SequencesInv, DiskRemembers
  <2>2. CASE seen'.top[k] = seen.top[k]
    BY <2>1, <2>2
  <2>3. CASE seen'.top[k] # seen.top[k]
    <3>1. k = j /\ seen'.top[k] = e.seq
      BY <1>9, <1>10, <2>3
    <3>2. e.seq <= e.seq
      BY <1>7
    <3>3. Found[n].job = k /\ seen'.top[k] <= Found[n].seq
      BY <1>1, <1>3, <3>1, <3>2
    <3>4. QED BY <3>3
  <2>4. QED BY <2>2, <2>3
<1>15. (seen.crashes = 0 /\ ~FlushAt({"acks", "sequences"}) =>
          \A i \in DOMAIN Found : Found[i].id \in ackFile => Found[i].seq <= seqFile[Found[i].job])'
  BY <1>6, <1>8 DEF SequencesInv
<1>16. QED BY <1>12, <1>13, <1>14, <1>15 DEF SequencesInv

\* A step of the flush loop after which the numbers known are the same.
LEMMA SequencesFlush ==
  ASSUME FileInv, ~Overlap, QueueInv, SequencesInv,
         \/ Ack \/ DeadLetter \/ PersistAcknowledgements \/ CompactOrReturn \/ Settle \/ Clear
  PROVE  SequencesInv'
<1> DEFINE Numbered == {"acks", "sequences"}
<1>1. SUFFICES /\ Found' = Found /\ sequences' = sequences /\ seqFile' = seqFile
               /\ seen'.crashes = seen.crashes /\ seen'.top = seen.top
               /\ Alive /\ Alive' /\ Writing = {}
               /\ \/ FlushAt(Numbered)'
                  \/ /\ ~FlushAt(Numbered)
                     /\ \A i \in DOMAIN Found : Found[i].id \in ackFile' => Found[i].id \in ackFile
  BY SequencesKept DEF CountingOf
<1>2. seen \in SeenRow(seen.born) /\ seen.born \in Nat
  BY FoundTyped
<1>3. CASE Ack
  <2>1. /\ mode = "up" /\ Writing = {} /\ UNCHANGED <<mode, sequences, committed, writer, disk>>
        /\ \E ids : /\ flusher' = [step |-> "acks", kind |-> "ack", ids |-> ids]
                    /\ seen' = [seen EXCEPT !.given = @ \cup ids]
    BY <1>3, Acks
  <2>2. seen'.crashes = seen.crashes /\ seen'.top = seen.top
    BY <1>2, <2>1 DEF SeenRow
  <2>3. FlushAt(Numbered)'
    BY <2>1 DEF FlushAt, Flushing, NoFlush
  <2>4. QED BY <2>1, <2>2, <2>3 DEF Alive, disk, Found
<1>4. CASE DeadLetter
  <2>1. /\ mode = "up" /\ Writing = {} /\ ~Flushing
        /\ UNCHANGED <<mode, acked, sequences, committed, writer, disk, seen>>
    BY <1>4, DeadLetters
  <2>2. QED BY <2>1 DEF Alive, disk, Found, FlushAt
<1>5. CASE PersistAcknowledgements
  <2>1. /\ Flushing /\ flusher' # NoFlush /\ flusher'.step = "sequences" /\ seqFile' = seqFile
        /\ UNCHANGED <<mode, memory, writer, file, seen>>
    <3>1. flusher.step = "acks"
      BY <1>5 DEF PersistAcknowledgements
    <3>2. QED BY <1>5, <3>1, Persists
  <2>2. Writing = {} /\ Alive
    BY <2>1, FlusherAlone
  <2>3. FlushAt(Numbered)'
    BY <2>1 DEF FlushAt, Flushing
  <2>4. QED BY <2>1, <2>2, <2>3 DEF Alive, memory, Found
<1>6. CASE CompactOrReturn
  <2>1. /\ FileInv' /\ Flushing /\ flusher.step = "decide" /\ UNCHANGED <<memory, writer, disk>>
        /\ flusher.ids \in SUBSET (0..seen.born)
        /\ UNCHANGED <<mode, seen>> \/ Returned("ack", flusher.ids)
    BY <1>6, Decides
  <2>2. Writing = {} /\ Alive
    BY <2>1, FlusherAlone
  <2>3. Alive' /\ seen'.crashes = seen.crashes /\ seen'.top = seen.top
    BY <1>2, <2>1, <2>2, SeenReturned DEF Alive
  <2>4. QED BY <2>1, <2>2, <2>3 DEF memory, disk, Found, FlushAt
<1>7. CASE Settle
  <2>1. /\ Flushing /\ flusher.step = "settle"
        /\ UNCHANGED <<mode, entries, sequences, writer, disk, seen>>
    BY <1>7, Settles
  <2>2. Writing = {} /\ Alive
    BY <2>1, FlusherAlone
  <2>3. QED BY <2>1, <2>2 DEF Alive, disk, Found, FlushAt
<1>8. CASE Clear
  <2>1. /\ Flushing /\ flusher.step = "clear" /\ ackFile' = acked
        /\ Returned(flusher.kind, flusher.ids) /\ UNCHANGED <<memory, writer, file, seqFile>>
    BY <1>8, Clears
  <2>2. Writing = {} /\ Alive
    BY <2>1, FlusherAlone
  <2>3. Alive' /\ seen'.crashes = seen.crashes /\ seen'.top = seen.top
    BY <1>2, <2>1 DEF Alive, Returned, SeenRow
  <2>4. \A i \in DOMAIN Found : Found[i].id \in acked <=> Found[i].id \in ackFile
    BY <1>8, QueueClears
  <2>5. QED BY <2>1, <2>2, <2>3, <2>4 DEF memory, Found, FlushAt
<1>9. QED BY <1>3, <1>4, <1>5, <1>6, <1>7, <1>8

LEMMA SequencesPersist ==
  ASSUME FileInv, QueueInv, SequencesInv, PersistSequences
  PROVE  SequencesInv'
<1>1. /\ Flushing /\ seqFile' = sequences /\ ackFile' = ackFile
      /\ UNCHANGED <<mode, memory, writer, file, seen>>
  <2>1. flusher.step = "sequences"
    BY DEF PersistSequences
  <2>2. QED BY <2>1, Persists
<1>2. Writing = {} /\ Alive
  BY <1>1, FlusherAlone
<1>3. Found' = Found /\ sequences' = sequences /\ seen' = seen /\ Alive'
  BY <1>1, <1>2 DEF memory, Found, Alive
<1>4. \A i \in DOMAIN Found : Found[i].seq <= sequences[Found[i].job]
  BY <1>2 DEF SequencesInv, CountingOf
<1>5. (Alive /\ seen.crashes <= 1 => \A k \in Jobs : seen.top[k] <= sequences[k])'
  BY <1>2, <1>3 DEF SequencesInv
<1>6. (Alive => \A i \in DOMAIN Found :
         Found[i].seq <= sequences[Found[i].job] \/ CountingOf(Found[i]))'
  BY <1>3, <1>4
<1>7. (seen.crashes = 0 \/ (seen.crashes = 1 /\ ~Alive) => DiskRemembers)'
  BY <1>1, <1>2, <1>3 DEF SequencesInv, DiskRemembers
<1>8. (seen.crashes = 0 /\ ~FlushAt({"acks", "sequences"}) =>
         \A i \in DOMAIN Found : Found[i].id \in ackFile => Found[i].seq <= seqFile[Found[i].job])'
  BY <1>1, <1>3, <1>4
<1>9. QED BY <1>5, <1>6, <1>7, <1>8 DEF SequencesInv

\* A compaction drops acknowledged entries only, and their numbers are on disk already.
LEMMA SequencesRename ==
  ASSUME FileInv, QueueInv, SequencesInv, Rename
  PROVE  SequencesInv'
<1> DEFINE b == seen.born
           kept == Without(Found, acked)
<1>1. /\ IdsOf(Found') \cap ackFile' = {} /\ ackFile' = ackFile /\ Writing' = {}
      /\ \A i \in DOMAIN Found : Found[i].id \in acked <=> Found[i].id \in ackFile
      /\ Found' = kept \/ Found' = Marked(kept, flusher.ids)
  BY QueueRenames
<1>2. /\ FileInv' /\ Flushing /\ flusher.step = "rename"
      /\ UNCHANGED <<mode, memory, ackFile, seqFile, seen>>
  BY Renames
<1>3. Writing = {} /\ Alive
  BY <1>2, FlusherAlone
<1>4. /\ sequences' = sequences /\ seqFile' = seqFile /\ seen' = seen /\ Alive'
      /\ ~FlushAt({"acks", "sequences"})
  BY <1>2, <1>3 DEF memory, Alive, FlushAt
<1>5. b \in Nat /\ Found \in Seq(Made(b))
  BY FoundTyped
<1>6. /\ kept \in Seq(Made(b))
      /\ \A n \in DOMAIN kept : \E k \in DOMAIN Found : kept[n] = Found[k]
      /\ \A k \in DOMAIN Found : Found[k].id \notin acked => \E n \in DOMAIN kept : kept[n] = Found[k]
  <2>1. /\ kept \in Seq(Made(b))
        /\ \A n \in DOMAIN kept : \E k \in DOMAIN Found : kept[n] = Found[k] /\ Found[k].id \notin acked
        /\ \A k \in DOMAIN Found : Found[k].id \notin acked => \E n \in DOMAIN kept : kept[n] = Found[k]
    BY <1>5, WithoutElements
  <2> HIDE DEF kept
  <2>2. QED BY <2>1
<1> HIDE DEF kept
<1>7. /\ DOMAIN Found' = DOMAIN kept
      /\ \A i \in DOMAIN kept : Found'[i].job = kept[i].job /\ Found'[i].seq = kept[i].seq
  <2>1. CASE Found' = kept
    BY <2>1
  <2>2. CASE Found' = Marked(kept, flusher.ids)
    BY <1>5, <1>6, <2>2, MarkedElements
  <2>3. QED BY <1>1, <2>1, <2>2
<1>8. (Alive /\ seen.crashes <= 1 => \A k \in Jobs : seen.top[k] <= sequences[k])'
  BY <1>3, <1>4 DEF SequencesInv
<1>9. (Alive => \A i \in DOMAIN Found :
         Found[i].seq <= sequences[Found[i].job] \/ CountingOf(Found[i]))'
  <2>1. \A i \in DOMAIN Found : Found[i].seq <= sequences[Found[i].job]
    BY <1>3 DEF SequencesInv, CountingOf
  <2>2. \A i \in DOMAIN Found' : Found'[i].seq <= sequences[Found'[i].job]
    BY <1>6, <1>7, <2>1
  <2>3. QED BY <1>4, <2>2
<1>10. (seen.crashes = 0 \/ (seen.crashes = 1 /\ ~Alive) => DiskRemembers)'
  <2> SUFFICES ASSUME seen.crashes = 0, NEW k \in Jobs
               PROVE  \/ seen.top[k] <= seqFile[k]
                      \/ \E i \in DOMAIN Found' : Found'[i].job = k /\ seen.top[k] <= Found'[i].seq
    BY <1>4 DEF DiskRemembers
  <2>1. CASE seen.top[k] <= seqFile[k]
    BY <2>1
  <2>2. CASE \E i \in DOMAIN Found : Found[i].job = k /\ seen.top[k] <= Found[i].seq
    <3>1. PICK i \in DOMAIN Found : Found[i].job = k /\ seen.top[k] <= Found[i].seq
      BY <2>2
    <3>2. CASE Found[i].id \in acked
      <4>1. Found[i].seq <= seqFile[k]
        BY <1>1, <1>4, <3>1, <3>2 DEF SequencesInv
      <4>2. seen.top[k] \in Nat /\ Found[i].seq \in Nat /\ seqFile[k] \in Nat
        <5>1. seen.top[k] \in Nat
          BY FoundTyped DEF SeenRow
        <5>2. Found[i] \in Made(b) /\ seqFile[k] \in 0..b
          BY FoundTyped
        <5>3. QED BY <1>5, <5>1, <5>2, MadeFields
      <4>3. QED BY <3>1, <4>1, <4>2
    <3>3. CASE Found[i].id \notin acked
      <4>1. PICK n \in DOMAIN kept : kept[n] = Found[i]
        BY <1>6, <3>3
      <4>2. n \in DOMAIN Found' /\ Found'[n].job = k /\ seen.top[k] <= Found'[n].seq
        BY <1>7, <3>1, <4>1
      <4>3. QED BY <4>2
    <3>4. QED BY <3>2, <3>3
  <2>3. QED BY <2>1, <2>2 DEF SequencesInv, DiskRemembers
<1>11. (seen.crashes = 0 /\ ~FlushAt({"acks", "sequences"}) =>
          \A i \in DOMAIN Found : Found[i].id \in ackFile => Found[i].seq <= seqFile[Found[i].job])'
  BY <1>1 DEF IdsOf
<1>12. QED BY <1>8, <1>9, <1>10, <1>11 DEF SequencesInv

LEMMA SequencesOpen ==
  ASSUME FileInv, SequencesInv, NEW tornTail, Open(tornTail)
  PROVE  SequencesInv'
<1> DEFINE b == seen.born
<1>1. /\ ~Alive /\ Writing = {} /\ ~Flushing /\ UNCHANGED <<writer, disk, seen>>
      /\ \/ mode' = "refused" /\ UNCHANGED <<memory, flusher>>
         \/ /\ sequences' = [j \in Jobs |-> Highest({seqFile[j], HighestSequence(Found, j)})]
            /\ \/ mode' = "up" /\ flusher' = NoFlush
               \/ /\ mode' = "opening" /\ flusher' # NoFlush
                  /\ flusher'.step \in {"rename", "clear"}
  BY Opening DEF Found
<1>2. Found' = Found /\ ackFile' = ackFile /\ seqFile' = seqFile /\ seen' = seen
  BY <1>1 DEF disk, Found
<1>3. ~FlushAt({"acks", "sequences"})
  BY <1>1 DEF FlushAt
<1>4. /\ b \in Nat /\ seen \in SeenRow(b) /\ Found \in Seq(Made(b)) /\ seqFile \in [Jobs -> 0..b]
      /\ \A i \in DOMAIN Found : Found[i] \in Made(b)
  BY FoundTyped
<1>5. seen.top \in [Jobs -> 0..b] /\ seen.crashes \in Nat
  BY <1>4 DEF SeenRow
<1>6. Alive' => \A j \in Jobs :
         /\ sequences'[j] \in 0..b /\ seqFile[j] <= sequences'[j]
         /\ HighestSequence(Found, j) \in 0..b /\ HighestSequence(Found, j) <= sequences'[j]
         /\ \A i \in DOMAIN Found : Found[i].job = j => Found[i].seq <= HighestSequence(Found, j)
  <2> SUFFICES ASSUME Alive', NEW j \in Jobs
               PROVE  /\ sequences'[j] \in 0..b /\ seqFile[j] <= sequences'[j]
                      /\ HighestSequence(Found, j) \in 0..b
                      /\ HighestSequence(Found, j) <= sequences'[j]
                      /\ \A i \in DOMAIN Found :
                           Found[i].job = j => Found[i].seq <= HighestSequence(Found, j)
    OBVIOUS
  <2>1. mode' # "refused"
    BY DEF Alive
  <2>2. sequences'[j] = Highest({seqFile[j], HighestSequence(Found, j)})
    BY <1>1, <2>1
  <2>3. /\ HighestSequence(Found, j) \in 0..b
        /\ \A i \in DOMAIN Found : Found[i].job = j => Found[i].seq <= HighestSequence(Found, j)
    BY <1>4, HighestOfSome
  <2>4. seqFile[j] \in 0..b
    BY <1>4
  <2>5. QED BY <1>4, <2>2, <2>3, <2>4, HighestOfTwo
<1>7. \A i \in DOMAIN Found : Found[i].job \in Jobs /\ Found[i].seq \in 0..b
  BY <1>4, MadeFields
<1>8. (Alive /\ seen.crashes <= 1 => \A j \in Jobs : seen.top[j] <= sequences[j])'
  <2> SUFFICES ASSUME Alive', seen.crashes <= 1, NEW j \in Jobs
               PROVE  seen.top[j] <= sequences'[j]
    BY <1>2
  <2>1. \/ seen.top[j] <= seqFile[j]
        \/ \E i \in DOMAIN Found : Found[i].job = j /\ seen.top[j] <= Found[i].seq
    <3>1. seen.crashes = 0 \/ seen.crashes = 1
      BY <1>5
    <3>2. QED BY <1>1, <3>1 DEF SequencesInv, DiskRemembers
  <2>2. /\ sequences'[j] \in 0..b /\ seqFile[j] \in 0..b /\ seen.top[j] \in 0..b
        /\ HighestSequence(Found, j) \in 0..b
    BY <1>4, <1>5, <1>6
  <2>3. CASE seen.top[j] <= seqFile[j]
    BY <1>6, <2>2, <2>3
  <2>4. CASE \E i \in DOMAIN Found : Found[i].job = j /\ seen.top[j] <= Found[i].seq
    <3>1. PICK i \in DOMAIN Found : Found[i].job = j /\ seen.top[j] <= Found[i].seq
      BY <2>4
    <3>2. Found[i].seq <= HighestSequence(Found, j) /\ Found[i].seq \in 0..b
      BY <1>6, <1>7, <3>1
    <3>3. HighestSequence(Found, j) <= sequences'[j]
      BY <1>6
    <3>4. QED BY <2>2, <3>1, <3>2, <3>3
  <2>5. QED BY <2>1, <2>3, <2>4
<1>9. (Alive => \A i \in DOMAIN Found :
         Found[i].seq <= sequences[Found[i].job] \/ CountingOf(Found[i]))'
  <2> SUFFICES ASSUME Alive', NEW i \in DOMAIN Found
               PROVE  Found[i].seq <= sequences'[Found[i].job]
    BY <1>2
  <2>1. /\ Found[i].job \in Jobs /\ Found[i].seq \in 0..b
        /\ Found[i].seq <= HighestSequence(Found, Found[i].job)
        /\ HighestSequence(Found, Found[i].job) <= sequences'[Found[i].job]
        /\ HighestSequence(Found, Found[i].job) \in 0..b
        /\ sequences'[Found[i].job] \in 0..b
    BY <1>6, <1>7
  <2>2. QED BY <2>1
<1>10. (seen.crashes = 0 \/ (seen.crashes = 1 /\ ~Alive) => DiskRemembers)'
  BY <1>1, <1>2 DEF SequencesInv, DiskRemembers
<1>11. (seen.crashes = 0 /\ ~FlushAt({"acks", "sequences"}) =>
          \A i \in DOMAIN Found : Found[i].id \in ackFile => Found[i].seq <= seqFile[Found[i].job])'
  BY <1>2, <1>3 DEF SequencesInv
<1>12. QED BY <1>8, <1>9, <1>10, <1>11 DEF SequencesInv

LEMMA SequencesCrash ==
  ASSUME FileInv, SequencesInv, Crash
  PROVE  SequencesInv'
<1>1. /\ Alive /\ ~Alive' /\ Found' = Found /\ seqFile' = seqFile
      /\ seen \in SeenRow(seen.born) /\ seen' = [seen EXCEPT !.crashes = @ + 1]
  BY Crashes DEF Found
<1>2. seen.crashes \in Nat /\ seen'.crashes = seen.crashes + 1 /\ seen'.top = seen.top
  BY <1>1 DEF SeenRow
<1>3. seen'.crashes # 0 /\ (seen'.crashes = 1 => seen.crashes = 0)
  BY <1>2
<1>4. (seen.crashes = 0 \/ (seen.crashes = 1 /\ ~Alive) => DiskRemembers)'
  BY <1>1, <1>2, <1>3 DEF SequencesInv, DiskRemembers
<1>5. QED BY <1>1, <1>3, <1>4 DEF SequencesInv

-----------------------------------------------------------------------------
(* The theorems.                                                           *)

LEMMA StutterKeeps == SpoolInv /\ UNCHANGED vars => SpoolInv'
<1> SUFFICES ASSUME SpoolInv, UNCHANGED vars PROVE SpoolInv'
  OBVIOUS
<1>1. /\ mode' = mode /\ entries' = entries /\ acked' = acked /\ sequences' = sequences
      /\ committed' = committed /\ writer' = writer /\ flusher' = flusher /\ file' = file
      /\ ackFile' = ackFile /\ seqFile' = seqFile /\ seen' = seen
  BY DEF vars, memory, disk
<1>2. Writing' = Writing /\ Flushing' = Flushing /\ Alive' = Alive /\ Found' = Found
  BY <1>1 DEF Writing, Flushing, Alive, Found
<1>3. FileInv'
  <2>1. SpoolTypeOK'
    BY <1>1 DEF SpoolInv, FileInv, SpoolTypeOK
  <2>2. Shaped(file') /\ Alone'
    BY <1>1, <1>2 DEF SpoolInv, FileInv, Alone
  <2>3. LengthsFit'
    BY <1>1, <1>2 DEF SpoolInv, FileInv, LengthsFit
  <2>4. QED BY <2>1, <2>2, <2>3 DEF FileInv
<1>4. QueueInv'
  <2>1. MemoryFollows' /\ WritesNew'
    BY <1>1, <1>2 DEF SpoolInv, QueueInv, MemoryFollows, WritesNew, FlushAt, MarkingAt
  <2>2. ToldIsKept' /\ SettledIsAcked' /\ MarkedIsDead'
    BY <1>1, <1>2 DEF SpoolInv, QueueInv, ToldIsKept, SettledIsAcked, MarkedIsDead, FlushAt, MarkingAt
  <2>3. QED BY <2>1, <2>2 DEF QueueInv
<1>5. SequencesInv'
  BY <1>1, <1>2 DEF SpoolInv, SequencesInv, DiskRemembers, FlushAt, CountingOf
<1>6. QED BY <1>3, <1>4, <1>5 DEF SpoolInv

LEMMA NextKeeps == SpoolInv /\ ~Overlap /\ Next => SpoolInv'
<1> SUFFICES ASSUME SpoolInv, ~Overlap, Next PROVE SpoolInv'
  OBVIOUS
<1>0. FileInv /\ QueueInv /\ SequencesInv
  BY DEF SpoolInv
<1>1. ASSUME NEW j \in Jobs, Enqueue(j) \/ EnqueueStep(j) PROVE SpoolInv'
  <2>1. CASE Prepares(j)
    BY <1>0, <2>1, WriterPrepares, QueueWaits, SequencesWait DEF SpoolInv
  <2>2. CASE AppendFails(j)
    BY <1>0, <2>2, WriterFails, QueueWaits, SequencesWait DEF SpoolInv
  <2>3. CASE Enqueue(j)
    BY <1>0, <2>3, WriterBegins, QueueBegins, SequencesWait DEF SpoolInv
  <2>4. CASE AppendDurably(j)
    BY <1>0, <2>4, WriterAppends, QueueAppends, SequencesAppend DEF SpoolInv
  <2>5. CASE Count(j)
    BY <1>0, <2>5, WriterCounts, QueueCounts, SequencesCount DEF SpoolInv
  <2>6. QED BY <1>1, <2>1, <2>2, <2>3, <2>4, <2>5 DEF EnqueueStep, Prepares
<1>2. CASE Ack
  BY <1>0, <1>2, Acks, QueueAcks, SequencesFlush DEF SpoolInv
<1>3. CASE DeadLetter
  BY <1>0, <1>3, DeadLetters, QueueDeadLetters, SequencesFlush DEF SpoolInv
<1>4. CASE Rename
  BY <1>0, <1>4, Renames, QueueRenames, SequencesRename DEF SpoolInv
<1>5. CASE Settle
  BY <1>0, <1>5, Settles, QueueSettles, SequencesFlush DEF SpoolInv
<1>6. CASE Clear
  BY <1>0, <1>6, Clears, QueueClears, SequencesFlush DEF SpoolInv
<1>7. CASE PersistAcknowledgements
  BY <1>0, <1>7, Persists, QueuePersists, SequencesFlush DEF SpoolInv
<1>8. CASE PersistSequences
  BY <1>0, <1>8, Persists, QueuePersists, SequencesPersist DEF SpoolInv
<1>9. CASE CompactOrReturn
  BY <1>0, <1>9, Decides, QueueDecides, SequencesFlush DEF SpoolInv
<1>10. CASE Crash
  BY <1>0, <1>10, Crashes, QueueCrashes, SequencesCrash DEF SpoolInv
<1>11. ASSUME NEW tornTail \in TornTails, Open(tornTail) PROVE SpoolInv'
  BY <1>0, <1>11, Opening, QueueOpens, SequencesOpen DEF SpoolInv
<1>12. QED BY <1>1, <1>2, <1>3, <1>4, <1>5, <1>6, <1>7, <1>8, <1>9, <1>10, <1>11
           DEF Next, FlushStep

\* Whatever the process was doing when it died, the files stay readable, and they, the memory
\* and what callers were told agree on the queue and on the numbers.
THEOREM SpoolHolds ==
  ASSUME ~Overlap
  PROVE  Spec => []SpoolInv
<1>1. Init => SpoolInv
  BY InitFile, InitQueue, InitSequences DEF SpoolInv
<1>2. SpoolInv /\ [Next]_vars => SpoolInv'
  BY NextKeeps, StutterKeeps
<1>3. QED BY <1>1, <1>2, PTL DEF Spec

\* An entry whose enqueue resolved and that nobody settled is on disk.
THEOREM EnqueuedIsKept ==
  ASSUME ~Overlap
  PROVE  Spec => []NoneLost
<1>1. SpoolInv => NoneLost
  <2> SUFFICES ASSUME SpoolInv PROVE NoneLost
    OBVIOUS
  <2>1. Found \in Seq(Made(seen.born)) /\ Recoverable = Without(Found, ackFile)
    BY FoundTyped DEF SpoolInv, Recoverable, Found, Read
  <2>2. IdsOf(Recoverable) = IdsOf(Found) \ ackFile
    BY <2>1, IdsWithout
  <2>3. QED BY <2>2 DEF SpoolInv, QueueInv, ToldIsKept, NoneLost
<1>2. QED BY <1>1, SpoolHolds, PTL

\* What is in memory was found on disk and is not acknowledged.
LEMMA MemoryIsFound ==
  ASSUME SpoolInv, NEW i \in DOMAIN entries
  PROVE  \E k \in DOMAIN Found : /\ Found[k].id = entries[i].id
                                 /\ Found[k].dead => entries[i].dead
                                 /\ entries[i].id \notin ackFile
<1> DEFINE b == seen.born
           kept == Without(Found, acked)
<1>1. FileInv /\ QueueInv
  BY DEF SpoolInv
<1>2. /\ b \in Nat /\ Found \in Seq(Made(b)) /\ entries \in Seq(Made(b))
      /\ \A k \in DOMAIN Found : Found[k].id \in IdsOf(Found)
  BY <1>1, FoundTyped
<1>3. /\ kept \in Seq(Made(b))
      /\ \A n \in DOMAIN kept : \E k \in DOMAIN Found : kept[n] = Found[k] /\ Found[k].id \notin acked
  BY <1>2, WithoutElements
<1>4. Alive
  <2>1. ~Alive => entries = <<>>
    BY <1>1 DEF FileInv, Alone
  <2>2. QED BY <2>1
<1> HIDE DEF kept
<1>5. CASE FlushAt({"settle"})
  BY <1>1, <1>2, <1>5 DEF QueueInv, MemoryFollows
<1>6. CASE ~FlushAt({"settle"})
  <2>1. \A k \in DOMAIN Found : Found[k].id \in ackFile => Found[k].id \in acked
    BY <1>1, <1>4, <1>6 DEF QueueInv, MemoryFollows, FlushAt
  <2>2. \E n \in DOMAIN kept : kept[n].id = entries[i].id /\ (kept[n].dead => entries[i].dead)
    <3>1. CASE MarkingAt({"rename"})
      <4>1. entries = Marked(kept, flusher.ids)
        BY <1>1, <3>1 DEF QueueInv, MemoryFollows, kept
      <4>2. /\ i \in DOMAIN kept /\ entries[i].id = kept[i].id
            /\ entries[i].dead = (kept[i].dead \/ kept[i].id \in flusher.ids)
        BY <1>2, <1>3, <4>1, MarkedElements
      <4>3. QED BY <4>2
    <3>2. CASE ~MarkingAt({"rename"}) /\ \A j \in Writing : writer[j].step # "count"
      <4>1. entries = kept
        BY <1>1, <1>4, <1>6, <3>2 DEF QueueInv, MemoryFollows, kept
      <4>2. QED BY <4>1
    <3>3. ASSUME NEW j \in Writing, writer[j].step = "count" 
          PROVE  i \in DOMAIN kept /\ kept[i] = entries[i]
      <4>1. kept = Append(entries, writer[j].entry)
        BY <1>1, <3>3 DEF QueueInv, MemoryFollows, kept
      <4>2. writer[j].entry \in Made(b)
        BY <1>1, <1>2, WriterAlone, WriterFields DEF Writing
      <4>3. QED BY <1>2, <4>1, <4>2, IdsAppended
    <3>4. CASE \E j \in Writing : writer[j].step = "count"
      BY <3>3, <3>4
    <3>5. QED BY <3>1, <3>2, <3>4
  <2>3. QED BY <1>3, <2>1, <2>2
<1>7. QED BY <1>5, <1>6

\* What was settled or dead-lettered is never delivered again.
THEOREM SettledStaysSettled ==
  ASSUME ~Overlap
  PROVE  Spec => []NotRedelivered
<1>1. SpoolInv => NotRedelivered
  <2> SUFFICES ASSUME SpoolInv, NEW n \in DOMAIN Deliverable(entries),
                      Deliverable(entries)[n].id \in seen.settled \cup seen.marked
               PROVE  FALSE
    BY DEF NotRedelivered, IdsOf
  <2>1. /\ entries \in Seq(Made(seen.born))
        /\ \A k \in DOMAIN Found : Found[k].id \in IdsOf(Found)
    BY FoundTyped DEF SpoolInv
  <2>2. PICK i \in DOMAIN entries : Deliverable(entries)[n] = entries[i] /\ ~entries[i].dead
    BY <2>1, DeliverableElements
  <2>3. PICK k \in DOMAIN Found : /\ Found[k].id = entries[i].id
                                  /\ Found[k].dead => entries[i].dead
                                  /\ entries[i].id \notin ackFile
    BY MemoryIsFound
  <2>4. entries[i].id \notin seen.settled
    BY <2>1, <2>3 DEF SpoolInv, QueueInv, SettledIsAcked
  <2>5. entries[i].id \notin seen.marked
    BY <2>2, <2>3 DEF SpoolInv, QueueInv, MarkedIsDead
  <2>6. QED BY <2>2, <2>4, <2>5
<1>2. QED BY <1>1, SpoolHolds, PTL

\* The torn-tail guard never cuts off an entry that is in the queue.
THEOREM CuttingIsSafe ==
  ASSUME ~Overlap
  PROVE  Spec => []GuardIsSafe
<1>1. SpoolInv => GuardIsSafe
  <2> SUFFICES ASSUME SpoolInv, mode = "up", Writing = {}, ~Flushing
               PROVE  /\ committed <= Len(file)
                      /\ Without(Entries(SubSeq(file, 1, committed)), acked) = entries
    BY DEF GuardIsSafe
  <2> DEFINE b == seen.born
  <2>1. FileInv /\ QueueInv /\ Alive
    BY DEF SpoolInv, Alive
  <2>2. b \in Nat /\ file \in Seq(Frame(b)) /\ Shaped(file)
    BY <2>1 DEF FileInv, SpoolTypeOK, SeenRow
  <2>3. /\ Whole(file) \in Nat /\ Whole(file) <= Len(file) /\ Len(file) \in Nat
        /\ GoodPrefix(file) = SubSeq(file, 1, Whole(file))
    BY <2>2, GoodIsWhole
  <2>4. Counts(committed, file)
    BY <2>1, Unwritten
  <2>5. Found = Entries(SubSeq(file, 1, committed))
    <3>1. CASE committed = Whole(file)
      BY <2>3, <3>1 DEF Found, Read
    <3>2. CASE committed = 0 /\ Whole(file) <= 1
      <4>1. Len(Found) = 0 /\ Found \in Seq(Made(b))
        <5>1. Found \in Seq(Made(b)) /\ Len(Found) = IF Whole(file) = 0 THEN 0 ELSE Whole(file) - 1
          BY <2>2, Reading DEF Found
        <5>2. QED BY <2>3, <3>2, <5>1
      <4>2. Found = <<>>
        BY <4>1, EmptySeq
      <4>3. SubSeq(file, 1, 0) = <<>> /\ SubSeq(<<>>, 2, 0) = <<>>
        <5>1. SubSeq(file, 1, 0) \in Seq(Frame(b)) /\ Len(SubSeq(file, 1, 0)) = 0
          BY <2>2, SubSeqProperties
        <5>2. <<>> \in Seq(Frame(b))
          OBVIOUS
        <5>3. SubSeq(<<>>, 2, 0) \in Seq(Frame(b)) /\ Len(SubSeq(<<>>, 2, 0)) = 0
          BY <5>2, SubSeqProperties
        <5>4. QED BY <5>1, <5>3, EmptySeq
      <4>4. Entries(SubSeq(file, 1, committed)) = <<>>
        BY <3>2, <4>3 DEF Entries
      <4>5. QED BY <4>2, <4>4
    <3>3. QED BY <2>4, <3>1, <3>2 DEF Counts
  <2>6. entries = Without(Found, acked)
    BY <2>1 DEF QueueInv, MemoryFollows, FlushAt, MarkingAt
  <2>7. committed <= Len(file)
    BY <2>3, <2>4 DEF Counts
  <2>8. QED BY <2>5, <2>6, <2>7
<1>2. QED BY <1>1, SpoolHolds, PTL

\* After one crash at most, an event gets a number that no earlier event of its job was given.
THEOREM NumbersSurvive ==
  ASSUME ~Overlap
  PROVE  Spec => []SequencesSurvive
<1>1. SpoolInv => SequencesSurvive
  <2> SUFFICES ASSUME SpoolInv, mode = "up", seen.crashes <= 1, NEW j \in Jobs
               PROVE  LastSequence(j) >= seen.top[j]
    BY DEF SequencesSurvive
  <2> DEFINE b == seen.born
  <2>1. /\ b \in Nat /\ entries \in Seq(Made(b)) /\ sequences \in [Jobs -> 0..b]
        /\ seen \in SeenRow(b)
    BY FoundTyped DEF SpoolInv
  <2>2. seen.top[j] <= sequences[j] /\ seen.top[j] \in 0..b /\ sequences[j] \in 0..b
    BY <2>1 DEF SpoolInv, SequencesInv, Alive, SeenRow
  <2>3. HighestSequence(entries, j) \in 0..b
    BY <2>1, HighestOfSome
  <2>4. LastSequence(j) \in 0..b /\ sequences[j] <= LastSequence(j)
    BY <2>1, <2>2, <2>3, HighestOfTwo DEF LastSequence
  <2>5. QED BY <2>2, <2>4
<1>2. QED BY <1>1, SpoolHolds, PTL

-----------------------------------------------------------------------------
(* The files implement the abstract queue.                                 *)

LEMMA RecoverableIs == Recoverable = Without(Found, ackFile)
  BY DEF Recoverable, Found, Read

\* What a step makes of the abstract queue: nothing, or one of its actions.
LEMMA QueueStutters ==
  ASSUME Found' = Found, ackFile' = ackFile
  PROVE  [Queue!QNext]_Recoverable
  BY DEF Recoverable, Found, Read

LEMMA QueuePuts ==
  ASSUME NEW b \in Nat, Recoverable \in Seq(Made(b)), NEW e \in Made(b),
         e.id \notin IdsOf(Recoverable), Recoverable' = Append(Recoverable, e)
  PROVE  Queue!QNext
<1> DEFINE q == Recoverable
           r == Recoverable'
<1>1. q \in Seq(Made(b)) /\ r = Append(q, e)
  OBVIOUS
<1> HIDE DEF q, r
<1>2. r # <<>> /\ r[Len(r)] = e
  <2>1. Len(q) \in Nat /\ Len(r) = Len(q) + 1 /\ r[Len(q) + 1] = e
    BY <1>1, AppendProperties
  <2>2. Len(r) # 0
    BY <2>1
  <2>3. r # <<>>
    BY <2>2
  <2>4. QED BY <2>1, <2>3
<1>3. e.id \notin Queue!Ids
  BY DEF Queue!Ids, IdsOf
<1>4. Queue!Put(e)
  BY <1>3 DEF Queue!Put
<1>5. Queue!Put(Recoverable'[Len(Recoverable')])
  BY <1>2, <1>4 DEF r
<1>6. QED BY <1>2, <1>5 DEF Queue!QNext, r

LEMMA QueuePicks ==
  ASSUME NEW s, NEW K
  PROVE  Queue!Picked(s, K) = Picked(s, K)
<1>1. \A S : Queue!Cardinality(S) = Cardinality(S)
  BY DEF Queue!Cardinality, Cardinality
<1>2. \A n : Queue!Nth(K, n) = Nth(K, n)
  BY <1>1 DEF Queue!Nth, Nth
<1>3. QED BY <1>1, <1>2 DEF Queue!Picked, Picked

LEMMA QueueForgets ==
  ASSUME NEW ids, Recoverable' = Without(Recoverable, ids)
  PROVE  Queue!QNext
<1> DEFINE A == ids \cap IdsOf(Recoverable)
<1>1. A \in SUBSET Queue!Ids
  BY DEF Queue!Ids, IdsOf
<1>2. \A i \in DOMAIN Recoverable : Recoverable[i].id \in ids <=> Recoverable[i].id \in A
  BY DEF IdsOf
<1> HIDE DEF A
<1>3. Recoverable' = Without(Recoverable, A)
  <2> DEFINE q == Recoverable
  <2>1. \A i \in DOMAIN q : q[i].id \in ids <=> q[i].id \in A
    BY <1>2
  <2> HIDE DEF q
  <2>2. Without(q, ids) = Without(q, A)
    BY <2>1, WithoutSame
  <2>3. QED BY <2>2 DEF q
<1>4. Queue!Settle(A)
  <2> DEFINE K == {i \in DOMAIN Recoverable : Recoverable[i].id \notin A}
  <2>1. Recoverable' = Picked(Recoverable, K)
    BY <1>3 DEF Without
  <2>2. Queue!Picked(Recoverable, K) = Picked(Recoverable, K)
    BY QueuePicks
  <2>3. Recoverable' = Queue!Picked(Recoverable, K)
    BY <2>1, <2>2
  <2>4. QED BY <2>3 DEF Queue!Settle
<1>5. QED BY <1>1, <1>4 DEF Queue!QNext

LEMMA QueueMarks ==
  ASSUME NEW ids, Recoverable' = Marked(Recoverable, ids)
  PROVE  Queue!QNext
<1> DEFINE A == ids \cap IdsOf(Recoverable)
<1>1. A \in SUBSET Queue!Ids
  BY DEF Queue!Ids, IdsOf
<1>2. \A i \in DOMAIN Recoverable : Recoverable[i].id \in ids <=> Recoverable[i].id \in A
  BY DEF IdsOf
<1> HIDE DEF A
<1>3. Marked(Recoverable, ids) = Marked(Recoverable, A)
  BY <1>2 DEF Marked
<1>4. Queue!MarkDead(A)
  BY <1>3 DEF Queue!MarkDead, Marked
<1>5. QED BY <1>1, <1>4 DEF Queue!QNext

LEMMA QueueAbsorbs ==
  ASSUME NEW S, NEW s \in Seq(S), NEW A, NEW B,
         \A i \in DOMAIN s : s[i].id \in A => s[i].id \in B
  PROVE  Without(Without(s, A), B) = Without(s, B)
<1>1. Without(Without(s, A), B) = Without(s, A \cup B)
  BY WithoutTwice
<1>2. \A i \in DOMAIN s : s[i].id \in A \cup B <=> s[i].id \in B
  OBVIOUS
<1>3. QED BY <1>1, <1>2, WithoutSame

LEMMA StepIsQueue == SpoolInv /\ ~Overlap /\ [Next]_vars => [Queue!QNext]_Recoverable
<1> SUFFICES ASSUME SpoolInv, ~Overlap, [Next]_vars PROVE [Queue!QNext]_Recoverable
  OBVIOUS
<1> DEFINE b == seen.born
<1>1. FileInv /\ QueueInv /\ SequencesInv
  BY DEF SpoolInv
<1>2. b \in Nat /\ Found \in Seq(Made(b))
  BY <1>1, FoundTyped
<1>3. ASSUME NEW j \in Jobs, Enqueue(j) \/ EnqueueStep(j) PROVE [Queue!QNext]_Recoverable
  <2>1. CASE Prepares(j)
    BY <1>1, <2>1, WriterPrepares, QueueStutters DEF Found
  <2>2. CASE AppendFails(j)
    BY <1>1, <2>2, WriterFails, QueueStutters DEF Found
  <2>3. CASE Enqueue(j)
    BY <2>3, QueueStutters DEF Enqueue, disk, Found
  <2>4. CASE Count(j)
    BY <2>4, QueueStutters DEF Count, disk, Found
  <2>5. CASE AppendDurably(j)
    <3> DEFINE e == writer[j].entry
    <3>1. /\ Found' = Append(Found, e) /\ ackFile' = ackFile
          /\ e.id \notin IdsOf(Found) /\ e.id \notin ackFile /\ e \in Made(b)
      BY <1>1, <2>5, QueueAppends
    <3> HIDE DEF e
    <3>2. /\ Recoverable \in Seq(Made(b)) /\ IdsOf(Recoverable) = IdsOf(Found) \ ackFile
      BY <1>2, RecoverableIs, WithoutElements, IdsWithout
    <3>3. Recoverable' = Append(Recoverable, e)
      <4>1. Recoverable' = Without(Found', ackFile')
        BY DEF Recoverable, Found, Read
      <4>2. Without(Append(Found, e), ackFile) = Append(Without(Found, ackFile), e)
        BY <1>2, <3>1, WithoutAppend
      <4>3. QED BY <3>1, <4>1, <4>2, RecoverableIs
    <3>4. QED BY <1>2, <3>1, <3>2, <3>3, QueuePuts
  <2>6. QED BY <1>3, <2>1, <2>2, <2>3, <2>4, <2>5 DEF EnqueueStep, Prepares
<1>4. CASE Ack \/ DeadLetter \/ Settle \/ CompactOrReturn \/ PersistSequences
  BY <1>4, QueueStutters
     DEF Ack, DeadLetter, Settle, CompactOrReturn, PersistSequences, disk, Found
<1>5. CASE PersistAcknowledgements
  <2>1. ackFile' = acked /\ file' = file
    BY <1>5 DEF PersistAcknowledgements
  <2>2. \A i \in DOMAIN Found : Found[i].id \in ackFile => Found[i].id \in acked
    <3>1. FlushAt({"acks"})
      BY <1>5 DEF PersistAcknowledgements, FlushAt, Flushing, NoFlush
    <3>2. QED BY <1>1, <3>1 DEF QueueInv, MemoryFollows
  <2>3. Without(Without(Found, ackFile), acked) = Without(Found, acked)
    BY <1>2, <2>2, QueueAbsorbs
  <2>4. Recoverable' = Without(Recoverable, acked)
    <3>1. Recoverable' = Without(Found', ackFile') /\ Found' = Found
      BY <2>1 DEF Recoverable, Found, Read
    <3>2. QED BY <2>1, <2>3, <3>1, RecoverableIs
  <2>5. QED BY <2>4, QueueForgets
<1>6. CASE Rename
  <2>1. /\ IdsOf(Found') \cap ackFile' = {} /\ ackFile' = ackFile
        /\ \A i \in DOMAIN Found : Found[i].id \in acked <=> Found[i].id \in ackFile
        /\ \/ Found' = Without(Found, acked)
           \/ Found' = Marked(Without(Found, acked), flusher.ids)
    BY <1>1, <1>6, QueueRenames
  <2>2. Without(Found, acked) = Recoverable
    <3>1. Without(Found, acked) = Without(Found, ackFile)
      BY <2>1, WithoutSame
    <3>2. QED BY <3>1, RecoverableIs
  <2>3. Recoverable' = Found'
    <3>1. Recoverable' = Without(Found', ackFile')
      BY DEF Recoverable, Found, Read
    <3>2. Found' \in Seq(Made(b))
      <4>1. Found' = entries /\ entries \in Seq(Made(b))
        BY <1>1, <1>6, QueueRenames, FoundTyped
      <4>2. QED BY <4>1
    <3>3. \A i \in DOMAIN Found' : Found'[i].id \notin ackFile'
      BY <2>1 DEF IdsOf
    <3>4. QED BY <3>1, <3>2, <3>3, WithoutNone
  <2>4. CASE Found' = Without(Found, acked)
    BY <2>2, <2>3, <2>4
  <2>5. CASE Found' = Marked(Without(Found, acked), flusher.ids)
    BY <2>2, <2>3, <2>5, QueueMarks
  <2>6. QED BY <2>1, <2>4, <2>5
<1>7. CASE Clear
  <2>1. \A i \in DOMAIN Found : Found[i].id \in acked <=> Found[i].id \in ackFile
    BY <1>1, <1>7, QueueClears
  <2>2. ackFile' = acked /\ Found' = Found
    BY <1>7 DEF Clear, Found
  <2>3. Without(Found, acked) = Without(Found, ackFile)
    BY <2>1, WithoutSame
  <2>4. Recoverable' = Without(Found', ackFile')
    BY DEF Recoverable, Found, Read
  <2>5. QED BY <2>2, <2>3, <2>4, RecoverableIs
<1>8. CASE Crash
  BY <1>1, <1>8, Crashes, QueueStutters DEF Found
<1>9. ASSUME NEW tornTail \in TornTails, Open(tornTail) PROVE [Queue!QNext]_Recoverable
  BY <1>9, QueueStutters DEF Open, disk, Found
<1>10. CASE UNCHANGED vars
  BY <1>10, QueueStutters DEF vars, disk, Found
<1>11. QED BY <1>3, <1>4, <1>5, <1>6, <1>7, <1>8, <1>9, <1>10 DEF Next, FlushStep

\* No step of any operation, no failed write and no crash changes what a restart finds, except
\* by adding an entry at the end, forgetting the settled ones or marking the dead ones.
THEOREM FilesImplementQueue ==
  ASSUME ~Overlap
  PROVE  Spec => ImplementsQueue
<1>1. Init => Queue!QInit
  <2> SUFFICES ASSUME Init PROVE Recoverable = <<>>
    BY DEF Queue!QInit
  <2>1. FileInv /\ file = <<>>
    BY InitFile DEF Init
  <2>2. seen.born \in Nat /\ file \in Seq(Frame(seen.born)) /\ Shaped(file)
    BY <2>1 DEF FileInv, SpoolTypeOK, SeenRow
  <2>3. Whole(file) = 0
    BY <2>1 DEF Whole
  <2>4. Found \in Seq(Made(seen.born)) /\ Len(Found) = 0
    BY <2>2, <2>3, Reading DEF Found
  <2>5. Found = <<>> /\ DOMAIN Found = {}
    BY <2>4, EmptySeq
  <2>6. Without(Found, ackFile) = Found
    BY <2>4, <2>5, WithoutNone
  <2>7. QED BY <2>5, <2>6, RecoverableIs
<1>2. QED BY <1>1, SpoolHolds, StepIsQueue, PTL DEF Spec, ImplementsQueue, Queue!QSpec
=============================================================================
