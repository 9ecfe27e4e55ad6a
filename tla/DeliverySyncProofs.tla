------------------------ MODULE DeliverySyncProofs ------------------------
(***************************************************************************)
(* What the syncer guarantees for any number of items, processes, rows,    *)
(* attempts and mishaps: a cursor never passes what is not stored, and a   *)
(* source has one writer.                                                  *)
(***************************************************************************)
EXTENDS DeliverySync, FiniteSetTheorems, SequenceTheorems, WellFoundedInduction, TLAPS

AllItems == Pulls \cup Deploys
Steps == {"idle", "prepare", "list", "write", "save", "finish"}

Place == [cursor : Nat, page : Nat, high : Nat, floor : Nat]
Places == [StreamNames -> Place]
Entry == Syncs \X Nat
SyncRow == [status : {"queued", "running", "ended"}, attempts : Nat, due : BOOLEAN, lease : Nat]
Worker == [todo : Seq(Entry), step : Steps, stream : {1, 2}, base : Places,
           got : AllItems \cup {None}, seen : Nat, next : Nat]

Shape ==
  /\ at \in [AllItems -> 0..MaxClock] /\ stored \in [AllItems -> Nat]
  /\ cursors \in Places
  /\ rows \in [Syncs -> SyncRow]
  /\ procs \in [Procs -> Worker]

\* A running row counts the attempt it is in; one row is queued.
RowsOrdered ==
  /\ \A s \in Syncs : /\ rows[s].attempts <= MaxAttempts
                      /\ rows[s].status = "running" => rows[s].attempts >= 1
  /\ \A s, t \in Syncs : rows[s].status = "queued" /\ rows[t].status = "queued" => s = t

\* A worker's rows are distinct and fit its batch; before a walk it stands at the first stream.
WorkersOrdered ==
  \A p \in Procs :
    /\ procs[p].step # "idle" => procs[p].todo # <<>>
    /\ procs[p].step \in {"idle", "prepare", "finish"} => procs[p].stream = 1
    /\ Len(procs[p].todo) <= BatchSize
    /\ \A n, m \in DOMAIN procs[p].todo : procs[p].todo[n][1] = procs[p].todo[m][1] => n = m

PlacesOrdered ==
  \A st \in StreamNames :
    /\ cursors[st].cursor <= cursors[st].high
    /\ \A p \in Procs : procs[p].base[st].cursor <= procs[p].base[st].high

Ordered == Shape /\ RowsOrdered /\ WorkersOrdered /\ PlacesOrdered

\* The lease of an entry is still the row's.
Live(p, n) ==
  LET row == rows[procs[p].todo[n][1]]
  IN  row.status = "running" /\ row.lease = procs[p].todo[n][2]

\* Every row whose turn it is fits in a batch.
BatchTakesAll == Cardinality(Syncs) <= BatchSize

OneHolder ==
  \A p, q \in Procs : \A n \in DOMAIN procs[p].todo, m \in DOMAIN procs[q].todo :
    Live(p, n) /\ Live(q, m) => p = q

\* What is claimed stays claimed until the claimant lets go.
ClaimsLast ==
  \A p \in Procs : \A n \in DOMAIN procs[p].todo :
    Live(p, n) /\ ~rows[procs[p].todo[n][1]].due

LeaseInv ==
  /\ BatchTakesAll \/ ~outlived => OneHolder
  /\ ~outlived => ClaimsLast

\* The place of a pull request in GitHub's list.
Rank(i) == Cardinality({k \in Pulls : at[k] > at[i]}) + 1

Has(i) == stored[i] = at[i]

\* Up to the cursor everything is stored; up to the newest instant seen, what is not is on a page
\* to come.
Walked(z) ==
  /\ z.cursor <= z.high /\ z.high <= clock /\ z.floor = Never
  /\ (z.page = NoPage => z.high = z.cursor)
  /\ \A i \in Pulls : at[i] > 0 /\ at[i] <= z.cursor => Has(i)
  /\ \A i \in Pulls : at[i] > 0 /\ at[i] <= z.high =>
       Has(i) \/ (z.page # NoPage /\ Rank(i) >= z.page)

\* What is known once a page is read: its item as it was, and where the others are.
PageRead(w) ==
  LET high == Larger(w.base["pulls"].high, w.seen)
  IN  /\ high <= clock
      /\ w.got = None => w.seen = 0
      /\ w.got # None => /\ w.got \in Pulls /\ w.seen > 0 /\ w.seen <= at[w.got]
                         /\ at[w.got] # w.seen => at[w.got] > high
      /\ \A k \in Pulls : k # w.got /\ at[k] > 0 /\ at[k] <= high =>
           Has(k) \/ (w.next # NoPage /\ Rank(k) >= w.next)

InstantsDiffer == \A i, k \in Pulls : at[i] > 0 /\ at[i] = at[k] => i = k

\* A worker's walk of the pull requests, from its listing to its saving.
PullsWalked(w) ==
  /\ w.stream = 1 =>
       /\ w.step \in {"list", "write"} => w.base["pulls"] = cursors["pulls"]
       /\ w.step = "write" => PageRead(w)
       /\ w.step = "save" => Walked(w.base["pulls"])
  /\ w.stream = 2 /\ w.step = "write" => w.got \notin Pulls

WalkInv ==
  /\ InstantsDiffer
  /\ ~outlived => Walked(cursors["pulls"]) /\ \A p \in Procs : PullsWalked(procs[p])

SyncInv == Ordered /\ LeaseInv /\ WalkInv

-----------------------------------------------------------------------------
(* Numbers, the clock, and places in a list.                               *)

LEMMA LessIsWellFounded == IsWellFoundedOn({ss \in Nat \X Nat : ss[1] < ss[2]}, Nat)
  BY NatLessThanWellFounded, Zenon DEF OpToRel

LEMMA LeastExists ==
  ASSUME NEW S \in SUBSET Nat, S # {}
  PROVE  \E x \in S : \A y \in S : x <= y
<1> DEFINE less == {ss \in Nat \X Nat : ss[1] < ss[2]}
<1>1. PICK x \in S : \A y \in S : ~(<<y, x>> \in less)
  <2>1. IsWellFoundedOn(less, Nat)
    BY LessIsWellFounded
  <2> HIDE DEF less
  <2>2. QED BY <2>1, WFMin
<1>2. ASSUME NEW y \in S, y < x PROVE FALSE
  <2>1. <<y, x>> \in Nat \X Nat /\ <<y, x>>[1] < <<y, x>>[2]
    BY <1>2
  <2>2. QED BY <1>1, <2>1, Zenon
<1>3. QED BY <1>2

\* The newest of some instants is one of them, or 0 when there is none: the clock.
LEMMA NewestExists ==
  ASSUME NEW a \in [AllItems -> 0..MaxClock]
  PROVE  LET c == CHOOSE n \in 0..MaxClock : /\ \A i \in Pulls \cup Deploys : a[i] <= n
                                             /\ n > 0 => \E i \in Pulls \cup Deploys : a[i] = n
         IN  /\ c \in 0..MaxClock
             /\ \A i \in AllItems : a[i] <= c
             /\ c > 0 => \E i \in AllItems : a[i] = c
<1> DEFINE bounds == {n \in 0..MaxClock : \A i \in AllItems : a[i] <= n}
<1>1. MaxClock \in Nat /\ \A i \in AllItems : a[i] \in 0..MaxClock
  BY SyncBounds
<1>2. bounds \in SUBSET Nat /\ MaxClock \in bounds
  BY <1>1
<1>3. PICK m \in bounds : \A n \in bounds : m <= n
  <2> HIDE DEF bounds
  <2>1. QED BY <1>2, LeastExists
<1>4. m > 0 => \E i \in AllItems : a[i] = m
  <2> SUFFICES ASSUME m > 0, \A i \in AllItems : a[i] # m PROVE FALSE
    OBVIOUS
  <2>1. m - 1 \in bounds
    BY <1>1
  <2>2. QED BY <1>2, <1>3, <2>1
<1>5. QED BY <1>1, <1>3, <1>4 DEF AllItems

LEMMA ClockIsNewest ==
  ASSUME at \in [AllItems -> 0..MaxClock]
  PROVE  /\ clock \in 0..MaxClock
         /\ \A i \in AllItems : at[i] <= clock
         /\ clock > 0 => \E i \in AllItems : at[i] = clock
  BY NewestExists DEF clock

LEMMA RanksFinite ==
  ASSUME NEW i \in Pulls
  PROVE  /\ IsFiniteSet({k \in Pulls : at[k] > at[i]})
         /\ Cardinality({k \in Pulls : at[k] > at[i]}) \in Nat
         /\ Rank(i) \in Nat \ {0}
<1>1. IsFiniteSet(Pulls) /\ {k \in Pulls : at[k] > at[i]} \in SUBSET Pulls
  BY SyncBounds
<1>2. IsFiniteSet({k \in Pulls : at[k] > at[i]})
  BY <1>1, FS_Subset
<1>3. Cardinality({k \in Pulls : at[k] > at[i]}) \in Nat
  BY <1>2, FS_CardinalityType
<1>4. QED BY <1>2, <1>3 DEF Rank

\* Whatever is newer is further to the front.
LEMMA NewerIsInFront ==
  ASSUME at \in [AllItems -> 0..MaxClock], NEW i \in Pulls, NEW k \in Pulls, at[i] > at[k]
  PROVE  Rank(i) < Rank(k)
<1> DEFINE I == {j \in Pulls : at[j] > at[i]}
           K == {j \in Pulls : at[j] > at[k]}
<1>1. \A j \in Pulls : at[j] \in Nat
  BY SyncBounds DEF AllItems
<1>2. I \in SUBSET K /\ i \in K /\ i \notin I
  BY <1>1
<1>3. /\ IsFiniteSet(I) /\ IsFiniteSet(K) /\ Cardinality(I) \in Nat /\ Cardinality(K) \in Nat
      /\ Rank(i) = Cardinality(I) + 1 /\ Rank(k) = Cardinality(K) + 1
  BY RanksFinite DEF Rank
<1> HIDE DEF I, K
<1>4. Cardinality(I) <= Cardinality(K) /\ Cardinality(I) # Cardinality(K)
  BY <1>2, <1>3, FS_Subset
<1>5. QED BY <1>3, <1>4

\* There is no gap in the list: with an item behind a place, there is one at it.
LEMMA ListHasNoGap ==
  ASSUME at \in [AllItems -> 0..MaxClock], InstantsDiffer, NEW n \in Nat \ {0},
         NEW k \in Pulls, at[k] > 0, Rank(k) >= n
  PROVE  \E j \in Pulls : at[j] >= at[k] /\ Rank(j) = n
<1> DEFINE ranks == {r \in Nat : r >= n /\ \E j \in Pulls : at[j] >= at[k] /\ Rank(j) = r}
<1>1. \A j \in Pulls : at[j] \in Nat /\ Rank(j) \in Nat \ {0}
  <2>1. \A j \in Pulls : Rank(j) \in Nat \ {0}
    BY RanksFinite
  <2>2. QED BY <2>1, SyncBounds DEF AllItems
<1>2. ranks \in SUBSET Nat /\ Rank(k) \in ranks
  BY <1>1
<1>3. PICK m \in ranks : \A r \in ranks : m <= r
  <2> HIDE DEF ranks
  <2>1. QED BY <1>2, LeastExists
<1>4. PICK j \in Pulls : at[j] >= at[k] /\ Rank(j) = m
  BY <1>3
<1>5. SUFFICES ASSUME m > n PROVE FALSE
  BY <1>3, <1>4
<1> DEFINE J == {i \in Pulls : at[i] > at[j]}
           instants == {a \in Nat : \E i \in J : at[i] = a}
<1>6. IsFiniteSet(J) /\ Cardinality(J) \in Nat /\ m = Cardinality(J) + 1
  BY <1>4, RanksFinite DEF Rank
<1>7. J # {}
  <2> HIDE DEF J
  <2>1. QED BY <1>5, <1>6, FS_EmptySet
<1>8. instants \in SUBSET Nat /\ instants # {}
  BY <1>1, <1>7
<1>9. PICK a \in instants : \A b \in instants : a <= b
  <2> HIDE DEF instants
  <2>1. QED BY <1>8, LeastExists
<1>10. PICK l \in J : at[l] = a
  BY <1>9
<1>11. \A i \in J : at[l] <= at[i]
  BY <1>1, <1>9, <1>10
<1> DEFINE L == {i \in Pulls : at[i] > at[l]}
<1>12. J \ {l} = L
  BY <1>1, <1>10, <1>11 DEF InstantsDiffer
<1>13. Rank(l) = m - 1
  <2>1. Cardinality(J \ {l}) = Cardinality(J) - 1
    <3> HIDE DEF J
    <3>1. QED BY <1>6, <1>10, FS_RemoveElement
  <2>2. Rank(l) = Cardinality(L) + 1
    BY DEF Rank
  <2> HIDE DEF J, L
  <2>3. QED BY <1>6, <1>12, <2>1, <2>2
<1>14. m - 1 \in ranks
  BY <1>1, <1>3, <1>4, <1>5, <1>10, <1>13
<1>15. QED BY <1>3, <1>14

-----------------------------------------------------------------------------
(* Rows, workers and leases.                                               *)

LEMMA Fields ==
  ASSUME Shape
  PROVE  /\ \A s \in Syncs : /\ rows[s].status \in {"queued", "running", "ended"}
                             /\ rows[s].attempts \in Nat /\ rows[s].due \in BOOLEAN
                             /\ rows[s].lease \in Nat
         /\ \A p \in Procs : /\ procs[p].todo \in Seq(Entry) /\ procs[p].step \in Steps
                             /\ procs[p].stream \in {1, 2} /\ procs[p].base \in Places
                             /\ procs[p].got \in AllItems \cup {None}
                             /\ procs[p].seen \in Nat /\ procs[p].next \in Nat
         /\ \A st \in StreamNames :
              /\ cursors[st] \in Place /\ \A p \in Procs : procs[p].base[st] \in Place
<1>1. \A s \in Syncs : rows[s] \in SyncRow
  BY DEF Shape
<1>2. \A p \in Procs : procs[p] \in Worker
  BY DEF Shape
<1>3. \A s \in Syncs : /\ rows[s].status \in {"queued", "running", "ended"}
                       /\ rows[s].attempts \in Nat /\ rows[s].due \in BOOLEAN
                       /\ rows[s].lease \in Nat
  BY <1>1 DEF SyncRow
<1>4. \A p \in Procs : /\ procs[p].todo \in Seq(Entry) /\ procs[p].step \in Steps
                       /\ procs[p].stream \in {1, 2} /\ procs[p].base \in Places
                       /\ procs[p].got \in AllItems \cup {None}
                       /\ procs[p].seen \in Nat /\ procs[p].next \in Nat
  BY <1>2 DEF Worker
<1>5. QED BY <1>3, <1>4 DEF Shape, Places

LEMMA Entries ==
  ASSUME Shape, NEW p \in Procs
  PROVE  /\ \A n \in DOMAIN procs[p].todo :
              /\ n \in 1..Len(procs[p].todo) /\ procs[p].todo[n] \in Entry
              /\ procs[p].todo[n][1] \in Syncs /\ procs[p].todo[n][2] \in Nat
         /\ procs[p].todo # <<>> => 1 \in DOMAIN procs[p].todo /\ Row(p) \in Syncs
         /\ Len(procs[p].todo) \in Nat
<1>1. procs[p].todo \in Seq(Entry)
  BY Fields
<1>2. Len(procs[p].todo) \in Nat /\ DOMAIN procs[p].todo = 1..Len(procs[p].todo)
  BY <1>1, LenProperties
<1>3. \A n \in DOMAIN procs[p].todo : procs[p].todo[n] \in Entry
  BY <1>1, <1>2, ElementOfSeq
<1>4. procs[p].todo # <<>> => 1 \in DOMAIN procs[p].todo
  BY <1>1, <1>2, EmptySeq
<1>5. QED BY <1>2, <1>3, <1>4 DEF Entry, Row

\* A claim gives a row a lease that neither its record nor any process's list names.
LEMMA NewLeaseIsFresh ==
  ASSUME Shape, WorkersOrdered, NEW s \in Syncs
  PROVE  /\ NewLease(s) \in Nat
         /\ \A p \in Procs : \A n \in DOMAIN procs[p].todo :
              procs[p].todo[n][1] = s => procs[p].todo[n][2] # NewLease(s)
<1> DEFINE entries == {x \in Procs \X (1..BatchSize) : /\ x[2] \in DOMAIN procs[x[1]].todo
                                                       /\ procs[x[1]].todo[x[2]][1] = s}
           named == {procs[x[1]].todo[x[2]][2] : x \in entries}
           T == Taken(s)
           c == Cardinality(T)
<1>1. IsFiniteSet(T) /\ c \in Nat
  <2>1. IsFiniteSet(Procs) /\ IsFiniteSet(1..BatchSize)
    BY SyncBounds, FS_Interval
  <2>2. IsFiniteSet(Procs \X (1..BatchSize))
    BY <2>1, FS_Product
  <2>3. IsFiniteSet(entries)
    BY <2>2, FS_Subset
  <2>4. IsFiniteSet(named)
    <3> DEFINE f == [x \in entries |-> procs[x[1]].todo[x[2]][2]]
    <3>1. f \in Surjection(entries, named)
      BY DEF Surjection
    <3> HIDE DEF f, entries, named
    <3>2. QED BY <2>3, <3>1, FS_Surjection
  <2>5. T = named \cup {rows[s].lease}
    BY DEF Taken
  <2> HIDE DEF T, named
  <2>6. IsFiniteSet(T)
    BY <2>4, <2>5, FS_AddElement
  <2>7. QED BY <2>6, FS_CardinalityType
<1> DEFINE free == (1..(c + 1)) \ T
<1>2. free # {}
  <2> SUFFICES ASSUME 1..(c + 1) \subseteq T PROVE FALSE
    OBVIOUS
  <2>1. IsFiniteSet(1..(c + 1)) /\ Cardinality(1..(c + 1)) = c + 1
    BY <1>1, FS_Interval
  <2>2. Cardinality(1..(c + 1)) <= c
    <3> HIDE DEF T
    <3>1. 1..(c + 1) \in SUBSET T
      OBVIOUS
    <3>2. QED BY <1>1, <3>1, FS_Subset
  <2>3. QED BY <1>1, <2>1, <2>2
<1>3. PICK n \in free : \A m \in free : n <= m
  <2>1. free \in SUBSET Nat
    BY <1>1
  <2> HIDE DEF free
  <2>2. QED BY <1>2, <2>1, LeastExists
<1>4. n \in 1..(c + 1) /\ n \notin T /\ \A m \in 1..(n - 1) : m \in T
  <2> HIDE DEF T
  <2>1. QED BY <1>1, <1>3
<1>5. NewLease(s) \in 1..(c + 1) /\ NewLease(s) \notin T
  BY <1>4 DEF NewLease
<1>6. ASSUME NEW p \in Procs, NEW m \in DOMAIN procs[p].todo, procs[p].todo[m][1] = s
      PROVE  procs[p].todo[m][2] \in T
  <2>1. m \in 1..BatchSize
    <3>1. m \in 1..Len(procs[p].todo) /\ Len(procs[p].todo) \in Nat
      BY <1>6, Entries
    <3>2. Len(procs[p].todo) <= BatchSize /\ BatchSize \in Nat
      BY SyncBounds DEF WorkersOrdered
    <3>3. QED BY <3>1, <3>2
  <2>2. <<p, m>> \in entries
    BY <1>6, <2>1
  <2>3. \A x \in entries : procs[x[1]].todo[x[2]][2] \in T
    BY DEF Taken
  <2>4. <<p, m>>[1] = p /\ <<p, m>>[2] = m
    OBVIOUS
  <2> HIDE DEF entries, T
  <2>5. QED BY <2>2, <2>3, <2>4
<1>7. QED BY <1>1, <1>5, <1>6

\* A process goes on to the rest of its batch.
LEMMA GoesOn ==
  ASSUME Shape, WorkersOrdered, NEW p \in Procs, procs[p].todo # <<>>, NextRow(p)
  PROVE  /\ procs' \in [Procs -> Worker] /\ WorkersOrdered'
         /\ \A q \in Procs : q # p => procs'[q] = procs[q]
         /\ procs'[p].stream = 1 /\ procs'[p].step \in {"idle", "prepare"}
         /\ procs'[p].base = [st \in StreamNames |-> Fresh]
         /\ \A n \in DOMAIN procs'[p].todo :
              n + 1 \in DOMAIN procs[p].todo /\ procs'[p].todo[n] = procs[p].todo[n + 1]
<1> DEFINE todo == procs[p].todo
           rest == Tail(procs[p].todo)
<1>1. todo \in Seq(Entry) /\ Len(todo) \in Nat /\ DOMAIN todo = 1..Len(todo)
  BY Fields, LenProperties
<1>2. /\ rest \in Seq(Entry) /\ Len(rest) = Len(todo) - 1 /\ DOMAIN rest = 1..Len(rest)
      /\ \A n \in 1..Len(rest) : rest[n] = todo[n + 1]
  BY <1>1, HeadTailProperties, LenProperties
<1>3. procs' = [procs EXCEPT ![p] =
                 [todo |-> rest, step |-> IF rest = <<>> THEN "idle" ELSE "prepare", stream |-> 1,
                  base |-> [st \in StreamNames |-> Fresh], got |-> None, seen |-> 0,
                  next |-> NoPage]]
  <2> DEFINE step == IF rest = <<>> THEN "idle" ELSE "prepare"
  <2>1. procs' = [procs EXCEPT ![p] = [Resting EXCEPT !.todo = rest, !.step = step]]
    BY DEF NextRow
  <2> HIDE DEF rest, step
  <2>2. [Resting EXCEPT !.todo = rest, !.step = step] =
          [todo |-> rest, step |-> step, stream |-> 1,
           base |-> [st \in StreamNames |-> Fresh], got |-> None, seen |-> 0, next |-> NoPage]
    <3> DEFINE r == [todo |-> rest, step |-> "idle", stream |-> 1,
                     base |-> [st \in StreamNames |-> Fresh], got |-> None, seen |-> 0,
                     next |-> NoPage]
    <3>1. [Resting EXCEPT !.todo = rest] = r
      BY DEF Resting
    <3>2. [r EXCEPT !.step = step] =
            [todo |-> rest, step |-> step, stream |-> 1,
             base |-> [st \in StreamNames |-> Fresh], got |-> None, seen |-> 0, next |-> NoPage]
      OBVIOUS
    <3>3. QED BY <3>1, <3>2
  <2>3. QED BY <2>1, <2>2 DEF step
<1>4. [st \in StreamNames |-> Fresh] \in Places
  BY SyncBounds DEF Places, Place, Fresh, Never, NoPage
<1> DEFINE w == procs'[p]
<1>5. /\ w.todo = rest /\ w.step = (IF rest = <<>> THEN "idle" ELSE "prepare") /\ w.stream = 1
      /\ w.base = [st \in StreamNames |-> Fresh] /\ w \in Worker
      /\ \A q \in Procs : q # p => procs'[q] = procs[q]
  BY <1>2, <1>3, <1>4 DEF Shape, Worker, Steps, None, NoPage
<1>6. procs' \in [Procs -> Worker]
  BY <1>3, <1>5 DEF Shape
<1>7. \A n \in DOMAIN w.todo : n + 1 \in DOMAIN todo /\ w.todo[n] = todo[n + 1]
  <2> HIDE DEF w, rest, todo
  <2>1. QED BY <1>1, <1>2, <1>5
<1>8. \A n, m \in DOMAIN w.todo : w.todo[n][1] = w.todo[m][1] => n = m
  <2> TAKE n, m \in DOMAIN w.todo
  <2>1. n \in Nat /\ m \in Nat
    BY <1>2, <1>5
  <2>2. QED BY <1>7, <2>1 DEF WorkersOrdered
<1>9. WorkersOrdered'
  <2> SUFFICES ASSUME NEW q \in Procs
               PROVE  /\ procs'[q].step # "idle" => procs'[q].todo # <<>>
                      /\ procs'[q].step \in {"idle", "prepare", "finish"} => procs'[q].stream = 1
                      /\ Len(procs'[q].todo) <= BatchSize
                      /\ \A n, m \in DOMAIN procs'[q].todo :
                           procs'[q].todo[n][1] = procs'[q].todo[m][1] => n = m
    BY DEF WorkersOrdered
  <2>1. CASE q # p
    <3>1. procs'[q] = procs[q]
      BY <1>5, <2>1
    <3>2. QED BY <3>1, Zenon DEF WorkersOrdered
  <2>2. CASE q = p
    <3>1. Len(rest) <= BatchSize
      BY <1>1, <1>2, SyncBounds DEF WorkersOrdered
    <3>2. QED BY <1>5, <1>8, <2>2, <3>1
  <2>3. QED BY <2>1, <2>2
<1>10. QED BY <1>5, <1>6, <1>7, <1>9

-----------------------------------------------------------------------------
(* Every step keeps the shape and the order of the rows and the workers.   *)

LEMMA InitOrdered == Init => Ordered
<1> SUFFICES ASSUME Init PROVE Ordered
  OBVIOUS
<1>1. Fresh \in Place
  BY SyncBounds DEF Place, Fresh, Never, NoPage
<1>2. [st \in StreamNames |-> Fresh] \in Places
  BY <1>1 DEF Places
<1>3. Resting \in Worker /\ Ended \in SyncRow
  BY <1>2 DEF Worker, Resting, Steps, SyncRow, Ended, NoPage
<1>4. /\ \A p \in Procs : procs[p] = Resting
      /\ \A s \in Syncs : rows[s] = Ended
      /\ cursors = [st \in StreamNames |-> Fresh]
  BY DEF Init
<1>5. Shape
  BY <1>2, <1>3, SyncBounds DEF Init, Shape, AllItems
<1>6. RowsOrdered
  <2>1. \A s \in Syncs : rows[s].status = "ended" /\ rows[s].attempts = 0
    BY <1>4 DEF Ended
  <2>2. MaxAttempts \in Nat
    BY SyncBounds
  <2>3. QED BY <2>1, <2>2 DEF RowsOrdered
<1>7. WorkersOrdered
  BY <1>4, SyncBounds DEF WorkersOrdered, Resting
<1>8. PlacesOrdered
  BY <1>4 DEF PlacesOrdered, Resting, Fresh
<1>9. QED BY <1>5, <1>6, <1>7, <1>8 DEF Ordered

\* What a claim takes: distinct rows, each under a new lease, all of them if they fit.
Takes(p, batch, new) ==
  /\ batch # {} /\ (BatchTakesAll => batch = Claimable)
  /\ new # <<>> /\ Len(new) <= BatchSize
  /\ \A n \in DOMAIN new : new[n][1] \in batch /\ new[n][2] = NewLease(new[n][1])
  /\ \A n, m \in DOMAIN new : new[n][1] = new[m][1] => n = m
  /\ rows' = [s \in Syncs |->
               IF s \in batch
               THEN [status |-> "running", attempts |-> rows[s].attempts + 1,
                     due |-> FALSE, lease |-> NewLease(s)]
               ELSE rows[s]]
  /\ procs' = [procs EXCEPT ![p].step = "prepare", ![p].todo = new]

LEMMA ClaimTakes ==
  ASSUME Shape, WorkersOrdered, NEW p \in Procs, Claim(p)
  PROVE  \E batch \in SUBSET Claimable, new \in Seq(Entry) : Takes(p, batch, new)
<1>1. PICK batch \in SUBSET Claimable :
         /\ Cardinality(batch) = Smaller(BatchSize, Cardinality(Claimable))
         /\ rows' = [s \in Syncs |->
                      IF s \in batch
                      THEN [status |-> "running", attempts |-> rows[s].attempts + 1,
                            due |-> FALSE, lease |-> NewLease(s)]
                      ELSE rows[s]]
         /\ \E order \in [1..Cardinality(batch) -> batch] :
              /\ \A i, k \in DOMAIN order : order[i] = order[k] => i = k
              /\ procs' = [procs EXCEPT ![p].step = "prepare",
                             ![p].todo = [n \in DOMAIN order |-> <<order[n], NewLease(order[n])>>]]
  BY DEF Claim
<1>2. PICK order \in [1..Cardinality(batch) -> batch] :
         /\ \A i, k \in DOMAIN order : order[i] = order[k] => i = k
         /\ procs' = [procs EXCEPT ![p].step = "prepare",
                        ![p].todo = [n \in DOMAIN order |-> <<order[n], NewLease(order[n])>>]]
  BY <1>1
<1> DEFINE c == Cardinality(batch)
           total == Cardinality(Claimable)
           new == [n \in 1..c |-> <<order[n], NewLease(order[n])>>]
<1>3. /\ IsFiniteSet(Claimable) /\ total \in Nat /\ total <= Cardinality(Syncs) /\ total # 0
      /\ Cardinality(Syncs) \in Nat
  <2>1. IsFiniteSet(Syncs) /\ Claimable \in SUBSET Syncs /\ Claimable # {}
    BY SyncBounds DEF Claim, Claimable
  <2>2. QED BY <2>1, FS_Subset, FS_CardinalityType, FS_EmptySet
<1>4. IsFiniteSet(batch) /\ c \in Nat /\ (c = total => batch = Claimable)
  <2>1. QED BY <1>3, FS_Subset, FS_CardinalityType
<1>5. BatchSize \in Nat \ {0} /\ c = Smaller(BatchSize, total)
  BY <1>1, SyncBounds
<1>6. c # 0 /\ c <= BatchSize /\ (BatchTakesAll => c = total)
  BY <1>3, <1>4, <1>5 DEF Smaller, BatchTakesAll
<1>7. batch # {}
  BY <1>4, <1>6, FS_EmptySet
<1>8. \A n \in 1..c : order[n] \in batch /\ order[n] \in Syncs /\ NewLease(order[n]) \in Nat
  <2>1. \A n \in 1..c : order[n] \in batch /\ order[n] \in Syncs
    BY <1>1, <1>2 DEF Claimable
  <2>2. \A s \in Syncs : NewLease(s) \in Nat
    BY NewLeaseIsFresh
  <2>3. QED BY <2>1, <2>2
<1>9. new \in Seq(Entry) /\ Len(new) = c /\ DOMAIN new = 1..c /\ new # <<>>
  <2>1. new \in [1..c -> Entry]
    BY <1>8 DEF Entry
  <2> HIDE DEF new, c
  <2>2. new \in Seq(Entry) /\ DOMAIN new = 1..c
    BY <1>4, <2>1
  <2>3. Len(new) = c
    BY <1>4, <2>2, LenProperties
  <2>4. QED BY <1>6, <2>2, <2>3, EmptySeq
<1>10. procs' = [procs EXCEPT ![p].step = "prepare", ![p].todo = new]
  BY <1>2
<1>11. \A n \in DOMAIN new : new[n][1] = order[n] /\ new[n][2] = NewLease(order[n])
  BY <1>9
<1> HIDE DEF new, c, total
<1>12. /\ \A n \in DOMAIN new : new[n][1] \in batch /\ new[n][2] = NewLease(new[n][1])
       /\ \A n, m \in DOMAIN new : new[n][1] = new[m][1] => n = m
  BY <1>2, <1>8, <1>9, <1>11 DEF c
<1>13. Takes(p, batch, new)
  BY <1>1, <1>4, <1>6, <1>7, <1>9, <1>10, <1>12 DEF Takes
<1>14. QED BY <1>9, <1>13

LEMMA ClaimKeepsOrder ==
  ASSUME Ordered, NEW p \in Procs, Claim(p) PROVE Ordered'
<1> USE DEF Ordered
<1>1. PICK batch \in SUBSET Claimable, new \in Seq(Entry) : Takes(p, batch, new)
  BY ClaimTakes
<1>2. UNCHANGED <<at, stored, cursors>> /\ procs[p].step = "idle"
  BY DEF Claim, github
<1> DEFINE w == [procs[p] EXCEPT !.step = "prepare"]
           v == [w EXCEPT !.todo = new]
<1>3. procs' = [procs EXCEPT ![p] = v] /\ procs[p] \in Worker
  BY <1>1 DEF Takes, Shape
<1>4. w \in Worker /\ v \in Worker /\ v.step = "prepare" /\ v.todo = new
      /\ v.stream = procs[p].stream /\ v.base = procs[p].base
  <2>1. w \in Worker /\ w.step = "prepare" /\ w.stream = procs[p].stream /\ w.base = procs[p].base
    BY <1>3 DEF Worker, Steps
  <2> HIDE DEF w
  <2>2. QED BY <2>1 DEF Worker
<1> HIDE DEF v, w
<1>5. MaxAttempts \in Nat /\ \A s \in batch : rows[s].attempts < MaxAttempts /\ s \in Syncs
  BY SyncBounds DEF Claimable
<1>6. \A s \in Syncs : NewLease(s) \in Nat
  BY NewLeaseIsFresh
<1>7. rows' \in [Syncs -> SyncRow]
  <2>1. \A s \in Syncs : rows'[s] \in SyncRow
    BY <1>1, <1>5, <1>6 DEF Shape, SyncRow, Takes
  <2>2. QED BY <1>1, <2>1 DEF Takes
<1>8. Shape'
  BY <1>2, <1>3, <1>4, <1>7 DEF Shape
<1>9. RowsOrdered'
  BY <1>1, <1>5, Fields DEF RowsOrdered, Takes
<1>10. WorkersOrdered'
  <2> SUFFICES ASSUME NEW q \in Procs
               PROVE  /\ procs'[q].step # "idle" => procs'[q].todo # <<>>
                      /\ procs'[q].step \in {"idle", "prepare", "finish"} => procs'[q].stream = 1
                      /\ Len(procs'[q].todo) <= BatchSize
                      /\ \A n, m \in DOMAIN procs'[q].todo :
                           procs'[q].todo[n][1] = procs'[q].todo[m][1] => n = m
    BY DEF WorkersOrdered
  <2>1. CASE q = p
    <3>1. procs'[q] = v
      BY <1>3, <2>1 DEF Shape
    <3>2. v.stream = 1
      BY <1>2, <1>4 DEF WorkersOrdered
    <3>3. /\ new # <<>> /\ Len(new) <= BatchSize
          /\ \A n, m \in DOMAIN new : new[n][1] = new[m][1] => n = m
      BY <1>1 DEF Takes
    <3>4. QED BY <1>4, <3>1, <3>2, <3>3
  <2>2. CASE q # p
    BY <1>3, <2>2 DEF WorkersOrdered, Shape
  <2>3. QED BY <2>1, <2>2
<1>11. PlacesOrdered'
  BY <1>2, <1>3, <1>4 DEF PlacesOrdered, Shape
<1>12. QED BY <1>8, <1>9, <1>10, <1>11

\* Steps that change rows alone.
LEMMA RowStepsKeepOrder ==
  ASSUME Ordered, \/ \E s \in Syncs : Queue(s) \/ TimePasses(s) \/ Lapses(s)
                  \/ \E p \in Procs : Exhaust(p)
  PROVE  Ordered'
<1> USE DEF Ordered
<1>1. UNCHANGED <<at, stored, cursors, procs>>
  BY DEF Queue, TimePasses, Lapses, Exhaust, github
<1>2. WorkersOrdered' /\ PlacesOrdered'
  BY <1>1 DEF WorkersOrdered, PlacesOrdered
<1>3. SUFFICES rows' \in [Syncs -> SyncRow] /\ RowsOrdered'
  BY <1>1, <1>2 DEF Shape
<1>4. MaxAttempts \in Nat /\ Ended \in SyncRow /\ Ended.attempts = 0 /\ Ended.status = "ended"
  BY SyncBounds DEF Ended, SyncRow
<1>5. ASSUME NEW s \in Syncs, Queue(s)
      PROVE  rows' \in [Syncs -> SyncRow] /\ RowsOrdered'
  <2>1. rows' = [rows EXCEPT ![s].status = "queued", ![s].due = TRUE]
        /\ rows[s].status = "ended" /\ \A t \in Syncs : rows[t].status # "queued"
    BY <1>5 DEF Queue, QueuedRows
  <2>2. rows' \in [Syncs -> SyncRow]
    BY <2>1 DEF Shape, SyncRow
  <2>3. /\ rows'[s].status = "queued" /\ rows'[s].attempts = rows[s].attempts
        /\ \A t \in Syncs : t # s => rows'[t] = rows[t]
    BY <2>1 DEF Shape, SyncRow
  <2>4. QED BY <2>1, <2>2, <2>3 DEF RowsOrdered
<1>6. ASSUME NEW s \in Syncs, TimePasses(s) \/ Lapses(s)
      PROVE  rows' \in [Syncs -> SyncRow] /\ RowsOrdered'
  <2>1. rows' = [rows EXCEPT ![s].due = TRUE]
    BY <1>6 DEF TimePasses, Lapses
  <2>2. /\ rows' \in [Syncs -> SyncRow]
        /\ \A t \in Syncs : rows'[t].status = rows[t].status /\ rows'[t].attempts = rows[t].attempts
    BY <2>1 DEF Shape, SyncRow
  <2>3. QED BY <2>2 DEF RowsOrdered
<1>7. ASSUME NEW p \in Procs, Exhaust(p)
      PROVE  rows' \in [Syncs -> SyncRow] /\ RowsOrdered'
  <2>1. \A t \in Syncs : rows'[t] = rows[t] \/ rows'[t] = Ended
    BY <1>7 DEF Exhaust
  <2>2. rows' \in [Syncs -> SyncRow]
    BY <1>4, <1>7 DEF Exhaust, Shape
  <2>3. QED BY <1>4, <2>1, <2>2 DEF RowsOrdered
<1>8. QED BY <1>5, <1>6, <1>7

\* A stream's cursor only moves forward, and stays within what was seen.
LEMMA AdvanceIsForward ==
  ASSUME NEW z \in Place, z.cursor <= z.high, NEW next \in Nat, NEW newest \in Nat,
         NEW floor \in Nat
  PROVE  LET a == AdvanceStream(z, next, newest, floor)
         IN  a \in Place /\ z.cursor <= a.cursor /\ a.cursor <= a.high
<1>1. z.cursor \in Nat /\ z.page \in Nat /\ z.high \in Nat /\ z.floor \in Nat
  BY DEF Place
<1> DEFINE high == Larger(z.high, newest)
           low == Smaller(z.floor, floor)
           cursor == Larger(z.cursor, Smaller(high, low))
<1>2. high \in Nat /\ low \in Nat /\ cursor \in Nat /\ z.cursor <= high /\ z.cursor <= cursor
  BY <1>1 DEF Larger, Smaller
<1>3. AdvanceStream(z, next, newest, floor) =
        IF next # NoPage
        THEN [cursor |-> z.cursor, page |-> next, high |-> high, floor |-> low]
        ELSE [cursor |-> cursor, page |-> NoPage, high |-> cursor, floor |-> Never]
  BY DEF AdvanceStream
<1>4. Never \in Nat /\ NoPage \in Nat
  BY SyncBounds DEF Never, NoPage
<1> HIDE DEF high, low, cursor
<1>5. QED BY <1>1, <1>2, <1>3, <1>4 DEF Place

LEMMA GithubKeepsOrder ==
  ASSUME Ordered, \/ \E i \in AllItems : Touch(i)
                  \/ \E d \in Deploys : Decide(d)
                  \/ LimitPasses
  PROVE  Ordered'
<1> USE DEF Ordered
<1>1. UNCHANGED <<stored, cursors, rows, procs>>
  BY DEF Touch, Decide, LimitPasses, worker, github
<1>2. at' \in [AllItems -> 0..MaxClock]
  <2>1. ASSUME NEW i \in AllItems, Touch(i) PROVE at' \in [AllItems -> 0..MaxClock]
    <3>1. clock + 1 \in 0..MaxClock
      BY <2>1, ClockIsNewest, SyncBounds DEF Touch, Shape
    <3>2. at' = [at EXCEPT ![i] = clock + 1]
      BY <2>1 DEF Touch
    <3>3. QED BY <3>1, <3>2 DEF Shape
  <2>2. QED BY <2>1 DEF Decide, LimitPasses, github, Shape
<1>3. QED BY <1>1, <1>2 DEF Shape, RowsOrdered, WorkersOrdered, PlacesOrdered, QueuedRows

\* One worker changes and keeps its list; the rows keep their status and attempts.
LEMMA WorkerKeepsOrder ==
  ASSUME Ordered, NEW p \in Procs, NEW w \in Worker, procs' = [procs EXCEPT ![p] = w],
         procs[p].todo # <<>>, w.todo = procs[p].todo,
         w.step \in {"prepare", "finish"} => w.stream = 1,
         \A st \in StreamNames : w.base[st].cursor <= w.base[st].high,
         at' = at, stored' \in [AllItems -> Nat],
         cursors' \in Places, \A st \in StreamNames : cursors'[st].cursor <= cursors'[st].high,
         rows' \in [Syncs -> SyncRow],
         \A s \in Syncs : rows'[s].status = rows[s].status /\ rows'[s].attempts = rows[s].attempts,
         w.step # "idle"
  PROVE  Ordered'
<1> USE DEF Ordered
<1>1. procs'[p] = w /\ \A q \in Procs : q # p => procs'[q] = procs[q]
  BY DEF Shape
<1>2. Shape'
  BY DEF Shape
<1>3. RowsOrdered'
  BY DEF RowsOrdered
<1>4. WorkersOrdered'
  <2> SUFFICES ASSUME NEW q \in Procs
               PROVE  /\ procs'[q].step # "idle" => procs'[q].todo # <<>>
                      /\ procs'[q].step \in {"idle", "prepare", "finish"} => procs'[q].stream = 1
                      /\ Len(procs'[q].todo) <= BatchSize
                      /\ \A n, m \in DOMAIN procs'[q].todo :
                           procs'[q].todo[n][1] = procs'[q].todo[m][1] => n = m
    BY DEF WorkersOrdered
  <2>1. CASE q = p
    BY <1>1, <2>1 DEF WorkersOrdered
  <2>2. CASE q # p
    BY <1>1, <2>2 DEF WorkersOrdered
  <2>3. QED BY <2>1, <2>2
<1>5. PlacesOrdered'
  BY <1>1 DEF PlacesOrdered
<1>6. QED BY <1>2, <1>3, <1>4, <1>5

-----------------------------------------------------------------------------
(* What each step of a walk makes of its worker.                           *)

Becomes(p, w) ==
  procs' = [procs EXCEPT ![p] = w] /\ w.todo = procs[p].todo /\ w.stream \in {1, 2}

LEMMA Preparing ==
  ASSUME Ordered, NEW p \in Procs, Prepare(p)
  PROVE  \E w \in Worker : /\ Becomes(p, w) /\ w.step = "list" /\ w.stream = 1
                           /\ w.base = cursors
<1> USE DEF Ordered
<1> DEFINE v == [procs[p] EXCEPT !.step = "list"]
           w == [v EXCEPT !.base = cursors]
<1>1. procs[p] \in Worker /\ cursors \in Places /\ procs[p].stream = 1
  BY DEF Shape, WorkersOrdered, Prepare
<1>2. procs' = [procs EXCEPT ![p] = w]
  BY DEF Prepare, Shape
<1>3. /\ v \in Worker /\ v.step = "list" /\ v.todo = procs[p].todo
      /\ v.stream = procs[p].stream
  BY <1>1 DEF Worker, Steps
<1> HIDE DEF v
<1>4. /\ w \in Worker /\ w.step = "list" /\ w.todo = procs[p].todo
      /\ w.stream = procs[p].stream /\ w.base = cursors
  BY <1>1, <1>3 DEF Worker
<1>5. QED BY <1>1, <1>2, <1>4 DEF Becomes

\* What readList makes of the page: its item, or none that is new enough, and the page that
\* follows.
PageIs(p, got, seen, next) ==
  LET n == PageOf(p)
      listed == {i \in Ranked(Stream(p), n) : at[i] >= Cutoff(p)}
  IN  /\ got \in (IF listed = {} THEN {None} ELSE listed)
      /\ seen = IF got = None THEN 0 ELSE at[got]
      /\ next = IF listed # {} /\ Ranked(Stream(p), n + 1) # {} THEN n + 1 ELSE NoPage

LEMMA PageOfIsPage ==
  ASSUME Ordered, NEW p \in Procs
  PROVE  /\ PageOf(p) \in Nat \ {0} /\ Stream(p) \in StreamNames /\ State(p) \in Place
         /\ State(p) = procs[p].base[Stream(p)]
         /\ Stream(p) = IF procs[p].stream = 1 THEN "pulls" ELSE "deploys"
<1>1. procs[p].stream \in {1, 2} /\ Streams[1] = "pulls" /\ Streams[2] = "deploys"
  BY Fields DEF Ordered, Streams
<1>2. /\ Stream(p) \in StreamNames
      /\ Stream(p) = IF procs[p].stream = 1 THEN "pulls" ELSE "deploys"
  BY <1>1 DEF Stream, StreamNames
<1>3. State(p) \in Place
  BY <1>2, Fields DEF Ordered, State
<1>4. QED BY <1>2, <1>3 DEF State, PageOf, NoPage, Place

LEMMA Listing ==
  ASSUME Ordered, NEW p \in Procs, List(p)
  PROVE  \E w \in Worker : /\ Becomes(p, w) /\ w.step = "write"
                           /\ w.stream = procs[p].stream /\ w.base = procs[p].base
                           /\ PageIs(p, w.got, w.seen, w.next)
<1> USE DEF Ordered
<1> DEFINE n == PageOf(p)
           listed == {i \in Ranked(Stream(p), n) : at[i] >= Cutoff(p)}
           more == listed # {} /\ Ranked(Stream(p), n + 1) # {}
           seen(g) == IF g = None THEN 0 ELSE at[g]
           next == IF more THEN n + 1 ELSE NoPage
<1>1. PICK got \in (IF listed = {} THEN {None} ELSE listed) :
         procs' = [procs EXCEPT ![p].step = "write", ![p].got = got,
                                ![p].seen = seen(got), ![p].next = next]
  BY DEF List
<1>2. got \in AllItems \cup {None} /\ seen(got) \in Nat
  <2>1. listed \subseteq AllItems
    BY DEF Ranked, Items, AllItems
  <2>2. got = None \/ got \in AllItems
    BY <2>1
  <2>3. \A i \in AllItems : at[i] \in Nat
    BY SyncBounds DEF Shape
  <2>4. QED BY <2>2, <2>3
<1>3. next \in Nat
  BY PageOfIsPage DEF NoPage
<1>4. PageIs(p, got, seen(got), next)
  BY DEF PageIs
<1> HIDE DEF listed, more, seen, next
<1> DEFINE v == [procs[p] EXCEPT !.step = "write"]
           u == [v EXCEPT !.got = got]
           t == [u EXCEPT !.seen = seen(got)]
           w == [t EXCEPT !.next = next]
<1>5. procs' = [procs EXCEPT ![p] = w] /\ procs[p] \in Worker
  BY <1>1 DEF Shape
<1>6. /\ v \in Worker /\ v.step = "write" /\ v.todo = procs[p].todo
      /\ v.stream = procs[p].stream /\ v.base = procs[p].base
  BY <1>5 DEF Worker, Steps
<1> HIDE DEF v
<1>7. /\ u \in Worker /\ u.step = "write" /\ u.todo = procs[p].todo
      /\ u.stream = procs[p].stream /\ u.base = procs[p].base /\ u.got = got
  BY <1>2, <1>6 DEF Worker
<1> HIDE DEF u
<1>8. /\ t \in Worker /\ t.step = "write" /\ t.todo = procs[p].todo
      /\ t.stream = procs[p].stream /\ t.base = procs[p].base /\ t.got = got
      /\ t.seen = seen(got)
  BY <1>2, <1>7 DEF Worker
<1> HIDE DEF t
<1>9. /\ w \in Worker /\ w.step = "write" /\ w.todo = procs[p].todo
      /\ w.stream = procs[p].stream /\ w.base = procs[p].base /\ w.got = got
      /\ w.seen = seen(got) /\ w.next = next
  BY <1>3, <1>8 DEF Worker
<1>10. procs[p].stream \in {1, 2}
  BY Fields
<1> HIDE DEF w
<1>11. Becomes(p, w) /\ PageIs(p, w.got, w.seen, w.next)
  BY <1>4, <1>5, <1>9, <1>10 DEF Becomes
<1>12. QED BY <1>9, <1>11

\* Where a stream stands once its page is written.
Advanced(p) ==
  AdvanceStream(State(p), procs[p].next, procs[p].seen,
                IF procs[p].got # None /\ IsPending(procs[p].got) THEN procs[p].seen ELSE Never)

LEMMA AdvancedTyped ==
  ASSUME Ordered, NEW p \in Procs
  PROVE  Advanced(p) \in Place /\ State(p).cursor <= Advanced(p).cursor
         /\ Advanced(p).cursor <= Advanced(p).high
<1> DEFINE floor == IF procs[p].got # None /\ IsPending(procs[p].got)
                    THEN procs[p].seen ELSE Never
<1>1. State(p) \in Place /\ State(p).cursor <= State(p).high
  BY PageOfIsPage DEF Ordered, PlacesOrdered
<1>2. procs[p].next \in Nat /\ procs[p].seen \in Nat /\ Never \in Nat
  BY Fields, SyncBounds DEF Ordered, Never
<1>3. floor \in Nat
  BY <1>2
<1>4. Advanced(p) = AdvanceStream(State(p), procs[p].next, procs[p].seen, floor)
  BY DEF Advanced
<1> HIDE DEF floor
<1>5. QED BY <1>1, <1>2, <1>3, <1>4, AdvanceIsForward

LEMMA Writing ==
  ASSUME Ordered, NEW p \in Procs, Write(p)
  PROVE  \E w \in Worker : /\ Becomes(p, w) /\ w.step = "save" /\ w.stream = procs[p].stream
                           /\ w.base = [procs[p].base EXCEPT ![Stream(p)] = Advanced(p)]
<1> USE DEF Ordered
<1> DEFINE v == [procs[p] EXCEPT !.step = "save"]
           u == [v EXCEPT !.got = None]
           t == [u EXCEPT !.seen = 0]
           r == [t EXCEPT !.next = NoPage]
           base == [procs[p].base EXCEPT ![Stream(p)] = Advanced(p)]
           w == [r EXCEPT !.base = base]
<1>1. procs' = [procs EXCEPT ![p].step = "save", ![p].got = None, ![p].seen = 0,
                  ![p].next = NoPage, ![p].base[Stream(p)] = Advanced(p)]
  <2>1. procs[p].base[Stream(p)] = State(p)
    BY PageOfIsPage
  <2>2. QED BY <2>1, Zenon DEF Write, Advanced
<1>2. procs[p] \in Worker /\ procs[p].base \in Places /\ procs[p].stream \in {1, 2}
  BY Fields DEF Shape
<1>0. procs' = [procs EXCEPT ![p] = [r EXCEPT !.base = [r.base EXCEPT ![Stream(p)] = Advanced(p)]]]
  <2> HIDE DEF Advanced
  <2>1. QED BY <1>1, <1>2 DEF Shape, Worker
<1>3. /\ v \in Worker /\ v.step = "save" /\ v.todo = procs[p].todo
      /\ v.stream = procs[p].stream /\ v.base = procs[p].base
  BY <1>2 DEF Worker, Steps
<1> HIDE DEF v
<1>4. /\ u \in Worker /\ u.step = "save" /\ u.todo = procs[p].todo
      /\ u.stream = procs[p].stream /\ u.base = procs[p].base
  BY <1>3 DEF Worker
<1> HIDE DEF u
<1>5. /\ t \in Worker /\ t.step = "save" /\ t.todo = procs[p].todo
      /\ t.stream = procs[p].stream /\ t.base = procs[p].base
  BY <1>4 DEF Worker
<1> HIDE DEF t
<1>6. /\ r \in Worker /\ r.step = "save" /\ r.todo = procs[p].todo
      /\ r.stream = procs[p].stream /\ r.base = procs[p].base
  BY <1>5 DEF Worker, NoPage
<1> HIDE DEF r
<1>7. procs' = [procs EXCEPT ![p] = w]
  BY <1>0, <1>6
<1>8. base \in Places
  <2>1. Advanced(p) \in Place /\ Stream(p) \in StreamNames
    BY AdvancedTyped, PageOfIsPage
  <2>2. QED BY <1>2, <2>1 DEF Places
<1> HIDE DEF base
<1>9. /\ w \in Worker /\ w.step = "save" /\ w.todo = procs[p].todo
      /\ w.stream = procs[p].stream /\ w.base = base
  BY <1>6, <1>8 DEF Worker
<1>10. QED BY <1>2, <1>7, <1>9 DEF Becomes, base

\* A worker goes on to the next stream, or is done with the last.
LEMMA Saving ==
  ASSUME Ordered, NEW p \in Procs, Save(p)
  PROVE  /\ \E w \in Worker :
              /\ Becomes(p, w) /\ w.base = procs[p].base
              /\ procs[p].stream = 1 => w.step = "list" /\ w.stream = 2
              /\ procs[p].stream = 2 => w.step = "finish" /\ w.stream = 1
         /\ cursors' \in Places
         /\ \A st \in StreamNames : st # Stream(p) => cursors'[st] = cursors[st]
         /\ cursors'[Stream(p)] = IF cursors[Stream(p)].cursor <= State(p).cursor
                                  THEN State(p) ELSE cursors[Stream(p)]
<1> USE DEF Ordered
<1> DEFINE step == IF procs[p].stream = Len(Streams) THEN "finish" ELSE "list"
           stream == IF procs[p].stream = Len(Streams) THEN 1 ELSE procs[p].stream + 1
           v == [procs[p] EXCEPT !.step = step]
           w == [v EXCEPT !.stream = stream]
<1>1. procs[p] \in Worker /\ procs[p].stream \in {1, 2} /\ Len(Streams) = 2
  BY Fields DEF Shape, Streams
<1>2. procs' = [procs EXCEPT ![p] = w]
  BY <1>1 DEF Save, Shape
<1>3. /\ procs[p].stream = 1 => step = "list" /\ stream = 2
      /\ procs[p].stream = 2 => step = "finish" /\ stream = 1
  BY <1>1
<1>4. step \in Steps /\ stream \in {1, 2}
  BY <1>1, <1>3 DEF Steps
<1> HIDE DEF step, stream
<1>5. v \in Worker /\ v.step = step /\ v.todo = procs[p].todo /\ v.base = procs[p].base
  BY <1>1, <1>4 DEF Worker
<1> HIDE DEF v
<1>6. /\ w \in Worker /\ w.step = step /\ w.todo = procs[p].todo /\ w.base = procs[p].base
      /\ w.stream = stream
  BY <1>4, <1>5 DEF Worker
<1>7. \E z \in Worker :
              /\ Becomes(p, z) /\ z.base = procs[p].base
              /\ procs[p].stream = 1 => z.step = "list" /\ z.stream = 2
              /\ procs[p].stream = 2 => z.step = "finish" /\ z.stream = 1
  BY <1>2, <1>3, <1>4, <1>6 DEF Becomes
<1>8. /\ Stream(p) \in StreamNames /\ State(p) \in Place /\ cursors \in Places
      /\ cursors' = [cursors EXCEPT ![Stream(p)] =
                       IF cursors[Stream(p)].cursor <= State(p).cursor
                       THEN State(p) ELSE cursors[Stream(p)]]
  BY PageOfIsPage DEF Save, Shape
<1>9. QED BY <1>7, <1>8 DEF Places

LEMMA WalkKeepsOrder ==
  ASSUME Ordered, NEW p \in Procs, Prepare(p) \/ List(p) \/ Write(p) \/ Save(p)
  PROVE  Ordered'
<1> USE DEF Ordered
<1>1. procs[p].step # "idle" /\ procs[p].todo # <<>> /\ Row(p) \in Syncs
  BY Entries DEF Prepare, List, Write, Save, WorkersOrdered
<1>2. /\ \A st \in StreamNames : cursors[st].cursor <= cursors[st].high
      /\ \A st \in StreamNames : procs[p].base[st].cursor <= procs[p].base[st].high
      /\ stored \in [AllItems -> Nat] /\ cursors \in Places /\ rows \in [Syncs -> SyncRow]
      /\ procs[p].stream \in {1, 2}
  BY Fields DEF Shape, PlacesOrdered
<1>3. CASE Prepare(p)
  <2>1. PICK w \in Worker : /\ Becomes(p, w) /\ w.step = "list" /\ w.stream = 1
                            /\ w.base = cursors
    BY <1>3, Preparing
  <2>2. UNCHANGED <<at, stored, cursors, rows>>
    BY <1>3 DEF Prepare, github
  <2>3. QED BY <1>1, <1>2, <2>1, <2>2, WorkerKeepsOrder DEF Becomes
<1>4. CASE List(p)
  <2>1. PICK w \in Worker : /\ Becomes(p, w) /\ w.step = "write"
                            /\ w.stream = procs[p].stream /\ w.base = procs[p].base
    BY <1>4, Listing
  <2>2. UNCHANGED <<at, stored, cursors, rows>>
    BY <1>4 DEF List, github
  <2>3. QED BY <1>1, <1>2, <2>1, <2>2, WorkerKeepsOrder DEF Becomes
<1>5. CASE Write(p)
  <2>1. PICK w \in Worker : /\ Becomes(p, w) /\ w.step = "save" /\ w.stream = procs[p].stream
                            /\ w.base = [procs[p].base EXCEPT ![Stream(p)] = Advanced(p)]
    BY <1>5, Writing
  <2>2. UNCHANGED <<at, cursors, rows>>
    BY <1>5 DEF Write, github
  <2>3. stored' \in [AllItems -> Nat]
    <3>1. stored' = stored \/ stored' = [stored EXCEPT ![procs[p].got] = procs[p].seen]
      BY <1>5 DEF Write
    <3>2. procs[p].seen \in Nat
      BY Fields
    <3>3. QED BY <1>2, <3>1, <3>2
  <2>4. \A st \in StreamNames : w.base[st].cursor <= w.base[st].high
    <3>1. /\ procs[p].base \in Places /\ Stream(p) \in StreamNames
          /\ Advanced(p).cursor <= Advanced(p).high
      BY Fields, AdvancedTyped, PageOfIsPage
    <3>2. QED BY <1>2, <2>1, <3>1 DEF Places
  <2>5. QED BY <1>1, <1>2, <2>1, <2>2, <2>3, <2>4, WorkerKeepsOrder DEF Becomes
<1>6. CASE Save(p)
  <2>1. PICK w \in Worker :
              /\ Becomes(p, w) /\ w.base = procs[p].base
              /\ procs[p].stream = 1 => w.step = "list" /\ w.stream = 2
              /\ procs[p].stream = 2 => w.step = "finish" /\ w.stream = 1
    BY <1>6, Saving
  <2>2. /\ UNCHANGED <<at, stored>> /\ rows' = [rows EXCEPT ![Row(p)].due = FALSE]
    BY <1>6 DEF Save, github
  <2>3. /\ rows' \in [Syncs -> SyncRow]
        /\ \A s \in Syncs : rows'[s].status = rows[s].status /\ rows'[s].attempts = rows[s].attempts
    BY <1>2, <2>2 DEF SyncRow
  <2>4. cursors' \in Places /\ \A st \in StreamNames : cursors'[st].cursor <= cursors'[st].high
    <3>1. State(p).cursor <= State(p).high
      BY <1>2, PageOfIsPage
    <3>2. QED BY <1>2, <1>6, <3>1, Saving
  <2>5. w.step \in {"list", "finish"} /\ (w.step = "finish" => w.stream = 1)
    BY <1>2, <2>1
  <2>6. QED BY <1>1, <1>2, <2>1, <2>2, <2>3, <2>4, <2>5, WorkerKeepsOrder DEF Becomes
<1>7. QED BY <1>3, <1>4, <1>5, <1>6

\* A row that is given up: ended, or queued if no other is.
LEMMA GivenUpRows ==
  ASSUME Ordered, NEW s \in Syncs, NEW a \in Nat, a <= MaxAttempts,
         rows' = [rows EXCEPT ![s] = Ended] \/ Requeue(s, a)
  PROVE  /\ rows' \in [Syncs -> SyncRow] /\ RowsOrdered' /\ rows'[s].status # "running"
         /\ \A t \in Syncs : t # s => rows'[t] = rows[t]
<1> USE DEF Ordered
<1>1. /\ Ended \in SyncRow /\ Ended.attempts = 0 /\ Ended.status = "ended"
      /\ Requeued(a) \in SyncRow /\ Requeued(a).attempts = a /\ Requeued(a).status = "queued"
  BY DEF Ended, Requeued, SyncRow
<1>2. /\ \A t \in Syncs : t # s => rows'[t] = rows[t]
      /\ rows' \in [Syncs -> SyncRow]
      /\ \/ rows'[s] = Ended
         \/ rows'[s] = Requeued(a) /\ \A t \in Syncs : rows[t].status # "queued"
  BY <1>1 DEF Shape, Requeue, QueuedRows
<1>3. MaxAttempts \in Nat
  BY SyncBounds
<1>4. RowsOrdered'
  BY <1>1, <1>2, <1>3 DEF RowsOrdered
<1>5. QED BY <1>1, <1>2, <1>4

LEMMA LettingGoKeepsOrder ==
  ASSUME Ordered, NEW p \in Procs, Finish(p) \/ Abandon(p) \/ Fails(p) \/ Crash(p)
  PROVE  Ordered'
<1> USE DEF Ordered
<1>1. procs[p].step # "idle" /\ procs[p].todo # <<>> /\ Row(p) \in Syncs
  BY Entries DEF Finish, Abandon, Fails, Reading, Crash, WorkersOrdered
<1>2. UNCHANGED <<at, stored, cursors>>
  BY DEF Finish, Abandon, Fails, Crash, github
<1>3. rows' \in [Syncs -> SyncRow] /\ RowsOrdered'
  <2>1. CASE Finish(p)
    <3>1. rows' = [rows EXCEPT ![Row(p)] = Ended] /\ 0 <= MaxAttempts
      BY <2>1, SyncBounds DEF Finish
    <3>2. QED BY <1>1, <3>1, GivenUpRows
  <2>2. CASE Abandon(p) \/ Crash(p)
    BY <2>2 DEF Abandon, Crash, Shape, RowsOrdered
  <2>3. CASE Fails(p)
    <3>1. /\ rows[Row(p)].attempts \in Nat /\ rows[Row(p)].attempts >= 1
          /\ rows[Row(p)].attempts <= MaxAttempts /\ MaxAttempts \in Nat
      BY <1>1, <2>3, Fields, SyncBounds DEF Fails, HoldsLease, RowsOrdered
    <3>2. \/ rows' = [rows EXCEPT ![Row(p)] = Ended]
          \/ Requeue(Row(p), rows[Row(p)].attempts)
          \/ Requeue(Row(p), rows[Row(p)].attempts - 1)
      BY <2>3 DEF Fails
    <3>3. /\ rows[Row(p)].attempts - 1 \in Nat
          /\ rows[Row(p)].attempts - 1 <= MaxAttempts
      BY <3>1
    <3>4. QED BY <1>1, <3>1, <3>2, <3>3, GivenUpRows
  <2>4. QED BY <2>1, <2>2, <2>3
<1>4. procs' \in [Procs -> Worker] /\ WorkersOrdered' /\ PlacesOrdered'
  <2>1. CASE Finish(p) \/ Abandon(p) \/ Fails(p)
    <3>1. NextRow(p)
      BY <2>1 DEF Finish, Abandon, Fails
    <3>2. /\ procs' \in [Procs -> Worker] /\ WorkersOrdered'
          /\ \A q \in Procs : q # p => procs'[q] = procs[q]
          /\ procs'[p].base = [st \in StreamNames |-> Fresh]
      BY <1>1, <3>1, GoesOn
    <3>3. PlacesOrdered'
      BY <1>2, <3>2 DEF PlacesOrdered, Fresh
    <3>4. QED BY <3>2, <3>3
  <2>2. CASE Crash(p)
    <3>1. procs' = [procs EXCEPT ![p] = Resting]
      BY <2>2 DEF Crash
    <3>2. [st \in StreamNames |-> Fresh] \in Places
      BY SyncBounds DEF Places, Place, Fresh, Never, NoPage
    <3>3. Resting \in Worker
      BY <3>2 DEF Worker, Resting, Steps, NoPage
    <3>4. /\ procs'[p] = Resting /\ \A q \in Procs : q # p => procs'[q] = procs[q]
          /\ procs' \in [Procs -> Worker]
      BY <3>1, <3>3 DEF Shape
    <3>5. PlacesOrdered'
      BY <1>2, <3>4 DEF PlacesOrdered, Resting, Fresh
    <3>6. Resting.todo = <<>> /\ Resting.step = "idle" /\ Resting.stream = 1 /\ BatchSize \in Nat
      BY SyncBounds DEF Resting
    <3>7. WorkersOrdered'
      BY <3>4, <3>6 DEF WorkersOrdered
    <3>8. QED BY <3>4, <3>5, <3>7
  <2>3. QED BY <2>1, <2>2
<1>5. QED BY <1>2, <1>3, <1>4 DEF Shape

LEMMA NextOrdered == Ordered /\ [Next]_vars => Ordered'
<1> SUFFICES ASSUME Ordered, [Next]_vars PROVE Ordered'
  OBVIOUS
<1>1. CASE Next
  BY <1>1, GithubKeepsOrder, RowStepsKeepOrder, ClaimKeepsOrder, WalkKeepsOrder, LettingGoKeepsOrder
     DEF Next, Polling, Syncing, AllItems
<1>2. CASE UNCHANGED vars
  BY <1>2 DEF vars, github, worker, Ordered, Shape, RowsOrdered, WorkersOrdered, PlacesOrdered
<1>3. QED BY <1>1, <1>2

LEMMA AlwaysOrdered == Spec => []Ordered
  BY InitOrdered, NextOrdered, PTL DEF Spec

\* The syncs' types: attempts within their bound, at most one sync of the source queued, a place
\* that is never ahead of what was seen, and a row for whoever runs one.
THEOREM SyncTyped == Spec => []SyncTypeOK
<1>1. Ordered => SyncTypeOK
  <2> SUFFICES ASSUME Ordered PROVE SyncTypeOK
    OBVIOUS
  <2>1. \A s \in Syncs : rows[s].attempts \in 0..MaxAttempts
    BY Fields, SyncBounds DEF Ordered, RowsOrdered
  <2>2. Cardinality(QueuedRows) <= 1
    <3>1. \A s, t \in QueuedRows : s = t
      BY DEF Ordered, RowsOrdered, QueuedRows
    <3>2. CASE QueuedRows = {}
      BY <3>2, FS_EmptySet
    <3>3. CASE QueuedRows # {}
      <4>1. PICK s \in QueuedRows : QueuedRows = {s}
        BY <3>1, <3>3
      <4>2. Cardinality({s}) = 1
        BY FS_Singleton, Zenon
      <4>3. QED BY <4>1, <4>2
    <3>4. QED BY <3>2, <3>3
  <2>3. \A st \in StreamNames : cursors[st].cursor \in Nat /\ cursors[st].high \in Nat
    BY Fields DEF Ordered, Place
  <2>4. QED BY <2>1, <2>2, <2>3 DEF Ordered, PlacesOrdered, WorkersOrdered, SyncTypeOK
<1>2. QED BY <1>1, AlwaysOrdered, PTL

-----------------------------------------------------------------------------
(* Leases: who may write a row.                                            *)

LEMMA InitLeases == Init => LeaseInv
<1> SUFFICES ASSUME Init PROVE LeaseInv
  OBVIOUS
<1>1. \A p \in Procs : DOMAIN procs[p].todo = {}
  BY DEF Init, Resting
<1>2. QED BY <1>1 DEF LeaseInv, OneHolder, ClaimsLast

\* Lists that shrink and rows that change without a new lease make no new holder.
LEMMA HoldersShrink ==
  ASSUME Ordered, LeaseInv,
         outlived => outlived',
         \A p \in Procs : \A n \in DOMAIN procs'[p].todo :
           /\ \E m \in DOMAIN procs[p].todo : procs'[p].todo[n] = procs[p].todo[m]
           /\ ~outlived' => LET s == procs'[p].todo[n][1]
                            IN  /\ rows'[s].status = rows[s].status
                                /\ rows'[s].lease = rows[s].lease
                                /\ ~rows[s].due => ~rows'[s].due,
         \A s \in Syncs : rows'[s].status = "running" =>
           rows[s].status = "running" /\ rows'[s].lease = rows[s].lease
  PROVE  LeaseInv'
<1> USE DEF Ordered
<1>1. ASSUME NEW p \in Procs, NEW n \in DOMAIN procs'[p].todo, NEW m \in DOMAIN procs[p].todo,
             procs'[p].todo[n] = procs[p].todo[m], Live(p, n)'
      PROVE  Live(p, m)
  <2>1. procs[p].todo[m][1] \in Syncs
    BY Entries
  <2>2. QED BY <1>1, <2>1 DEF Live
<1>2. ASSUME BatchTakesAll \/ ~outlived' PROVE OneHolder'
  <2>1. OneHolder
    BY <1>2 DEF LeaseInv
  <2> SUFFICES ASSUME NEW p \in Procs, NEW q \in Procs, NEW n \in DOMAIN procs'[p].todo,
                      NEW m \in DOMAIN procs'[q].todo, Live(p, n)', Live(q, m)'
               PROVE  p = q
    BY DEF OneHolder
  <2>2. PICK i \in DOMAIN procs[p].todo : procs'[p].todo[n] = procs[p].todo[i]
    OBVIOUS
  <2>3. PICK k \in DOMAIN procs[q].todo : procs'[q].todo[m] = procs[q].todo[k]
    OBVIOUS
  <2>4. Live(p, i) /\ Live(q, k)
    BY <1>1, <2>2, <2>3
  <2>5. QED BY <2>1, <2>4 DEF OneHolder
<1>3. ASSUME ~outlived' PROVE ClaimsLast'
  <2>1. ClaimsLast
    BY <1>3 DEF LeaseInv
  <2> SUFFICES ASSUME NEW p \in Procs, NEW n \in DOMAIN procs'[p].todo
               PROVE  Live(p, n)' /\ ~rows'[procs'[p].todo[n][1]].due
    BY DEF ClaimsLast
  <2>2. PICK m \in DOMAIN procs[p].todo : procs'[p].todo[n] = procs[p].todo[m]
    OBVIOUS
  <2>3. Live(p, m) /\ ~rows[procs[p].todo[m][1]].due
    BY <2>1 DEF ClaimsLast
  <2>4. QED BY <1>3, <2>2, <2>3 DEF Live
<1>4. QED BY <1>2, <1>3 DEF LeaseInv

LEMMA ClaimKeepsLeases ==
  ASSUME Ordered, LeaseInv, NEW p \in Procs, Claim(p) PROVE LeaseInv'
<1> USE DEF Ordered
<1>1. PICK batch \in SUBSET Claimable, new \in Seq(Entry) : Takes(p, batch, new)
  BY ClaimTakes
<1>2. /\ procs'[p].todo = new
      /\ \A q \in Procs : q # p => procs'[q] = procs[q]
      /\ outlived' = outlived /\ Exhausted = {} /\ batch # {}
      /\ \A s \in Claimable : s \in Syncs
  <2>1. /\ procs' = [procs EXCEPT ![p].step = "prepare", ![p].todo = new] /\ batch # {}
        /\ procs[p] \in Worker
    BY <1>1 DEF Takes, Shape
  <2>2. procs'[p].todo = new /\ \A q \in Procs : q # p => procs'[q] = procs[q]
    BY <2>1 DEF Shape, Worker
  <2>3. QED BY <2>1, <2>2 DEF Claim, Claimable
<1>3. /\ \A s \in batch : /\ rows'[s].status = "running" /\ ~rows'[s].due
                          /\ rows'[s].lease = NewLease(s) /\ s \in Syncs
      /\ \A s \in Syncs : s \notin batch => rows'[s] = rows[s]
  BY <1>1, <1>2 DEF Takes
<1>4. ASSUME NEW n \in DOMAIN new PROVE Live(p, n)' /\ ~rows'[procs'[p].todo[n][1]].due
  BY <1>1, <1>2, <1>3 DEF Takes, Live
\* Nobody else holds a row of the batch.
<1>5. ASSUME NEW q \in Procs, q # p, NEW n \in DOMAIN procs'[q].todo, Live(q, n)'
      PROVE  /\ procs[q].todo[n][1] \notin batch /\ procs[q].todo[n][1] \in Syncs
             /\ Live(q, n) /\ n \in DOMAIN procs[q].todo
  <2>1. n \in DOMAIN procs[q].todo /\ procs'[q].todo[n] = procs[q].todo[n]
    BY <1>2, <1>5
  <2>2. procs[q].todo[n][1] \in Syncs
    BY <2>1, Entries
  <2>3. procs[q].todo[n][1] \notin batch
    <3> SUFFICES ASSUME procs[q].todo[n][1] \in batch PROVE FALSE
      OBVIOUS
    <3>1. procs[q].todo[n][2] = NewLease(procs[q].todo[n][1])
      BY <1>3, <1>5, <2>1 DEF Live
    <3>2. QED BY <2>1, <2>2, <3>1, NewLeaseIsFresh
  <2>4. QED BY <1>3, <1>5, <2>1, <2>2, <2>3 DEF Live
\* A row that is running beside the batch has a holder whose lease has lapsed.
<1>6. ASSUME NEW o \in Syncs, o \notin batch, rows[o].status = "running"
      PROVE  rows[o].due /\ ~BatchTakesAll
  <2>1. PICK s \in batch : s \in Claimable /\ s # o
    BY <1>2, <1>6
  <2>2. rows[o].due
    <3>1. rows[o].due \in BOOLEAN
      BY Fields
    <3>2. QED BY <1>6, <2>1, <3>1 DEF Claimable
  <2>3. o \in Claimable
    <3>1. rows[o].attempts < MaxAttempts
      <4>1. rows[o].attempts \in Nat /\ MaxAttempts \in Nat
        BY Fields, SyncBounds
      <4>2. o \notin Exhausted
        BY <1>2
      <4>3. QED BY <1>6, <2>2, <4>1, <4>2 DEF Exhausted, Waiting
    <3>2. \A r \in Syncs \ {o} : ~(rows[r].status = "running" /\ ~rows[r].due)
      BY <2>1 DEF Claimable, Waiting
    <3>3. QED BY <1>6, <2>2, <3>1, <3>2 DEF Claimable, Waiting
  <2>4. QED BY <1>1, <1>6, <2>2, <2>3 DEF Takes
<1>7. ASSUME BatchTakesAll \/ ~outlived', NEW q \in Procs, NEW n \in DOMAIN procs'[q].todo,
             Live(q, n)'
      PROVE  q = p
  <2> SUFFICES ASSUME q # p PROVE FALSE
    OBVIOUS
  <2>1. /\ procs[q].todo[n][1] \notin batch /\ procs[q].todo[n][1] \in Syncs
        /\ Live(q, n) /\ n \in DOMAIN procs[q].todo
    BY <1>5, <1>7
  <2>2. rows[procs[q].todo[n][1]].status = "running"
    BY <2>1 DEF Live
  <2>3. rows[procs[q].todo[n][1]].due /\ ~BatchTakesAll
    BY <1>6, <2>1, <2>2
  <2>4. ~outlived /\ ClaimsLast
    BY <1>2, <1>7, <2>3 DEF LeaseInv
  <2>5. QED BY <2>1, <2>3, <2>4 DEF ClaimsLast
<1>8. BatchTakesAll \/ ~outlived' => OneHolder'
  BY <1>7 DEF OneHolder
<1>9. ASSUME ~outlived' PROVE ClaimsLast'
  <2> SUFFICES ASSUME NEW q \in Procs, NEW n \in DOMAIN procs'[q].todo
               PROVE  Live(q, n)' /\ ~rows'[procs'[q].todo[n][1]].due
    BY DEF ClaimsLast
  <2>1. CASE q = p
    BY <1>2, <1>4, <2>1
  <2>2. CASE q # p
    <3>1. n \in DOMAIN procs[q].todo /\ procs'[q].todo[n] = procs[q].todo[n]
      BY <1>2, <2>2
    <3>2. Live(q, n) /\ ~rows[procs[q].todo[n][1]].due
      BY <1>2, <1>9, <3>1 DEF LeaseInv, ClaimsLast
    <3>3. procs[q].todo[n][1] \in Syncs /\ procs[q].todo[n][1] \notin batch
      BY <1>2, <3>1, <3>2, Entries DEF Live, Claimable, Waiting
    <3>4. QED BY <1>3, <3>1, <3>2, <3>3 DEF Live
  <2>3. QED BY <2>1, <2>2
<1>10. QED BY <1>8, <1>9 DEF LeaseInv

LEMMA RowStepsKeepLeases ==
  ASSUME Ordered, LeaseInv,
         \/ \E s \in Syncs : Queue(s) \/ TimePasses(s) \/ Lapses(s)
         \/ \E p \in Procs : Exhaust(p)
  PROVE  LeaseInv'
<1> USE DEF Ordered
<1>1. /\ \A p \in Procs : procs'[p] = procs[p]
      /\ outlived' # outlived => outlived'
  BY DEF Queue, TimePasses, Lapses, Exhaust
<1>2. \A s \in Syncs : rows'[s].status = "running" =>
        rows[s].status = "running" /\ rows'[s].lease = rows[s].lease
  <2>1. ASSUME NEW s \in Syncs, Queue(s) \/ TimePasses(s) \/ Lapses(s), NEW t \in Syncs
        PROVE  rows'[t].status = "running" =>
                 rows[t].status = "running" /\ rows'[t].lease = rows[t].lease
    BY <2>1 DEF Queue, TimePasses, Lapses, Shape, SyncRow
  <2>2. ASSUME NEW p \in Procs, Exhaust(p), NEW t \in Syncs
        PROVE  rows'[t].status = "running" =>
                 rows[t].status = "running" /\ rows'[t].lease = rows[t].lease
    BY <2>2 DEF Exhaust, Ended
  <2>3. QED BY <2>1, <2>2
<1>3. ASSUME NEW p \in Procs, NEW n \in DOMAIN procs'[p].todo, ~outlived'
      PROVE  LET s == procs'[p].todo[n][1]
             IN  /\ rows'[s].status = rows[s].status /\ rows'[s].lease = rows[s].lease
                 /\ ~rows[s].due => ~rows'[s].due
  <2> DEFINE s == procs[p].todo[n][1]
  <2>1. procs'[p] = procs[p] /\ n \in DOMAIN procs[p].todo /\ s \in Syncs
    BY <1>1, <1>3, Entries
  <2>2. ~outlived /\ ClaimsLast
    BY <1>1, <1>3 DEF LeaseInv
  <2>3. rows[s].status = "running" /\ ~rows[s].due /\ procs[p].todo[n] = <<s, rows[s].lease>>
    <3>1. procs[p].todo[n] \in Entry
      BY <2>1, Entries
    <3>2. Live(p, n) /\ ~rows[s].due
      BY <2>1, <2>2 DEF ClaimsLast
    <3>3. QED BY <3>1, <3>2 DEF Live, Entry
  <2>4. p \in Holders(s)
    BY <2>1, <2>3 DEF Holders
  <2> HIDE DEF s
  <2>5. rows'[s].status = rows[s].status /\ rows'[s].lease = rows[s].lease
        /\ (~rows[s].due => ~rows'[s].due)
    <3>1. ASSUME NEW t \in Syncs, Queue(t) \/ TimePasses(t) \/ Lapses(t)
          PROVE  rows'[s] = rows[s]
      <4>1. t # s
        BY <1>3, <2>3, <2>4, <3>1 DEF Queue, TimePasses, Lapses
      <4>2. QED BY <2>1, <3>1, <4>1 DEF Queue, TimePasses, Lapses, Shape
    <3>2. ASSUME NEW q \in Procs, Exhaust(q) PROVE rows'[s] = rows[s]
      BY <2>1, <2>3, <3>2 DEF Exhaust, Exhausted, Waiting
    <3>3. QED BY <3>1, <3>2
  <2>6. QED BY <2>1, <2>5 DEF s
<1>4. QED BY <1>1, <1>2, <1>3, HoldersShrink

LEMMA WalkKeepsLeases ==
  ASSUME Ordered, LeaseInv, NEW p \in Procs,
         Prepare(p) \/ List(p) \/ Write(p) \/ Save(p)
  PROVE  LeaseInv'
<1> USE DEF Ordered
<1>1. \A q \in Procs : procs'[q].todo = procs[q].todo
  <2>1. \E w \in Worker : Becomes(p, w)
    BY Preparing, Listing, Writing, Saving
  <2>2. QED BY <2>1 DEF Becomes, Shape
<1>2. outlived' = outlived
  BY DEF Prepare, List, Write, Save
<1>3. \A s \in Syncs : /\ rows'[s].status = rows[s].status /\ rows'[s].lease = rows[s].lease
                       /\ ~rows[s].due => ~rows'[s].due
  <2>1. CASE Prepare(p) \/ List(p) \/ Write(p)
    BY <2>1 DEF Prepare, List, Write
  <2>2. CASE Save(p)
    BY <2>2 DEF Save, Shape, SyncRow
  <2>3. QED BY <2>1, <2>2
<1>4. \A q \in Procs : \A n \in DOMAIN procs'[q].todo :
        /\ procs'[q].todo[n] = procs[q].todo[n] /\ n \in DOMAIN procs[q].todo
        /\ procs'[q].todo[n][1] \in Syncs
  BY <1>1, Entries
<1>5. \A q \in Procs : \A n \in DOMAIN procs'[q].todo :
        \E m \in DOMAIN procs[q].todo : procs'[q].todo[n] = procs[q].todo[m]
  BY <1>4
<1>6. ASSUME NEW q \in Procs, NEW n \in DOMAIN procs'[q].todo, ~outlived'
      PROVE  LET s == procs'[q].todo[n][1]
             IN  /\ rows'[s].status = rows[s].status /\ rows'[s].lease = rows[s].lease
                 /\ ~rows[s].due => ~rows'[s].due
  BY <1>3, <1>4
<1>7. \A s \in Syncs : rows'[s].status = "running" =>
        rows[s].status = "running" /\ rows'[s].lease = rows[s].lease
  BY <1>3
<1>8. QED BY <1>2, <1>5, <1>6, <1>7, HoldersShrink

LEMMA LettingGoKeepsLeases ==
  ASSUME Ordered, LeaseInv, NEW p \in Procs,
         Finish(p) \/ Abandon(p) \/ Fails(p) \/ Crash(p)
  PROVE  LeaseInv'
<1> USE DEF Ordered
<1>1. outlived' = outlived
  BY DEF Finish, Abandon, Fails, Crash
<1>2. procs[p].todo # <<>> /\ Row(p) \in Syncs /\ 1 \in DOMAIN procs[p].todo
  BY Entries DEF Finish, Abandon, Fails, Reading, Crash, WorkersOrdered
<1>3. /\ \A q \in Procs : q # p => procs'[q] = procs[q]
      /\ \A n \in DOMAIN procs'[p].todo :
           /\ n + 1 \in DOMAIN procs[p].todo /\ n + 1 # 1
           /\ procs'[p].todo[n] = procs[p].todo[n + 1]
  <2>1. CASE Crash(p)
    BY <2>1 DEF Crash, Shape, Resting
  <2>2. CASE Finish(p) \/ Abandon(p) \/ Fails(p)
    <3>1. NextRow(p)
      BY <2>2 DEF Finish, Abandon, Fails
    <3>2. /\ \A q \in Procs : q # p => procs'[q] = procs[q]
          /\ procs' \in [Procs -> Worker]
          /\ \A n \in DOMAIN procs'[p].todo :
               n + 1 \in DOMAIN procs[p].todo /\ procs'[p].todo[n] = procs[p].todo[n + 1]
      BY <1>2, <3>1, GoesOn
    <3>3. \A n \in DOMAIN procs'[p].todo : n + 1 # 1
      <4>1. procs'[p].todo \in Seq(Entry)
        BY <3>2 DEF Worker
      <4>2. \A n \in DOMAIN procs'[p].todo : n \in Nat \ {0}
        BY <4>1, LenProperties
      <4>3. QED BY <4>2
    <3>4. QED BY <3>2, <3>3
  <2>3. QED BY <2>1, <2>2
\* The row itself is let go of; no other changes.
<1>4. /\ \A s \in Syncs : s # Row(p) => rows'[s] = rows[s]
      /\ rows'[Row(p)] = rows[Row(p)] \/ (rows'[Row(p)].status # "running" /\ HoldsLease(p))
  <2>1. CASE Finish(p)
    BY <1>2, <2>1 DEF Finish, Ended, Shape
  <2>2. CASE Abandon(p) \/ Crash(p)
    BY <2>2 DEF Abandon, Crash
  <2>3. CASE Fails(p)
    <3>1. rows' = [rows EXCEPT ![Row(p)] = Ended]
          \/ (\E a \in Int : rows' = [rows EXCEPT ![Row(p)] =
                               IF QueuedRows = {} THEN Requeued(a) ELSE Ended])
      <4>1. rows[Row(p)].attempts \in Int /\ rows[Row(p)].attempts - 1 \in Int
        BY <1>2, Fields
      <4>2. QED BY <2>3, <4>1 DEF Fails, Requeue
    <3>2. HoldsLease(p)
      BY <2>3 DEF Fails
    <3>3. QED BY <1>2, <3>1, <3>2 DEF Ended, Requeued, Shape
  <2>4. QED BY <2>1, <2>2, <2>3
<1>5. \A q \in Procs : \A n \in DOMAIN procs'[q].todo :
        \E m \in DOMAIN procs[q].todo :
          /\ procs'[q].todo[n] = procs[q].todo[m] /\ (q = p => m # 1)
  <2> TAKE q \in Procs
  <2> TAKE n \in DOMAIN procs'[q].todo
  <2>1. CASE q = p
    BY <1>3, <2>1
  <2>2. CASE q # p
    BY <1>3, <2>2
  <2>3. QED BY <2>1, <2>2
<1>6. ASSUME NEW q \in Procs, NEW n \in DOMAIN procs'[q].todo, ~outlived'
      PROVE  LET s == procs'[q].todo[n][1]
             IN  /\ rows'[s].status = rows[s].status /\ rows'[s].lease = rows[s].lease
                 /\ ~rows[s].due => ~rows'[s].due
  <2>1. PICK m \in DOMAIN procs[q].todo :
           procs'[q].todo[n] = procs[q].todo[m] /\ (q = p => m # 1)
    BY <1>5
  <2>2. OneHolder /\ ClaimsLast
    BY <1>1, <1>6 DEF LeaseInv
  <2>3. procs[q].todo[m][1] \in Syncs /\ Live(q, m)
    BY <2>2, Entries DEF ClaimsLast
  <2>4. procs[q].todo[m][1] # Row(p) \/ rows'[Row(p)] = rows[Row(p)]
    <3>1. SUFFICES ASSUME procs[q].todo[m][1] = Row(p), HoldsLease(p) PROVE FALSE
      BY <1>4
    <3>2. Live(p, 1)
      BY <3>1 DEF HoldsLease, Live, Row
    <3>3. p = q
      BY <1>2, <2>2, <2>3, <3>2 DEF OneHolder
    <3>4. QED BY <1>2, <2>1, <3>1, <3>3 DEF WorkersOrdered, Row
  <2>5. QED BY <1>4, <2>1, <2>3, <2>4
<1>7. \A s \in Syncs : rows'[s].status = "running" =>
        rows[s].status = "running" /\ rows'[s].lease = rows[s].lease
  BY <1>2, <1>4
<1>8. QED BY <1>1, <1>5, <1>6, <1>7, HoldersShrink

LEMMA NextLeases == Ordered /\ LeaseInv /\ [Next]_vars => LeaseInv'
<1> SUFFICES ASSUME Ordered, LeaseInv, [Next]_vars PROVE LeaseInv'
  OBVIOUS
<1>1. ASSUME UNCHANGED <<rows, procs, outlived>> PROVE LeaseInv'
  BY <1>1 DEF LeaseInv, OneHolder, ClaimsLast, Live
<1>2. CASE Next
  BY <1>1, <1>2, RowStepsKeepLeases, ClaimKeepsLeases, WalkKeepsLeases, LettingGoKeepsLeases
     DEF Next, Polling, Syncing, Touch, Decide, LimitPasses, worker
<1>3. CASE UNCHANGED vars
  BY <1>1, <1>3 DEF vars, worker
<1>4. QED BY <1>2, <1>3

LEMMA AlwaysLeased == Spec => [](Ordered /\ LeaseInv)
<1>1. Init => Ordered /\ LeaseInv
  BY InitOrdered, InitLeases
<1>2. Ordered /\ LeaseInv /\ [Next]_vars => (Ordered /\ LeaseInv)'
  BY NextOrdered, NextLeases
<1>3. QED BY <1>1, <1>2, PTL DEF Spec

\* A source has one writer, whatever lapses, as long as a claim takes every row whose turn it is;
\* with a smaller batch, as long as no lease lapses under its holder.
THEOREM WriterIsAlone == Spec => [](BatchTakesAll \/ ~outlived => SoleWriter)
<1>1. Ordered /\ LeaseInv => (BatchTakesAll \/ ~outlived => SoleWriter)
  <2> SUFFICES ASSUME Ordered, OneHolder, NEW p \in Procs, NEW q \in Procs,
                      Writes(p), Writes(q)
               PROVE  p = q
    BY DEF LeaseInv, SoleWriter
  <2>1. ASSUME NEW r \in Procs, Writes(r) PROVE 1 \in DOMAIN procs[r].todo /\ Live(r, 1)
    <3>1. procs[r].todo # <<>>
      BY <2>1 DEF Ordered, WorkersOrdered, Writes
    <3>2. QED BY <2>1, <3>1, Entries DEF Ordered, Writes, HoldsLease, Row, Live
  <2>2. QED BY <2>1 DEF OneHolder
<1>2. QED BY <1>1, AlwaysLeased, PTL

-----------------------------------------------------------------------------
(* The walk: nothing the cursor has passed is missing.                     *)

LEMMA InitWalk == Init => WalkInv
<1> SUFFICES ASSUME Init PROVE WalkInv
  OBVIOUS
<1>1. at \in [AllItems -> 0..MaxClock] /\ InstantsDiffer
  BY SyncBounds DEF Init, AllItems, InstantsDiffer
<1>2. clock >= 0
  BY <1>1, ClockIsNewest, SyncBounds
<1>3. \A i \in Pulls : at[i] \in Nat
  BY <1>1, SyncBounds DEF AllItems
<1>4. cursors["pulls"] = Fresh
  BY DEF Init, StreamNames
<1>5. Walked(cursors["pulls"])
  BY <1>2, <1>3, <1>4 DEF Walked, Fresh, NoPage
<1>6. \A p \in Procs : PullsWalked(procs[p])
  BY DEF Init, PullsWalked, Resting
<1>7. QED BY <1>1, <1>5, <1>6 DEF WalkInv

\* A change on GitHub is newer than all there was, and moves nothing else to the front.
LEMMA TouchIsNewest ==
  ASSUME Ordered, NEW i \in AllItems, Touch(i)
  PROVE  /\ clock \in Nat /\ clock' \in Nat /\ clock < clock'
         /\ at' \in [AllItems -> 0..MaxClock] /\ at'[i] = clock + 1
         /\ \A k \in AllItems : at[k] \in Nat /\ at[k] <= clock /\ (k # i => at'[k] = at[k])
         /\ stored' = stored /\ outlived' = outlived
         /\ \A k \in Pulls : k # i => Rank(k) <= Rank(k)' /\ Rank(k) \in Nat /\ Rank(k)' \in Nat
<1> USE DEF Ordered
<1>1. at \in [AllItems -> 0..MaxClock] /\ MaxClock \in Nat
  BY SyncBounds DEF Shape
<1>2. clock \in 0..MaxClock /\ \A k \in AllItems : at[k] <= clock /\ at[k] \in Nat
  BY <1>1, ClockIsNewest
<1>3. /\ at' = [at EXCEPT ![i] = clock + 1] /\ clock < MaxClock
      /\ stored' = stored /\ outlived' = outlived
  BY DEF Touch, worker
<1>4. /\ at' \in [AllItems -> 0..MaxClock] /\ at'[i] = clock + 1
      /\ \A k \in AllItems : k # i => at'[k] = at[k]
  <2> HIDE DEF clock
  <2>1. QED BY <1>1, <1>2, <1>3
<1>5. clock' \in 0..MaxClock /\ at'[i] <= clock'
  <2>1. clock' \in 0..MaxClock /\ \A k \in AllItems : at'[k] <= clock'
    BY <1>4, NewestExists DEF clock
  <2>2. QED BY <2>1
<1>6. ASSUME NEW k \in Pulls, k # i
      PROVE  Rank(k) <= Rank(k)' /\ Rank(k) \in Nat /\ Rank(k)' \in Nat
  <2> DEFINE before == {j \in Pulls : at[j] > at[k]}
             after == {j \in Pulls : at'[j] > at'[k]}
  <2>1. before \in SUBSET after
    BY <1>2, <1>4, <1>6 DEF AllItems
  <2>2. after \in SUBSET Pulls /\ IsFiniteSet(Pulls)
    BY SyncBounds
  <2>3. Rank(k) = Cardinality(before) + 1 /\ Rank(k)' = Cardinality(after) + 1
    BY DEF Rank
  <2> HIDE DEF before, after
  <2>4. IsFiniteSet(after) /\ Cardinality(after) \in Nat
    BY <2>2, FS_Subset, FS_CardinalityType
  <2>5. Cardinality(before) <= Cardinality(after) /\ Cardinality(before) \in Nat
    BY <2>1, <2>4, FS_Subset, FS_CardinalityType
  <2>6. QED BY <2>3, <2>4, <2>5
<1> HIDE DEF clock
<1>7. QED BY <1>1, <1>2, <1>3, <1>4, <1>5, <1>6

LEMMA TouchKeepsWalked ==
  ASSUME Ordered, NEW i \in AllItems, Touch(i), NEW z \in Place, Walked(z)
  PROVE  Walked(z)'
<1>1. /\ clock \in Nat /\ clock' \in Nat /\ clock < clock' /\ at'[i] = clock + 1
      /\ \A k \in AllItems : at[k] \in Nat /\ (k # i => at'[k] = at[k])
      /\ stored' = stored
      /\ \A k \in Pulls : k # i => Rank(k) <= Rank(k)' /\ Rank(k) \in Nat /\ Rank(k)' \in Nat
  BY TouchIsNewest
<1>2. z.cursor \in Nat /\ z.page \in Nat /\ z.high \in Nat /\ Pulls \subseteq AllItems
  BY DEF Place, AllItems
<1>3. /\ z.cursor <= z.high /\ z.high <= clock /\ z.floor = Never
      /\ (z.page = NoPage => z.high = z.cursor)
      /\ \A k \in Pulls : at[k] > 0 /\ at[k] <= z.cursor => stored[k] = at[k]
      /\ \A k \in Pulls : at[k] > 0 /\ at[k] <= z.high =>
           stored[k] = at[k] \/ (z.page # NoPage /\ Rank(k) >= z.page)
  BY DEF Walked, Has
<1>4. z.high <= clock' /\ at'[i] > z.high /\ at'[i] > z.cursor
  BY <1>1, <1>2, <1>3
<1>5. ASSUME NEW k \in Pulls, at'[k] > 0, at'[k] <= z.cursor PROVE stored'[k] = at'[k]
  BY <1>1, <1>2, <1>3, <1>4, <1>5
<1>6. ASSUME NEW k \in Pulls, at'[k] > 0, at'[k] <= z.high
      PROVE  stored'[k] = at'[k] \/ (z.page # NoPage /\ Rank(k)' >= z.page)
  <2>1. k # i /\ at'[k] = at[k]
    BY <1>1, <1>2, <1>4, <1>6
  <2>2. Rank(k) <= Rank(k)' /\ Rank(k) \in Nat /\ Rank(k)' \in Nat
    BY <1>1, <2>1
  <2>3. QED BY <1>1, <1>2, <1>3, <1>6, <2>1, <2>2
<1>7. QED BY <1>3, <1>4, <1>5, <1>6 DEF Walked, Has

LEMMA TouchKeepsPageRead ==
  ASSUME Ordered, NEW i \in AllItems, Touch(i), NEW w \in Worker, PageRead(w)
  PROVE  PageRead(w)'
<1> DEFINE high == Larger(w.base["pulls"].high, w.seen)
<1>1. /\ clock \in Nat /\ clock' \in Nat /\ clock < clock' /\ at'[i] = clock + 1
      /\ \A k \in AllItems : at[k] \in Nat /\ (k # i => at'[k] = at[k])
      /\ stored' = stored
      /\ \A k \in Pulls : k # i => Rank(k) <= Rank(k)' /\ Rank(k) \in Nat /\ Rank(k)' \in Nat
  BY TouchIsNewest
<1>2. w.seen \in Nat /\ w.next \in Nat /\ high \in Nat /\ w.seen <= high /\ Pulls \subseteq AllItems
  <2>1. w.base["pulls"] \in Place /\ w.seen \in Nat /\ w.next \in Nat
    BY DEF Worker, Places, StreamNames
  <2>2. w.base["pulls"].high \in Nat
    BY <2>1 DEF Place
  <2>3. QED BY <2>1, <2>2 DEF Larger, AllItems
<1>3. /\ high <= clock /\ (w.got = None => w.seen = 0)
      /\ w.got # None => /\ w.got \in Pulls /\ w.seen > 0 /\ w.seen <= at[w.got]
                         /\ at[w.got] # w.seen => at[w.got] > high
      /\ \A k \in Pulls : k # w.got /\ at[k] > 0 /\ at[k] <= high =>
           stored[k] = at[k] \/ (w.next # NoPage /\ Rank(k) >= w.next)
  BY DEF PageRead, Has
<1> HIDE DEF high
<1>4. high <= clock' /\ at'[i] > high /\ at'[i] > w.seen
  BY <1>1, <1>2, <1>3
<1>5. w.got # None => /\ w.got \in Pulls /\ w.seen > 0 /\ w.seen <= at'[w.got]
                      /\ at'[w.got] # w.seen => at'[w.got] > high
  <2>1. CASE w.got = i
    BY <1>1, <1>2, <1>3, <1>4, <2>1
  <2>2. CASE w.got # i
    BY <1>1, <1>2, <1>3, <2>2
  <2>3. QED BY <2>1, <2>2
<1>6. ASSUME NEW k \in Pulls, k # w.got, at'[k] > 0, at'[k] <= high
      PROVE  stored'[k] = at'[k] \/ (w.next # NoPage /\ Rank(k)' >= w.next)
  <2>1. k # i /\ at'[k] = at[k]
    BY <1>1, <1>2, <1>4, <1>6
  <2>2. Rank(k) <= Rank(k)' /\ Rank(k) \in Nat /\ Rank(k)' \in Nat
    BY <1>1, <2>1
  <2>3. QED BY <1>1, <1>2, <1>3, <1>6, <2>1, <2>2
<1>7. QED BY <1>3, <1>4, <1>5, <1>6 DEF PageRead, Has, high

\* A page of the pull requests: what is on none of those before it is stored or still to come.
LEMMA ListReads ==
  ASSUME Ordered, InstantsDiffer, NEW p \in Procs, procs[p].stream = 1,
         Walked(procs[p].base["pulls"]), NEW w \in Worker, w.base = procs[p].base,
         PageIs(p, w.got, w.seen, w.next)
  PROVE  PageRead(w)
<1> USE DEF Ordered
<1> DEFINE z == procs[p].base["pulls"]
           n == PageOf(p)
           listed == {i \in Ranked("pulls", n) : at[i] >= z.cursor}
           high == Larger(z.high, w.seen)
<1>1. Stream(p) = "pulls" /\ State(p) = z /\ Cutoff(p) = z.cursor /\ n \in Nat \ {0}
  BY PageOfIsPage DEF Cutoff
<1>2. /\ z \in Place /\ z.cursor \in Nat /\ z.page \in Nat /\ z.high \in Nat
      /\ n = IF z.page = NoPage THEN 1 ELSE z.page
  BY <1>1, PageOfIsPage DEF Place, PageOf
<1>3. /\ w.got \in (IF listed = {} THEN {None} ELSE listed)
      /\ w.seen = IF w.got = None THEN 0 ELSE at[w.got]
      /\ w.next = IF listed # {} /\ Ranked("pulls", n + 1) # {} THEN n + 1 ELSE NoPage
  BY <1>1 DEF PageIs
<1>4. /\ z.cursor <= z.high /\ z.high <= clock /\ (z.page = NoPage => z.high = z.cursor)
      /\ \A k \in Pulls : at[k] > 0 /\ at[k] <= z.cursor => Has(k)
      /\ \A k \in Pulls : at[k] > 0 /\ at[k] <= z.high =>
           Has(k) \/ (z.page # NoPage /\ Rank(k) >= z.page)
  BY DEF Walked
<1>5. /\ at \in [AllItems -> 0..MaxClock] /\ clock \in Nat
      /\ \A k \in Pulls : at[k] \in Nat /\ at[k] <= clock /\ k # None
  <2>1. at \in [AllItems -> 0..MaxClock] /\ MaxClock \in Nat /\ None \notin AllItems
    BY SyncBounds DEF Shape, AllItems, None
  <2>2. QED BY <2>1, ClockIsNewest DEF AllItems
<1>6. ASSUME NEW k \in Nat, NEW i \in Pulls, at[i] > 0, Rank(i) = k
      PROVE  i \in Ranked("pulls", k)
  <2>1. Cardinality({j \in Pulls : at[j] > at[i]}) = k - 1
    BY <1>6, RanksFinite DEF Rank
  <2>2. QED BY <1>6, <2>1 DEF Ranked, Items
<1>7. ASSUME NEW k \in Nat, NEW i \in Ranked("pulls", k)
      PROVE  i \in Pulls /\ at[i] > 0 /\ Rank(i) = k
  <2>1. /\ i \in Pulls /\ at[i] > 0
        /\ Cardinality({j \in Pulls : at[j] > at[i]}) = k - 1
    BY <1>7 DEF Ranked, Items
  <2>2. QED BY <1>7, <2>1 DEF Rank
<1>8. \A k \in Pulls : Rank(k) \in Nat \ {0}
  BY RanksFinite
<1>9. w.got # None => w.got \in Pulls /\ at[w.got] > 0 /\ Rank(w.got) = n /\ w.seen = at[w.got]
  <2>1. w.got # None => w.got \in Ranked("pulls", n)
    BY <1>3
  <2>2. QED BY <1>1, <1>3, <1>7, <2>1
<1>10. high \in Nat /\ high <= clock /\ w.seen \in Nat /\ w.seen <= high /\ z.high <= high
  <2>1. w.seen \in Nat /\ w.seen <= clock
    <3>1. CASE w.got = None
      BY <1>3, <1>5, <3>1
    <3>2. CASE w.got # None
      BY <1>5, <1>9, <3>2
    <3>3. QED BY <3>1, <3>2
  <2>2. z.high \in Nat /\ z.high <= clock
    BY <1>2, <1>4
  <2>3. QED BY <1>5, <2>1, <2>2 DEF Larger
\* Whoever is neither stored nor got is behind this page.
<1>11. ASSUME NEW k \in Pulls, k # w.got, at[k] > 0, at[k] <= high, ~Has(k)
       PROVE  Rank(k) >= n
  <2>1. at[k] > z.cursor
    BY <1>2, <1>4, <1>5, <1>11
  <2>2. CASE at[k] <= z.high
    BY <1>2, <1>4, <1>11, <2>1, <2>2
  <2>3. CASE at[k] > z.high
    <3>1. w.got # None /\ at[k] <= at[w.got]
      <4>1. at[k] \in Nat /\ z.high \in Nat /\ w.seen \in Nat
        BY <1>2, <1>5, <1>10
      <4>2. at[k] <= w.seen
        BY <1>11, <2>3, <4>1 DEF Larger
      <4>3. w.got # None
        BY <1>3, <1>11, <4>1, <4>2
      <4>4. QED BY <1>3, <4>2, <4>3
    <3>2. at[k] < at[w.got]
      BY <1>5, <1>9, <1>11, <3>1 DEF InstantsDiffer
    <3>3. QED BY <1>1, <1>5, <1>8, <1>9, <3>1, <3>2, NewerIsInFront
  <2>4. QED BY <1>2, <1>5, <2>2, <2>3
\* So its place is a later one, and there is a page there.
<1>12. ASSUME NEW k \in Pulls, k # w.got, at[k] > 0, at[k] <= high, ~Has(k)
       PROVE  w.next # NoPage /\ Rank(k) >= w.next
  <2>1. PICK j \in Pulls : at[j] >= at[k] /\ Rank(j) = n
    BY <1>1, <1>5, <1>11, <1>12, ListHasNoGap
  <2>2. j \in Ranked("pulls", n) /\ at[j] >= z.cursor /\ at[j] > 0
    <3>1. at[j] > 0
      BY <1>5, <1>12, <2>1
    <3>2. at[k] > z.cursor
      BY <1>2, <1>4, <1>5, <1>12
    <3>3. QED BY <1>1, <1>2, <1>5, <1>6, <2>1, <3>1, <3>2
  <2>3. listed # {} /\ w.got # None
    BY <1>3, <1>5, <1>7, <1>1, <2>2
  <2>4. Rank(k) # n
    <3> SUFFICES ASSUME Rank(k) = n PROVE FALSE
      OBVIOUS
    <3>1. at[k] # at[w.got]
      BY <1>9, <1>12, <2>3 DEF InstantsDiffer
    <3>2. at[k] > at[w.got] \/ at[w.got] > at[k]
      BY <1>5, <1>9, <2>3, <3>1
    <3>3. QED BY <1>1, <1>5, <1>9, <2>3, <3>2, NewerIsInFront
  <2>5. Rank(k) >= n + 1
    BY <1>1, <1>8, <1>11, <1>12, <2>4
  <2>6. Ranked("pulls", n + 1) # {}
    <3>1. n + 1 \in Nat \ {0}
      BY <1>1
    <3>2. PICK m \in Pulls : at[m] >= at[k] /\ Rank(m) = n + 1
      BY <1>5, <1>12, <2>5, <3>1, ListHasNoGap
    <3>3. at[m] > 0
      BY <1>5, <1>12, <3>2
    <3>4. QED BY <1>6, <3>1, <3>2, <3>3
  <2>7. w.next = n + 1
    BY <1>3, <2>3, <2>6
  <2>8. QED BY <1>1, <2>5, <2>7 DEF NoPage
<1> HIDE DEF high, listed, n
<1>13. w.base["pulls"] = z
  OBVIOUS
<1>14. high = Larger(w.base["pulls"].high, w.seen)
  BY <1>13 DEF high
<1>15. QED BY <1>3, <1>9, <1>10, <1>12, <1>14 DEF PageRead

\* What a write stores of the pull requests: the item that was listed, as it was.
LEMMA WriteStores ==
  ASSUME Ordered, NEW p \in Procs, Write(p)
  PROVE  /\ \A k \in Pulls : k # procs[p].got => stored'[k] = stored[k]
         /\ procs[p].got \in Pulls => stored'[procs[p].got] = procs[p].seen
<1> DEFINE got == procs[p].got
<1>1. stored \in [AllItems -> Nat] /\ Pulls \subseteq AllItems
  BY DEF Ordered, Shape, AllItems
<1>2. stored' = stored \/ stored' = [stored EXCEPT ![got] = procs[p].seen]
  BY DEF Write
<1>3. got \in Pulls => stored' = [stored EXCEPT ![got] = procs[p].seen]
  <2>1. got \in Pulls => got # None /\ got \notin Deploys
    BY SyncBounds DEF None
  <2>2. QED BY <2>1 DEF Write, IsPending
<1> HIDE DEF got
<1>4. \A k \in Pulls : k # got => stored'[k] = stored[k]
  BY <1>1, <1>2
<1>5. got \in Pulls => stored'[got] = procs[p].seen
  BY <1>1, <1>3
<1>6. QED BY <1>4, <1>5 DEF got

\* The place the stream was read from stays walked while its page is written.
LEMMA WriteKeepsPlace ==
  ASSUME Ordered, NEW p \in Procs, Write(p), procs[p].stream = 1, PageRead(procs[p]),
         Walked(procs[p].base["pulls"])
  PROVE  /\ \A k \in Pulls : at[k] <= Larger(procs[p].base["pulls"].high, procs[p].seen) /\ Has(k) =>
              stored'[k] = at[k]
         /\ procs[p].got \in Pulls /\ at[procs[p].got] <= Larger(procs[p].base["pulls"].high, procs[p].seen) =>
              stored'[procs[p].got] = at[procs[p].got]
<1> DEFINE got == procs[p].got
           seen == procs[p].seen
           high == Larger(procs[p].base["pulls"].high, seen)
<1>1. /\ \A k \in Pulls : k # got => stored'[k] = stored[k]
      /\ got \in Pulls => stored'[got] = seen
  BY WriteStores
<1>2. \A k \in Pulls : at[k] \in Nat /\ k # None
  BY SyncBounds DEF Ordered, Shape, AllItems, None
<1>3. high \in Nat
  <2>1. procs[p].base["pulls"].high \in Nat /\ seen \in Nat
    BY Fields DEF Ordered, Place, StreamNames
  <2>2. QED BY <2>1 DEF Larger
<1>4. got \in Pulls /\ at[got] # seen => at[got] > high
  BY <1>2 DEF PageRead
<1>5. got \in Pulls /\ at[got] <= high => stored'[got] = at[got]
  <2> HIDE DEF got, seen, high
  <2>1. QED BY <1>1, <1>2, <1>3, <1>4
<1>6. \A k \in Pulls : at[k] <= high /\ Has(k) => stored'[k] = at[k]
  <2> HIDE DEF got, seen, high
  <2>1. QED BY <1>1, <1>5 DEF Has
<1>7. QED BY <1>5, <1>6

LEMMA WriteKeepsWalked ==
  ASSUME Ordered, NEW p \in Procs, Write(p), procs[p].stream = 1, PageRead(procs[p]),
         NEW z \in Place, z = procs[p].base["pulls"], Walked(z)
  PROVE  Walked(z)'
<1> DEFINE high == Larger(procs[p].base["pulls"].high, procs[p].seen)
<1>1. /\ \A k \in Pulls : at[k] <= high /\ Has(k) => stored'[k] = at[k]
      /\ procs[p].got \in Pulls /\ at[procs[p].got] <= high =>
           stored'[procs[p].got] = at[procs[p].got]
  BY WriteKeepsPlace
<1>2. at' = at /\ clock' = clock
  BY DEF Write, github, clock
<1>3. \A k \in Pulls : at[k] \in Nat /\ Rank(k)' = Rank(k)
  BY <1>2, SyncBounds DEF Ordered, Shape, AllItems, Rank
<1>4. z.high \in Nat /\ z.cursor \in Nat /\ high \in Nat /\ z.high <= high
  <2>1. z.high \in Nat /\ z.cursor \in Nat /\ procs[p].seen \in Nat
    BY Fields DEF Ordered, Place
  <2>2. QED BY <2>1 DEF Larger
<1>5. /\ z.cursor <= z.high /\ z.high <= clock /\ z.floor = Never
      /\ (z.page = NoPage => z.high = z.cursor)
      /\ \A k \in Pulls : at[k] > 0 /\ at[k] <= z.cursor => Has(k)
      /\ \A k \in Pulls : at[k] > 0 /\ at[k] <= z.high =>
           Has(k) \/ (z.page # NoPage /\ Rank(k) >= z.page)
  BY DEF Walked
<1> HIDE DEF high
<1>6. \A k \in Pulls : at[k] > 0 /\ at[k] <= z.cursor => stored'[k] = at[k]
  BY <1>1, <1>3, <1>4, <1>5
<1>7. \A k \in Pulls : at[k] > 0 /\ at[k] <= z.high =>
        stored'[k] = at[k] \/ (z.page # NoPage /\ Rank(k)' >= z.page)
  BY <1>1, <1>3, <1>4, <1>5
<1>8. QED BY <1>2, <1>5, <1>6, <1>7 DEF Walked, Has

\* The place the stream moves to is walked: what the page left out is stored or on a later page.
LEMMA WriteAdvances ==
  ASSUME Ordered, NEW p \in Procs, Write(p), procs[p].stream = 1, PageRead(procs[p]),
         Walked(procs[p].base["pulls"]), NEW a, a = Advanced(p)
  PROVE  Walked(a)'
<1> USE DEF Ordered
<1> DEFINE z == procs[p].base["pulls"]
           seen == procs[p].seen
           got == procs[p].got
           next == procs[p].next
           high == Larger(z.high, seen)
<1>1. State(p) = z /\ z \in Place
  BY PageOfIsPage
<1>2. /\ z.cursor \in Nat /\ z.high \in Nat /\ seen \in Nat /\ next \in Nat
      /\ high \in Nat /\ z.high <= high
  <2>1. z.cursor \in Nat /\ z.high \in Nat /\ seen \in Nat /\ next \in Nat
    BY <1>1, Fields DEF Place
  <2>2. QED BY <2>1 DEF Larger
<1>3. z.cursor <= z.high /\ z.floor = Never
      /\ \A k \in Pulls : at[k] > 0 /\ at[k] <= z.cursor => Has(k)
  BY DEF Walked
<1>4. /\ high <= clock
      /\ \A k \in Pulls : k # got /\ at[k] > 0 /\ at[k] <= high =>
           Has(k) \/ (next # NoPage /\ Rank(k) >= next)
      /\ got # None => got \in Pulls
  BY DEF PageRead
<1>5. /\ \A k \in Pulls : at[k] <= high /\ Has(k) => stored'[k] = at[k]
      /\ got \in Pulls /\ at[got] <= high => stored'[got] = at[got]
  BY WriteKeepsPlace
<1>6. at' = at /\ clock' = clock
  BY DEF Write, github, clock
<1>7. \A k \in Pulls : at[k] \in Nat /\ Rank(k)' = Rank(k)
  BY <1>6, SyncBounds DEF Shape, AllItems, Rank
<1>8. clock \in Nat /\ clock < Never /\ Never \in Nat
  <2>1. clock \in 0..MaxClock /\ MaxClock \in Nat
    BY ClockIsNewest, SyncBounds DEF Shape
  <2>2. QED BY <2>1 DEF Never
<1>9. ~(got # None /\ IsPending(got))
  BY <1>4, SyncBounds DEF IsPending
<1>10. a = AdvanceStream(z, next, seen, Never)
  BY <1>1, <1>9 DEF Advanced
<1> HIDE DEF got, next, seen
<1>11. \A k \in Pulls : at[k] > 0 /\ at[k] <= high =>
         stored'[k] = at[k] \/ (next # NoPage /\ Rank(k)' >= next)
  BY <1>4, <1>5, <1>7
<1>12. \A k \in Pulls : at[k] > 0 /\ at[k] <= z.cursor => stored'[k] = at[k]
  BY <1>2, <1>3, <1>5, <1>7
<1>13. CASE next # NoPage
  <2>1. Smaller(Never, Never) = Never
    BY DEF Smaller
  <2>2. a = [cursor |-> z.cursor, page |-> next, high |-> high, floor |-> Never]
    BY <1>3, <1>10, <1>13, <2>1 DEF AdvanceStream
  <2>3. /\ a.cursor = z.cursor /\ a.page = next /\ a.high = high /\ a.floor = Never
    BY <2>2
  <2> HIDE DEF high, z
  <2>4. a.cursor <= a.high
    BY <1>2, <1>3, <2>3
  <2>5. QED BY <1>4, <1>6, <1>11, <1>12, <1>13, <2>3, <2>4 DEF Walked, Has
<1>14. CASE next = NoPage
  <2>1. Larger(z.cursor, Smaller(high, Smaller(Never, Never))) = high
    <3> HIDE DEF high, z
    <3>1. QED BY <1>2, <1>3, <1>4, <1>8 DEF Smaller, Larger
  <2>2. a = [cursor |-> high, page |-> NoPage, high |-> high, floor |-> Never]
    BY <1>3, <1>10, <1>14, <2>1 DEF AdvanceStream
  <2>3. a.cursor = high /\ a.page = NoPage /\ a.high = high /\ a.floor = Never
    BY <2>2
  <2> HIDE DEF high, z
  <2>4. QED BY <1>2, <1>4, <1>6, <1>11, <1>14, <2>3 DEF Walked, Has
<1>15. QED BY <1>13, <1>14

-----------------------------------------------------------------------------
\* While no lease is outlived, one process at most has rows.
LEMMA OneWalker ==
  ASSUME Ordered, LeaseInv, ~outlived, NEW p \in Procs, NEW q \in Procs,
         procs[p].todo # <<>>, procs[q].todo # <<>>
  PROVE  p = q
<1>1. 1 \in DOMAIN procs[p].todo /\ 1 \in DOMAIN procs[q].todo
  BY Entries DEF Ordered
<1>2. QED BY <1>1 DEF LeaseInv, OneHolder, ClaimsLast

\* A worker that is not reading or writing a stream walks nothing.
LEMMA StillWorkers ==
  ASSUME NEW w, w.step \in {"idle", "prepare", "finish"} \/ (w.stream = 2 /\ w.step # "write")
  PROVE  PullsWalked(w) /\ PullsWalked(w)'
  BY DEF PullsWalked

\* Steps that leave GitHub and the database alone.
LEMMA Unmoved ==
  ASSUME UNCHANGED <<at, stored>>
  PROVE  clock' = clock /\ \A k \in Pulls : (Rank(k)' = Rank(k)) /\ (Has(k)' <=> Has(k))
  BY DEF clock, Rank, Has

LEMMA IdleSteps ==
  ASSUME WalkInv, UNCHANGED <<at, stored>>, cursors'["pulls"] = cursors["pulls"],
         outlived => outlived',
         \A q \in Procs : procs'[q] = procs[q] \/ PullsWalked(procs[q])'
  PROVE  WalkInv'
<1>1. InstantsDiffer'
  BY DEF WalkInv, InstantsDiffer
<1>2. ASSUME ~outlived'
      PROVE  Walked(cursors["pulls"])' /\ \A q \in Procs : PullsWalked(procs[q])'
  <2>1. Walked(cursors["pulls"]) /\ \A q \in Procs : PullsWalked(procs[q])
    BY <1>2 DEF WalkInv
  <2>2. Walked(cursors["pulls"])'
    BY <2>1, Unmoved DEF Walked
  <2>3. ASSUME NEW q \in Procs, procs'[q] = procs[q] PROVE PullsWalked(procs[q])'
    <3>1. PullsWalked(procs[q]) /\ clock' = clock
          /\ \A k \in Pulls : (Rank(k)' = Rank(k)) /\ (Has(k)' <=> Has(k))
      BY <2>1, Unmoved
    <3>2. PageRead(procs[q]) => PageRead(procs[q])'
      BY <2>3, <3>1 DEF PageRead
    <3>3. Walked(procs[q].base["pulls"]) => Walked(procs[q].base["pulls"])'
      BY <2>3, <3>1 DEF Walked
    <3>4. QED BY <2>3, <3>1, <3>2, <3>3 DEF PullsWalked
  <2>4. QED BY <2>2, <2>3
<1>3. QED BY <1>1, <1>2 DEF WalkInv

LEMMA TouchKeepsWalk ==
  ASSUME Ordered, WalkInv, NEW i \in AllItems, Touch(i) PROVE WalkInv'
<1>1. /\ clock \in Nat /\ at'[i] = clock + 1 /\ outlived' = outlived
      /\ \A k \in AllItems : at[k] \in Nat /\ at[k] <= clock /\ (k # i => at'[k] = at[k])
  BY TouchIsNewest
<1>2. procs' = procs /\ cursors' = cursors
  BY DEF Touch, worker
<1>3. InstantsDiffer'
  <2> SUFFICES ASSUME NEW j \in Pulls, NEW k \in Pulls, at'[j] > 0, at'[j] = at'[k] PROVE j = k
    BY DEF InstantsDiffer
  <2>1. j = i <=> k = i
    BY <1>1 DEF AllItems
  <2>2. QED BY <1>1, <2>1 DEF WalkInv, InstantsDiffer, AllItems
<1>4. ASSUME ~outlived'
      PROVE  Walked(cursors["pulls"])' /\ \A q \in Procs : PullsWalked(procs[q])'
  <2>1. Walked(cursors["pulls"]) /\ \A q \in Procs : PullsWalked(procs[q])
    BY <1>1, <1>4 DEF WalkInv
  <2>2. \A z \in Place : Walked(z) => Walked(z)'
    BY TouchKeepsWalked
  <2>3. \A w \in Worker : PageRead(w) => PageRead(w)'
    BY TouchKeepsPageRead
  <2>4. cursors["pulls"] \in Place
    BY Fields DEF Ordered, StreamNames
  <2>5. Walked(cursors["pulls"])'
    BY <1>2, <2>1, <2>2, <2>4
  <2>6. ASSUME NEW q \in Procs PROVE PullsWalked(procs[q])'
    <3>1. procs[q] \in Worker /\ procs[q].base["pulls"] \in Place
      BY Fields DEF Ordered, Shape, StreamNames
    <3>2. PullsWalked(procs[q])
      BY <2>1
    <3>3. Walked(procs[q].base["pulls"]) => Walked(procs[q].base["pulls"])'
      BY <1>2, <2>2, <3>1
    <3>4. PageRead(procs[q]) => PageRead(procs[q])'
      BY <1>2, <2>3, <3>1
    <3>5. QED BY <1>2, <3>2, <3>3, <3>4 DEF PullsWalked
  <2>7. QED BY <2>5, <2>6
<1>5. QED BY <1>3, <1>4 DEF WalkInv

\* A worker that waits, finishes or reads the other stream has nothing of this one to keep.
LEMMA RestingWalk ==
  ASSUME NEW q \in Procs,
         \/ procs'[q].step \in {"idle", "prepare", "finish"}
         \/ procs'[q].stream = 2 /\ procs'[q].step # "write"
  PROVE  PullsWalked(procs[q])'
  BY DEF PullsWalked

\* The other processes of a source that is being walked have nothing in hand.
LEMMA OthersRest ==
  ASSUME Ordered, LeaseInv, ~outlived, NEW p \in Procs, procs[p].todo # <<>>
  PROVE  \A q \in Procs : q # p => procs[q].step = "idle"
<1> SUFFICES ASSUME NEW q \in Procs, q # p, procs[q].step # "idle" PROVE FALSE
  OBVIOUS
<1>1. procs[q].todo # <<>>
  BY DEF Ordered, WorkersOrdered
<1>2. QED BY <1>1, OneWalker

LEMMA PrepareKeepsWalk ==
  ASSUME Ordered, WalkInv, NEW p \in Procs, Prepare(p) PROVE WalkInv'
<1>1. PICK w \in Worker : /\ Becomes(p, w) /\ w.step = "list" /\ w.stream = 1
                          /\ w.base = cursors
  BY Preparing
<1>2. UNCHANGED <<at, stored, cursors, outlived>>
  BY DEF Prepare, github
<1>3. procs'[p] = w /\ \A q \in Procs : q # p => procs'[q] = procs[q]
  BY <1>1 DEF Becomes, Ordered, Shape
<1>4. PullsWalked(procs[p])'
  BY <1>1, <1>2, <1>3 DEF PullsWalked
<1>5. QED BY <1>2, <1>3, <1>4, IdleSteps

LEMMA ListKeepsWalk ==
  ASSUME Ordered, WalkInv, NEW p \in Procs, List(p) PROVE WalkInv'
<1>1. PICK w \in Worker : /\ Becomes(p, w) /\ w.step = "write"
                          /\ w.stream = procs[p].stream /\ w.base = procs[p].base
                          /\ PageIs(p, w.got, w.seen, w.next)
  BY Listing
<1>2. UNCHANGED <<at, stored, cursors, outlived>> /\ procs[p].step = "list"
  BY DEF List, github
<1>3. procs'[p] = w /\ \A q \in Procs : q # p => procs'[q] = procs[q]
  BY <1>1 DEF Becomes, Ordered, Shape
<1>4. CASE outlived
  BY <1>2, <1>4 DEF WalkInv, InstantsDiffer
<1>5. CASE ~outlived /\ procs[p].stream = 1
  <2>1. InstantsDiffer /\ Walked(cursors["pulls"]) /\ PullsWalked(procs[p])
    BY <1>5 DEF WalkInv
  <2>2. procs[p].base["pulls"] = cursors["pulls"]
    BY <1>2, <1>5, <2>1 DEF PullsWalked
  <2>3. PageRead(w)
    BY <1>1, <1>5, <2>1, <2>2, ListReads
  <2>4. PageRead(procs[p])'
    BY <1>2, <1>3, <2>3, Unmoved DEF PageRead
  <2>5. PullsWalked(procs[p])'
    BY <1>1, <1>2, <1>3, <1>5, <2>2, <2>4 DEF PullsWalked
  <2>6. QED BY <1>2, <1>3, <2>5, IdleSteps
<1>6. CASE ~outlived /\ procs[p].stream # 1
  <2>1. procs[p].stream = 2 /\ Stream(p) = "deploys"
    BY <1>6, Fields, PageOfIsPage DEF Ordered
  <2>2. w.got = None \/ w.got \in Deploys
    BY <1>1, <2>1 DEF PageIs, Ranked, Items
  <2>3. w.got \notin Pulls
    BY <2>2, SyncBounds DEF None
  <2>4. PullsWalked(procs[p])'
    BY <1>1, <1>3, <2>1, <2>3 DEF PullsWalked
  <2>5. QED BY <1>2, <1>3, <2>4, IdleSteps
<1>7. QED BY <1>4, <1>5, <1>6

LEMMA WriteKeepsWalk ==
  ASSUME Ordered, LeaseInv, WalkInv, NEW p \in Procs, Write(p) PROVE WalkInv'
<1>1. PICK w \in Worker : /\ Becomes(p, w) /\ w.step = "save" /\ w.stream = procs[p].stream
                          /\ w.base = [procs[p].base EXCEPT ![Stream(p)] = Advanced(p)]
  BY Writing
<1>2. UNCHANGED <<at, cursors, outlived>> /\ procs[p].step = "write" /\ procs[p].todo # <<>>
  BY DEF Write, github, Ordered, WorkersOrdered
<1>3. procs'[p] = w /\ \A q \in Procs : q # p => procs'[q] = procs[q]
  BY <1>1 DEF Becomes, Ordered, Shape
<1>4. InstantsDiffer'
  BY <1>2 DEF WalkInv, InstantsDiffer
<1> SUFFICES ASSUME ~outlived
             PROVE  Walked(cursors["pulls"])' /\ PullsWalked(procs[p])'
  <2>1. ASSUME ~outlived, NEW q \in Procs, q # p PROVE PullsWalked(procs[q])'
    BY <1>2, <1>3, <2>1, OthersRest, RestingWalk
  <2>2. QED BY <1>2, <1>4, <2>1 DEF WalkInv
<1>5. Walked(cursors["pulls"]) /\ PullsWalked(procs[p])
  BY DEF WalkInv
<1>6. cursors["pulls"] \in Place
  BY Fields DEF Ordered, StreamNames
<1>7. CASE procs[p].stream = 1
  <2>1. procs[p].base["pulls"] = cursors["pulls"] /\ PageRead(procs[p])
    BY <1>2, <1>5, <1>7 DEF PullsWalked
  <2>2. \A z \in Place : z = procs[p].base["pulls"] /\ Walked(z) => Walked(z)'
    BY <1>7, <2>1, WriteKeepsWalked
  <2>3. Walked(cursors["pulls"])'
    BY <1>2, <1>5, <1>6, <2>1, <2>2
  <2>4. \A a : a = Advanced(p) => Walked(a)'
    BY <1>5, <1>7, <2>1, WriteAdvances
  <2>5. w.base["pulls"] = Advanced(p)
    <3>1. Stream(p) = "pulls" /\ procs[p].base \in Places
      BY <1>7, PageOfIsPage, Fields DEF Ordered
    <3>2. QED BY <1>1, <3>1 DEF Places, StreamNames
  <2>6. Walked(procs[p].base["pulls"])'
    BY <1>3, <2>4, <2>5
  <2>7. PullsWalked(procs[p])'
    BY <1>1, <1>3, <1>7, <2>6 DEF PullsWalked
  <2>8. QED BY <2>3, <2>7
<1>8. CASE procs[p].stream # 1
  <2>1. procs[p].stream = 2
    BY <1>8, Fields DEF Ordered
  <2>2. procs[p].got \notin Pulls
    BY <1>2, <1>5, <2>1 DEF PullsWalked
  <2>3. \A k \in Pulls : stored'[k] = stored[k]
    BY <2>2, WriteStores
  <2>4. clock' = clock /\ \A k \in Pulls : (Rank(k)' = Rank(k)) /\ (Has(k)' <=> Has(k))
    BY <1>2, <2>3 DEF clock, Rank, Has
  <2>5. Walked(cursors["pulls"])'
    BY <1>2, <1>5, <2>4 DEF Walked
  <2>6. PullsWalked(procs[p])'
    BY <1>1, <1>3, <2>1, RestingWalk
  <2>7. QED BY <2>5, <2>6
<1>9. QED BY <1>7, <1>8

LEMMA SaveKeepsWalk ==
  ASSUME Ordered, LeaseInv, WalkInv, NEW p \in Procs, Save(p) PROVE WalkInv'
<1>1. PICK w \in Worker :
              /\ Becomes(p, w) /\ w.base = procs[p].base
              /\ procs[p].stream = 1 => w.step = "list" /\ w.stream = 2
              /\ procs[p].stream = 2 => w.step = "finish" /\ w.stream = 1
  BY Saving
<1>2. UNCHANGED <<at, stored, outlived>> /\ procs[p].step = "save" /\ procs[p].todo # <<>>
  BY DEF Save, github, Ordered, WorkersOrdered
<1>3. /\ procs'[p] = w /\ procs[p].stream \in {1, 2}
      /\ \A q \in Procs : q # p => procs'[q] = procs[q]
  BY <1>1, Fields DEF Becomes, Ordered, Shape
<1>4. PullsWalked(procs[p])'
  BY <1>1, <1>3, RestingWalk
<1>5. CASE procs[p].stream = 2
  <2>1. cursors'["pulls"] = cursors["pulls"]
    BY <1>5, Saving, PageOfIsPage DEF Ordered, StreamNames
  <2>2. QED BY <1>2, <1>3, <1>4, <2>1, IdleSteps
<1>6. CASE procs[p].stream = 1
  <2>1. InstantsDiffer'
    BY <1>2 DEF WalkInv, InstantsDiffer
  <2> SUFFICES ASSUME ~outlived
               PROVE  Walked(cursors["pulls"])'
    <3>1. ASSUME ~outlived, NEW q \in Procs, q # p PROVE PullsWalked(procs[q])'
      BY <1>2, <1>3, <3>1, OthersRest, RestingWalk
    <3>2. QED BY <1>2, <1>4, <2>1, <3>1 DEF WalkInv
  <2>2. Walked(cursors["pulls"]) /\ Walked(procs[p].base["pulls"])
    BY <1>2, <1>6 DEF WalkInv, PullsWalked
  <2>3. cursors'["pulls"] = procs[p].base["pulls"] \/ cursors'["pulls"] = cursors["pulls"]
    BY <1>6, Saving, PageOfIsPage DEF Ordered
  <2>4. QED BY <1>2, <2>2, <2>3, Unmoved DEF Walked
<1>7. QED BY <1>3, <1>5, <1>6

LEMMA OtherStepsKeepWalk ==
  ASSUME Ordered, WalkInv,
         \/ \E d \in Deploys : Decide(d)
         \/ LimitPasses
         \/ \E s \in Syncs : Queue(s) \/ TimePasses(s) \/ Lapses(s)
         \/ \E p \in Procs : Polling(p) \/ Finish(p) \/ Abandon(p) \/ Fails(p) \/ Crash(p)
         \/ UNCHANGED vars
  PROVE  WalkInv'
<1>1. UNCHANGED <<at, stored, cursors>> /\ (outlived => outlived')
  <2>1. ASSUME NEW d \in Deploys, Decide(d)
        PROVE  UNCHANGED <<at, stored, cursors>> /\ (outlived => outlived')
    BY <2>1 DEF Decide, worker
  <2>2. CASE LimitPasses
    BY <2>2 DEF LimitPasses, github
  <2>3. ASSUME NEW s \in Syncs, Queue(s) \/ TimePasses(s) \/ Lapses(s)
        PROVE  UNCHANGED <<at, stored, cursors>> /\ (outlived => outlived')
    <3>1. CASE Queue(s)
      BY <3>1 DEF Queue, github
    <3>2. CASE TimePasses(s)
      BY <3>2 DEF TimePasses, github
    <3>3. CASE Lapses(s)
      BY <3>3 DEF Lapses, github
    <3>4. QED BY <2>3, <3>1, <3>2, <3>3
  <2>4. ASSUME NEW p \in Procs, Polling(p) \/ Finish(p) \/ Abandon(p) \/ Fails(p) \/ Crash(p)
        PROVE  UNCHANGED <<at, stored, cursors>> /\ (outlived => outlived')
    <3>1. CASE Polling(p)
      BY <3>1 DEF Polling, Exhaust, Claim, github
    <3>2. CASE Finish(p)
      BY <3>2 DEF Finish, github
    <3>3. CASE Abandon(p)
      BY <3>3 DEF Abandon, github
    <3>4. CASE Fails(p)
      BY <3>4 DEF Fails, github
    <3>5. CASE Crash(p)
      BY <3>5 DEF Crash, github
    <3>6. QED BY <2>4, <3>1, <3>2, <3>3, <3>4, <3>5
  <2>5. CASE UNCHANGED vars
    BY <2>5 DEF vars, worker, github
  <2>6. QED BY <2>1, <2>2, <2>3, <2>4, <2>5
<1>2. CASE UNCHANGED procs
  BY <1>1, <1>2, IdleSteps
<1>3. ASSUME NEW p \in Procs, Claim(p) \/ Finish(p) \/ Abandon(p) \/ Fails(p) \/ Crash(p)
      PROVE  /\ procs'[p].step \in {"idle", "prepare", "finish"}
             /\ \A q \in Procs : q # p => procs'[q] = procs[q]
  <2>1. CASE Claim(p)
    <3>1. PICK batch, new : Takes(p, batch, new)
      BY <2>1, ClaimTakes DEF Ordered
    <3>2. procs' = [procs EXCEPT ![p].step = "prepare", ![p].todo = new] /\ procs[p] \in Worker
      BY <3>1 DEF Takes, Ordered, Shape
    <3>3. QED BY <3>2 DEF Ordered, Shape, Worker
  <2>2. CASE Crash(p)
    BY <2>2 DEF Crash, Ordered, Shape, Resting
  <2>3. CASE Finish(p) \/ Abandon(p) \/ Fails(p)
    <3>1. NextRow(p) /\ procs[p].todo # <<>>
      BY <2>3 DEF Finish, Abandon, Fails, Reading, Ordered, WorkersOrdered
    <3>2. QED BY <3>1, GoesOn DEF Ordered
  <2>4. QED BY <1>3, <2>1, <2>2, <2>3
<1>4. ASSUME NEW p \in Procs, Claim(p) \/ Finish(p) \/ Abandon(p) \/ Fails(p) \/ Crash(p)
      PROVE  WalkInv'
  <2>1. PullsWalked(procs[p])'
    BY <1>3, <1>4, RestingWalk
  <2>2. QED BY <1>1, <1>3, <1>4, <2>1, IdleSteps
<1>5. QED
  BY <1>2, <1>4 DEF Decide, LimitPasses, Queue, TimePasses, Lapses, Polling, Exhaust, vars, worker

LEMMA NextWalk == Ordered /\ LeaseInv /\ WalkInv /\ [Next]_vars => WalkInv'
<1> SUFFICES ASSUME Ordered, LeaseInv, WalkInv, [Next]_vars PROVE WalkInv'
  OBVIOUS
<1>1. QED
  BY TouchKeepsWalk, PrepareKeepsWalk, ListKeepsWalk, WriteKeepsWalk, SaveKeepsWalk,
     OtherStepsKeepWalk
     DEF Next, Syncing, AllItems

\* While no lease is outlived, nothing that the cursor of the pull requests has passed is missing
\* or stale: however a walk is cut by pages, failures and crashes, and however the list shifts
\* under it.
THEOREM WalkSkipsNothing == Spec => []NothingSkipped
<1>1. Init => Ordered /\ LeaseInv /\ WalkInv
  BY InitOrdered, InitLeases, InitWalk
<1>2. Ordered /\ LeaseInv /\ WalkInv /\ [Next]_vars => (Ordered /\ LeaseInv /\ WalkInv)'
  BY NextOrdered, NextLeases, NextWalk
<1>3. WalkInv => NothingSkipped
  BY DEF WalkInv, Walked, Has, NothingSkipped
<1>4. QED BY <1>1, <1>2, <1>3, PTL DEF Spec
=============================================================================
