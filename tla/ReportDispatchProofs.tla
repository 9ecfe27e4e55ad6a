------------------------ MODULE ReportDispatchProofs ------------------------
(***************************************************************************)
(* What the dispatcher guarantees for any number of deliveries, processes, *)
(* attempts and faults, as long as no lease lapses while its holder lives. *)
(***************************************************************************)
EXTENDS ReportDispatch, FiniteSetTheorems, SequenceTheorems, TLAPS

LeasesLast == Outlive = FALSE

Statuses == {"absent", "pending", "sending", "sent", "failed"}

ReportRow == [status : Statuses, attempts : Nat, due : BOOLEAN]
Hand == [id : Deliveries, attempts : Nat]

Shape ==
  /\ rows \in [Deliveries -> ReportRow]
  /\ hands \in [Dispatchers -> Seq(Hand)]
  /\ outcomes \in [Dispatchers -> {"none", "sent", "failed", "pending"}]
  /\ arrived \in [Deliveries -> Nat] /\ faults \in [Deliveries -> Nat]

\* What a dispatcher holds is leased to it, and to it alone.
Leased ==
  /\ \A p \in Dispatchers : \A n \in DOMAIN hands[p] :
       /\ rows[hands[p][n].id].status = "sending" /\ ~rows[hands[p][n].id].due
       /\ rows[hands[p][n].id].attempts = hands[p][n].attempts
  /\ \A p, q \in Dispatchers : \A n \in DOMAIN hands[p], m \in DOMAIN hands[q] :
       hands[p][n].id = hands[q][m].id => p = q /\ n = m
  /\ \A p \in Dispatchers : outcomes[p] # "none" => hands[p] # <<>>

IsHeld(d) == \E p \in Dispatchers : \E n \in DOMAIN hands[p] : hands[p][n].id = d

\* A row that may still be claimed has an attempt and an arrival to spare.
Spare(d) == rows[d].attempts < MaxAttempts + faults[d] /\ arrived[d] <= faults[d]

RowCounted(d) ==
  /\ rows[d].attempts <= MaxAttempts + faults[d] /\ arrived[d] <= 1 + faults[d]
  /\ rows[d].status = "sent" => arrived[d] > 0
  /\ rows[d].status = "absent" => arrived[d] <= faults[d]
  /\ rows[d].status = "pending" => Spare(d)
  /\ rows[d].status = "sending" /\ ~IsHeld(d) => Spare(d)

HandCounted(p, n) ==
  /\ n # 1 \/ outcomes[p] = "none" => arrived[hands[p][n].id] <= faults[hands[p][n].id]
  /\ n = 1 /\ outcomes[p] = "sent" => arrived[hands[p][n].id] > 0
  /\ n = 1 /\ outcomes[p] = "pending" => Spare(hands[p][n].id)

Counted ==
  /\ \A d \in Deliveries : RowCounted(d)
  /\ \A p \in Dispatchers : \A n \in DOMAIN hands[p] : HandCounted(p, n)

DispatchInv == LeasesLast /\ Shape /\ Leased /\ Counted
-----------------------------------------------------------------------------
LEMMA Fields ==
  ASSUME Shape
  PROVE  /\ \A d \in Deliveries : /\ rows[d].status \in Statuses /\ rows[d].attempts \in Nat
                                  /\ rows[d].due \in BOOLEAN
                                  /\ arrived[d] \in Nat /\ faults[d] \in Nat
         /\ \A p \in Dispatchers :
              /\ hands[p] \in Seq(Hand)
              /\ outcomes[p] \in {"none", "sent", "failed", "pending"}
              /\ \A n \in DOMAIN hands[p] :
                   n \in Nat \ {0} /\ hands[p][n].id \in Deliveries /\ hands[p][n].attempts \in Nat
              /\ hands[p] # <<>> => 1 \in DOMAIN hands[p] /\ Head(hands[p]) = hands[p][1]
<1>1. ASSUME NEW d \in Deliveries
      PROVE  /\ rows[d].status \in Statuses /\ rows[d].attempts \in Nat
             /\ rows[d].due \in BOOLEAN /\ arrived[d] \in Nat /\ faults[d] \in Nat
  BY DEF Shape, ReportRow
<1>2. ASSUME NEW p \in Dispatchers
      PROVE  /\ hands[p] \in Seq(Hand)
             /\ outcomes[p] \in {"none", "sent", "failed", "pending"}
  BY DEF Shape
<1>3. ASSUME NEW p \in Dispatchers, NEW n \in DOMAIN hands[p]
      PROVE  n \in Nat \ {0} /\ hands[p][n].id \in Deliveries /\ hands[p][n].attempts \in Nat
  <2>1. n \in Nat \ {0} /\ hands[p][n] \in Hand
    BY <1>2
  <2>2. QED BY <2>1 DEF Hand
<1>4. ASSUME NEW p \in Dispatchers, hands[p] # <<>>
      PROVE  1 \in DOMAIN hands[p] /\ Head(hands[p]) = hands[p][1]
  BY <1>2, <1>4, HeadTailProperties, LenProperties
<1>5. QED BY <1>1, <1>2, <1>3, <1>4

LEMMA InitDispatch == LeasesLast /\ Init => DispatchInv
<1> SUFFICES ASSUME LeasesLast, Init PROVE DispatchInv
  OBVIOUS
<1>1. Shape
  BY DEF Init, Shape, ReportRow, Statuses
<1>2. \A p \in Dispatchers : DOMAIN hands[p] = {} /\ outcomes[p] = "none"
  BY DEF Init
<1>3. Leased
  BY <1>2 DEF Leased
<1>4. Counted
  BY <1>2, DispatchBounds DEF Init, Counted, RowCounted
<1>5. QED BY <1>1, <1>3, <1>4 DEF DispatchInv

LEMMA QueueKeeps ==
  ASSUME DispatchInv, NEW d \in Deliveries, Queue(d) PROVE DispatchInv'
<1> USE DEF DispatchInv
<1>1. /\ rows[d].status = "absent" /\ UNCHANGED <<hands, outcomes, arrived, faults>>
      /\ rows' = [rows EXCEPT ![d] = [status |-> "pending", attempts |-> 0, due |-> TRUE]]
  BY DEF Queue
<1>2. /\ rows'[d] = [status |-> "pending", attempts |-> 0, due |-> TRUE]
      /\ \A e \in Deliveries : e # d => rows'[e] = rows[e]
  BY <1>1 DEF Shape
<1>3. Shape' /\ LeasesLast'
  BY <1>1 DEF LeasesLast, Shape, ReportRow, Statuses
<1>4. Leased'
  BY <1>1, <1>2, Fields DEF Leased
<1>5. Counted'
  BY <1>1, <1>2, Fields, DispatchBounds DEF Counted, RowCounted, HandCounted, Spare, IsHeld
<1>6. QED BY <1>3, <1>4, <1>5

LEMMA TimeKeeps ==
  ASSUME DispatchInv, NEW d \in Deliveries, TimePasses(d) PROVE DispatchInv'
<1> USE DEF DispatchInv
<1>1. /\ UNCHANGED <<hands, outcomes, arrived, faults>>
      /\ rows' = [rows EXCEPT ![d].due = TRUE]
      /\ rows[d].status = "sending" => ~IsHeld(d)
      /\ rows[d].status \in {"pending", "sending"}
  BY DEF TimePasses, LeasesLast, IsHeld, Held
<1>2. /\ \A e \in Deliveries : /\ rows'[e].status = rows[e].status
                               /\ rows'[e].attempts = rows[e].attempts
                               /\ e # d => rows'[e] = rows[e]
  BY <1>1 DEF Shape, ReportRow
<1>3. Shape' /\ LeasesLast'
  BY <1>1 DEF LeasesLast, Shape, ReportRow
<1>4. ~IsHeld(d)
  BY <1>1 DEF Leased, IsHeld
<1>5. Leased'
  BY <1>1, <1>2, <1>4, Fields DEF Leased, IsHeld
<1>6. Counted'
  BY <1>1, <1>2, Fields DEF Counted, RowCounted, HandCounted, Spare, IsHeld
<1>7. QED BY <1>3, <1>5, <1>6

LEMMA SendKeeps ==
  ASSUME DispatchInv, NEW p \in Dispatchers, Send(p) PROVE DispatchInv'
<1> USE DEF DispatchInv
<1> DEFINE d == hands[p][1].id
<1>1. /\ hands[p] # <<>> /\ outcomes[p] = "none" /\ 1 \in DOMAIN hands[p]
      /\ d \in Deliveries /\ hands[p][1].attempts \in Nat
      /\ Head(hands[p]) = hands[p][1]
  BY Fields DEF Send
<1>2. /\ UNCHANGED <<rows, hands, faults>>
      /\ \E o \in {"sent", "failed", "pending"} :
           /\ outcomes' = [outcomes EXCEPT ![p] = o]
           /\ \/ o # "pending" /\ arrived' = [arrived EXCEPT ![d] = @ + 1]
              \/ /\ o # "sent" /\ UNCHANGED arrived
                 /\ o = "pending" => hands[p][1].attempts < MaxAttempts
  BY <1>1 DEF Send, Refused, Unknown
<1>3. PICK o \in {"sent", "failed", "pending"} :
           /\ outcomes' = [outcomes EXCEPT ![p] = o]
           /\ \/ o # "pending" /\ arrived' = [arrived EXCEPT ![d] = @ + 1]
              \/ /\ o # "sent" /\ UNCHANGED arrived
                 /\ o = "pending" => hands[p][1].attempts < MaxAttempts
  BY <1>2
<1>4. /\ outcomes'[p] = o /\ \A q \in Dispatchers : q # p => outcomes'[q] = outcomes[q]
      /\ \A e \in Deliveries : e # d => arrived'[e] = arrived[e]
      /\ arrived'[d] \in {arrived[d], arrived[d] + 1}
      /\ o = "sent" => arrived'[d] = arrived[d] + 1
      /\ o = "pending" => arrived'[d] = arrived[d] /\ hands[p][1].attempts < MaxAttempts
  BY <1>1, <1>3 DEF Shape
<1>5. Shape' /\ LeasesLast'
  BY <1>1, <1>2, <1>3 DEF LeasesLast, Shape
<1>6. Leased'
  BY <1>1, <1>2, <1>4 DEF Leased
<1>7. /\ arrived[d] <= faults[d] /\ rows[d].attempts = hands[p][1].attempts
      /\ rows[d].status = "sending" /\ IsHeld(d)
      /\ \A q \in Dispatchers : \A n \in DOMAIN hands[q] : hands[q][n].id = d => q = p /\ n = 1
  BY <1>1 DEF Counted, HandCounted, Leased, IsHeld
<1>8. \A e \in Deliveries : IsHeld(e)' <=> IsHeld(e)
  BY <1>2 DEF IsHeld
<1> HIDE DEF d
<1>9. ASSUME NEW e \in Deliveries PROVE RowCounted(e)'
  <2>1. /\ rows' = rows /\ faults' = faults
        /\ rows[e].attempts \in Nat /\ faults[e] \in Nat /\ arrived[e] \in Nat
    BY <1>2, Fields
  <2>2. CASE e = d
    BY <1>4, <1>7, <1>8, <2>1, <2>2 DEF Counted, RowCounted, Spare
  <2>3. CASE e # d
    BY <1>4, <1>8, <2>1, <2>3 DEF Counted, RowCounted, Spare
  <2>4. QED BY <2>2, <2>3
<1>10. ASSUME NEW q \in Dispatchers, NEW n \in DOMAIN hands'[q] PROVE HandCounted(q, n)'
  <2>1. hands[q][n].id \in Deliveries /\ hands'[q][n] = hands[q][n] /\ n \in DOMAIN hands[q]
    BY <1>2, <1>10, Fields
  <2>2. CASE hands[q][n].id = d
    <3>1. q = p /\ n = 1 /\ rows' = rows /\ faults' = faults
      BY <1>2, <1>7, <2>1, <2>2
    <3>2. /\ MaxAttempts \in Nat /\ hands[p][1].attempts \in Nat /\ faults[d] \in Nat
          /\ arrived[d] \in Nat
      BY <1>1, Fields, DispatchBounds
    <3>3. outcomes'[q] # "none"
      BY <1>4, <3>1
    <3>4. QED BY <1>4, <1>7, <2>1, <2>2, <3>1, <3>2, <3>3 DEF HandCounted, Spare
  <2>3. CASE hands[q][n].id # d
    <3>1. q = p => n # 1
      BY <2>1, <2>3 DEF d
    <3>2. /\ arrived'[hands[q][n].id] = arrived[hands[q][n].id]
          /\ rows' = rows /\ faults' = faults /\ hands' = hands
      BY <1>2, <1>4, <2>1, <2>3
    <3>3. q = p \/ outcomes'[q] = outcomes[q]
      BY <1>4
    <3>4. QED BY <1>1, <2>1, <3>1, <3>2, <3>3 DEF Counted, HandCounted, Spare
  <2>4. QED BY <2>2, <2>3
<1>11. QED BY <1>5, <1>6, <1>9, <1>10 DEF Counted

LEMMA FinishKeeps ==
  ASSUME DispatchInv, NEW p \in Dispatchers, Finish(p) PROVE DispatchInv'
<1> USE DEF DispatchInv
<1> DEFINE d == hands[p][1].id
<1> DEFINE rest == Tail(hands[p])
<1>1. /\ hands[p] # <<>> /\ outcomes[p] \in {"sent", "failed", "pending"}
      /\ 1 \in DOMAIN hands[p] /\ d \in Deliveries
      /\ Head(hands[p]) = hands[p][1]
  BY Fields DEF Finish, Leased
<1>2. /\ hands' = [hands EXCEPT ![p] = rest]
      /\ outcomes' = [outcomes EXCEPT ![p] = "none"]
      /\ arrived' = arrived /\ faults' = faults
  BY <1>1 DEF Finish
<1>2a. rows' = [rows EXCEPT ![d] = [rows[d] EXCEPT !.status = outcomes[p], !.due = FALSE]]
  <2>1. rows[d].due = FALSE
    BY <1>1, Fields DEF Leased
  <2>2. rows' = [rows EXCEPT ![d] = [rows[d] EXCEPT !.status = outcomes[p],
                                                    !.due = rows[d].due /\ outcomes[p] # "pending"]]
    BY <1>1 DEF Finish, Shape
  <2>3. QED BY <2>1, <2>2
<1>3. /\ rest \in Seq(Hand)
      /\ \A n \in DOMAIN rest :
           n + 1 \in DOMAIN hands[p] /\ n \in Nat \ {0} /\ rest[n] = hands[p][n + 1]
      /\ \A n \in DOMAIN hands[p] : n = 1 \/ (n \in Nat /\ n - 1 \in DOMAIN rest)
  BY <1>1, Fields, HeadTailProperties, LenProperties
<1>4. /\ rows'[d].status = outcomes[p] /\ rows'[d].attempts = rows[d].attempts
      /\ \A e \in Deliveries : e # d => rows'[e] = rows[e]
      /\ hands'[p] = rest /\ outcomes'[p] = "none"
      /\ \A q \in Dispatchers : q # p => hands'[q] = hands[q] /\ outcomes'[q] = outcomes[q]
  BY <1>1, <1>2, <1>2a DEF Shape, ReportRow
<1>5. Shape' /\ LeasesLast'
  <2>1. rows' \in [Deliveries -> ReportRow]
    BY <1>1, <1>2a DEF Shape, ReportRow, Statuses
  <2>2. hands' \in [Dispatchers -> Seq(Hand)]
    BY <1>2, <1>3 DEF Shape
  <2>3. outcomes' \in [Dispatchers -> {"none", "sent", "failed", "pending"}]
    BY <1>2 DEF Shape
  <2>4. QED BY <1>2, <2>1, <2>2, <2>3 DEF LeasesLast, Shape
<1> HIDE DEF d, rest
<1>6. ASSUME NEW q \in Dispatchers, NEW n \in DOMAIN hands'[q]
      PROVE  /\ n \in Nat \ {0} /\ hands'[q][n].id \in Deliveries
             /\ \E m \in DOMAIN hands[q] :
                  /\ hands'[q][n] = hands[q][m]
                  /\ IF q = p THEN m = n + 1 ELSE m = n
                  /\ hands[q][m].id # d
  <2>1. PICK m \in DOMAIN hands[q] :
          hands'[q][n] = hands[q][m] /\ (IF q = p THEN m = n + 1 /\ n \in Nat \ {0} ELSE m = n)
    BY <1>3, <1>4, <1>6
  <2>2. q = p => m # 1
    BY <2>1
  <2>3. hands[q][m].id # d
    BY <1>1, <2>1, <2>2 DEF Leased, d
  <2>4. QED BY <2>1, <2>3, Fields
<1>7. Leased'
  <2>1. ASSUME NEW q \in Dispatchers, NEW n \in DOMAIN hands'[q]
        PROVE  /\ rows'[hands'[q][n].id].status = "sending" /\ ~rows'[hands'[q][n].id].due
               /\ rows'[hands'[q][n].id].attempts = hands'[q][n].attempts
    BY <1>4, <1>6, <2>1 DEF Leased
  <2>2. ASSUME NEW q \in Dispatchers, NEW r \in Dispatchers,
               NEW n \in DOMAIN hands'[q], NEW m \in DOMAIN hands'[r],
               hands'[q][n].id = hands'[r][m].id
        PROVE  q = r /\ n = m
    BY <1>6, <2>2 DEF Leased
  <2>3. \A q \in Dispatchers : outcomes'[q] # "none" => hands'[q] # <<>>
    BY <1>4 DEF Leased
  <2>4. QED BY <2>1, <2>2, <2>3 DEF Leased
<1>8. \A e \in Deliveries : e # d /\ IsHeld(e) => IsHeld(e)'
  <2> SUFFICES ASSUME NEW e \in Deliveries, e # d, NEW q \in Dispatchers,
                      NEW n \in DOMAIN hands[q], hands[q][n].id = e
               PROVE  \E r \in Dispatchers : \E m \in DOMAIN hands'[r] : hands'[r][m].id = e
    BY DEF IsHeld
  <2>1. CASE q # p
    BY <1>4, <2>1
  <2>2. CASE q = p
    <3>1. n # 1
      BY <2>2 DEF d
    <3>2. n \in Nat /\ n - 1 \in DOMAIN rest /\ rest[n - 1] = hands[p][n]
      BY <1>3, <2>2, <3>1
    <3>3. QED BY <1>4, <2>2, <3>2
  <2>3. QED BY <2>1, <2>2
<1>9. ASSUME NEW e \in Deliveries PROVE RowCounted(e)'
  <2>1. CASE e = d
    <3>1. /\ rows[d].attempts <= MaxAttempts + faults[d] /\ arrived[d] <= 1 + faults[d]
          /\ outcomes[p] = "sent" => arrived[d] > 0
          /\ outcomes[p] = "pending" => Spare(d)
      BY <1>1 DEF Counted, RowCounted, HandCounted, d
    <3>2. QED BY <1>1, <1>2, <1>4, <2>1, <3>1 DEF RowCounted, Spare
  <2>2. CASE e # d
    BY <1>2, <1>4, <1>8, <2>2 DEF Counted, RowCounted, Spare
  <2>3. QED BY <2>1, <2>2
<1>10. ASSUME NEW q \in Dispatchers, NEW n \in DOMAIN hands'[q] PROVE HandCounted(q, n)'
  <2>1. PICK m \in DOMAIN hands[q] :
          /\ hands'[q][n] = hands[q][m] /\ hands[q][m].id # d
          /\ IF q = p THEN m = n + 1 ELSE m = n
    BY <1>6, <1>10
  <2>2. hands'[q][n].id \in Deliveries /\ n \in Nat \ {0}
    BY <1>6, <1>10
  <2>3. HandCounted(q, m)
    BY DEF Counted
  <2>4. QED BY <1>2, <1>4, <2>1, <2>2, <2>3 DEF HandCounted, Spare
<1>11. QED BY <1>5, <1>7, <1>9, <1>10 DEF Counted

LEMMA FinishRefusedKeeps ==
  ASSUME DispatchInv, NEW p \in Dispatchers, FinishRefused(p) PROVE DispatchInv'
<1> USE DEF DispatchInv
<1> DEFINE d == hands[p][1].id
<1>1. /\ hands[p] # <<>> /\ 1 \in DOMAIN hands[p] /\ d \in Deliveries
      /\ Head(hands[p]) = hands[p][1]
  BY Fields DEF FinishRefused, Leased
<1>2. /\ faults' = [e \in Deliveries |-> IF e \in {d} THEN faults[e] + 1 ELSE faults[e]]
      /\ outcomes' = [outcomes EXCEPT ![p] = "failed"]
      /\ rows' = rows /\ hands' = hands /\ arrived' = arrived
  BY <1>1 DEF FinishRefused, Fault
<1>3. /\ faults' \in [Deliveries -> Nat] /\ \A e \in Deliveries : faults[e] <= faults'[e]
      /\ outcomes'[p] = "failed"
      /\ \A q \in Dispatchers : q # p => outcomes'[q] = outcomes[q]
  BY <1>2 DEF Shape
<1>4. Shape' /\ LeasesLast'
  BY <1>2, <1>3 DEF LeasesLast, Shape
<1>5. Leased'
  BY <1>1, <1>2, <1>3 DEF Leased
<1>6. ASSUME NEW e \in Deliveries PROVE RowCounted(e)'
  <2>1. /\ faults[e] \in Nat /\ faults'[e] \in Nat /\ arrived[e] \in Nat /\ MaxAttempts \in Nat
        /\ rows[e].attempts \in Nat /\ RowCounted(e)
    BY <1>3, Fields, DispatchBounds DEF Counted
  <2>2. IsHeld(e)' <=> IsHeld(e)
    BY <1>2 DEF IsHeld
  <2>3. QED BY <1>2, <1>3, <2>1, <2>2 DEF RowCounted, Spare
<1>7. ASSUME NEW q \in Dispatchers, NEW n \in DOMAIN hands'[q] PROVE HandCounted(q, n)'
  <2> DEFINE e == hands[q][n].id
  <2>1. /\ e \in Deliveries /\ HandCounted(q, n)
    BY <1>2, <1>7, Fields DEF Counted
  <2>2. /\ faults[e] \in Nat /\ faults'[e] \in Nat /\ arrived[e] \in Nat /\ MaxAttempts \in Nat
        /\ rows[e].attempts \in Nat /\ faults[e] <= faults'[e]
    BY <1>3, <2>1, Fields, DispatchBounds
  <2>3. QED BY <1>2, <1>3, <2>1, <2>2 DEF HandCounted, Spare
<1>8. QED BY <1>4, <1>5, <1>6, <1>7 DEF Counted

LEMMA StopKeeps ==
  ASSUME DispatchInv, NEW p \in Dispatchers, Stop(p) PROVE DispatchInv'
<1> USE DEF DispatchInv
<1>1. /\ faults' = [e \in Deliveries |-> IF e \in Held(p) THEN faults[e] + 1 ELSE faults[e]]
      /\ hands' = [hands EXCEPT ![p] = <<>>]
      /\ outcomes' = [outcomes EXCEPT ![p] = "none"]
      /\ rows' = rows /\ arrived' = arrived
  BY DEF Stop, Fault
<1>2. /\ hands'[p] = <<>> /\ DOMAIN hands'[p] = {} /\ outcomes'[p] = "none"
      /\ \A q \in Dispatchers : q # p => hands'[q] = hands[q] /\ outcomes'[q] = outcomes[q]
      /\ faults' \in [Deliveries -> Nat]
      /\ \A e \in Deliveries : /\ faults[e] <= faults'[e]
                               /\ e \in Held(p) => faults'[e] = faults[e] + 1
  BY <1>1 DEF Shape
<1>3. Shape' /\ LeasesLast'
  BY <1>1, <1>2 DEF LeasesLast, Shape
<1>4. Leased'
  <2>1. \A q \in Dispatchers : \A n \in DOMAIN hands'[q] : q # p /\ hands'[q] = hands[q]
    BY <1>2
  <2>2. QED BY <1>1, <1>2, <2>1 DEF Leased
<1>5. ASSUME NEW e \in Deliveries PROVE RowCounted(e)'
  <2>1. /\ faults[e] \in Nat /\ faults'[e] \in Nat /\ arrived[e] \in Nat /\ MaxAttempts \in Nat
        /\ rows[e].attempts \in Nat /\ RowCounted(e)
    BY <1>2, Fields, DispatchBounds DEF Counted
  <2>2. IsHeld(e) => e \in Held(p) \/ IsHeld(e)'
    BY <1>1, <1>2 DEF IsHeld, Held
  <2>3. QED BY <1>1, <1>2, <2>1, <2>2 DEF RowCounted, Spare
<1>6. ASSUME NEW q \in Dispatchers, NEW n \in DOMAIN hands'[q] PROVE HandCounted(q, n)'
  <2> DEFINE e == hands[q][n].id
  <2>1. q # p /\ hands'[q] = hands[q] /\ outcomes'[q] = outcomes[q]
    BY <1>2, <1>6
  <2>2. e \in Deliveries /\ HandCounted(q, n)
    BY <1>6, <2>1, Fields DEF Counted
  <2>3. /\ faults[e] \in Nat /\ faults'[e] \in Nat /\ arrived[e] \in Nat /\ MaxAttempts \in Nat
        /\ rows[e].attempts \in Nat /\ faults[e] <= faults'[e]
    BY <1>2, <2>2, Fields, DispatchBounds
  <2>4. QED BY <1>1, <2>1, <2>2, <2>3 DEF HandCounted, Spare
<1>7. QED BY <1>3, <1>4, <1>5, <1>6 DEF Counted
-----------------------------------------------------------------------------
LEMMA OrderOfBatch ==
  ASSUME NEW batch \in SUBSET Deliveries, NEW order \in SetToSeqs(batch)
  PROVE  /\ order \in Seq(batch)
         /\ \A n, m \in DOMAIN order : order[n] = order[m] => n = m
         /\ \A d \in batch : \E n \in DOMAIN order : order[n] = d
<1> DEFINE D == 1..Cardinality(batch)
<1>1. IsFiniteSet(batch) /\ Cardinality(batch) \in Nat
  BY DispatchBounds, FS_Subset, FS_CardinalityType
<1>2. order \in [D -> batch] /\ \A n, m \in D : order[n] = order[m] => n = m
  BY DEF SetToSeqs
<1>3. order \in Seq(batch)
  BY <1>1, <1>2
<1>4. Cardinality(D) = Cardinality(batch)
  BY <1>1, FS_Interval
<1>5. order \in Injection(D, batch)
  BY <1>2 DEF Injection, IsInjective
<1>6. order \in Surjection(D, batch)
  BY <1>1, <1>4, <1>5, FS_Injection
<1>7. QED BY <1>2, <1>3, <1>6 DEF Surjection

LEMMA TakenRow ==
  ASSUME NEW row \in ReportRow
  PROVE  /\ Taken(row).status = "sending" /\ Taken(row).due = FALSE
         /\ Taken(row).attempts = row.attempts + 1 /\ Taken(row).attempts \in Nat
         /\ Taken(row) \in ReportRow
<1>1. row.attempts \in Nat
  BY DEF ReportRow
<1>2. QED BY <1>1 DEF Taken, ReportRow, Statuses

LEMMA ClaimKeeps ==
  ASSUME DispatchInv, NEW p \in Dispatchers, Claim(p) PROVE DispatchInv'
<1> USE DEF DispatchInv
<1>1. PICK batch \in SUBSET Claimable :
        /\ rows' = [d \in Deliveries |-> IF d \in batch THEN Taken(rows[d]) ELSE rows[d]]
        /\ \E order \in SetToSeqs(batch) :
             hands' = [hands EXCEPT ![p] =
               [n \in DOMAIN order |-> [id |-> order[n], attempts |-> rows'[order[n]].attempts]]]
  BY DEF Claim
<1>2. PICK order \in SetToSeqs(batch) :
        hands' = [hands EXCEPT ![p] =
          [n \in DOMAIN order |-> [id |-> order[n], attempts |-> rows'[order[n]].attempts]]]
  BY <1>1
<1> DEFINE taken == [n \in DOMAIN order |-> [id |-> order[n], attempts |-> rows'[order[n]].attempts]]
<1>3. /\ hands[p] = <<>> /\ outcomes[p] = "none"
      /\ outcomes' = outcomes /\ arrived' = arrived /\ faults' = faults
  BY Fields DEF Claim, Leased
<1>4. batch \in SUBSET Deliveries
  BY DEF Claimable
<1>5. /\ order \in Seq(batch)
      /\ \A n, m \in DOMAIN order : order[n] = order[m] => n = m
      /\ \A d \in batch : \E n \in DOMAIN order : order[n] = d
  BY <1>4, OrderOfBatch
<1>6. \A d \in batch : ~IsHeld(d) /\ Spare(d)
  BY <1>4 DEF Claimable, Leased, Counted, RowCounted, IsHeld
<1>7. /\ \A d \in batch : /\ rows'[d].status = "sending" /\ rows'[d].due = FALSE
                          /\ rows'[d].attempts = rows[d].attempts + 1
                          /\ rows'[d].attempts \in Nat
      /\ \A d \in Deliveries : d \notin batch => rows'[d] = rows[d]
      /\ rows' \in [Deliveries -> ReportRow]
  <2>1. \A d \in Deliveries : rows[d] \in ReportRow
    BY DEF Shape
  <2>2. \A d \in Deliveries : rows'[d] = IF d \in batch THEN Taken(rows[d]) ELSE rows[d]
    BY <1>1
  <2>3. ASSUME NEW d \in Deliveries
        PROVE  /\ Taken(rows[d]).status = "sending" /\ Taken(rows[d]).due = FALSE
               /\ Taken(rows[d]).attempts = rows[d].attempts + 1
               /\ Taken(rows[d]).attempts \in Nat /\ Taken(rows[d]) \in ReportRow
    BY <2>1, TakenRow
  <2>4. rows' \in [Deliveries -> ReportRow]
    BY <1>1, <2>1, <2>3
  <2>5. QED BY <1>4, <2>2, <2>3, <2>4
<1>8. /\ DOMAIN taken = DOMAIN order /\ hands'[p] = taken
      /\ \A n \in DOMAIN order : /\ order[n] \in batch /\ taken[n].id = order[n]
                                 /\ taken[n].attempts = rows'[order[n]].attempts
      /\ \A q \in Dispatchers : q # p => hands'[q] = hands[q]
  BY <1>2, <1>5 DEF Shape
<1>9. taken \in Seq(Hand)
  <2>1. \A n \in DOMAIN order : [id |-> order[n], attempts |-> rows'[order[n]].attempts] \in Hand
    BY <1>4, <1>7, <1>8 DEF Hand
  <2>2. DOMAIN order = 1..Len(order) /\ Len(order) \in Nat
    BY <1>5, LenProperties
  <2>3. QED BY <2>1, <2>2
<1>10. Shape' /\ LeasesLast'
  BY <1>2, <1>3, <1>7, <1>9 DEF LeasesLast, Shape
<1> HIDE DEF taken
<1>11. ASSUME NEW q \in Dispatchers, NEW n \in DOMAIN hands'[q]
       PROVE  IF q = p THEN n \in DOMAIN order /\ hands'[q][n].id = order[n] /\ order[n] \in batch
              ELSE /\ n \in DOMAIN hands[q] /\ hands'[q][n] = hands[q][n]
                   /\ hands[q][n].id \in Deliveries \ batch
  BY <1>6, <1>8, <1>11, Fields DEF IsHeld
<1>12. Leased'
  <2>1. ASSUME NEW q \in Dispatchers, NEW n \in DOMAIN hands'[q]
        PROVE  /\ rows'[hands'[q][n].id].status = "sending" /\ ~rows'[hands'[q][n].id].due
               /\ rows'[hands'[q][n].id].attempts = hands'[q][n].attempts
    <3>1. CASE q = p
      BY <1>7, <1>8, <1>11, <2>1, <3>1
    <3>2. CASE q # p
      BY <1>7, <1>11, <2>1, <3>2 DEF Leased
    <3>3. QED BY <3>1, <3>2
  <2>2. ASSUME NEW q \in Dispatchers, NEW r \in Dispatchers,
               NEW n \in DOMAIN hands'[q], NEW m \in DOMAIN hands'[r],
               hands'[q][n].id = hands'[r][m].id
        PROVE  q = r /\ n = m
    BY <1>5, <1>11, <2>2 DEF Leased
  <2>3. \A q \in Dispatchers : outcomes'[q] # "none" => hands'[q] # <<>>
    BY <1>3, <1>8 DEF Leased
  <2>4. QED BY <2>1, <2>2, <2>3 DEF Leased
<1>13. ASSUME NEW e \in Deliveries PROVE RowCounted(e)'
  <2>1. /\ faults[e] \in Nat /\ arrived[e] \in Nat /\ MaxAttempts \in Nat
        /\ rows[e].attempts \in Nat /\ RowCounted(e)
    BY Fields, DispatchBounds DEF Counted
  <2>2. CASE e \in batch
    <3>1. IsHeld(e)'
      BY <1>5, <1>8, <2>2 DEF IsHeld
    <3>2. QED BY <1>3, <1>6, <1>7, <2>1, <2>2, <3>1 DEF RowCounted, Spare
  <2>3. CASE e \notin batch
    <3>1. IsHeld(e) => IsHeld(e)'
      BY <1>3, <1>8 DEF IsHeld
    <3>2. QED BY <1>3, <1>7, <2>1, <2>3, <3>1 DEF RowCounted, Spare
  <2>4. QED BY <2>2, <2>3
<1>14. ASSUME NEW q \in Dispatchers, NEW n \in DOMAIN hands'[q] PROVE HandCounted(q, n)'
  <2>1. CASE q = p
    BY <1>3, <1>6, <1>11, <1>14, <2>1 DEF HandCounted, Spare
  <2>2. CASE q # p
    BY <1>3, <1>7, <1>11, <1>14, <2>2 DEF Counted, HandCounted, Spare
  <2>3. QED BY <2>1, <2>2
<1>15. QED BY <1>10, <1>12, <1>13, <1>14 DEF Counted

LEMMA DispatchInvariant == LeasesLast /\ Spec => []DispatchInv
<1>1. DispatchInv /\ [Next]_vars => DispatchInv'
  <2> SUFFICES ASSUME DispatchInv, [Next]_vars PROVE DispatchInv'
    OBVIOUS
  <2>1. CASE UNCHANGED vars
    BY <2>1 DEF vars, DispatchInv, LeasesLast, Shape, Leased, Counted, RowCounted, HandCounted,
                Spare, IsHeld
  <2>2. QED
    BY <2>1, QueueKeeps, TimeKeeps, ClaimKeeps, SendKeeps, FinishKeeps, FinishRefusedKeeps, StopKeeps
       DEF Next, Runs
<1>2. QED BY <1>1, InitDispatch, PTL DEF Spec

-----------------------------------------------------------------------------
\* Attempts run past their limit only by the faults that hit a delivery: report-dispatcher.ts
\* compares attempts on a refusal and never when it claims.
THEOREM DispatchTypeCorrect == LeasesLast /\ Spec => []DispatchTypeOK
<1>1. DispatchInv => DispatchTypeOK
  BY Fields DEF DispatchInv, Counted, RowCounted, DispatchTypeOK, Statuses, Ended
<1>2. QED BY <1>1, DispatchInvariant, PTL

\* No two API processes send one delivery, and none holds one that has ended.
THEOREM InOneHand == LeasesLast /\ Spec => []OneHand
<1>1. DispatchInv => OneHand
  BY DEF DispatchInv, Leased, OneHand, Held
<1>2. QED BY <1>1, DispatchInvariant, PTL

\* A report is sent a second time only after a process stopped or its write was refused, and what
\* the history calls sent has arrived.
THEOREM SentOnceUnlessFault == LeasesLast /\ Spec => []SentOnce
<1>1. DispatchInv => SentOnce
  BY DEF DispatchInv, Counted, RowCounted, SentOnce
<1>2. QED BY <1>1, DispatchInvariant, PTL

\* finish writes by id alone, and still no ended delivery is ever written over or sent again.
THEOREM EndsStand == LeasesLast /\ Spec => EndStands
<1>1. ASSUME DispatchInv, [Next]_vars, NEW d \in Deliveries, rows[d].status \in Ended
      PROVE  rows'[d] = rows[d] /\ arrived'[d] = arrived[d]
  <2>1. ~IsHeld(d)
    BY <1>1 DEF DispatchInv, Leased, IsHeld, Ended
  <2>2. ASSUME NEW p \in Dispatchers, hands[p] # <<>>
        PROVE  Head(hands[p]).id \in Deliveries \ {d}
    BY <1>1, <2>1, <2>2, Fields DEF DispatchInv, IsHeld
  <2>3. ASSUME NEW p \in Dispatchers, Claim(p) PROVE rows'[d] = rows[d] /\ arrived'[d] = arrived[d]
    BY <1>1, <2>3 DEF Claim, Claimable, Ended
  <2>4. ASSUME NEW p \in Dispatchers, Send(p) PROVE rows'[d] = rows[d] /\ arrived'[d] = arrived[d]
    BY <1>1, <2>2, <2>4 DEF Send, DispatchInv, Shape
  <2>5. ASSUME NEW p \in Dispatchers, Finish(p) PROVE rows'[d] = rows[d] /\ arrived'[d] = arrived[d]
    BY <1>1, <2>2, <2>5 DEF Finish, DispatchInv, Shape, Leased
  <2>6. ASSUME NEW e \in Deliveries, Queue(e) \/ TimePasses(e)
        PROVE  rows'[d] = rows[d] /\ arrived'[d] = arrived[d]
    BY <1>1, <2>6 DEF Queue, TimePasses, Ended, DispatchInv, Shape
  <2>7. ASSUME UNCHANGED vars \/ \E p \in Dispatchers : FinishRefused(p) \/ Stop(p)
        PROVE  rows'[d] = rows[d] /\ arrived'[d] = arrived[d]
    BY <2>7 DEF vars, FinishRefused, Stop
  <2>8. QED BY <1>1, <2>3, <2>4, <2>5, <2>6, <2>7 DEF Next, Runs
<1>2. DispatchInv /\ [Next]_vars =>
        [\A d \in Deliveries : rows[d].status \in Ended =>
           rows'[d] = rows[d] /\ arrived'[d] = arrived[d]]_vars
  BY <1>1
<1>3. QED BY <1>2, DispatchInvariant, PTL DEF Spec, EndStands
==================================================
