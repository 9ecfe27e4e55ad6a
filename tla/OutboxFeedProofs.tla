-------------------------- MODULE OutboxFeedProofs --------------------------
(***************************************************************************)
(* What the feed guarantees for any number of browsers and writers, any    *)
(* page size, and whatever fails or expires.                               *)
(***************************************************************************)
EXTENDS OutboxFeed, TLAPS, WellFoundedInduction, SequenceTheorems

LEMMA LessIsWellFounded == IsWellFoundedOn({ss \in Nat \X Nat : ss[1] < ss[2]}, Nat)
  BY NatLessThanWellFounded, Zenon DEF OpToRel

\* The least of some sequences is one of them: the retention floor, the pump's cursor.
LEMMA LeastIsLeast ==
  ASSUME NEW S \in SUBSET Nat, S # {}
  PROVE  Least(S) \in S /\ \A y \in S : Least(S) <= y
<1> DEFINE less == {ss \in Nat \X Nat : ss[1] < ss[2]}
<1>1. PICK x \in S : \A y \in S : ~(<<y, x>> \in less)
  <2>1. IsWellFoundedOn(less, Nat)
    BY LessIsWellFounded
  <2> HIDE DEF less
  <2>2. QED BY <2>1, WFMin
<1>2. ASSUME NEW y \in S, y < x PROVE FALSE
  <2>1. <<y, x>> \in Nat \X Nat /\ <<y, x>>[1] < <<y, x>>[2]
    BY <1>2
  <2>2. QED BY <1>1, <2>1, Zenon
<1>3. \A y \in S : x <= y
  BY <1>2
<1>4. QED BY <1>3 DEF Least

\* What the pump reads is a sequence of the rows it read after.
LEMMA PageTyped ==
  ASSUME NEW s, NEW p \in ReadAfter(s)
  PROVE  p \in Seq({r \in rows : r > s}) /\ IsPage(p, {r \in rows : r > s})
  BY PageAssumption, IsASeq DEF ReadAfter, BoundedSeq, SeqOf

\* A stream resumes where its client stopped or later, and at a sequence.
LEMMA ResumesForward ==
  ASSUME FeedTypeOK, NEW s \in 0..MaxSeq
  PROVE  ResumeAfter(s) \in 0..MaxSeq /\ ResumeAfter(s) >= s
<1>1. rows \subseteq 1..MaxSeq /\ rows \in SUBSET Nat
  BY FeedBoundsAssumption DEF FeedTypeOK
<1>2. rows # {} => Least(rows) \in 1..MaxSeq
  BY <1>1, LeastIsLeast
<1>3. QED BY <1>2, FeedBoundsAssumption DEF ResumeAfter

\* The event the pump delivers, and what is left of its page.
LEMMA NextEvent ==
  ASSUME FeedTypeOK, Deliver
  PROVE  Head(page) \in 1..MaxSeq /\ Tail(page) \in Seq(1..MaxSeq) /\ Head(page) \in Nat
<1>1. Head(page) \in 1..MaxSeq /\ Tail(page) \in Seq(1..MaxSeq)
  BY HeadTailProperties DEF FeedTypeOK, Deliver
<1>2. QED BY <1>1, FeedBoundsAssumption

\* A stream being opened resumes at or after the last frame its client received.
ResumeCoversClient == \A c \in Clients : conn[c] = "checking" => last[c] <= resume[c]

FeedInv == FeedTypeOK /\ CursorCoversClient /\ ResumeCoversClient

-----------------------------------------------------------------------------
LEMMA InitFeedInv == FeedInit => FeedInv
  BY FeedBoundsAssumption
     DEF FeedInit, FeedInv, FeedTypeOK, CursorCoversClient, ResumeCoversClient

LEMMA NextFeedTyped == FeedInv /\ [FeedNext]_feedVars => FeedTypeOK'
<1> SUFFICES ASSUME FeedInv, [FeedNext]_feedVars PROVE FeedTypeOK'
  OBVIOUS
<1> USE FeedBoundsAssumption DEF FeedInv
<1>1. ASSUME NEW w \in Writers, Insert(w) PROVE FeedTypeOK'
  BY <1>1 DEF FeedTypeOK, Insert, streams, pumping
<1>2. ASSUME NEW w \in Writers, Commit(w) PROVE FeedTypeOK'
  <2>1. pending[w] \in 1..MaxSeq
    BY <1>2 DEF FeedTypeOK, Commit
  <2>2. rows' \subseteq 1..MaxSeq /\ stored' \subseteq 1..MaxSeq
    BY <1>2, <2>1 DEF FeedTypeOK, Commit
  <2>3. pending' \in [Writers -> 0..MaxSeq]
    BY <1>2 DEF FeedTypeOK, Commit
  <2>4. QED BY <1>2, <2>2, <2>3 DEF FeedTypeOK, Commit, streams, pumping
<1>3. ASSUME NEW w \in Writers, Rollback(w) PROVE FeedTypeOK'
  BY <1>3 DEF FeedTypeOK, Rollback, streams, pumping
<1>4. CASE Expire
  BY <1>4 DEF FeedTypeOK, Expire, streams, pumping
<1>5. ASSUME NEW c \in Clients, Connect(c) PROVE FeedTypeOK'
  BY <1>5 DEF FeedTypeOK, Connect, table, pumping
<1>6. ASSUME NEW c \in Clients, CheckRetention(c) PROVE FeedTypeOK'
  <2>1. ResumeAfter(last[c]) \in 0..MaxSeq
    BY ResumesForward DEF FeedTypeOK
  <2>2. QED BY <1>6, <2>1 DEF FeedTypeOK, CheckRetention, table, pumping
<1>7. ASSUME NEW c \in Clients, Subscribe(c) PROVE FeedTypeOK'
  <2>1. (last[c] + 1)..resume[c] \subseteq 1..MaxSeq
    BY DEF FeedTypeOK
  <2>2. QED BY <1>7, <2>1 DEF FeedTypeOK, Subscribe, StartOf, table, pumping
<1>8. ASSUME NEW c \in Clients, Drop(c) PROVE FeedTypeOK'
  BY <1>8 DEF FeedTypeOK, Drop, table, pumping
<1>9. ASSUME NEW c \in Clients, Unsubscribe(c) PROVE FeedTypeOK'
  <2>1. conn' \in [Clients -> {"away", "checking", "live", "broken"}]
    BY <1>9 DEF FeedTypeOK, Unsubscribe
  <2>2. (pump' = "idle" /\ page' = <<>> /\ after' = after) \/ UNCHANGED pumping
    BY <1>9 DEF Unsubscribe
  <2>3. page' \in Seq(1..MaxSeq) /\ (pump' = "delivering") = (page' # <<>>)
        /\ pump' \in {"idle", "reading", "delivering"} /\ after' = after
    BY <2>2, EmptySeq DEF FeedTypeOK, pumping
  <2>4. QED BY <1>9, <2>1, <2>3 DEF FeedTypeOK, Unsubscribe, table
<1>10. CASE PumpStart
  <2>1. {cursor[c] : c \in Subscribed} \in SUBSET (0..MaxSeq)
    BY DEF FeedTypeOK, Subscribed
  <2>2. {cursor[c] : c \in Subscribed} # {}
    BY <1>10 DEF PumpStart
  <2>3. Least({cursor[c] : c \in Subscribed}) \in 0..MaxSeq
    BY <2>1, <2>2, LeastIsLeast
  <2>4. QED BY <1>10, <2>3 DEF FeedTypeOK, PumpStart, table, streams
<1>11. CASE PumpRead
  <2>1. page' \in Seq(1..MaxSeq)
    <3>1. {r \in rows : r > after} \subseteq 1..MaxSeq
      BY DEF FeedTypeOK
    <3>2. page' \in Seq({r \in rows : r > after})
      BY <1>11, PageTyped DEF PumpRead
    <3>3. QED BY <3>1, <3>2, SeqMonotonic
  <2>2. QED BY <1>11, <2>1 DEF FeedTypeOK, PumpRead, PumpAfter, table, streams
<1>12. CASE Deliver
  <2>1. Head(page) \in 1..MaxSeq /\ Tail(page) \in Seq(1..MaxSeq)
    BY <1>12, NextEvent
  <2>2. cursor' \in [Clients -> 0..MaxSeq] /\ last' \in [Clients -> 0..MaxSeq]
        /\ got' \in [Clients -> SUBSET (1..MaxSeq)]
    BY <1>12, <2>1 DEF FeedTypeOK, Deliver
  <2>3. page' = Tail(page) /\ pump' = PumpAfter(page')
        /\ UNCHANGED <<after, table, conn, resume, excused, drops>>
    BY <1>12 DEF Deliver
  <2>4. QED BY <2>1, <2>2, <2>3 DEF FeedTypeOK, PumpAfter, table
<1>13. CASE UNCHANGED feedVars
  BY <1>13 DEF FeedTypeOK, feedVars, table, streams, pumping
<1>14. QED
  BY <1>1, <1>2, <1>3, <1>4, <1>5, <1>6, <1>7, <1>8, <1>9, <1>10, <1>11, <1>12, <1>13
     DEF FeedNext

\* The two relations between what the server and the client know of a stream.
LEMMA NextCovers ==
  FeedInv /\ [FeedNext]_feedVars => CursorCoversClient' /\ ResumeCoversClient'
<1> SUFFICES ASSUME FeedInv, [FeedNext]_feedVars
             PROVE  CursorCoversClient' /\ ResumeCoversClient'
  OBVIOUS
<1> USE DEF FeedInv, CursorCoversClient, ResumeCoversClient
<1>1. CASE UNCHANGED <<conn, resume, last, cursor>>
  BY <1>1
<1>2. ASSUME NEW c \in Clients, Connect(c)
      PROVE  CursorCoversClient' /\ ResumeCoversClient'
  BY <1>2 DEF Connect, FeedTypeOK
<1>3. ASSUME NEW c \in Clients, CheckRetention(c)
      PROVE  CursorCoversClient' /\ ResumeCoversClient'
  <2>1. ResumeAfter(last[c]) >= last[c]
    BY ResumesForward DEF FeedTypeOK
  <2>2. QED BY <1>3, <2>1 DEF CheckRetention, FeedTypeOK
<1>4. ASSUME NEW c \in Clients, Subscribe(c)
      PROVE  CursorCoversClient' /\ ResumeCoversClient'
  BY <1>4 DEF Subscribe, StartOf, FeedTypeOK
<1>5. ASSUME NEW c \in Clients, Drop(c) \/ Unsubscribe(c)
      PROVE  CursorCoversClient' /\ ResumeCoversClient'
  BY <1>5 DEF Drop, Unsubscribe, FeedTypeOK
<1>6. CASE Deliver
  <2>1. Head(page) \in Nat
    BY <1>6, NextEvent
  <2>2. QED BY <1>6, <2>1 DEF Deliver, NewTo, Subscribed, FeedTypeOK
<1>7. QED
  BY <1>1, <1>2, <1>3, <1>4, <1>5, <1>6
     DEF FeedNext, feedVars, table, streams, pumping, Insert, Commit, Rollback, Expire,
         PumpStart, PumpRead

THEOREM FeedInvariant == FeedSpec => []FeedInv
<1>1. FeedInv /\ [FeedNext]_feedVars => FeedInv'
  BY NextFeedTyped, NextCovers DEF FeedInv
<1>2. QED BY <1>1, InitFeedInv, PTL DEF FeedSpec

-----------------------------------------------------------------------------
\* The state of the feed stays well formed, and the pump is delivering exactly while its
\* page holds events.
THEOREM FeedTypeCorrect == FeedSpec => []FeedTypeOK
  BY FeedInvariant, PTL DEF FeedInv

\* The server's cursor for a connected browser is never behind its Last-Event-ID.
THEOREM CursorsCoverClients == FeedSpec => []CursorCoversClient
  BY FeedInvariant, PTL DEF FeedInv

\* No browser is sent an event twice or after a later one, whatever commits out of order,
\* fails, expires or reconnects.
THEOREM SentInOrder == FeedSpec => InOrder
<1>1. FeedInv /\ [FeedNext]_feedVars => NothingBefore
  <2> SUFFICES ASSUME FeedInv, [FeedNext]_feedVars, NEW c \in Clients
               PROVE  last'[c] >= last[c] /\ \A e \in got'[c] \ got[c] : e > last[c]
    BY DEF NothingBefore
  <2> USE DEF FeedInv
  <2>1. last[c] \in Nat
    BY DEF FeedTypeOK
  <2>2. CASE UNCHANGED <<last, got>>
    BY <2>1, <2>2
  <2>3. ASSUME NEW d \in Clients, Subscribe(d)
        PROVE  last'[c] >= last[c] /\ got' = got
    BY <2>1, <2>3 DEF Subscribe, ResumeCoversClient, FeedTypeOK
  <2>4. CASE Deliver
    <3>1. Head(page) \in Nat
      BY <2>4, NextEvent
    <3>2. conn[c] = "live" /\ Head(page) > cursor[c] => Head(page) > last[c]
      BY <2>1, <3>1 DEF CursorCoversClient, FeedTypeOK
    <3>3. \/ last'[c] = last[c] /\ got'[c] = got[c]
          \/ /\ conn[c] = "live" /\ Head(page) > cursor[c]
             /\ last'[c] = Head(page) /\ got'[c] = got[c] \cup {Head(page)}
      BY <2>4 DEF Deliver, NewTo, FeedTypeOK
    <3>4. QED BY <2>1, <3>1, <3>2, <3>3
  <2>5. QED
    BY <2>2, <2>3, <2>4
       DEF FeedNext, feedVars, table, streams, pumping, Insert, Commit, Rollback, Expire,
           Connect, CheckRetention, Drop, Unsubscribe, PumpStart, PumpRead
<1>2. QED BY <1>1, FeedInvariant, PTL DEF FeedSpec, InOrder

-----------------------------------------------------------------------------
(***************************************************************************)
(* Nothing is lost where writers take turns, one browser is listening and  *)
(* nothing fails or expires.                                               *)
(***************************************************************************)
Alone == \E w, c : Writers = {w} /\ Clients = {c} /\ Faults = {}

\* An open transaction will commit after everything that is stored.
CommitsInOrder ==
  \A w \in Writers : pending[w] <= issued
                     /\ \A s \in stored : s <= issued /\ (pending[w] # 0 => s < pending[w])

\* A connected browser has received what its cursor says.
CursorIsReceived ==
  \A c \in Clients : /\ last[c] \in stored \cup {0}
                     /\ conn[c] = "live" => cursor[c] = last[c]
                     /\ conn[c] = "checking" => resume[c] = last[c]

\* The page continues where the cursor is, and leaves nothing out.
PageContinues ==
  \A c \in Clients :
    /\ pump # "idle" => c \in Subscribed
    /\ pump = "reading" => after = cursor[c]
    /\ \A i \in DOMAIN page :
         /\ page[i] \in stored /\ page[i] > cursor[c]
         /\ \A j \in DOMAIN page : i < j => page[i] < page[j]
         /\ \A s \in stored : cursor[c] < s /\ s < page[i] => \E k \in DOMAIN page : page[k] = s

AloneInv ==
  /\ Alone /\ FeedTypeOK /\ rows = stored
  /\ CommitsInOrder /\ CursorIsReceived /\ PageContinues /\ Lossless

LEMMA InitAlone == Alone /\ FeedInit => AloneInv
<1> SUFFICES ASSUME Alone, FeedInit PROVE AloneInv
  OBVIOUS
<1>1. FeedTypeOK
  BY InitFeedInv DEF FeedInv
<1>2. CommitsInOrder /\ CursorIsReceived /\ PageContinues /\ Lossless
  BY DEF FeedInit, CommitsInOrder, CursorIsReceived, PageContinues, Lossless
<1>3. QED BY <1>1, <1>2 DEF FeedInit, AloneInv

\* The retention floor is not ahead of a browser that nothing expired for.
LEMMA NoGap ==
  ASSUME FeedTypeOK, NEW s \in rows
  PROVE  ResumeAfter(s) = s
<1>1. rows \in SUBSET Nat /\ s \in Nat
  BY FeedBoundsAssumption DEF FeedTypeOK
<1>2. Least(rows) \in Nat /\ Least(rows) <= s
  BY <1>1, LeastIsLeast
<1>3. QED BY <1>1, <1>2 DEF ResumeAfter

\* The writer's steps.
LEMMA TableAlone ==
  ASSUME AloneInv, NEW w \in Writers, Insert(w) \/ Commit(w) \/ Rollback(w)
  PROVE  /\ CommitsInOrder' /\ CursorIsReceived' /\ PageContinues' /\ Lossless'
         /\ rows' = stored'
<1> USE DEF AloneInv
<1>1. Writers = {w}
  BY DEF Alone
<1>2. /\ issued \in Nat /\ pending[w] \in Nat /\ stored \subseteq Nat
      /\ pending \in [Writers -> Nat]
      /\ \A c \in Clients : last[c] \in Nat /\ cursor[c] \in Nat
  BY FeedBoundsAssumption DEF FeedTypeOK
<1>3. CASE Insert(w)
  <2>1. CommitsInOrder'
    <3>1. pending'[w] = issued + 1 /\ issued' = issued + 1 /\ stored' = stored
      BY <1>2, <1>3 DEF Insert
    <3>2. \A s \in stored : s \in Nat /\ s <= issued
      BY <1>2 DEF CommitsInOrder
    <3>3. \A v \in Writers : v = w
      BY <1>1
    <3>4. pending'[w] <= issued'
      BY <1>2, <3>1
    <3>5. \A s \in stored' : s <= issued' /\ (pending'[w] # 0 => s < pending'[w])
      BY <1>2, <3>1, <3>2
    <3>6. QED BY <3>3, <3>4, <3>5, Zenon DEF CommitsInOrder
  <2>2. UNCHANGED <<stored, rows, streams, pumping>>
    BY <1>3 DEF Insert
  <2>3. QED
    BY <2>1, <2>2 DEF CursorIsReceived, PageContinues, Lossless, Subscribed, streams, pumping
<1>4. CASE Rollback(w)
  <2>1. CommitsInOrder'
    <3>1. pending'[w] = 0 /\ issued' = issued /\ stored' = stored
      BY <1>2, <1>4 DEF Rollback
    <3>2. \A s \in stored : s \in Nat /\ s <= issued
      BY <1>2 DEF CommitsInOrder
    <3>3. \A v \in Writers : v = w
      BY <1>1
    <3>4. pending'[w] <= issued'
      BY <1>2, <3>1
    <3>5. \A s \in stored' : s <= issued' /\ (pending'[w] # 0 => s < pending'[w])
      BY <1>2, <3>1, <3>2
    <3>6. QED BY <3>3, <3>4, <3>5, Zenon DEF CommitsInOrder
  <2>2. UNCHANGED <<stored, rows, streams, pumping>>
    BY <1>4 DEF Rollback
  <2>3. QED
    BY <2>1, <2>2 DEF CursorIsReceived, PageContinues, Lossless, Subscribed, streams, pumping
<1>5. CASE Commit(w)
  <2> DEFINE new == pending[w]
  <2>1. /\ stored' = stored \cup {new} /\ rows' = stored' /\ new # 0
        /\ pending' = [pending EXCEPT ![w] = 0] /\ issued' = issued
        /\ UNCHANGED <<streams, pumping>>
    BY <1>5 DEF Commit
  <2>2. new \in Nat /\ new <= issued /\ \A s \in stored : s < new
    BY <1>2, <2>1 DEF CommitsInOrder
  <2>3. CommitsInOrder'
    BY <1>1, <1>2, <2>1, <2>2 DEF CommitsInOrder
  <2>4. CursorIsReceived'
    BY <2>1 DEF CursorIsReceived, streams
  <2>5. PageContinues'
    <3> SUFFICES ASSUME NEW c \in Clients, NEW i \in DOMAIN page, NEW s \in stored',
                        cursor[c] < s, s < page[i]
                 PROVE  \E k \in DOMAIN page : page[k] = s
      BY <2>1 DEF PageContinues, Subscribed, streams, pumping
    <3>1. page[i] \in stored
      BY DEF PageContinues
    <3>2. s # new
      <4>1. page[i] \in Nat /\ page[i] < new /\ new \in Nat
        BY <1>2, <2>2, <3>1
      <4> HIDE DEF new
      <4>2. QED BY <4>1
    <3>3. QED BY <2>1, <3>2 DEF PageContinues
  <2>6. Lossless'
    <3> SUFFICES ASSUME NEW c \in Clients, NEW s \in stored', s <= last[c]
                 PROVE  s \in got[c] \cup excused[c]
      BY <2>1 DEF Lossless, streams
    <3>1. s # new
      BY <1>2, <2>1, <2>2 DEF CursorIsReceived
    <3>2. QED BY <2>1, <3>1 DEF Lossless
  <2>7. QED BY <2>1, <2>3, <2>4, <2>5, <2>6
<1>6. QED BY <1>3, <1>4, <1>5

\* A stream that opens, breaks or is closed.
LEMMA StreamAlone ==
  ASSUME AloneInv, NEW c \in Clients,
         Connect(c) \/ CheckRetention(c) \/ Subscribe(c) \/ Drop(c) \/ Unsubscribe(c)
  PROVE  /\ CommitsInOrder' /\ CursorIsReceived' /\ PageContinues' /\ Lossless'
         /\ rows' = stored'
<1> USE DEF AloneInv
<1>1. Clients = {c}
  BY DEF Alone
<1>2. /\ stored \subseteq Nat \ {0}
      /\ last[c] \in Nat /\ cursor[c] \in Nat /\ resume[c] \in Nat
      /\ c \in DOMAIN conn /\ c \in DOMAIN last /\ c \in DOMAIN cursor
      /\ c \in DOMAIN resume /\ c \in DOMAIN excused
  BY FeedBoundsAssumption DEF FeedTypeOK
<1>3. UNCHANGED table /\ CommitsInOrder' /\ rows' = stored'
  BY DEF Connect, CheckRetention, Subscribe, Drop, Unsubscribe, CommitsInOrder, table
<1>4. CASE Connect(c)
  <2>1. pump = "idle" /\ page = <<>>
    BY <1>4 DEF Connect, PageContinues, Subscribed, FeedTypeOK
  <2>2. PageContinues'
    BY <1>4, <2>1 DEF Connect, PageContinues, pumping
  <2>3. CursorIsReceived' /\ Lossless'
    BY <1>1, <1>2, <1>3, <1>4 DEF Connect, CursorIsReceived, Lossless, table
  <2>4. QED BY <1>3, <2>2, <2>3
<1>5. CASE CheckRetention(c)
  <2>1. ResumeAfter(last[c]) = last[c]
    BY <1>5, NoGap DEF CheckRetention, CursorIsReceived
  <2>2. CursorIsReceived' /\ Lossless'
    BY <1>1, <1>2, <1>3, <1>5, <2>1 DEF CheckRetention, CursorIsReceived, Lossless, table
  <2>3. PageContinues'
    BY <1>1, <1>2, <1>3, <1>5 DEF CheckRetention, PageContinues, Subscribed, table, pumping
  <2>4. QED BY <1>3, <2>2, <2>3
<1>6. CASE Subscribe(c)
  <2>1. pump = "idle" /\ page = <<>>
    BY <1>6 DEF Subscribe, PageContinues, Subscribed, FeedTypeOK
  <2>2. PageContinues'
    BY <1>6, <2>1 DEF Subscribe, PageContinues, pumping
  <2>3. resume[c] = last[c]
    BY <1>6 DEF Subscribe, CursorIsReceived
  <2>4. last' = last /\ cursor'[c] = last[c] /\ conn'[c] = "live" /\ excused'[c] = excused[c]
        /\ got' = got
    BY <1>2, <1>6, <2>3 DEF Subscribe, StartOf, FeedTypeOK
  <2>5. CursorIsReceived' /\ Lossless'
    BY <1>1, <1>3, <2>4 DEF CursorIsReceived, Lossless, table
  <2>6. QED BY <1>3, <2>2, <2>5
<1>7. CASE Drop(c)
  <2>1. CursorIsReceived' /\ Lossless'
    BY <1>1, <1>2, <1>3, <1>7 DEF Drop, CursorIsReceived, Lossless, table
  <2>2. PageContinues'
    BY <1>1, <1>2, <1>3, <1>7 DEF Drop, PageContinues, Subscribed, table, pumping
  <2>3. QED BY <1>3, <2>1, <2>2
<1>8. CASE Unsubscribe(c)
  <2>1. Subscribed = {c}
    BY <1>1, <1>8 DEF Unsubscribe, Subscribed
  <2>2. CursorIsReceived' /\ Lossless'
    BY <1>1, <1>2, <1>3, <1>8 DEF Unsubscribe, CursorIsReceived, Lossless, table
  <2>3. PageContinues'
    BY <1>8, <2>1 DEF Unsubscribe, PageContinues
  <2>4. QED BY <1>3, <2>2, <2>3
<1>9. QED BY <1>4, <1>5, <1>6, <1>7, <1>8

\* The pump reads after the cursor of the one subscription.
LEMMA PumpAlone ==
  ASSUME AloneInv, PumpStart \/ PumpRead
  PROVE  /\ CommitsInOrder' /\ CursorIsReceived' /\ PageContinues' /\ Lossless'
         /\ rows' = stored'
<1> USE DEF AloneInv
<1>1. PICK c : Clients = {c}
  BY DEF Alone
<1>2. UNCHANGED <<table, streams>>
  BY DEF PumpStart, PumpRead
<1>3. CommitsInOrder' /\ CursorIsReceived' /\ Lossless' /\ rows' = stored'
  BY <1>2 DEF CommitsInOrder, CursorIsReceived, Lossless, table, streams
<1>4. cursor[c] \in Nat /\ stored \subseteq Nat
  BY <1>1, FeedBoundsAssumption DEF FeedTypeOK
<1>5. CASE PumpStart
  <2>1. Subscribed = {c} /\ page = <<>> /\ page' = <<>>
    BY <1>1, <1>5 DEF PumpStart, Subscribed, FeedTypeOK
  <2>2. {cursor[d] : d \in Subscribed} = {cursor[c]}
    BY <2>1
  <2>3. after' = cursor[c]
    BY <1>4, <1>5, <2>2, LeastIsLeast DEF PumpStart
  <2>4. PageContinues'
    BY <1>1, <1>2, <1>5, <2>1, <2>3 DEF PumpStart, PageContinues, Subscribed, streams
  <2>5. QED BY <1>3, <2>4
<1>6. CASE PumpRead
  <2> DEFINE newer == {r \in rows : r > after}
  <2>1. c \in Subscribed /\ after = cursor[c]
    BY <1>1, <1>6 DEF PumpRead, PageContinues
  <2>2. page' \in Seq(newer) /\ IsPage(page', newer)
    BY <1>6, PageTyped DEF PumpRead
  <2>3. \A i \in DOMAIN page' : page'[i] \in newer
    BY <2>2, ElementOfSeq
  <2>4. ASSUME NEW i \in DOMAIN page', NEW s \in stored, cursor[c] < s, s < page'[i]
        PROVE  \E k \in DOMAIN page' : page'[k] = s
    <3>1. s \in newer /\ page'[i] \in Nat /\ s \in Nat
      BY <1>4, <2>1, <2>3, <2>4
    <3>2. s \in ToSet(page')
      BY <2>2, <2>4, <3>1 DEF IsPage
    <3>3. QED BY <3>2 DEF ToSet
  <2>5. \A i \in DOMAIN page' : page'[i] \in stored /\ page'[i] > cursor[c]
    BY <2>1, <2>3
  <2>6. \A i, j \in DOMAIN page' : i < j => page'[i] < page'[j]
    BY <2>2 DEF IsPage
  <2>7. pump' # "reading"
    BY <1>6 DEF PumpRead, PumpAfter
  <2> HIDE DEF newer
  <2>8. PageContinues'
    BY <1>1, <1>2, <2>1, <2>4, <2>5, <2>6, <2>7
       DEF PageContinues, Subscribed, table, streams
  <2>9. QED BY <1>3, <2>8
<1>7. QED BY <1>5, <1>6

\* The event the pump delivers is the first one stored after the browser's cursor.
LEMMA DeliverAlone ==
  ASSUME AloneInv, Deliver
  PROVE  /\ CommitsInOrder' /\ CursorIsReceived' /\ PageContinues' /\ Lossless'
         /\ rows' = stored'
<1> USE DEF AloneInv
<1> DEFINE e == Head(page)
<1>1. PICK c : Clients = {c} /\ Faults = {}
  BY DEF Alone
<1>2. /\ stored \subseteq Nat /\ cursor[c] \in Nat /\ last[c] \in Nat
      /\ e = page[1] /\ 1 \in DOMAIN page /\ page \in Seq(1..MaxSeq) /\ page # <<>>
  BY <1>1, FeedBoundsAssumption, LenProperties DEF FeedTypeOK, Deliver
<1>3. pump # "idle" /\ c \in Subscribed
  BY <1>1 DEF Deliver, PageContinues
<1>4. e \in stored /\ e > cursor[c] /\ e \in Nat
  BY <1>1, <1>2 DEF PageContinues
<1>5. NewTo(e) = {c}
  BY <1>1, <1>3, <1>4 DEF NewTo, Subscribed
<1>6. /\ cursor'[c] = e
      /\ conn[c] = "live" => last'[c] = e /\ got'[c] = got[c] \cup {e}
      /\ conn[c] # "live" => last'[c] = last[c] /\ got'[c] = got[c]
      /\ page' = Tail(page) /\ pump' = PumpAfter(page')
      /\ UNCHANGED <<table, conn, resume, excused>>
  BY <1>1, <1>5 DEF Deliver
<1>7. CommitsInOrder' /\ rows' = stored' /\ stored' = stored
  BY <1>6 DEF CommitsInOrder, table
<1>8. CursorIsReceived'
  BY <1>1, <1>3, <1>4, <1>6, <1>7 DEF CursorIsReceived, Subscribed
<1>9. ASSUME NEW s \in stored, s <= e PROVE s <= cursor[c] \/ s = e
  <2>1. s \in Nat
    BY <1>2
  <2>2. CASE cursor[c] < s /\ s < e
    <3>1. PICK k \in DOMAIN page : page[k] = s
      BY <1>1, <1>2, <2>2 DEF PageContinues
    <3>2. k = 1 \/ 1 < k
      BY <1>2, <3>1, LenProperties
    <3>3. s >= e
      BY <1>1, <1>2, <1>4, <2>1, <3>1, <3>2 DEF PageContinues
    <3>4. QED BY <1>4, <2>1, <2>2, <3>3
  <2>3. QED BY <1>2, <1>4, <1>9, <2>1, <2>2
<1>10. Lossless'
  <2> SUFFICES ASSUME NEW s \in stored, s <= last'[c]
               PROVE  s \in got'[c] \cup excused'[c]
    BY <1>1, <1>7 DEF Lossless
  <2>1. CASE conn[c] = "live"
    <3>1. cursor[c] = last[c]
      BY <1>1, <2>1 DEF CursorIsReceived
    <3>2. s <= last[c] \/ s = e
      BY <1>6, <1>9, <2>1, <3>1
    <3>3. QED BY <1>1, <1>6, <2>1, <3>2 DEF Lossless
  <2>2. CASE conn[c] # "live"
    BY <1>1, <1>6, <2>2 DEF Lossless
  <2>3. QED BY <2>1, <2>2
<1>11. PageContinues'
  <2>1. /\ Len(page') = Len(page) - 1
        /\ \A i \in DOMAIN page' : i + 1 \in DOMAIN page /\ page'[i] = page[i + 1] /\ i \in Nat
        /\ \A k \in DOMAIN page : (k = 1 \/ k - 1 \in DOMAIN page') /\ k \in Nat
    BY <1>2, <1>6, HeadTailProperties, LenProperties
  <2>2. ASSUME NEW i \in DOMAIN page'
        PROVE  /\ page'[i] \in stored /\ page'[i] > e
               /\ \A j \in DOMAIN page' : i < j => page'[i] < page'[j]
    BY <1>1, <1>2, <2>1 DEF PageContinues
  <2>3. ASSUME NEW i \in DOMAIN page', NEW s \in stored, e < s, s < page'[i]
        PROVE  \E k \in DOMAIN page' : page'[k] = s
    <3>1. cursor[c] < s
      BY <1>2, <1>4, <2>3
    <3>2. PICK k \in DOMAIN page : page[k] = s
      BY <1>1, <2>1, <2>3, <3>1 DEF PageContinues
    <3>3. k # 1
      BY <1>2, <1>4, <2>3, <3>2
    <3>4. k - 1 \in DOMAIN page' /\ page'[k - 1] = s
      BY <2>1, <3>2, <3>3
    <3>5. QED BY <3>4
  <2>4. pump' # "reading"
    BY <1>6 DEF PumpAfter
  <2>5. c \in Subscribed'
    BY <1>3, <1>6 DEF Subscribed
  <2> HIDE DEF e
  <2>6. QED BY <1>1, <1>6, <1>7, <2>2, <2>3, <2>4, <2>5 DEF PageContinues
<1>12. QED BY <1>7, <1>8, <1>10, <1>11

\* A page, a dropped connection, a resumed stream: while writers take turns, one browser is
\* listening and nothing fails or expires, it misses nothing that was committed.
THEOREM LosslessAlone == Alone /\ FeedSpec => []Lossless
<1>1. FeedInv /\ AloneInv /\ [FeedNext]_feedVars => AloneInv'
  <2> SUFFICES ASSUME FeedInv, AloneInv, [FeedNext]_feedVars PROVE AloneInv'
    OBVIOUS
  <2>1. Alone' /\ FeedTypeOK'
    BY NextFeedTyped DEF AloneInv, Alone
  <2>2. ~Expire
    BY DEF AloneInv, Alone, Expire
  <2>3. CASE UNCHANGED feedVars
    BY <2>1, <2>3
       DEF AloneInv, feedVars, table, streams, pumping, CommitsInOrder, CursorIsReceived,
           PageContinues, Lossless, Subscribed
  <2>4. QED
    BY <2>1, <2>2, <2>3, TableAlone, StreamAlone, PumpAlone, DeliverAlone
       DEF FeedNext, AloneInv
<1>2. AloneInv => Lossless
  BY DEF AloneInv
<1>3. QED BY <1>1, <1>2, InitAlone, FeedInvariant, PTL DEF FeedSpec
=============================================================================
