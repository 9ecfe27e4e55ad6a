----------------------------- MODULE OutboxFeed -----------------------------
(***************************************************************************)
(* The realtime feed of one workspace: the outbox table, the pump that     *)
(* polls it for every open stream of the workspace, and the browsers that  *)
(* resume with Last-Event-ID.                                              *)
(*                                                                         *)
(* A writer inserts its outbox row inside the transaction of the change it *)
(* reports: the identity column issues the sequence at the INSERT and the  *)
(* row is visible from the COMMIT.  The pump awaits twice, for the page    *)
(* and for the listeners of each event, and streams open and close between *)
(* these steps.  Events are their sequences.  Handing one event to every   *)
(* subscription is one step: a subscription that opens or closes among     *)
(* these listeners could as well have done so before or after them.        *)
(***************************************************************************)
EXTENDS Integers, Sequences, FiniteSets, SequencesExt

CONSTANTS
  Writers,   \* transactions that may be open at once
  Clients,   \* browsers
  PageSize,  \* rows the pump reads at most
  Faults,    \* "fail": a listener may reject; "expire": rows may expire
  MaxSeq,    \* bound: rows inserted
  MaxDrops   \* bound: connections lost

ASSUME PageAssumption == PageSize \in Nat \ {0}
ASSUME FeedBoundsAssumption == {MaxSeq, MaxDrops} \subseteq Nat

VARIABLES
  issued,   \* the last sequence the identity column issued
  pending,  \* by writer: the sequence its open transaction inserted, or 0
  rows,     \* sequences of the committed rows that have not expired
  conn,     \* by client: "away", "checking", "live", or "broken" and not noticed yet
  resume,   \* by client: where the stream it is opening resumes
  last,     \* by client: the id of the last frame it received, 0 for none
  cursor,   \* by client: the cursor of its subscription
  pump,     \* the workspace's pump: "idle", "reading" or "delivering"
  after,    \* the cursor the pump reads after
  page,     \* the events the pump has still to deliver
  stored,   \* history: every sequence ever committed
  got,      \* history: by client, the events it received
  excused,  \* history: by client, the events it was told it cannot have
  drops     \* history: connections lost

table == <<issued, pending, rows, stored>>
streams == <<conn, resume, last, cursor, got, excused, drops>>
pumping == <<pump, after, page>>
feedVars == <<table, streams, pumping>>

Subscribed == {c \in Clients : conn[c] \in {"live", "broken"}}

Least(S) == CHOOSE x \in S : \A y \in S : x <= y

FeedTypeOK ==
  /\ issued \in 0..MaxSeq
  /\ pending \in [Writers -> 0..MaxSeq]
  /\ rows \subseteq 1..MaxSeq /\ stored \subseteq 1..MaxSeq
  /\ conn \in [Clients -> {"away", "checking", "live", "broken"}]
  /\ {resume, last, cursor} \subseteq [Clients -> 0..MaxSeq]
  /\ pump \in {"idle", "reading", "delivering"}
  /\ after \in 0..MaxSeq
  /\ page \in Seq(1..MaxSeq) /\ (pump = "delivering") = (page # <<>>)
  /\ {got, excused} \subseteq [Clients -> SUBSET (1..MaxSeq)]
  /\ drops \in 0..MaxDrops

-----------------------------------------------------------------------------
(* Helpers.  A definition named after the one below it is a mistake that   *)
(* one could make in its place: each property fails under one of them.     *)

\* p is a page of the rows S: in order, and leaving none out but later ones for which
\* there is no room.
IsPage(p, S) ==
  /\ \A i, j \in DOMAIN p : i < j => p[i] < p[j]
  /\ \A s \in S \ ToSet(p) : Len(p) = PageSize /\ \A i \in DOMAIN p : p[i] < s

\* readAfter: the page of the unexpired rows after a sequence.
NewestAfter(s) ==
  LET newer == {r \in rows : r > s}
  IN  {p \in BoundedSeq(newer, PageSize) :
         /\ \A i, j \in DOMAIN p : i < j => p[i] < p[j]
         /\ \A x \in newer \ ToSet(p) : Len(p) = PageSize /\ \A i \in DOMAIN p : p[i] > x}
FilterAfterLimit(s) ==
  {SelectSeq(p, LAMBDA r : r > s) : p \in {x \in BoundedSeq(rows, PageSize) : IsPage(x, rows)}}
ReadAfter(s) ==
  LET newer == {r \in rows : r > s}
  IN  {p \in BoundedSeq(newer, PageSize) : IsPage(p, newer)}

\* retentionGap: where a stream asked to resume after a sequence starts.
ResumeAfter(s) ==
  IF rows # {} /\ s + 1 < Least(rows) THEN Least(rows) - 1 ELSE s

\* Where a subscription starts to read: where its stream resumes.
StartOf(c) == resume[c]

\* The subscriptions an event is still new to.
NewToAll(e) == Subscribed
NewTo(e) == {c \in Subscribed : e > cursor[c]}

\* Whether the pump is busy with what is left of its page.
PumpAfter(rest) == IF rest = <<>> THEN "idle" ELSE "delivering"

-----------------------------------------------------------------------------
FeedInit ==
  /\ issued = 0 /\ pending = [w \in Writers |-> 0]
  /\ rows = {} /\ stored = {}
  /\ conn = [c \in Clients |-> "away"]
  /\ resume = [c \in Clients |-> 0]
  /\ last = [c \in Clients |-> 0]
  /\ cursor = [c \in Clients |-> 0]
  /\ pump = "idle" /\ after = 0 /\ page = <<>>
  /\ got = [c \in Clients |-> {}]
  /\ excused = [c \in Clients |-> {}]
  /\ drops = 0

(* The outbox table.                                                       *)

\* appendMany inside the writer's transaction.
Insert(w) ==
  /\ pending[w] = 0 /\ issued < MaxSeq
  /\ issued' = issued + 1
  /\ pending' = [pending EXCEPT ![w] = issued + 1]
  /\ UNCHANGED <<rows, stored, streams, pumping>>

Commit(w) ==
  /\ pending[w] # 0
  /\ rows' = rows \cup {pending[w]}
  /\ stored' = stored \cup {pending[w]}
  /\ pending' = [pending EXCEPT ![w] = 0]
  /\ UNCHANGED <<issued, streams, pumping>>

\* The transaction aborts; the sequence it took is never used.
Rollback(w) ==
  /\ pending[w] # 0
  /\ pending' = [pending EXCEPT ![w] = 0]
  /\ UNCHANGED <<issued, rows, stored, streams, pumping>>

\* A row leaves every read when it expires; the purge deletes it later.  A row's expiry
\* counts from its event's own time, so rows expire in any order.
Expire ==
  /\ "expire" \in Faults
  /\ \E s \in rows : rows' = rows \ {s}
  /\ UNCHANGED <<issued, pending, stored, streams, pumping>>

-----------------------------------------------------------------------------
(* One stream per client: GET /api/v1/events.                              *)

\* A client without a Last-Event-ID subscribes from the start; what has expired is gone.
Connect(c) ==
  /\ conn[c] = "away" /\ last[c] = 0
  /\ conn' = [conn EXCEPT ![c] = "live"]
  /\ cursor' = [cursor EXCEPT ![c] = 0]
  /\ excused' = [excused EXCEPT ![c] = stored \ rows]
  /\ UNCHANGED <<table, resume, last, got, drops, pumping>>

\* A client that resumes: the retention floor is read first.
CheckRetention(c) ==
  /\ conn[c] = "away" /\ last[c] # 0
  /\ conn' = [conn EXCEPT ![c] = "checking"]
  /\ resume' = [resume EXCEPT ![c] = ResumeAfter(last[c])]
  /\ UNCHANGED <<table, last, cursor, got, excused, drops, pumping>>

\* openSubscription: a refetch frame when the stream resumes elsewhere, then the subscription.
Subscribe(c) ==
  /\ conn[c] = "checking"
  /\ conn' = [conn EXCEPT ![c] = "live"]
  /\ last' = [last EXCEPT ![c] = resume[c]]
  /\ cursor' = [cursor EXCEPT ![c] = StartOf(c)]
  /\ excused' = [excused EXCEPT ![c] = @ \cup (last[c] + 1)..resume[c]]
  /\ UNCHANGED <<table, resume, got, drops, pumping>>

\* The connection breaks; the server goes on writing to it until it notices.
Drop(c) ==
  /\ conn[c] \in {"checking", "live"} /\ drops < MaxDrops
  /\ drops' = drops + 1
  /\ conn' = [conn EXCEPT ![c] = IF @ = "live" THEN "broken" ELSE "away"]
  /\ UNCHANGED <<table, resume, last, cursor, got, excused, pumping>>

\* The abort reaches the stream, which unsubscribes; without subscriptions the pump is discarded.
Unsubscribe(c) ==
  /\ conn[c] = "broken"
  /\ conn' = [conn EXCEPT ![c] = "away"]
  /\ IF Subscribed = {c}
     THEN pump' = "idle" /\ page' = <<>> /\ UNCHANGED after
     ELSE UNCHANGED pumping
  /\ UNCHANGED <<table, resume, last, cursor, got, excused, drops>>

-----------------------------------------------------------------------------
(* The pump.                                                               *)

\* A tick, or a new subscription: the page is read after the least cursor.
PumpStart ==
  /\ pump = "idle" /\ Subscribed # {}
  /\ pump' = "reading"
  /\ after' = Least({cursor[c] : c \in Subscribed})
  /\ UNCHANGED <<page, table, streams>>

PumpRead ==
  /\ pump = "reading"
  /\ page' \in ReadAfter(after)
  /\ pump' = PumpAfter(page')
  /\ UNCHANGED <<after, table, streams>>

\* The next event, to every subscription it is new to.  A cursor moves when its listener
\* resolves; a frame written to a broken connection is lost and its listener resolves.
Deliver ==
  /\ pump = "delivering" /\ page # <<>>
  /\ LET e == Head(page)
     IN  \E failing \in IF "fail" \in Faults THEN SUBSET NewTo(e) ELSE {{}} :
           LET served == NewTo(e) \ failing
               received == {c \in served : conn[c] = "live"}
           IN  /\ cursor' = [c \in Clients |-> IF c \in served THEN e ELSE cursor[c]]
               /\ last' = [c \in Clients |-> IF c \in received THEN e ELSE last[c]]
               /\ got' = [c \in Clients |-> IF c \in received THEN got[c] \cup {e}
                                                              ELSE got[c]]
  /\ page' = Tail(page)
  /\ pump' = PumpAfter(page')
  /\ UNCHANGED <<after, table, conn, resume, excused, drops>>

FeedNext ==
  \/ \E w \in Writers : Insert(w) \/ Commit(w) \/ Rollback(w)
  \/ Expire
  \/ \E c \in Clients : Connect(c) \/ CheckRetention(c) \/ Subscribe(c)
                        \/ Drop(c) \/ Unsubscribe(c)
  \/ PumpStart \/ PumpRead \/ Deliver

FeedSpec == FeedInit /\ [][FeedNext]_feedVars

(***************************************************************************)
(* Fairness.  The pump's timer ticks while there is a subscription, and    *)
(* its reads and its listeners return.  Nobody has to connect or to write. *)
(***************************************************************************)
FairFeedSpec ==
  FeedSpec /\ WF_feedVars(PumpStart) /\ WF_feedVars(PumpRead) /\ WF_feedVars(Deliver)

-----------------------------------------------------------------------------
NothingBefore ==
  \A c \in Clients : /\ last'[c] >= last[c]
                     /\ \A e \in got'[c] \ got[c] : e > last[c]

\* A client sees events in the order of their sequences and none twice, across any number of
\* reconnects, failing listeners and writers that commit out of order.
InOrder == [][NothingBefore]_feedVars

\* The server never believes less of a live client than the client knows: what it is sent
\* next is after its Last-Event-ID.
CursorCoversClient == \A c \in Clients : conn[c] = "live" => last[c] <= cursor[c]

\* No event is lost in silence: a client that has reached a sequence received every event
\* committed up to it, or was told to refetch.
Lossless ==
  \A c \in Clients, s \in stored : s <= last[c] => s \in got[c] \cup excused[c]

\* An event the pump can read reaches every client that stays connected.
Reaches ==
  \A c \in Clients, s \in 1..MaxSeq :
    s \in rows /\ conn[c] = "live" /\ s > cursor[c]
      ~> s \in got[c] \/ s \notin rows \/ conn[c] # "live"
=============================================================================
