---------------------------- MODULE DeliverySync ----------------------------
(***************************************************************************)
(* The delivery syncs of one source: how they are queued, claimed under a  *)
(* lease and run stream by stream against GitHub's newest-first lists      *)
(* (apps/api/src/services/delivery-syncer.ts, delivery-service.ts, the     *)
(* worker's enqueueDeliverySync).                                          *)
(*                                                                         *)
(* Two streams stand for the four: pull requests, which move to the front  *)
(* when they change, and deployments, which GitHub decides some time after *)
(* it lists them; commits and workflow runs are read as the first without  *)
(* its changes.  A page is one item.  Instants are numbers; of the times   *)
(* in the rows only whether they have passed is kept.                      *)
(***************************************************************************)
EXTENDS Integers, Sequences, FiniteSets

CONSTANTS
  Pulls, Deploys,  \* the items of the two lists
  Procs,           \* API processes that run createDeliverySyncer
  Syncs,           \* rows of delivery_syncs; one that ended is used again
  MaxAttempts,     \* DeliverySyncerOptions.maxAttempts
  BatchSize,       \* DeliverySyncerOptions.batch
  Lookback,        \* LOOKBACK_MS
  Backlog,         \* by item: its instant when the source is set up, 0 for none
  MaxClock,        \* bound: changes on GitHub
  MaxMishaps       \* bound: refused reads and crashes, or one lease outlived

ASSUME SyncBounds ==
  /\ MaxAttempts \in Nat \ {0} /\ BatchSize \in Nat \ {0} /\ Lookback \in Nat
  /\ MaxClock \in Nat /\ MaxMishaps \in Nat
  /\ Pulls \cap Deploys = {} /\ "none" \notin Pulls \cup Deploys
  /\ \A S \in {Pulls, Deploys, Procs, Syncs} : IsFiniteSet(S)
  /\ Backlog \in [Pulls \cup Deploys -> 0..MaxClock]
  \* A page is one item: the items of a list have instants of their own.
  /\ \A items \in {Pulls, Deploys} : \A i, k \in items :
       Backlog[i] > 0 /\ Backlog[i] = Backlog[k] => i = k

VARIABLES
  at,        \* GitHub: by item, updated_at or created_at; 0 before it exists
  decided,   \* GitHub: the deployments with an outcome
  stored,    \* by item: the instant of the version in the database; 0 for none
  cursors,   \* delivery_sources.cursors: [cursor, page, high, floor] by stream
  limited,   \* delivery_sources.rate_limited_until is still to come
  rows,      \* delivery_syncs: [status, attempts, due, lease]
  procs,     \* by process: [todo, step, stream, base, got, next]
  mishaps,
  outlived   \* a lease has lapsed while its holder lived

github == <<at, decided>>
worker == <<stored, cursors, limited, rows, procs>>
vars == <<github, worker, mishaps, outlived>>

Streams == <<"pulls", "deploys">>
StreamNames == {"pulls", "deploys"}
Items(st) == IF st = "pulls" THEN Pulls ELSE Deploys

\* No floor: nothing seen is undecided.
Never == MaxClock + 1
NoPage == 0
None == "none"

Smaller(a, b) == IF a < b THEN a ELSE b
Larger(a, b) == IF a < b THEN b ELSE a

clock == CHOOSE n \in 0..MaxClock : /\ \A i \in Pulls \cup Deploys : at[i] <= n
                                    /\ n > 0 => \E i \in Pulls \cup Deploys : at[i] = n

Fresh == [cursor |-> 0, page |-> NoPage, high |-> 0, floor |-> Never]
Resting == [todo |-> <<>>, step |-> "idle", stream |-> 1,
            base |-> [st \in StreamNames |-> Fresh], got |-> None, seen |-> 0, next |-> NoPage]

\* done or failed: which one, nothing here depends on.
Ended == [status |-> "ended", attempts |-> 0, due |-> FALSE, lease |-> 0]

Init ==
  /\ at = Backlog /\ decided = {}
  /\ stored = [i \in Pulls \cup Deploys |-> 0]
  /\ cursors = [st \in StreamNames |-> Fresh] /\ limited = FALSE
  /\ rows = [s \in Syncs |-> Ended]
  /\ procs = [p \in Procs |-> Resting]
  /\ mishaps = 0 /\ outlived = FALSE

-----------------------------------------------------------------------------
(* GitHub, and time.                                                       *)

\* A pull request changes, and is first in its list; a deployment is created.
Touch(i) ==
  /\ clock < MaxClock
  /\ i \in Deploys => at[i] = 0
  /\ at' = [at EXCEPT ![i] = clock + 1]
  /\ UNCHANGED <<decided, worker, mishaps, outlived>>

Decide(d) ==
  /\ at[d] > 0 /\ d \notin decided
  /\ decided' = decided \cup {d}
  /\ UNCHANGED <<at, worker, mishaps, outlived>>

Mishap == mishaps < MaxMishaps /\ mishaps' = mishaps + 1

Holders(s) == {p \in Procs : \E n \in DOMAIN procs[p].todo :
                 procs[p].todo[n] = <<s, rows[s].lease>>}

\* next_attempt_at passes: a back-off ends, or a lease lapses.
TimePasses(s) ==
  /\ rows[s].status \in {"queued", "running"} /\ ~rows[s].due
  /\ rows[s].status = "running" => Holders(s) = {}
  /\ rows' = [rows EXCEPT ![s].due = TRUE]
  /\ UNCHANGED <<github, stored, cursors, limited, procs, mishaps, outlived>>

\* A holder is slower than its lease is long.  Bounds: once, without another mishap, and while
\* the holder is about to save.
Lapses(s) ==
  /\ rows[s].status = "running" /\ ~rows[s].due
  /\ \E p \in Holders(s) : procs[p].todo[1][1] = s /\ procs[p].step = "save"
  /\ mishaps = 0 /\ mishaps' = MaxMishaps
  /\ rows' = [rows EXCEPT ![s].due = TRUE] /\ outlived' = TRUE
  /\ UNCHANGED <<github, stored, cursors, limited, procs>>

LimitPasses ==
  /\ limited /\ limited' = FALSE
  /\ UNCHANGED <<github, stored, cursors, rows, procs, mishaps, outlived>>

-----------------------------------------------------------------------------
(* Queueing and claiming.  A definition named after the one below it is a  *)
(* mistake that one could make in its place.                               *)

QueuedRows == {s \in Syncs : rows[s].status = "queued"}

\* The schedule, an operator or a webhook: a sync that waits absorbs the request.
\* Which of the rows that ended stands for the new one makes no difference.
Queue(s) ==
  /\ QueuedRows = {} /\ rows[s].status = "ended"
  /\ s = CHOOSE o \in Syncs : rows[o].status = "ended"
  /\ rows' = [rows EXCEPT ![s].status = "queued", ![s].due = TRUE]
  /\ UNCHANGED <<github, stored, cursors, limited, procs, mishaps, outlived>>

Waiting(s) == rows[s].status \in {"queued", "running"} /\ rows[s].due

NeverExhausted == {}

Exhausted == {s \in Syncs : Waiting(s) /\ rows[s].attempts >= MaxAttempts}

Exhaust(p) ==
  /\ procs[p].step = "idle" /\ Exhausted # {}
  /\ rows' = [s \in Syncs |-> IF s \in Exhausted THEN Ended ELSE rows[s]]
  /\ UNCHANGED <<github, stored, cursors, limited, procs, mishaps, outlived>>

ClaimableBesideOthers == {s \in Syncs : Waiting(s) /\ rows[s].attempts < MaxAttempts}

\* Rows whose turn it is, while no other sync of the source holds a live lease.
Claimable ==
  {s \in Syncs : /\ Waiting(s) /\ rows[s].attempts < MaxAttempts
                 /\ \A o \in Syncs \ {s} : ~(rows[o].status = "running" /\ ~rows[o].due)}

\* The leases of a row that its own record or a process's list still names.
Taken(s) ==
  LET entries == {x \in Procs \X (1..BatchSize) : /\ x[2] \in DOMAIN procs[x[1]].todo
                                                  /\ procs[x[1]].todo[x[2]][1] = s}
  IN  {rows[s].lease} \cup {procs[x[1]].todo[x[2]][2] : x \in entries}

\* gen_random_uuid: a lease nobody has of that row.
NewLease(s) ==
  CHOOSE n \in 1..(Cardinality(Taken(s)) + 1) :
    n \notin Taken(s) /\ \A m \in 1..(n - 1) : m \in Taken(s)

\* One statement moves the batch to running, each row under a lease of its own.
Claim(p) ==
  /\ procs[p].step = "idle" /\ Exhausted = {} /\ ~limited /\ Claimable # {}
  /\ \E batch \in SUBSET Claimable :
       /\ Cardinality(batch) = Smaller(BatchSize, Cardinality(Claimable))
       /\ rows' = [s \in Syncs |->
                    IF s \in batch
                    THEN [status |-> "running", attempts |-> rows[s].attempts + 1,
                          due |-> FALSE, lease |-> NewLease(s)]
                    ELSE rows[s]]
       /\ \E order \in [1..Cardinality(batch) -> batch] :
            /\ \A i, k \in DOMAIN order : order[i] = order[k] => i = k
            /\ procs' = [procs EXCEPT ![p].step = "prepare",
                           ![p].todo = [n \in DOMAIN order |-> <<order[n], NewLease(order[n])>>]]
  /\ UNCHANGED <<github, stored, cursors, limited, mishaps, outlived>>

-----------------------------------------------------------------------------
(* A claimed sync.                                                         *)

Row(p) == procs[p].todo[1][1]

\* The predicate every write to the row or the source carries.
HoldsLease(p) ==
  /\ rows[Row(p)].status = "running"
  /\ rows[Row(p)].lease = procs[p].todo[1][2]

Stream(p) == Streams[procs[p].stream]
State(p) == procs[p].base[Stream(p)]

\* The syncs of a batch are run one after the other.
NextRow(p) ==
  LET rest == Tail(procs[p].todo)
  IN  procs' = [procs EXCEPT ![p] = [Resting EXCEPT !.todo = rest,
                  !.step = IF rest = <<>> THEN "idle" ELSE "prepare"]]

Prepare(p) ==
  /\ procs[p].step = "prepare"
  /\ procs' = [procs EXCEPT ![p].step = "list", ![p].base = cursors]
  /\ UNCHANGED <<github, stored, cursors, limited, rows, mishaps, outlived>>

\* Where the list stops: an item older than this is not read.
Cutoff(p) ==
  IF Stream(p) = "deploys" THEN State(p).cursor - Lookback ELSE State(p).cursor

PageOf(p) == IF State(p).page = NoPage THEN 1 ELSE State(p).page

\* The n-th item of a list that is ordered newest first.
Ranked(st, n) ==
  {i \in Items(st) : at[i] > 0 /\ Cardinality({k \in Items(st) : at[k] > at[i]}) = n - 1}

\* readList, one page: the item there, unless it is too old, and the page that follows it.
List(p) ==
  /\ procs[p].step = "list"
  /\ LET n == PageOf(p)
         listed == {i \in Ranked(Stream(p), n) : at[i] >= Cutoff(p)}
         more == listed # {} /\ Ranked(Stream(p), n + 1) # {}
     IN  \E got \in (IF listed = {} THEN {None} ELSE listed) :
           procs' = [procs EXCEPT ![p].step = "write", ![p].got = got,
                                  ![p].seen = IF got = None THEN 0 ELSE at[got],
                                  ![p].next = IF more THEN n + 1 ELSE NoPage]
  /\ UNCHANGED <<github, stored, cursors, limited, rows, mishaps, outlived>>

IsPending(i) == i \in Deploys /\ stored[i] = 0 /\ i \notin decided

AdvanceSkipsFloor(state, next, newest, floor) ==
  LET high == Larger(state.high, newest)
  IN  IF next # NoPage
      THEN [cursor |-> state.cursor, page |-> next, high |-> high, floor |-> Never]
      ELSE [cursor |-> high, page |-> NoPage, high |-> high, floor |-> Never]

AdvanceEachPage(state, next, newest, floor) ==
  LET high == Larger(state.high, newest)
      low == Smaller(state.floor, floor)
      cursor == Larger(state.cursor, Smaller(high, low))
  IN  [cursor |-> cursor, page |-> next, high |-> cursor, floor |-> Never]

\* advanceStream: the cursor stays until the walk reaches the end of the list, then it becomes
\* the newest instant seen, held back by what is undecided.
AdvanceStream(state, next, newest, floor) ==
  LET high == Larger(state.high, newest)
      low == Smaller(state.floor, floor)
  IN  IF next # NoPage
      THEN [cursor |-> state.cursor, page |-> next, high |-> high, floor |-> low]
      ELSE LET cursor == Larger(state.cursor, Smaller(high, low))
           IN  [cursor |-> cursor, page |-> NoPage, high |-> cursor, floor |-> Never]

\* The item is written as it was listed, whoever holds the lease by now; then the stream's
\* place is known.
Write(p) ==
  LET i == procs[p].got
      pending == i # None /\ IsPending(i)
      writes == i # None /\ ~pending /\ (i \in Deploys => stored[i] = 0)
  IN  /\ procs[p].step = "write"
      /\ stored' = IF writes THEN [stored EXCEPT ![i] = procs[p].seen] ELSE stored
      /\ procs' = [procs EXCEPT ![p].step = "save", ![p].got = None, ![p].seen = 0,
                     ![p].next = NoPage,
                     ![p].base[Stream(p)] =
                       AdvanceStream(@, procs[p].next, procs[p].seen,
                                     IF pending THEN procs[p].seen ELSE Never)]
      /\ UNCHANGED <<github, cursors, limited, rows, mishaps, outlived>>

\* writeCursor merges, the later cursor winning; then the lease is renewed.
Save(p) ==
  /\ procs[p].step = "save" /\ HoldsLease(p)
  /\ cursors' = [cursors EXCEPT ![Stream(p)] = IF @.cursor <= State(p).cursor THEN State(p) ELSE @]
  /\ rows' = [rows EXCEPT ![Row(p)].due = FALSE]
  /\ procs' = [procs EXCEPT ![p].step = IF procs[p].stream = Len(Streams) THEN "finish" ELSE "list",
                            ![p].stream = IF @ = Len(Streams) THEN 1 ELSE @ + 1]
  /\ UNCHANGED <<github, stored, limited, mishaps, outlived>>

Finish(p) ==
  /\ procs[p].step = "finish" /\ HoldsLease(p)
  /\ limited' = FALSE
  /\ rows' = [rows EXCEPT ![Row(p)] = Ended]
  /\ NextRow(p)
  /\ UNCHANGED <<github, stored, cursors, mishaps, outlived>>

\* LeaseLost, at a write or after a read that was refused: nothing more is written to the row
\* or the source.
Abandon(p) ==
  /\ procs[p].step \in {"list", "write", "save", "finish"} /\ ~HoldsLease(p)
  /\ NextRow(p)
  /\ UNCHANGED <<github, stored, cursors, limited, rows, mishaps, outlived>>

Requeued(attempts) == [status |-> "queued", attempts |-> attempts, due |-> FALSE, lease |-> 0]

RequeueUnchecked(s, attempts) == rows' = [rows EXCEPT ![s] = Requeued(attempts)]

\* finish as queued: not while another is queued, which does the same work.
Requeue(s, attempts) ==
  rows' = [rows EXCEPT ![s] = IF QueuedRows = {} THEN Requeued(attempts) ELSE Ended]

Reading(p) == procs[p].step \in {"list", "write"}

\* A read is refused: for good, for now, or until GitHub's limit is reset.
Fails(p) ==
  LET s == Row(p)
      End == rows' = [rows EXCEPT ![s] = Ended]
  IN  /\ Reading(p) /\ HoldsLease(p) /\ Mishap
      /\ \/ End /\ UNCHANGED limited
         \/ rows[s].attempts < MaxAttempts /\ Requeue(s, rows[s].attempts) /\ UNCHANGED limited
         \/ Requeue(s, rows[s].attempts - 1) /\ limited' = TRUE
      /\ NextRow(p)
      /\ UNCHANGED <<github, stored, cursors, outlived>>

Crash(p) ==
  /\ procs[p].step # "idle" /\ Mishap
  /\ procs' = [procs EXCEPT ![p] = Resting]
  /\ UNCHANGED <<github, stored, cursors, limited, rows, outlived>>

-----------------------------------------------------------------------------
Polling(p) == Exhaust(p) \/ Claim(p)
Syncing(p) == Prepare(p) \/ List(p) \/ Write(p) \/ Save(p) \/ Finish(p) \/ Abandon(p)

Next ==
  \/ \E i \in Pulls \cup Deploys : Touch(i)
  \/ \E d \in Deploys : Decide(d)
  \/ \E s \in Syncs : Queue(s) \/ TimePasses(s) \/ Lapses(s)
  \/ LimitPasses
  \/ \E p \in Procs : Polling(p) \/ Syncing(p) \/ Fails(p) \/ Crash(p)

Spec == Init /\ [][Next]_vars

\* Time passes, the source's schedule goes on, every process polls on its interval and goes on
\* with what it has claimed; GitHub decides its deployments.
FairSpec ==
  /\ Spec
  /\ WF_vars(LimitPasses)
  /\ WF_vars(\E s \in Syncs : Queue(s))
  /\ \A s \in Syncs : WF_vars(TimePasses(s))
  /\ \A p \in Procs : WF_vars(Polling(p)) /\ WF_vars(Syncing(p))

-----------------------------------------------------------------------------
\* Attempts stay within their bound, at most one sync is queued, a walk under way has seen
\* something, and whoever is running a sync has one.
SyncTypeOK ==
  /\ \A s \in Syncs : rows[s].attempts \in 0..MaxAttempts
  /\ Cardinality(QueuedRows) <= 1
  /\ \A st \in StreamNames : cursors[st].page # NoPage => cursors[st].high >= cursors[st].cursor
  /\ \A p \in Procs : procs[p].step # "idle" => procs[p].todo # <<>>

\* While no lease is outlived, what the cursor has passed is stored, in the version GitHub shows:
\* nothing between the old cursor and the newest item is skipped, however the walk is cut and
\* the list shifts.
NothingSkipped ==
  ~outlived => \A i \in Pulls : at[i] > 0 /\ at[i] <= cursors["pulls"].cursor => stored[i] = at[i]

\* No two processes write the source at a time.
Writes(p) == procs[p].step \notin {"idle", "prepare"} /\ HoldsLease(p)
SoleWriter == \A p, q \in Procs : Writes(p) /\ Writes(q) => p = q

\* Every sync ends, though each attempt may die and each read be refused.
SyncEnds == \A s \in Syncs : rows[s].status = "queued" ~> rows[s].status = "ended"

\* Every deployment that GitHub decides is stored at last.
DeploysArrive == \A d \in Deploys : d \in decided ~> stored[d] > 0
=============================================================================
