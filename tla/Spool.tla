-------------------------------- MODULE Spool --------------------------------
(***************************************************************************)
(* The runner's DurableSpool (packages/runner-sdk/src/spool.ts): the queue *)
(* of events and completions a runner has still to deliver, kept in memory *)
(* and in three files (the sealed frames, the acknowledgements, the        *)
(* sequences).  An operation is split where it awaits the file system, so  *)
(* a process may die, or another operation of the same process may run,    *)
(* between any two of its steps.                                           *)
(*                                                                         *)
(* Files are counted in frames: the header is one and every entry is one.  *)
(* Sealing is abstracted; keys never change.                               *)
(***************************************************************************)
EXTENDS Subsequences

CONSTANTS
  Jobs,          \* jobs with an event chain of their own
  Header,        \* the frame that begins the file
  Torn,          \* bytes that are not a whole frame
  MaxEntries,    \* DurableSpoolOptions.maxEntries
  MaxFrames,     \* DurableSpoolOptions.maxBytes
  CompactAbove,  \* DurableSpoolOptions.compactThresholdBytes
  TornTails,     \* DurableSpoolOptions.tornTail: main.ts leaves it at "fail"
  Overlap,       \* whether operations of one process may overlap
  ShortWrites,   \* whether a write may fail half way (a full disk)
  MaxBorn,       \* bound: entries ever enqueued
  MaxCrashes     \* bound: process ends, orderly ones included

ASSUME SpoolBounds ==
  /\ MaxEntries \in Nat \ {0} /\ MaxFrames \in Nat \ {0} /\ CompactAbove \in Nat \ {0}
  /\ MaxBorn \in Nat /\ MaxCrashes \in Nat
  /\ TornTails \subseteq {"fail", "drop"} /\ TornTails # {}
  /\ Overlap \in BOOLEAN /\ ShortWrites \in BOOLEAN
  /\ Header # Torn

Entry == [id : Nat, job : Jobs, seq : Nat, dead : BOOLEAN]

ASSUME FramesDiffer == Header \notin Entry /\ Torn \notin Entry

VARIABLES
  mode,       \* "up", "opening", "down", or "refused": open threw
  entries,    \* memory: the queue
  acked,      \* memory: acknowledged ids whose frames are still in the file
  sequences,  \* memory: the highest sequence seen, by job
  committed,  \* memory: committedBytes, the length the file should have
  writer,     \* the enqueue under way, by job
  flusher,    \* the ack, deadLetter or compaction under way
  file,       \* disk: events.spool
  ackFile,    \* disk: events.spool.acks
  seqFile,    \* disk: events.spool.sequences
  seen        \* history: what callers were told

memory == <<entries, acked, sequences, committed>>
disk == <<file, ackFile, seqFile>>
vars == <<mode, memory, writer, flusher, disk, seen>>

NoWrite == [step |-> "idle"]
NoFlush == [step |-> "idle"]

-----------------------------------------------------------------------------
(* Helpers.  A definition named after the one below it is a mistake that   *)
(* one could make in its place: each property fails under one of them.     *)

IdsOf(s) == {s[i].id : i \in DOMAIN s}

\* The header is the first frame, and the others are entries.
Entries(frames) == SubSeq(frames, 2, Len(frames))

Without(s, ids) == Picked(s, {i \in DOMAIN s : s[i].id \notin ids})

Deliverable(s) == Picked(s, {i \in DOMAIN s : ~s[i].dead})

Marked(s, ids) ==
  [i \in DOMAIN s |-> IF s[i].id \in ids THEN [s[i] EXCEPT !.dead = TRUE] ELSE s[i]]

Highest(numbers) == CHOOSE n \in numbers : \A m \in numbers : m <= n
HighestSequence(s, j) == Highest({0} \cup {s[i].seq : i \in {k \in DOMAIN s : s[k].job = j}})

LastSequence(j) == Highest({sequences[j], HighestSequence(entries, j)})

\* decodeFile: the frames that can be read from the beginning of the file.
IsBad(f, i) == f[i] = Torn \/ (f[i] = Header) # (i = 1)
GoodPrefix(f) ==
  LET bad == {i \in DOMAIN f : IsBad(f, i)}
      first == CHOOSE i \in bad : \A k \in bad : i <= k
  IN  IF bad = {} THEN f ELSE SubSeq(f, 1, first - 1)

\* What is left behind them may only be the start of one frame, where tornTail drops that.
Opens(f, tornTail) ==
  LET good == GoodPrefix(f)
  IN  \/ good = f
      \/ /\ tornTail = "drop"
         /\ good # <<>> /\ f = Append(good, Torn)

TruncatedOneShort(f, n) == SubSeq(f, 1, n - 1)

\* truncate(path, n) cuts a file that is longer and pads one that is shorter.
Truncated(f, n) ==
  [i \in 1..n |-> IF i \in DOMAIN f THEN f[i] ELSE Torn]

Writing == {j \in Jobs : writer[j] # NoWrite}
Flushing == flusher # NoFlush

\* Enqueues of several jobs, or an enqueue and the flush loop, run at the same time.
MayEnqueue == Overlap \/ (Writing = {} /\ ~Flushing)
MayFlush == ~Flushing /\ (Overlap \/ Writing = {})

-----------------------------------------------------------------------------
Init ==
  /\ mode = "down"
  /\ entries = <<>> /\ acked = {} /\ committed = 0
  /\ sequences = [j \in Jobs |-> 0]
  /\ writer = [j \in Jobs |-> NoWrite] /\ flusher = NoFlush
  /\ file = <<>> /\ ackFile = {} /\ seqFile = [j \in Jobs |-> 0]
  /\ seen = [born |-> 0, crashes |-> 0, told |-> {}, given |-> {}, settled |-> {},
             marked |-> {}, top |-> [j \in Jobs |-> 0]]

-----------------------------------------------------------------------------
(* compact: the entries in memory are written to a new file that replaces  *)
(* the old one; then the acknowledgements it makes obsolete are cleared.   *)

\* kind says what the compaction is the end of; ids are what that was asked for.
Compaction(frames, count, kind, ids) ==
  [step |-> IF frames = <<>> /\ count = 0 THEN "clear" ELSE "rename",
   buffer |-> <<Header>> \o frames, kind |-> kind, ids |-> ids]

\* An append whose handle is open writes to the file that was replaced.
Unlinked(w) == IF w.step = "write" THEN [w EXCEPT !.unlinked = TRUE] ELSE w

Rename ==
  /\ flusher.step = "rename"
  /\ file' = flusher.buffer
  /\ writer' = [j \in Jobs |-> Unlinked(writer[j])]
  /\ flusher' = [flusher EXCEPT !.step = "settle"]
  /\ UNCHANGED <<mode, memory, ackFile, seqFile, seen>>

SettleButCount ==
  /\ flusher.step = "settle"
  /\ acked' = {}
  /\ flusher' = [flusher EXCEPT !.step = "clear"]
  /\ UNCHANGED <<mode, entries, sequences, committed, writer, disk, seen>>

Settle ==
  /\ flusher.step = "settle"
  /\ committed' = Len(flusher.buffer)
  /\ acked' = {}
  /\ flusher' = [flusher EXCEPT !.step = "clear"]
  /\ UNCHANGED <<mode, entries, sequences, writer, disk, seen>>

\* The operation returns: seen remembers what it told its caller.
Returned(kind, ids) ==
  /\ flusher' = NoFlush
  /\ mode' = "up"
  /\ seen' = [seen EXCEPT !.settled = IF kind = "ack" THEN @ \cup ids ELSE @,
                          !.marked = IF kind = "mark" THEN @ \cup ids ELSE @]

Clear ==
  /\ flusher.step = "clear"
  /\ ackFile' = acked
  /\ Returned(flusher.kind, flusher.ids)
  /\ UNCHANGED <<memory, writer, file, seqFile>>

-----------------------------------------------------------------------------
(* ack and deadLetter, called by the flush loop, one at a time.            *)

\* ack is given what was delivered of the head of the queue.
Ack ==
  /\ mode = "up" /\ MayFlush
  /\ \E n \in 1..Len(Deliverable(entries)) :
       LET ids == IdsOf(SubSeq(Deliverable(entries), 1, n))
       IN  /\ entries' = Without(entries, ids)
           /\ acked' = acked \cup ids
           /\ flusher' = [step |-> "acks", kind |-> "ack", ids |-> ids]
           /\ seen' = [seen EXCEPT !.given = @ \cup ids]
  /\ UNCHANGED <<mode, sequences, committed, writer, disk>>

PersistNoAcknowledgements ==
  /\ flusher.step = "acks"
  /\ flusher' = [flusher EXCEPT !.step = "sequences"]
  /\ UNCHANGED <<mode, memory, writer, disk, seen>>

PersistAcknowledgements ==
  /\ flusher.step = "acks"
  /\ ackFile' = acked
  /\ flusher' = [flusher EXCEPT !.step = "sequences"]
  /\ UNCHANGED <<mode, memory, writer, file, seqFile, seen>>

PersistNoSequences ==
  /\ flusher.step = "sequences"
  /\ flusher' = [flusher EXCEPT !.step = "decide"]
  /\ UNCHANGED <<mode, memory, writer, disk, seen>>

PersistSequences ==
  /\ flusher.step = "sequences"
  /\ seqFile' = sequences
  /\ flusher' = [flusher EXCEPT !.step = "decide"]
  /\ UNCHANGED <<mode, memory, writer, file, ackFile, seen>>

CompactOrReturn ==
  /\ flusher.step = "decide"
  /\ IF entries = <<>> \/ committed > CompactAbove
     THEN /\ flusher' = Compaction(entries, committed, "ack", flusher.ids)
          /\ UNCHANGED <<mode, seen>>
     ELSE Returned("ack", flusher.ids)
  /\ UNCHANGED <<memory, writer, disk>>

\* deadLetter is given a batch, or its first refused entry.
DeadLetter ==
  /\ mode = "up" /\ MayFlush
  /\ \E ids \in (SUBSET IdsOf(Deliverable(entries))) \ {{}} :
       /\ entries' = Marked(entries, ids)
       /\ flusher' = Compaction(entries', committed, "mark", ids)
  /\ UNCHANGED <<mode, acked, sequences, committed, writer, disk, seen>>

-----------------------------------------------------------------------------
(* enqueue.  The event chain of a job has one under way at most.           *)

Enqueue(j) ==
  /\ mode = "up" /\ writer[j] = NoWrite /\ MayEnqueue
  /\ seen.born < MaxBorn
  /\ Len(entries) < MaxEntries /\ committed + 1 <= MaxFrames
  /\ writer' = [writer EXCEPT ![j] =
       [step |-> "stat", first |-> committed = 0,
        entry |-> [id |-> seen.born + 1, job |-> j, seq |-> LastSequence(j) + 1,
                   dead |-> FALSE]]]
  /\ seen' = [seen EXCEPT !.born = @ + 1]
  /\ UNCHANGED <<mode, memory, flusher, disk>>

Step(j, s) == [step |-> s, first |-> writer[j].first, entry |-> writer[j].entry]

\* The torn-tail guard asks the file system how long the file is.
Stat(j) ==
  /\ writer[j].step = "stat"
  /\ writer' = [writer EXCEPT ![j] =
                  [step |-> "guard", first |-> @.first, entry |-> @.entry,
                   size |-> Len(file)]]
  /\ UNCHANGED <<mode, memory, flusher, disk, seen>>

GuardTrustsItself(j) ==
  /\ writer[j].step = "guard"
  /\ writer' = [writer EXCEPT ![j] = Step(j, "open")]
  /\ UNCHANGED <<mode, memory, flusher, disk, seen>>

\* Told, it cuts what the queue does not count, by the count of now.
Guard(j) ==
  /\ writer[j].step = "guard"
  /\ writer' = [writer EXCEPT ![j] =
                  IF @.size > committed
                  THEN [step |-> "truncate", first |-> @.first, entry |-> @.entry,
                        length |-> committed]
                  ELSE Step(j, "open")]
  /\ UNCHANGED <<mode, memory, flusher, disk, seen>>

Truncate(j) ==
  /\ writer[j].step = "truncate"
  /\ file' = Truncated(file, writer[j].length)
  /\ writer' = [writer EXCEPT ![j] = Step(j, "open")]
  /\ UNCHANGED <<mode, memory, flusher, ackFile, seqFile, seen>>

OpenForAppend(j) ==
  /\ writer[j].step = "open"
  /\ writer' = [writer EXCEPT ![j] =
                  [step |-> "write", first |-> @.first, entry |-> @.entry,
                   unlinked |-> FALSE]]
  /\ UNCHANGED <<mode, memory, flusher, disk, seen>>

Payload(w) == (IF w.first THEN <<Header>> ELSE <<>>) \o <<w.entry>>

\* What an interrupted write leaves: some whole frames, and a piece of the next.
Residues(w) == {<<>>} \cup {Append(SubSeq(Payload(w), 1, n), Torn) : n \in 0..Len(Payload(w)) - 1}

AppendDurably(j) ==
  /\ writer[j].step = "write"
  /\ file' = IF writer[j].unlinked THEN file ELSE file \o Payload(writer[j])
  /\ writer' = [writer EXCEPT ![j] = Step(j, "count")]
  /\ UNCHANGED <<mode, memory, flusher, ackFile, seqFile, seen>>

\* enqueue rejects, and its caller knows that the entry is not in the queue.
AppendFails(j) ==
  /\ ShortWrites
  /\ writer[j].step = "write"
  /\ IF writer[j].unlinked THEN UNCHANGED file
     ELSE \E residue \in Residues(writer[j]) : file' = file \o residue
  /\ writer' = [writer EXCEPT ![j] = NoWrite]
  /\ UNCHANGED <<mode, memory, flusher, ackFile, seqFile, seen>>

\* enqueue resolves: the entry is in the queue.
Count(j) ==
  /\ writer[j].step = "count"
  /\ LET e == writer[j].entry
     IN  /\ entries' = Append(entries, e)
         /\ sequences' = [sequences EXCEPT ![j] = Highest({@, e.seq})]
         /\ committed' = committed + Len(Payload(writer[j]))
         /\ seen' = [seen EXCEPT !.told = @ \cup {e.id}, !.top[j] = Highest({@, e.seq})]
  /\ writer' = [writer EXCEPT ![j] = NoWrite]
  /\ UNCHANGED <<mode, acked, flusher, disk>>

-----------------------------------------------------------------------------
(* The process ends, in the middle of anything, and opens the spool again. *)

Crash ==
  /\ mode \in {"up", "opening"} /\ seen.crashes < MaxCrashes
  /\ mode' = "down"
  /\ entries' = <<>> /\ acked' = {} /\ committed' = 0
  /\ sequences' = [j \in Jobs |-> 0]
  /\ writer' = [j \in Jobs |-> NoWrite] /\ flusher' = NoFlush
  /\ \/ UNCHANGED file
     \/ \E j \in Jobs :
          /\ writer[j] # NoWrite /\ writer[j].step = "write" /\ ~writer[j].unlinked
          /\ \E residue \in Residues(writer[j]) : file' = file \o residue
  /\ seen' = [seen EXCEPT !.crashes = @ + 1]
  /\ UNCHANGED <<ackFile, seqFile>>

\* open: acknowledged entries count for the sequences, and are then compacted away.
Open(tornTail) ==
  /\ mode \in {"down", "refused"}
  /\ LET good == GoodPrefix(file)
         found == Entries(good)
     IN  IF Opens(file, tornTail)
         THEN /\ entries' = Without(found, ackFile)
              /\ acked' = ackFile
              /\ committed' = Len(good)
              /\ sequences' = [j \in Jobs |-> Highest({seqFile[j], HighestSequence(found, j)})]
              /\ IF ackFile = {}
                 THEN mode' = "up" /\ UNCHANGED flusher
                 ELSE /\ mode' = "opening"
                      /\ flusher' = Compaction(entries', committed', "open", {})
         ELSE mode' = "refused" /\ UNCHANGED <<memory, flusher>>
  /\ UNCHANGED <<writer, disk, seen>>

-----------------------------------------------------------------------------
FlushStep ==
  \/ Rename \/ Settle \/ Clear
  \/ PersistAcknowledgements \/ PersistSequences \/ CompactOrReturn

EnqueueStep(j) ==
  \/ Stat(j) \/ Guard(j) \/ Truncate(j) \/ OpenForAppend(j)
  \/ AppendDurably(j) \/ AppendFails(j) \/ Count(j)

Next ==
  \/ Ack \/ DeadLetter \/ FlushStep
  \/ \E j \in Jobs : Enqueue(j) \/ EnqueueStep(j)
  \/ Crash
  \/ \E tornTail \in TornTails : Open(tornTail)

Spec == Init /\ [][Next]_vars

-----------------------------------------------------------------------------
(***************************************************************************)
(* Properties.                                                             *)
(***************************************************************************)

\* What a restart would find, a torn tail left aside.
Recoverable == Without(Entries(GoodPrefix(file)), ackFile)

\* An entry whose enqueue resolved and that nobody settled is on disk, whatever died since
\* and whatever the flush loop was rewriting meanwhile.
NoneLost == seen.told \ seen.given \subseteq IdsOf(Recoverable)

\* An entry whose ack returned, or that was dead-lettered, is never delivered again, whether the
\* process went on or was restarted in between.
NotRedelivered == (seen.settled \cup seen.marked) \cap IdsOf(Deliverable(entries)) = {}

\* The length the torn-tail guard cuts the file to ends every frame it holds: cutting
\* never takes an entry that is in the queue, whatever residue lies behind.
GuardIsSafe ==
  mode = "up" /\ Writing = {} /\ ~Flushing =>
    /\ committed <= Len(file)
    /\ Without(Entries(SubSeq(file, 1, committed)), acked) = entries

\* The number an event gets was not given to an earlier event of its job, if the process
\* ended at most once: the API takes a number once.
SequencesSurvive ==
  mode = "up" /\ seen.crashes <= 1 => \A j \in Jobs : LastSequence(j) >= seen.top[j]

\* The files implement the abstract queue: no step of any operation, and no crash, changes what
\* a restart finds except by adding, settling or marking entries.
Queue == INSTANCE DurableQueue WITH queue <- Recoverable
ImplementsQueue == Queue!QSpec
=============================================================================
