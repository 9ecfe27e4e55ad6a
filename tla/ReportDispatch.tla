--------------------------- MODULE ReportDispatch ---------------------------
(***************************************************************************)
(* The dispatcher that sends the report deliveries the worker queued       *)
(* (apps/api/src/services/report-dispatcher.ts): every API process runs    *)
(* one.  A batch is claimed under a lease, then sent row by row; the       *)
(* outcome of each is written by the row's id.                             *)
(*                                                                         *)
(* Of next_attempt_at only whether it has passed is kept.                  *)
(***************************************************************************)
EXTENDS Integers, Sequences, FiniteSets, SequencesExt

CONSTANTS
  Deliveries,   \* rows of report_deliveries
  Dispatchers,
  Batch,        \* ReportDispatcherOptions.batch
  MaxAttempts,  \* ReportDispatcherOptions.maxAttempts
  Outlive,      \* whether a lease may lapse while its holder lives
  MaxFaults     \* bound: processes that stop, writes the database refuses

ASSUME DispatchBounds ==
  /\ Batch \in Nat \ {0} /\ MaxAttempts \in Nat \ {0} /\ MaxFaults \in Nat
  /\ Outlive \in BOOLEAN /\ IsFiniteSet(Deliveries)

VARIABLES
  rows,     \* report_deliveries: [status, attempts, due]
  hands,    \* by dispatcher: what it claimed and has not finished, with the attempts it read
  outcomes, \* by dispatcher: the outcome of the first in its hands, "none" before it is sent
  arrived,  \* by delivery: how often its message reached the channel
  faults    \* by delivery: the faults that hit it

vars == <<rows, hands, outcomes, arrived, faults>>

Sum(f) == FoldFunction(LAMBDA a, b : a + b, 0, f)
Fault(hit) ==
  /\ Sum(faults) < MaxFaults
  /\ faults' = [d \in Deliveries |-> IF d \in hit THEN faults[d] + 1 ELSE faults[d]]

Init ==
  /\ rows = [d \in Deliveries |-> [status |-> "absent", attempts |-> 0, due |-> FALSE]]
  /\ hands = [p \in Dispatchers |-> <<>>]
  /\ outcomes = [p \in Dispatchers |-> "none"]
  /\ arrived = [d \in Deliveries |-> 0]
  /\ faults = [d \in Deliveries |-> 0]

Held(p) == {hands[p][n].id : n \in DOMAIN hands[p]}
Ended == {"sent", "failed"}

-----------------------------------------------------------------------------
\* enqueueScheduledReport, or a test send.
Queue(d) ==
  /\ rows[d].status = "absent"
  /\ rows' = [rows EXCEPT ![d] = [status |-> "pending", attempts |-> 0, due |-> TRUE]]
  /\ UNCHANGED <<hands, outcomes, arrived, faults>>

\* A back-off ends, or a lease lapses.
TimePasses(d) ==
  /\ rows[d].status \in {"pending", "sending"} /\ ~rows[d].due
  /\ rows[d].status = "sending" => Outlive \/ \A p \in Dispatchers : d \notin Held(p)
  /\ rows' = [rows EXCEPT ![d].due = TRUE]
  /\ UNCHANGED <<hands, outcomes, arrived, faults>>

ClaimablePending == {d \in Deliveries : rows[d].status = "pending" /\ rows[d].due}
Claimable == {d \in Deliveries : rows[d].status \in {"pending", "sending"} /\ rows[d].due}

TakenUnleased(row) == [row EXCEPT !.status = "sending", !.attempts = @ + 1]

\* One statement: the row is somebody's, and no longer due.
Taken(row) == [status |-> "sending", attempts |-> row.attempts + 1, due |-> FALSE]

\* Rows of one instant come in any order.
Claim(p) ==
  /\ hands[p] = <<>> /\ Claimable # {}
  /\ \E batch \in SUBSET Claimable :
       /\ batch # {} /\ (Cardinality(batch) = Batch \/ batch = Claimable)
       /\ Cardinality(batch) <= Batch
       /\ rows' = [d \in Deliveries |-> IF d \in batch THEN Taken(rows[d]) ELSE rows[d]]
       /\ \E order \in SetToSeqs(batch) :
            hands' = [hands EXCEPT ![p] =
              [n \in DOMAIN order |-> [id |-> order[n], attempts |-> rows'[order[n]].attempts]]]
  /\ UNCHANGED <<outcomes, arrived, faults>>

RefusedAtLimit(attempts) == IF attempts <= MaxAttempts THEN "pending" ELSE "failed"

\* A retryable refusal, which sent nothing.
Refused(attempts) == IF attempts < MaxAttempts THEN "pending" ELSE "failed"

UnknownRetried(attempts) == Refused(attempts)

\* The message may have arrived: not retryable, so not sent again.
Unknown(attempts) == "failed"

\* The message arrives and its answer may be lost, or it is refused; without a channel or its
\* secret nothing is sent.
Send(p) ==
  /\ hands[p] # <<>> /\ outcomes[p] = "none"
  /\ LET row == Head(hands[p])
         Comes(outcome) == outcomes' = [outcomes EXCEPT ![p] = outcome]
     IN  \/ /\ Comes("sent") \/ Comes(Unknown(row.attempts))
            /\ arrived' = [arrived EXCEPT ![row.id] = @ + 1]
         \/ /\ Comes(Refused(row.attempts)) \/ Comes("failed")
            /\ UNCHANGED arrived
  /\ UNCHANGED <<rows, hands, faults>>

\* finish: by the id, whatever the row says by now; a retry waits for its back-off.
Finish(p) ==
  /\ outcomes[p] # "none"
  /\ rows' = [rows EXCEPT ![Head(hands[p]).id].status = outcomes[p],
                          ![Head(hands[p]).id].due = @ /\ outcomes[p] # "pending"]
  /\ hands' = [hands EXCEPT ![p] = Tail(@)]
  /\ outcomes' = [outcomes EXCEPT ![p] = "none"]
  /\ UNCHANGED <<arrived, faults>>

\* The write is refused: the delivery is written as failed instead; if that is refused too, or
\* the process stops, the batch is left to its lease.
FinishRefused(p) ==
  /\ outcomes[p] \in {"sent", "pending"}
  /\ Fault({Head(hands[p]).id})
  /\ outcomes' = [outcomes EXCEPT ![p] = "failed"]
  /\ UNCHANGED <<rows, hands, arrived>>

Stop(p) ==
  /\ hands[p] # <<>>
  /\ Fault(Held(p))
  /\ hands' = [hands EXCEPT ![p] = <<>>]
  /\ outcomes' = [outcomes EXCEPT ![p] = "none"]
  /\ UNCHANGED <<rows, arrived>>

-----------------------------------------------------------------------------
Runs(p) == Claim(p) \/ Send(p) \/ Finish(p)

Next ==
  \/ \E d \in Deliveries : Queue(d) \/ TimePasses(d)
  \/ \E p \in Dispatchers : Runs(p) \/ FinishRefused(p) \/ Stop(p)

Spec == Init /\ [][Next]_vars

\* Time passes, and every process dispatches on its interval.
FairSpec ==
  /\ Spec
  /\ \A d \in Deliveries : WF_vars(TimePasses(d))
  /\ \A p \in Dispatchers : WF_vars(Runs(p))

-----------------------------------------------------------------------------
\* A delivery is claimed beyond its attempts only as often as a fault hit it.
DispatchTypeOK ==
  \A d \in Deliveries :
    /\ rows[d].status \in {"absent", "pending", "sending"} \cup Ended
    /\ rows[d].attempts <= MaxAttempts + faults[d]

\* "each delivery is in exactly one dispatcher's hands", and only while its row says so.
OneHand ==
  /\ \A p, q \in Dispatchers : Held(p) \cap Held(q) # {} => p = q
  /\ \A p \in Dispatchers : \A d \in Held(p) : rows[d].status = "sending"

\* A message arrives twice only if a fault hit its delivery, and a delivery the history shows as
\* sent has arrived.
SentOnce ==
  \A d \in Deliveries : /\ arrived[d] <= 1 + faults[d]
                        /\ rows[d].status = "sent" => arrived[d] > 0

\* What the history shows of a delivery that ended is never written over, nor is it sent again.
EndStands ==
  [][\A d \in Deliveries : rows[d].status \in Ended =>
       rows'[d] = rows[d] /\ arrived'[d] = arrived[d]]_vars

\* "a crash costs a retry, never a lost report": a queued delivery is sent, or failed with a reason.
AllEnd == \A d \in Deliveries : rows[d].status = "pending" ~> rows[d].status \in Ended
=============================================================================
