---------------------------- MODULE DurableQueue ----------------------------
(***************************************************************************)
(* What the runner's spool promises: a queue on which a restart changes    *)
(* nothing.  An entry joins at the end, leaves when it is settled, or      *)
(* stays and is marked as not to be delivered any more.  Spool implements  *)
(* it, RunnerDelivery is built on it.                                      *)
(***************************************************************************)
EXTENDS Subsequences

VARIABLE queue  \* the entries a runner that restarts now would find

Ids == {queue[i].id : i \in DOMAIN queue}

QInit == queue = <<>>

Put(e) ==
  /\ e.id \notin Ids
  /\ queue' = Append(queue, e)

Settle(ids) == queue' = Picked(queue, {i \in DOMAIN queue : queue[i].id \notin ids})

MarkDead(ids) ==
  queue' = [i \in DOMAIN queue |-> IF queue[i].id \in ids
                                   THEN [queue[i] EXCEPT !.dead = TRUE]
                                   ELSE queue[i]]

QNext ==
  \/ queue' # <<>> /\ Put(queue'[Len(queue')])
  \/ \E ids \in SUBSET Ids : Settle(ids) \/ MarkDead(ids)

QSpec == QInit /\ [][QNext]_queue
=============================================================================
