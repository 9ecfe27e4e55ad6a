---------------------------- MODULE MCOutboxFeed ----------------------------
(***************************************************************************)
(* OutboxFeed on small instances.                                          *)
(***************************************************************************)
EXTENDS OutboxFeed, TLC

AllFaults == {"fail", "expire"}
NoFaults == {}

FeedSymmetry == Permutations(Clients) \cup Permutations(Writers)
=============================================================================
