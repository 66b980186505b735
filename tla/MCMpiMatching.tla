-------------------------- MODULE MCMpiMatching --------------------------
(***************************************************************************)
(* MpiMatching for TLC: two processes that post up to three operations.    *)
(***************************************************************************)
EXTENDS MpiMatching

CONSTANTS Any

send(peer, tag) == [kind |-> "send", comm |-> 1, peer |-> peer, tag |-> tag]
receive(peer, tag) == [kind |-> "receive", comm |-> 1, peer |-> peer, tag |-> tag]

\* Operations between two processes, to oneself included, and one exchange.
MCBatches ==
  {<<send(q, 1)>> : q \in {0, 1}} \cup {<<send(0, 2)>>} \cup
  {<<receive(0, 1)>>, <<receive(1, Any)>>, <<receive(Any, 1)>>, <<receive(Any, Any)>>,
   <<send(0, 1), receive(1, 2)>>}

=============================================================================
