------------------------------ MODULE MCNdsync ------------------------------
(* Programs for module Ndsync. *)
EXTENDS Ndsync

send(peer) == [op |-> "send", kind |-> "std", peer |-> peer, blocking |-> TRUE]
isend(peer) == [send(peer) EXCEPT !.blocking = FALSE]
ssend(peer) == [send(peer) EXCEPT !.kind = "rendezvous"]
recv(peer) == [op |-> "recv", peer |-> peer, blocking |-> TRUE]
irecv(peer) == [recv(peer) EXCEPT !.blocking = FALSE]
recv_any == recv(AnySource)
coll(comm, root) == [op |-> "coll", comm |-> comm, root |-> root, blocking |-> TRUE]
barrier == coll("c1", None)
waitall == [op |-> "waitall"]
waitany == [op |-> "waitany"]
testall == [op |-> "testall"]

Program(p0, p1, p2) == [p \in Procs |-> IF p = 0 THEN p0 ELSE IF p = 1 THEN p1 ELSE p2]

Orders(s) == {[i \in DOMAIN s |-> s[f[i]]] : f \in Bijections(DOMAIN s, DOMAIN s)}

\* p1 exchanges messages with both others, in any order.
Exchange ==
  {Program(p0, p1, p2) : p0 \in UNION {Orders(<<s, recv_any>>) : s \in {send(1), ssend(1)}},
                         p1 \in Orders(<<send(0), recv_any, send(2), recv(2)>>),
                         p2 \in Orders(<<send(1), recv(1)>>)}

\* A ring: everyone sends to the next one and enters a barrier.
Ring ==
  {Program(p0, p1, p2) : p0 \in Orders(<<send(1), recv_any, barrier>>),
                         p1 \in Orders(<<isend(2), recv(0), barrier, waitall>>),
                         p2 \in Orders(<<send(0), recv_any, barrier>>)}

\* Two messages race for p2, as in tests/deadlock/prune.cpp, and something depends on the race.
Gate ==
  {Program(p0, p1, p2) : p0 \in UNION {Orders(<<send(1), s>>) : s \in {send(2), ssend(2)}},
                         p1 \in Orders(<<ssend(2), recv_any, recv(2)>>),
                         p2 \in Orders(<<recv_any, recv_any, ssend(1)>>)}

\* tests/deadlock/waitany.cpp and its variants
Incomplete ==
  {Program(<<isend(1), isend(2)>> \o p0 \o <<waitall>>, p1, p2) :
     p0 \in UNION {Orders(<<w, recv_any, recv_any>>) : w \in {waitany, testall}},
     p1 \in UNION {Orders(<<s, recv(0)>>) : s \in {send(0), ssend(0)}},
     p2 \in UNION {Orders(<<s, recv(0)>>) : s \in {send(0), ssend(0)}}}

\* tests/deadlock/barrier.cpp and its variants
Broadcast ==
  {Program(p0, p1, p2) : p0 \in Orders(<<coll("c1", 2), recv_any>>),
                         p1 \in Orders(<<coll("c1", 2), send(0)>>),
                         p2 \in {<<coll("c1", 2)>>}} \cup
  {Program(p0, p1, p2) : p0 \in Orders(<<coll("c1", 0), send(1)>>),
                         p1 \in Orders(<<coll("c1", 0), recv_any, recv_any>>),
                         p2 \in Orders(<<coll("c1", 0), isend(1), waitall>>)}

\* tests/deadlock/twocc.cpp and its variants
Broadcasts ==
  {Program(p0, p1, p2) : p0 \in Orders(<<coll("c1", 0), coll("c2", 0)>>),
                         p1 \in Orders(<<coll("c1", 0), coll("c2", 0)>>),
                         p2 \in Orders(<<coll("c1", 0), coll("c2", 0)>>)}

\* The deadlock lies behind the first of two arcs, and the search for its events follows the last.
Detour == Program(<<isend(2), recv_any, send(2), send(1), waitall>>,
                  <<ssend(2), recv(0), ssend(2)>>,
                  <<recv_any, ssend(0), recv(1), recv_any, recv_any>>)

MCPrograms == Exchange \cup Ring \cup Gate \cup Incomplete \cup Broadcast \cup Broadcasts \cup {Detour}
=============================================================================
