---------------------------- MODULE MpiMatching ----------------------------
(***************************************************************************)
(* What the point-to-point core promises: the matching rules of MPI that   *)
(* the verifier has to reproduce (State.find_deterministic_match and       *)
(* State.find_nondeterministic_matches in mpi/state.py), without requests, *)
(* buffers, wait calls or any order in which a worker explores.            *)
(*                                                                         *)
(* Processes post sends and receives; at any time a send may be matched    *)
(* with a receive if each is the earliest open one that fits the other.    *)
(* PointToPoint implements this specification (its property Implements).   *)
(***************************************************************************)
EXTENDS Integers, Sequences

CONSTANTS
  Procs,        \* pids
  Comms,        \* communicators
  Tags,         \* tags of messages
  AnySource,    \* wildcards of a receive
  AnyTag,
  Batches,      \* the sequences of operations that one call may post
  MaxPosted     \* bound on the operations a process posts

ASSUME WildcardAssumption == AnySource \notin Procs /\ AnyTag \notin Tags
Sends == [kind : {"send"}, comm : Comms, peer : Procs, tag : Tags]

Receives == [kind : {"receive"}, comm : Comms,
             peer : Procs \cup {AnySource}, tag : Tags \cup {AnyTag}]

Operations == Sends \cup Receives

ASSUME BatchAssumption == Batches \subseteq Seq(Operations) /\ MaxPosted \in Nat

Matchings == [src : Procs, send : Nat \ {0}, dst : Procs, recv : Nat \ {0}]

VARIABLES
  posted,   \* posted[p]: the operations of p in the order of its calls
  matched   \* the matchings made so far

vars == <<posted, matched>>

TypeOK ==
  /\ posted \in [Procs -> Seq(Operations)]
  /\ matched \subseteq Matchings

Init ==
  /\ posted = [p \in Procs |-> <<>>]
  /\ matched = {}

-----------------------------------------------------------------------------

\* The i-th operation of src is a send that the j-th operation of dst may receive.
Fit(src, i, dst, j) ==
  /\ i \in DOMAIN posted[src]
  /\ j \in DOMAIN posted[dst]
  /\ LET s == posted[src][i]
         r == posted[dst][j]
     IN /\ s.kind = "send"
        /\ r.kind = "receive"
        /\ s.comm = r.comm
        /\ s.peer = dst
        /\ r.peer \in {src, AnySource}
        /\ r.tag \in {s.tag, AnyTag}

SendMatched(src, i) == \E m \in matched : m.src = src /\ m.send = i
ReceiveMatched(dst, j) == \E m \in matched : m.dst = dst /\ m.recv = j

\* MPI_Sendrecv and MPI_Startall post several operations at once.
Post(p) ==
  /\ UNCHANGED matched
  /\ Len(posted[p]) < MaxPosted
  /\ \E ops \in Batches : posted' = [posted EXCEPT ![p] = @ \o ops]

\* Mutants of Match: a send that is taken may be taken again, and any open send or any open
\* receive that fits is taken.
MatchSendAgain(src, i, dst, j) ==
  /\ Fit(src, i, dst, j)
  /\ ~ReceiveMatched(dst, j)
  /\ \A k \in 1 .. i - 1 : Fit(src, k, dst, j) => SendMatched(src, k)
  /\ \A k \in 1 .. j - 1 : Fit(src, i, dst, k) => ReceiveMatched(dst, k)
  /\ matched' = matched \cup {[src |-> src, send |-> i, dst |-> dst, recv |-> j]}
  /\ UNCHANGED posted

MatchAnySend(src, i, dst, j) ==
  /\ Fit(src, i, dst, j) /\ ~SendMatched(src, i) /\ ~ReceiveMatched(dst, j)
  /\ \A k \in 1 .. j - 1 : Fit(src, i, dst, k) => ReceiveMatched(dst, k)
  /\ matched' = matched \cup {[src |-> src, send |-> i, dst |-> dst, recv |-> j]}
  /\ UNCHANGED posted

MatchAnyReceive(src, i, dst, j) ==
  /\ Fit(src, i, dst, j) /\ ~SendMatched(src, i) /\ ~ReceiveMatched(dst, j)
  /\ \A k \in 1 .. i - 1 : Fit(src, k, dst, j) => SendMatched(src, k)
  /\ matched' = matched \cup {[src |-> src, send |-> i, dst |-> dst, recv |-> j]}
  /\ UNCHANGED posted

Match(src, i, dst, j) ==
  /\ Fit(src, i, dst, j)
  /\ ~SendMatched(src, i)
  /\ ~ReceiveMatched(dst, j)
  /\ \A k \in 1 .. i - 1 : Fit(src, k, dst, j) => SendMatched(src, k)
  /\ \A k \in 1 .. j - 1 : Fit(src, i, dst, k) => ReceiveMatched(dst, k)
  /\ matched' = matched \cup {[src |-> src, send |-> i, dst |-> dst, recv |-> j]}
  /\ UNCHANGED posted

Next ==
  \/ \E p \in Procs : Post(p)
  \/ \E src, dst \in Procs :
       \E i \in DOMAIN posted[src], j \in DOMAIN posted[dst] : Match(src, i, dst, j)

Spec == Init /\ [][Next]_vars

-----------------------------------------------------------------------------
(* Properties *)

\* A message is received at most once, a receive takes at most one message, and
\* both agree on communicator, tag and process.
OneToOne ==
  \A m, n \in matched :
    /\ Fit(m.src, m.send, m.dst, m.recv)
    /\ (m.src = n.src /\ m.send = n.send) \/ (m.dst = n.dst /\ m.recv = n.recv) => m = n

\* Messages do not overtake: a receive that took a later message of a process
\* could not have had an earlier one, which an earlier receive has taken.
NonOvertaking ==
  \A m \in matched : \A k \in 1 .. m.send - 1 :
    Fit(m.src, k, m.dst, m.recv) =>
      \E n \in matched : /\ n.src = m.src /\ n.send = k
                         /\ n.dst = m.dst /\ n.recv < m.recv

\* Receives are served in posting order: a receive posted before the one that
\* took a message, and able to take it, holds another message, and one sent
\* earlier if it comes from the same process.
PostingOrder ==
  \A m \in matched : \A k \in 1 .. m.recv - 1 :
    Fit(m.src, m.send, m.dst, k) =>
      \E n \in matched : /\ n.dst = m.dst /\ n.recv = k
                         /\ n.src = m.src => n.send < m.send

=============================================================================
