------------------------- MODULE MpiMatchingProofs -------------------------
(***************************************************************************)
(* Proofs that the matching rule of MpiMatching (each partner is the       *)
(* earliest open one for the other) gives, for any number of processes,    *)
(* communicators, tags and operations, the two ordering guarantees of MPI. *)
(* Neither is inductive alone: that a new matching respects the order of   *)
(* the sends follows from the posting order of the matchings before it,    *)
(* and the other way round.                                                *)
(***************************************************************************)
EXTENDS MpiMatching, TLAPS

Inv == TypeOK /\ OneToOne /\ NonOvertaking /\ PostingOrder

\* Posting leaves the operations posted before in their places.
LEMMA PostKeeps ==
  ASSUME TypeOK, NEW p \in Procs, Post(p)
  PROVE  /\ TypeOK'
         /\ \A q \in Procs : \A i \in DOMAIN posted[q] :
              i \in DOMAIN posted'[q] /\ posted'[q][i] = posted[q][i]
<1>1. PICK ops \in Batches : posted' = [posted EXCEPT ![p] = @ \o ops]
  BY DEF Post
<1>2. ops \in Seq(Operations)
  BY BatchAssumption
<1>3. posted[p] \in Seq(Operations)
  BY DEF TypeOK
<1>4. posted[p] \o ops \in Seq(Operations)
  BY <1>2, <1>3
<1>5. TypeOK'
  BY <1>1, <1>4 DEF TypeOK, Post
<1>6. ASSUME NEW q \in Procs, NEW i \in DOMAIN posted[q]
      PROVE  i \in DOMAIN posted'[q] /\ posted'[q][i] = posted[q][i]
  <2>1. CASE q = p
    <3>1. posted'[p] = posted[p] \o ops
      BY <1>1 DEF TypeOK
    <3>2. i \in 1 .. Len(posted[p])
      BY <2>1, <1>3
    <3> QED BY <3>1, <3>2, <2>1, <1>2, <1>3
  <2>2. CASE q # p
    BY <1>1, <2>2 DEF TypeOK
  <2> QED BY <2>1, <2>2
<1> QED BY <1>5, <1>6

\* So two operations posted before fit each other after posting iff they did.
LEMMA PostKeepsFit ==
  ASSUME TypeOK, NEW p \in Procs, Post(p),
         NEW src \in Procs, NEW dst \in Procs,
         NEW i \in DOMAIN posted[src], NEW j \in DOMAIN posted[dst]
  PROVE  Fit(src, i, dst, j)' <=> Fit(src, i, dst, j)
BY PostKeeps DEF Fit

\* The positions before one of a sequence are positions of the sequence.
LEMMA EarlierPosition ==
  ASSUME TypeOK, NEW p \in Procs, NEW i \in DOMAIN posted[p], NEW k \in 1 .. i - 1
  PROVE  k \in DOMAIN posted[p]
<1>1. posted[p] \in Seq(Operations)
  BY DEF TypeOK
<1>2. DOMAIN posted[p] = 1 .. Len(posted[p]) /\ Len(posted[p]) \in Nat
  BY <1>1
<1> QED BY <1>2

LEMMA InitInv == Init => Inv
BY DEF Init, Inv, TypeOK, OneToOne, NonOvertaking, PostingOrder

\* Posting preserves the invariant.
LEMMA PostInv ==
  ASSUME Inv, NEW p \in Procs, Post(p)
  PROVE  Inv'
<1> USE DEF Inv
<1>1. TypeOK'
  BY PostKeeps
<1>2. matched' = matched
  BY DEF Post
<1>3. ASSUME NEW m \in matched
      PROVE  /\ m.src \in Procs /\ m.dst \in Procs
             /\ m.send \in Nat \ {0} /\ m.recv \in Nat \ {0}
             /\ m.send \in DOMAIN posted[m.src] /\ m.recv \in DOMAIN posted[m.dst]
             /\ Fit(m.src, m.send, m.dst, m.recv)
  <2>1. Fit(m.src, m.send, m.dst, m.recv)
    BY DEF OneToOne
  <2> QED BY <2>1 DEF Fit, TypeOK, Matchings
<1>4. OneToOne'
  <2>1. \A m \in matched : Fit(m.src, m.send, m.dst, m.recv)'
    BY <1>3, PostKeepsFit
  <2> QED BY <1>2, <2>1 DEF OneToOne
<1>5. NonOvertaking'
  <2> SUFFICES ASSUME NEW m \in matched, NEW k \in 1 .. m.send - 1,
                      Fit(m.src, k, m.dst, m.recv)'
               PROVE  \E n \in matched : /\ n.src = m.src /\ n.send = k
                                         /\ n.dst = m.dst /\ n.recv < m.recv
    BY <1>2 DEF NonOvertaking
  <2>1. k \in DOMAIN posted[m.src]
    BY <1>3, EarlierPosition
  <2>2. Fit(m.src, k, m.dst, m.recv)
    BY <1>3, <2>1, PostKeepsFit
  <2> QED BY <2>2 DEF NonOvertaking
<1>6. PostingOrder'
  <2> SUFFICES ASSUME NEW m \in matched, NEW k \in 1 .. m.recv - 1,
                      Fit(m.src, m.send, m.dst, k)'
               PROVE  \E n \in matched : /\ n.dst = m.dst /\ n.recv = k
                                         /\ n.src = m.src => n.send < m.send
    BY <1>2 DEF PostingOrder
  <2>1. k \in DOMAIN posted[m.dst]
    BY <1>3, EarlierPosition
  <2>2. Fit(m.src, m.send, m.dst, k)
    BY <1>3, <2>1, PostKeepsFit
  <2> QED BY <2>2 DEF PostingOrder
<1> QED BY <1>1, <1>4, <1>5, <1>6

\* A matching preserves the invariant.
LEMMA MatchInv ==
  ASSUME Inv, NEW src \in Procs, NEW dst \in Procs,
         NEW i \in DOMAIN posted[src], NEW j \in DOMAIN posted[dst],
         Match(src, i, dst, j)
  PROVE  Inv'
<1> USE DEF Inv
<1> DEFINE new == [src |-> src, send |-> i, dst |-> dst, recv |-> j]
<1>1. posted' = posted /\ matched' = matched \cup {new}
  BY DEF Match
<1>2. i \in Nat \ {0} /\ j \in Nat \ {0}
  <2>1. posted[src] \in Seq(Operations) /\ posted[dst] \in Seq(Operations)
    BY DEF TypeOK
  <2> QED BY <2>1
<1>3. new \in Matchings
  BY <1>2 DEF Matchings
<1>4. TypeOK'
  BY <1>1, <1>3 DEF TypeOK
<1>5. \A a, b, c, d : Fit(a, b, c, d)' <=> Fit(a, b, c, d)
  BY <1>1 DEF Fit
<1>6. \A m \in matched : /\ ~(m.src = src /\ m.send = i)
                         /\ ~(m.dst = dst /\ m.recv = j)
  BY DEF Match, SendMatched, ReceiveMatched
<1>7. \A m \in matched : /\ m.src \in Procs /\ m.dst \in Procs
                         /\ m.send \in Nat \ {0} /\ m.recv \in Nat \ {0}
                         /\ Fit(m.src, m.send, m.dst, m.recv)
  BY DEF TypeOK, Matchings, OneToOne
<1>8. Fit(src, i, dst, j)
  BY DEF Match
<1>9. OneToOne'
  <2> SUFFICES ASSUME NEW m \in matched', NEW n \in matched'
               PROVE  /\ Fit(m.src, m.send, m.dst, m.recv)
                      /\ (m.src = n.src /\ m.send = n.send)
                           \/ (m.dst = n.dst /\ m.recv = n.recv) => m = n
    BY <1>5 DEF OneToOne
  <2>1. CASE m \in matched /\ n \in matched
    BY <2>1 DEF OneToOne
  <2>2. CASE m = new /\ n \in matched
    BY <2>2, <1>6, <1>8
  <2>3. CASE m \in matched /\ n = new
    BY <2>3, <1>6, <1>7
  <2>4. CASE m = new /\ n = new
    BY <2>4, <1>8
  <2> QED BY <1>1, <2>1, <2>2, <2>3, <2>4
<1>10. NonOvertaking'
  <2> SUFFICES ASSUME NEW m \in matched', NEW k \in 1 .. m.send - 1,
                      Fit(m.src, k, m.dst, m.recv)
               PROVE  \E n \in matched : /\ n.src = m.src /\ n.send = k
                                         /\ n.dst = m.dst /\ n.recv < m.recv
    BY <1>1, <1>5 DEF NonOvertaking
  <2>1. CASE m \in matched
    BY <2>1 DEF NonOvertaking
  <2>2. CASE m = new
    <3>1. k \in 1 .. i - 1 /\ Fit(src, k, dst, j)
      BY <2>2
    <3>2. PICK n \in matched : n.src = src /\ n.send = k
      BY <3>1 DEF Match, SendMatched
    <3>3. n.dst = dst
      BY <3>1, <3>2, <1>7 DEF Fit
    <3>4. n.recv # j
      BY <3>3, <1>6
    <3>5. ~(j < n.recv)
      \* otherwise the posting order would have served receive j before
      <4> SUFFICES ASSUME j < n.recv PROVE FALSE
        OBVIOUS
      <4>1. j \in 1 .. n.recv - 1
        BY <1>2, <1>7
      <4>2. Fit(n.src, n.send, n.dst, j)
        BY <3>1, <3>2, <3>3
      <4>3. \E l \in matched : l.dst = n.dst /\ l.recv = j
        BY <4>1, <4>2 DEF PostingOrder
      <4> QED BY <4>3, <3>3, <1>6
    <3>6. n.recv < j
      BY <3>4, <3>5, <1>2, <1>7
    <3> QED BY <2>2, <3>2, <3>3, <3>6
  <2> QED BY <1>1, <2>1, <2>2
<1>11. PostingOrder'
  <2> SUFFICES ASSUME NEW m \in matched', NEW k \in 1 .. m.recv - 1,
                      Fit(m.src, m.send, m.dst, k)
               PROVE  \E n \in matched : /\ n.dst = m.dst /\ n.recv = k
                                         /\ n.src = m.src => n.send < m.send
    BY <1>1, <1>5 DEF PostingOrder
  <2>1. CASE m \in matched
    BY <2>1 DEF PostingOrder
  <2>2. CASE m = new
    <3>1. k \in 1 .. j - 1 /\ Fit(src, i, dst, k)
      BY <2>2
    <3>2. PICK n \in matched : n.dst = dst /\ n.recv = k
      BY <3>1 DEF Match, ReceiveMatched
    <3>3. ASSUME n.src = src PROVE n.send < i
      <4>1. n.send # i
        BY <3>3, <1>6
      <4>2. ~(i < n.send)
        \* otherwise send i could not have been overtaken
        <5> SUFFICES ASSUME i < n.send PROVE FALSE
          OBVIOUS
        <5>1. i \in 1 .. n.send - 1
          BY <1>2, <1>7
        <5>2. Fit(n.src, i, n.dst, n.recv)
          BY <3>1, <3>2, <3>3
        <5>3. \E l \in matched : l.src = n.src /\ l.send = i
          BY <5>1, <5>2 DEF NonOvertaking
        <5> QED BY <5>3, <3>3, <1>6
      <4> QED BY <4>1, <4>2, <1>2, <1>7
    <3> QED BY <2>2, <3>2, <3>3
  <2> QED BY <1>1, <2>1, <2>2
<1> QED BY <1>4, <1>9, <1>10, <1>11

LEMMA NextInv == Inv /\ [Next]_vars => Inv'
<1> SUFFICES ASSUME Inv, [Next]_vars PROVE Inv'
  OBVIOUS
<1>1. ASSUME NEW p \in Procs, Post(p) PROVE Inv'
  BY <1>1, PostInv
<1>2. ASSUME NEW src \in Procs, NEW dst \in Procs,
             NEW i \in DOMAIN posted[src], NEW j \in DOMAIN posted[dst],
             Match(src, i, dst, j)
      PROVE  Inv'
  BY <1>2, MatchInv
<1>3. ASSUME UNCHANGED vars PROVE Inv'
  <2>1. posted' = posted /\ matched' = matched
    BY <1>3 DEF vars
  <2>2. TypeOK'
    BY <2>1 DEF Inv, TypeOK
  <2>a. \A src, i, dst, j : Fit(src, i, dst, j)' <=> Fit(src, i, dst, j)
    BY <2>1 DEF Fit
  <2>3. OneToOne'
    BY <2>1, <2>a DEF Inv, OneToOne
  <2>4. NonOvertaking'
    BY <2>1, <2>a DEF Inv, NonOvertaking
  <2>5. PostingOrder'
    BY <2>1, <2>a DEF Inv, PostingOrder
  <2> QED BY <2>2, <2>3, <2>4, <2>5 DEF Inv
<1> QED BY <1>1, <1>2, <1>3 DEF Next

LEMMA SpecInv == Spec => []Inv
BY InitInv, NextInv, PTL DEF Spec

\* The lists of posted operations and the matchings are well formed.
THEOREM MatchingTypeCorrect == Spec => []TypeOK
BY SpecInv, PTL DEF Inv

\* No send and no receive of any process is matched twice (finish_send_request
\* and finish_receive_request take both out of the active requests).
THEOREM MatchingsAreOneToOne == Spec => []OneToOne
BY SpecInv, PTL DEF Inv

\* Messages do not overtake each other: of two sends that fit a receive, the
\* earlier one is matched first (find_deterministic_match takes the first).
THEOREM MessagesDoNotOvertake == Spec => []NonOvertaking
BY SpecInv, PTL DEF Inv

\* Of two receives that a send fits, the one that was posted earlier gets it:
\* what is_suppressed_by is there for.
THEOREM ReceivesAreServedInOrder == Spec => []PostingOrder
BY SpecInv, PTL DEF Inv

=============================================================================
