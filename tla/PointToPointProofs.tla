-------------------------- MODULE PointToPointProofs --------------------------
(***************************************************************************)
(* Proofs about PointToPoint: what processes post is matched once, what    *)
(* completes has been matched, and ids identify requests, for any number   *)
(* of processes, communicators and programs.                               *)
(***************************************************************************)
EXTENDS PointToPoint, FiniteSetTheorems, SequenceTheorems, WellFoundedInduction, TLAPS

(* The parts of the inductive invariant. *)

Completing == {"WaitAll", "WaitAny", "WaitSome", "Test"}
Statuses == {"Running", "Ready", "Finished", "Probe"} \cup Completing

CommsOf(p) == {c \in Comms : p \in ToSet(Group[c])}

StateRecords ==
  [status : Statuses, active : Seq(Requests), finished : SUBSET Requests,
   persistent : SUBSET Requests, tested : Seq([id : Int, slot : 0 .. Slots]),
   probe_data : [comm : Comms \cup {0}, source : Int, tag : Int, flag : BOOLEAN],
   probe_promise : [comm : Comms \cup {0}, source : Int, tag : Int, rank : Int],
   log : Seq(Operations), closed : SUBSET Requests]

Matchings == [src : Procs, send : Nat, dst : Procs, recv : Nat]

\* The calls that the programs of p contain.
MayCall(p) == UNION {UNION ToSet(program[p]) : program \in Programs}

\* The sources that p names when it receives on a communicator.
Sources(p, comm) ==
  {call.source : call \in {c \in MayCall(p) : /\ c.op \in {"Recv", "Irecv", "Recv_init", "Sendrecv"}
                                            /\ c.comm = comm}}

\* The communicators that p probes.
Probed(p) == {call.comm : call \in {c \in MayCall(p) : c.op \in {"Probe", "Iprobe"}}}

\* A request of process p that check.py has let through.
Legal(p, r) ==
  /\ r.comm \in CommsOf(p)
  /\ r.type \in {TypeReceive, TypeStd, TypeEager, TypeRendezvous}
  /\ IsSend(r) => r.peer \in Ranks(r.comm) \cup {ProcNull} /\ r.tag \in Tags
  /\ IsReceive(r) => /\ r.peer \in Ranks(r.comm) \cup {ProcNull, AnySource}
                     /\ r.peer \in Sources(p, r.comm)
                     /\ r.tag \in Tags \cup {AnyTag}

\* The operations of p that the matchings M match.
MatchedBy(p, M) ==
  {m.send : m \in {n \in M : n.src = p}} \cup {m.recv : m \in {n \in M : n.dst = p}}

\* Of the operations that were posted those in D are done, the others are active, once.
Accounted(S, D) ==
  /\ D \subseteq 1 .. Len(S.log)
  /\ \A i \in DOMAIN S.active : S.active[i].serial \in (1 .. Len(S.log)) \ D
  /\ \A i, j \in DOMAIN S.active : S.active[i].serial = S.active[j].serial => i = j
  /\ \A n \in (1 .. Len(S.log)) \ D : \E i \in DOMAIN S.active : S.active[i].serial = n

\* What a request of p that is finished owes to the matchings M.
Fulfilled(p, r, M) ==
  /\ r.type = TypeRendezvous => \E m \in M : m.src = p /\ m.send = r.serial
  /\ IsReceive(r) => \E m \in M : /\ m.dst = p /\ m.recv = r.serial
                                  /\ m.src = r.buffer.pid /\ m.send = r.buffer.serial

\* A process in its call has what it waits for.
WaitIsRecorded(p, S) ==
  /\ S.tested # <<>> => S.status \in Completing
  /\ Slots > 0 /\ S.status \in Completing => S.tested # <<>>
  /\ IF S.status = "Probe"
     THEN /\ S.probe_data.comm \in CommsOf(p) \cap Probed(p)
          /\ S.probe_data.source \in Ranks(S.probe_data.comm) \cup {AnySource}
          /\ S.probe_data.tag \in Tags \cup {AnyTag}
     ELSE S.probe_data = NoProbe
  /\ S.probe_promise = NoPromise \/ S.probe_promise.comm \in CommsOf(p)

\* The state S of process p, whose operations D are done, as the matchings M have it.
StateOK(p, S, M, D) ==
  /\ S \in StateRecords
  /\ IsFiniteSet(S.finished) /\ IsFiniteSet(S.persistent)
  /\ \A r \in LiveRequests(S) \cup S.persistent : Legal(p, r)
  /\ \A r \in ToSet(S.active) :
       r.peer # ProcNull /\ (IsSend(r) => r.buffer.pid = p /\ r.buffer.serial = r.serial)
  /\ \A r \in S.finished \cup S.closed :
       r.peer # ProcNull => Fulfilled(p, r, M) /\ r.serial \in 1 .. Len(S.log)
  /\ \A r \in S.closed : r.peer # ProcNull /\ r \notin S.finished
  /\ Accounted(S, D)
  /\ WaitIsRecorded(p, S)

IInv ==
  /\ states \in [Procs -> StateRecords]
  /\ \A p \in Procs : StateOK(p, states[p], matched, MatchedBy(p, matched))
  /\ matched \subseteq Matchings
  /\ handles \in [Procs -> [1 .. Slots -> Nat \cup {RequestNull}]]
  /\ DOMAIN todo = Procs /\ \A p \in Procs : todo[p] \in Seq(SUBSET MayCall(p))
  /\ phase \in {"run", "match", "node", "done", "deadlock", "error"}
  /\ error.name # "none" <=> phase = "error"
  /\ error.name = "ActivePersistentRequest" =>
       /\ error.pid \in Procs
       /\ IsPersistent(states[error.pid], error.id)
       /\ error.id \in Ids(LiveRequests(states[error.pid]))


-----------------------------------------------------------------------------
(* Numbers and sequences *)

LEMMA SmallestNumber ==
  ASSUME NEW T \in SUBSET Nat, T # {}
  PROVE  \E m \in T : \A k \in T : m <= k
<1>1. PICK R : R = OpToRel(<, Nat)
  OBVIOUS
<1>2. IsWellFoundedOn(R, Nat)
  BY <1>1, NatLessThanWellFounded
<1>3. PICK m \in T : \A k \in T : ~(<<k, m>> \in R)
  BY <1>2, WFMin
<1>4. \A k \in T : ~(k < m)
  BY <1>1, <1>3 DEF OpToRel
<1> QED BY <1>4

LEMMA MinIsSmallest ==
  ASSUME NEW T \in SUBSET Nat, T # {}
  PROVE  Min(T) \in T /\ \A k \in T : Min(T) <= k
BY SmallestNumber DEF Min

\* RemoveAt(s, i) is s without its i-th element.
LEMMA RemovingOne ==
  ASSUME NEW X, NEW s \in Seq(X), NEW i \in 1 .. Len(s)
  PROVE  /\ RemoveAt(s, i) \in Seq(X)
         /\ Len(RemoveAt(s, i)) = Len(s) - 1
         /\ \A j \in 1 .. Len(s) - 1 : RemoveAt(s, i)[j] = s[IF j < i THEN j ELSE j + 1]
<1> DEFINE a == SubSeq(s, 1, i - 1)
           b == SubSeq(s, i + 1, Len(s))
<1>1. PICK n \in Nat : n = Len(s)
  BY LenProperties
<1>2. i \in 1 .. n /\ \A j \in 1 .. n : s[j] \in X
  BY <1>1, ElementOfSeq
<1>3. /\ a \in Seq(X) /\ Len(a) = i - 1
      /\ \A j \in 1 .. i - 1 : a[j] = s[j]
  <2>1. PICK l \in Nat : l = i - 1
    BY <1>2
  <2>2. \A j \in 1 .. l : s[j] \in X
    BY <1>2, <2>1
  <2>3. /\ SubSeq(s, 1, l) \in Seq(X)
        /\ Len(SubSeq(s, 1, l)) = IF 1 <= l THEN l - 1 + 1 ELSE 0
        /\ \A j \in 1 .. l - 1 + 1 : SubSeq(s, 1, l)[j] = s[1 + j - 1]
    BY <2>1, <2>2, SubSeqProperties
  <2>4. Len(SubSeq(s, 1, l)) = l /\ \A j \in 1 .. l : SubSeq(s, 1, l)[j] = s[j]
    BY <2>1, <2>3
  <2> QED BY <2>1, <2>3, <2>4
<1>4. /\ b \in Seq(X) /\ Len(b) = n - i
      /\ \A j \in 1 .. n - i : b[j] = s[i + j]
  <2>1. PICK l \in Nat : l = i + 1
    BY <1>2
  <2>2. \A j \in l .. n : s[j] \in X
    BY <1>2, <2>1
  <2>3. /\ SubSeq(s, l, n) \in Seq(X)
        /\ Len(SubSeq(s, l, n)) = IF l <= n THEN n - l + 1 ELSE 0
        /\ \A j \in 1 .. n - l + 1 : SubSeq(s, l, n)[j] = s[l + j - 1]
    BY <1>1, <2>1, <2>2, SubSeqProperties
  <2>4. Len(SubSeq(s, l, n)) = n - i /\ \A j \in 1 .. n - i : SubSeq(s, l, n)[j] = s[i + j]
    BY <1>2, <2>1, <2>3
  <2> QED BY <1>1, <2>1, <2>3, <2>4
<1>5. RemoveAt(s, i) = a \o b
  BY DEF RemoveAt
<1>6. PICK c, d : c = a /\ d = b
  OBVIOUS
<1>7. /\ c \in Seq(X) /\ d \in Seq(X) /\ Len(c) = i - 1 /\ Len(d) = n - i
      /\ \A j \in 1 .. i - 1 : c[j] = s[j]
      /\ \A j \in 1 .. n - i : d[j] = s[i + j]
      /\ RemoveAt(s, i) = c \o d
  BY <1>3, <1>4, <1>5, <1>6
<1> HIDE DEF a, b
<1>8. /\ c \o d \in Seq(X) /\ Len(c \o d) = n - 1
      /\ \A j \in 1 .. n - 1 :
           (c \o d)[j] = IF j <= i - 1 THEN c[j] ELSE d[j - (i - 1)]
  BY <1>2, <1>7, ConcatProperties
<1>9. ASSUME NEW j \in 1 .. n - 1
      PROVE  (c \o d)[j] = s[IF j < i THEN j ELSE j + 1]
  <2>1. CASE j < i
    BY <1>2, <1>7, <1>8, <2>1
  <2>2. CASE j >= i
    <3>1. j - (i - 1) \in 1 .. n - i /\ i + (j - (i - 1)) = j + 1 /\ ~(j <= i - 1) /\ ~(j < i)
      BY <1>2, <2>2
    <3>2. (c \o d)[j] = d[j - (i - 1)]
      BY <1>8, <3>1
    <3>3. d[j - (i - 1)] = s[i + (j - (i - 1))]
      BY <1>7, <3>1
    <3> QED BY <3>1, <3>2, <3>3
  <2>3. i \in Int /\ j \in Int
    BY <1>2
  <2>4. j < i \/ j >= i
    BY <2>3
  <2> QED BY <2>1, <2>2, <2>4
<1> QED BY <1>1, <1>7, <1>8, <1>9

\* The elements that stay, each in one place.
OthersStay(s, i, t) ==
  /\ \A j \in DOMAIN t : \E k \in DOMAIN s : k # i /\ t[j] = s[k]
  /\ \A k \in DOMAIN s : k # i => \E j \in DOMAIN t : t[j] = s[k]

LEMMA WhatStays ==
  ASSUME NEW X, NEW s \in Seq(X), NEW i \in 1 .. Len(s), NEW t, t = RemoveAt(s, i)
  PROVE  OthersStay(s, i, t)
<1>1. PICK n \in Nat : n = Len(s)
  BY LenProperties
<1>3. /\ t \in Seq(X) /\ Len(t) = n - 1 /\ i \in 1 .. n
      /\ \A j \in 1 .. n - 1 : t[j] = s[IF j < i THEN j ELSE j + 1]
  BY <1>1, RemovingOne
<1>4. DOMAIN s = 1 .. n /\ DOMAIN t = 1 .. n - 1
  BY <1>1, <1>3, LenProperties
<1>5. ASSUME NEW j \in 1 .. n - 1
      PROVE  \E k \in 1 .. n : k # i /\ t[j] = s[k]
  <2>1. (IF j < i THEN j ELSE j + 1) \in 1 .. n /\ (IF j < i THEN j ELSE j + 1) # i
    BY <1>3
  <2> QED BY <1>3, <2>1
<1>6. ASSUME NEW k \in 1 .. n, k # i
      PROVE  \E j \in 1 .. n - 1 : t[j] = s[k]
  <2>1. CASE k < i
    BY <1>3, <2>1
  <2>2. CASE k > i
    <3>1. k - 1 \in 1 .. n - 1 /\ ~(k - 1 < i) /\ k - 1 + 1 = k
      BY <1>3, <2>2
    <3>2. t[k - 1] = s[k]
      BY <1>3, <3>1
    <3> QED BY <3>1, <3>2
  <2> QED BY <1>3, <1>6, <2>1, <2>2
<1>7. \A j \in DOMAIN t : \E k \in DOMAIN s : k # i /\ t[j] = s[k]
  BY <1>4, <1>5
<1>8. \A k \in DOMAIN s : k # i => \E j \in DOMAIN t : t[j] = s[k]
  BY <1>4, <1>6
<1> QED BY <1>7, <1>8 DEF OthersStay

\* RemoveFirst(s, e) leaves out the first element of s that is e.
LEMMA RemovingFirst ==
  ASSUME NEW X, NEW s \in Seq(X), NEW e \in ToSet(s)
  PROVE  \E i \in 1 .. Len(s) : s[i] = e /\ RemoveFirst(s, e) = RemoveAt(s, i)
<1> DEFINE I == {i \in 1 .. Len(s) : s[i] = e}
<1>1. DOMAIN s = 1 .. Len(s) /\ Len(s) \in Nat
  BY LenProperties
<1>2. \E i \in 1 .. Len(s) : s[i] = e
  BY <1>1 DEF ToSet
<1>3. I \in SUBSET Nat /\ I # {}
  BY <1>1, <1>2
<1>4. Min(I) \in I
  <2> HIDE DEF I
  <2> QED BY <1>3, MinIsSmallest
<1>5. RemoveFirst(s, e) = RemoveAt(s, Min(I))
  BY <1>2, <1>3 DEF RemoveFirst, SelectInSeq
<1> QED BY <1>4, <1>5

\* What SelectInSeq returns: the first place of a set of places, 0 if there is none.
LEMMA FirstPlace ==
  ASSUME NEW n \in Nat, NEW I \in SUBSET (1 .. n)
  PROVE  /\ (IF I # {} THEN Min(I) ELSE 0) \in 0 .. n
         /\ (IF I # {} THEN Min(I) ELSE 0) = 0 <=> I = {}
         /\ I # {} => /\ (IF I # {} THEN Min(I) ELSE 0) \in I
                      /\ \A k \in I : (IF I # {} THEN Min(I) ELSE 0) <= k
<1>1. CASE I = {}
  BY <1>1
<1>2. CASE I # {}
  <2>1. PICK m : m = Min(I)
    OBVIOUS
  <2>2. m \in I /\ \A k \in I : m <= k
    BY <1>2, <2>1, MinIsSmallest
  <2>3. m \in 1 .. n /\ m # 0
    BY <2>2
  <2>4. (IF I # {} THEN Min(I) ELSE 0) = m
    BY <1>2, <2>1
  <2> QED BY <1>2, <2>2, <2>3, <2>4
<1> QED BY <1>1, <1>2

-----------------------------------------------------------------------------
(* Fields of states and requests *)

LEMMA Constants ==
  /\ AnySource \in Int /\ AnyTag \in Int /\ ProcNull \in Int /\ RequestNull \in Int
  /\ AnySource \notin Nat /\ AnyTag \notin Nat /\ ProcNull \notin Nat /\ RequestNull \notin Nat
  /\ ProcNull # AnySource
  /\ NoBuffer \in [pid : Procs \cup {-1}, serial : Nat, size : Nat]
  /\ NoPromise \in [comm : Comms \cup {0}, source : Int, tag : Int, rank : Int]
  /\ NoProbe \in [comm : Comms \cup {0}, source : Int, tag : Int, flag : BOOLEAN]
BY DEF AnySource, AnyTag, ProcNull, RequestNull, NoBuffer, NoPromise, NoProbe

LEMMA RanksArePids ==
  ASSUME NEW c \in Comms
  PROVE  /\ Len(Group[c]) \in Nat /\ DOMAIN Group[c] = 1 .. Len(Group[c])
         /\ \A k \in Ranks(c) : RankToPid(c, k) \in Procs
         /\ \A k, l \in Ranks(c) : RankToPid(c, k) = RankToPid(c, l) => k = l
<1>1. Group[c] \in Seq(Procs) /\ IsInjective(Group[c])
  BY GroupAssumption
<1>2. PICK n \in Nat : n = Len(Group[c])
  BY <1>1, LenProperties
<1>3. DOMAIN Group[c] = 1 .. n /\ \A i \in 1 .. n : Group[c][i] \in Procs
  BY <1>1, <1>2, LenProperties, ElementOfSeq
<1>4. \A i, j \in 1 .. n : Group[c][i] = Group[c][j] => i = j
  BY <1>1, <1>3 DEF IsInjective
<1>5. \A k \in Ranks(c) : k \in Int /\ k + 1 \in 1 .. n
  BY <1>2 DEF Ranks
<1> QED BY <1>2, <1>3, <1>4, <1>5 DEF RankToPid

\* What Activate makes of a request that does not go to the null process.
Posted(S, p, r) ==
  [r EXCEPT !.serial = Len(S.log) + 1,
            !.buffer = IF IsSend(r) THEN [pid |-> p, serial |-> Len(S.log) + 1, size |-> r.size]
                       ELSE NoBuffer]

LEMMA PostedFields ==
  ASSUME NEW p \in Procs, NEW S \in StateRecords, NEW r \in Requests, Legal(p, r),
         r.peer # ProcNull
  PROVE  LET x == Posted(S, p, r)
         IN /\ x \in Requests /\ Legal(p, x)
            /\ x.id = r.id /\ x.type = r.type /\ x.comm = r.comm /\ x.peer = r.peer
            /\ x.tag = r.tag /\ x.size = r.size
            /\ x.serial = Len(S.log) + 1 /\ Len(S.log) \in Nat
            /\ IsSend(x) => x.buffer.pid = p /\ x.buffer.serial = x.serial
            /\ Operation(x) \in Operations
<1> DEFINE x == Posted(S, p, r)
<1>1. Len(S.log) \in Nat
  BY LenProperties DEF StateRecords
<1>2. /\ x \in Requests
      /\ x.id = r.id /\ x.type = r.type /\ x.comm = r.comm /\ x.peer = r.peer
      /\ x.tag = r.tag /\ x.size = r.size
      /\ x.serial = Len(S.log) + 1
      /\ IsSend(r) => x.buffer.pid = p /\ x.buffer.serial = x.serial
  <2>1. PICK n \in Nat : n = Len(S.log) + 1
    BY <1>1
  <2>2. PICK b : b = IF IsSend(r) THEN [pid |-> p, serial |-> n, size |-> r.size] ELSE NoBuffer
    OBVIOUS
  <2>3. b \in [pid : Procs \cup {-1}, serial : Nat, size : Nat]
    BY <2>2, Constants DEF Requests
  <2>4. x = [r EXCEPT !.serial = n, !.buffer = b]
    BY <2>1, <2>2 DEF Posted
  <2>5. x.buffer = b /\ x.serial = n
    BY <2>4 DEF Requests
  <2>6. IsSend(r) => b.pid = p /\ b.serial = n
    BY <2>2
  <2>7. /\ x \in Requests
        /\ x.id = r.id /\ x.type = r.type /\ x.comm = r.comm /\ x.peer = r.peer
        /\ x.tag = r.tag /\ x.size = r.size
    <3> HIDE DEF x
    <3> QED BY <2>3, <2>4 DEF Requests
  <2> QED BY <2>1, <2>5, <2>6, <2>7
<1> HIDE DEF x
<1>3. Legal(p, x)
  BY <1>2 DEF Legal, IsSend, IsReceive
<1>4. Operation(x) \in Operations
  <2>1. r.comm \in Comms
    BY DEF Legal, CommsOf
  <2>2. \A k \in Ranks(r.comm) : RankToPid(r.comm, k) \in Procs
    BY <2>1, RanksArePids
  <2>3. CASE IsSend(r)
    <3>1. IsSend(x) /\ x.peer \in Ranks(r.comm) /\ x.tag \in Tags
      BY <1>2, <2>3 DEF Legal, IsSend, IsReceive
    <3>2. x.peer # AnySource
      BY <3>1, Constants DEF Ranks
    <3> QED BY <1>2, <2>1, <2>2, <3>1, <3>2 DEF Operation, Operations
  <2>4. CASE IsReceive(r)
    <3>1. ~IsSend(x) /\ x.peer \in Ranks(r.comm) \cup {AnySource} /\ x.tag \in Tags \cup {AnyTag}
      BY <1>2, <2>4 DEF Legal, IsSend, IsReceive
    <3>2. (IF x.peer = AnySource THEN AnySource ELSE RankToPid(x.comm, x.peer))
             \in Procs \cup {AnySource}
      BY <1>2, <2>2, <3>1
    <3> QED BY <1>2, <2>1, <3>1, <3>2 DEF Operation, Operations
  <2> QED BY <2>3, <2>4 DEF IsSend
<1> QED BY <1>1, <1>2, <1>3, <1>4 DEF x, IsSend, IsReceive

\* The state after Activate, field by field: what stays, and what is posted.
Kept(S, A, r) ==
  /\ A \in StateRecords
  /\ A.status = S.status /\ A.persistent = S.persistent /\ A.tested = S.tested
  /\ A.probe_data = S.probe_data /\ A.closed = S.closed
  /\ A.probe_promise = IF IsReceive(r) THEN NoPromise ELSE S.probe_promise

PostsNothing(S, A, r) ==
  A.active = S.active /\ A.log = S.log /\ A.finished = S.finished \cup {r}

PostsOne(S, A, r, x) ==
  /\ A.active = Append(S.active, x) /\ A.log = Append(S.log, Operation(x))
  /\ A.finished = IF r.type \in {TypeStd, TypeEager} THEN S.finished \cup {x} ELSE S.finished

LEMMA ActivateFields ==
  ASSUME NEW p \in Procs, NEW S \in StateRecords, NEW r \in Requests, Legal(p, r),
         NEW A, A = Activate(S, p, r)
  PROVE  /\ Kept(S, A, r)
         /\ r.peer = ProcNull => PostsNothing(S, A, r)
         /\ r.peer # ProcNull => PostsOne(S, A, r, Posted(S, p, r))
<1>1. PICK T : T = IF IsReceive(r) THEN [S EXCEPT !.probe_promise = NoPromise] ELSE S
  OBVIOUS
<1>2. /\ T \in StateRecords
      /\ T.status = S.status /\ T.persistent = S.persistent /\ T.tested = S.tested
      /\ T.probe_data = S.probe_data /\ T.closed = S.closed
      /\ T.active = S.active /\ T.log = S.log /\ T.finished = S.finished
      /\ T.probe_promise = IF IsReceive(r) THEN NoPromise ELSE S.probe_promise
  BY <1>1, Constants DEF StateRecords
<1>3. CASE r.peer = ProcNull
  <2>1. Activate(S, p, r) = [T EXCEPT !.finished = @ \cup {r}]
    BY <1>1, <1>3 DEF Activate
  <2>2. PICK f : f = T.finished \cup {r} /\ f \in SUBSET Requests
    <3>1. T.finished \in SUBSET Requests
      BY <1>2 DEF StateRecords
    <3> QED BY <3>1
  <2>3. A = [T EXCEPT !.finished = f]
    BY <2>1, <2>2
  <2>4. A \in StateRecords
    BY <1>2, <2>2, <2>3 DEF StateRecords
  <2>5. /\ A.active = T.active /\ A.finished = f /\ A.log = T.log
        /\ A.status = T.status /\ A.persistent = T.persistent /\ A.tested = T.tested
        /\ A.probe_data = T.probe_data /\ A.closed = T.closed
        /\ A.probe_promise = T.probe_promise
    BY <1>2, <2>3 DEF StateRecords
  <2>6. Kept(S, A, r)
    BY <1>2, <2>4, <2>5 DEF Kept
  <2>7. PostsNothing(S, A, r)
    BY <1>2, <2>2, <2>5 DEF PostsNothing
  <2> QED BY <1>3, <2>6, <2>7
<1>4. CASE r.peer # ProcNull
  <2>1. PICK x : x = Posted(S, p, r)
    OBVIOUS
  <2>2. x \in Requests /\ x.type = r.type /\ Operation(x) \in Operations
    BY <1>4, <2>1, PostedFields
  <2>3. Activate(S, p, r) =
          [T EXCEPT !.active = Append(@, x),
                    !.finished = IF x.type \in {TypeStd, TypeEager} THEN @ \cup {x} ELSE @,
                    !.log = Append(@, Operation(x))]
    BY <1>1, <1>4, <2>1 DEF Activate, Posted
  <2>4. Append(T.active, x) \in Seq(Requests) /\ Append(T.log, Operation(x)) \in Seq(Operations)
    BY <1>2, <2>2, AppendProperties DEF StateRecords
  <2>5. PICK a, f, l :
            /\ a = Append(T.active, x) /\ l = Append(T.log, Operation(x))
            /\ f = IF x.type \in {TypeStd, TypeEager} THEN T.finished \cup {x} ELSE T.finished
    OBVIOUS
  <2>6. a \in Seq(Requests) /\ l \in Seq(Operations) /\ f \in SUBSET Requests
    BY <1>2, <2>2, <2>4, <2>5 DEF StateRecords
  <2>7. A = [T EXCEPT !.active = a, !.finished = f, !.log = l]
    BY <2>3, <2>5
  <2>9. /\ A \in StateRecords
        /\ A.active = a /\ A.finished = f /\ A.log = l
        /\ A.status = T.status /\ A.persistent = T.persistent /\ A.tested = T.tested
        /\ A.probe_data = T.probe_data /\ A.closed = T.closed
        /\ A.probe_promise = T.probe_promise
    BY <1>2, <2>6, <2>7 DEF StateRecords
  <2>10. Kept(S, A, r)
    BY <1>2, <2>9 DEF Kept
  <2>11. PostsOne(S, A, r, x)
    BY <1>2, <2>2, <2>5, <2>9 DEF PostsOne
  <2> QED BY <1>4, <2>1, <2>10, <2>11
<1> QED BY <1>3, <1>4

LEMMA Appended ==
  ASSUME NEW X, NEW s \in Seq(X), NEW e \in X
  PROVE  \E n \in Nat :
           /\ n = Len(s) /\ DOMAIN s = 1 .. n
           /\ Append(s, e) \in Seq(X)
           /\ Len(Append(s, e)) = n + 1 /\ DOMAIN Append(s, e) = 1 .. n + 1
           /\ \A i \in 1 .. n : Append(s, e)[i] = s[i]
           /\ Append(s, e)[n + 1] = e
           /\ ToSet(Append(s, e)) = ToSet(s) \cup {e}
<1>1. PICK n \in Nat : n = Len(s)
  BY LenProperties
<1>2. DOMAIN s = 1 .. n
  BY <1>1, LenProperties
<1>3. PICK t : t = Append(s, e)
  OBVIOUS
<1>4. /\ t \in Seq(X) /\ Len(t) = n + 1
      /\ \A i \in 1 .. n : t[i] = s[i]
      /\ t[n + 1] = e
  BY <1>1, <1>3, AppendProperties
<1>5. DOMAIN t = 1 .. n + 1
  BY <1>4, LenProperties
<1>6. ToSet(t) = ToSet(s) \cup {e}
  <2>1. ASSUME NEW i \in 1 .. n + 1 PROVE t[i] \in ToSet(s) \cup {e}
    <3>1. i \in 1 .. n \/ i = n + 1
      OBVIOUS
    <3> QED BY <3>1, <1>2, <1>4 DEF ToSet
  <2>2. ASSUME NEW i \in 1 .. n PROVE s[i] \in ToSet(t)
    <3>1. i \in 1 .. n + 1
      OBVIOUS
    <3> QED BY <3>1, <1>4, <1>5 DEF ToSet
  <2>3. e \in ToSet(t)
    <3>1. n + 1 \in 1 .. n + 1
      OBVIOUS
    <3> QED BY <3>1, <1>4, <1>5 DEF ToSet
  <2>4. ToSet(t) \subseteq ToSet(s) \cup {e}
    BY <1>5, <2>1 DEF ToSet
  <2>5. ToSet(s) \subseteq ToSet(t)
    BY <1>2, <2>2 DEF ToSet
  <2> QED BY <2>3, <2>4, <2>5
<1> QED BY <1>1, <1>2, <1>3, <1>4, <1>5, <1>6

\* A process that activates a request posts it once.
LEMMA ActivateOK ==
  ASSUME NEW p \in Procs, NEW M, NEW D, NEW S, StateOK(p, S, M, D),
         NEW r \in Requests, Legal(p, r)
  PROVE  StateOK(p, Activate(S, p, r), M, D)
<1>1. S \in StateRecords
  BY DEF StateOK
<1>2. PICK A : A = Activate(S, p, r)
  OBVIOUS
<1>3. /\ A \in StateRecords
      /\ A.status = S.status /\ A.persistent = S.persistent /\ A.tested = S.tested
      /\ A.probe_data = S.probe_data /\ A.closed = S.closed
      /\ A.probe_promise = IF IsReceive(r) THEN NoPromise ELSE S.probe_promise
  BY <1>1, <1>2, ActivateFields DEF Kept
<1>4. WaitIsRecorded(p, A)
  BY <1>3 DEF StateOK, WaitIsRecorded
<1>5. CASE r.peer = ProcNull
  <2>1. /\ A.active = S.active /\ A.log = S.log
        /\ A.finished = S.finished \cup {r}
    BY <1>1, <1>2, <1>5, ActivateFields DEF PostsNothing
  <2>2. IsFiniteSet(A.finished) /\ IsFiniteSet(A.persistent)
    <3>1. IsFiniteSet(S.finished) /\ IsFiniteSet(S.persistent)
      BY DEF StateOK
    <3>2. IsFiniteSet(S.finished \cup {r})
      BY <3>1, FS_AddElement
    <3> QED BY <1>3, <2>1, <3>1, <3>2
  <2>3. \A q \in LiveRequests(A) \cup A.persistent : Legal(p, q)
    BY <1>3, <2>1 DEF StateOK, LiveRequests
  <2>4. Accounted(A, D)
    BY <2>1 DEF StateOK, Accounted
  <2>5. /\ \A q \in ToSet(A.active) :
             q.peer # ProcNull /\ (IsSend(q) => q.buffer.pid = p /\ q.buffer.serial = q.serial)
        /\ \A q \in A.finished \cup A.closed :
             q.peer # ProcNull => Fulfilled(p, q, M) /\ q.serial \in 1 .. Len(A.log)
        /\ \A q \in A.closed : q.peer # ProcNull /\ q \notin A.finished
    BY <1>3, <1>5, <2>1 DEF StateOK
  <2> QED BY <1>2, <1>3, <1>4, <2>2, <2>3, <2>4, <2>5 DEF StateOK
<1>6. CASE r.peer # ProcNull
  <2>1. PICK x : x = Posted(S, p, r)
    OBVIOUS
  <2>2. /\ x \in Requests /\ Legal(p, x)
        /\ x.type = r.type /\ x.peer = r.peer
        /\ x.serial = Len(S.log) + 1 /\ Len(S.log) \in Nat
        /\ IsSend(x) => x.buffer.pid = p /\ x.buffer.serial = x.serial
        /\ Operation(x) \in Operations
    BY <1>1, <1>6, <2>1, PostedFields
  <2>3. /\ A.active = Append(S.active, x)
        /\ A.log = Append(S.log, Operation(x))
        /\ A.finished = IF r.type \in {TypeStd, TypeEager}
                        THEN S.finished \cup {x} ELSE S.finished
    <3>1. PostsOne(S, A, r, x)
      BY <1>1, <1>2, <1>6, <2>1, ActivateFields
    <3> QED BY <3>1 DEF PostsOne
  <2>4. PICK n \in Nat : n = Len(S.log) /\ Len(A.log) = n + 1
    <3>1. S.log \in Seq(Operations)
      BY <1>1 DEF StateRecords
    <3> QED BY <3>1, <2>2, <2>3, Appended
  <2>5. PICK l \in Nat :
           /\ DOMAIN S.active = 1 .. l /\ DOMAIN A.active = 1 .. l + 1
           /\ \A i \in 1 .. l : A.active[i] = S.active[i]
           /\ A.active[l + 1] = x
           /\ ToSet(A.active) = ToSet(S.active) \cup {x}
    <3>1. S.active \in Seq(Requests)
      BY <1>1 DEF StateRecords
    <3>2. PICK a, b : a = S.active /\ b = A.active
      OBVIOUS
    <3>3. a \in Seq(Requests) /\ b = Append(a, x)
      BY <3>1, <3>2, <2>3
    <3>4. PICK l \in Nat :
             /\ DOMAIN a = 1 .. l /\ DOMAIN b = 1 .. l + 1
             /\ \A i \in 1 .. l : b[i] = a[i]
             /\ b[l + 1] = x
             /\ ToSet(b) = ToSet(a) \cup {x}
      BY <3>3, <2>2, Appended
    <3>5. ToSet(A.active) = ToSet(S.active) \cup {x}
      BY <3>2, <3>4
    <3>6. A.active[l + 1] = x /\ \A i \in 1 .. l : A.active[i] = S.active[i]
      BY <3>2, <3>4
    <3>7. DOMAIN S.active = 1 .. l /\ DOMAIN A.active = 1 .. l + 1
      BY <3>2, <3>4
    <3> QED BY <3>5, <3>6, <3>7
  <2>6. IsFiniteSet(A.finished) /\ IsFiniteSet(A.persistent)
    <3>1. IsFiniteSet(S.finished) /\ IsFiniteSet(S.persistent)
      BY DEF StateOK
    <3>2. IsFiniteSet(S.finished \cup {x})
      BY <3>1, FS_AddElement
    <3> QED BY <1>3, <2>3, <3>1, <3>2
  <2>7. \A q \in LiveRequests(A) \cup A.persistent : Legal(p, q)
    BY <1>3, <2>2, <2>3, <2>5 DEF StateOK, LiveRequests
  <2>8. \A q \in ToSet(A.active) :
          q.peer # ProcNull /\ (IsSend(q) => q.buffer.pid = p /\ q.buffer.serial = q.serial)
    BY <1>6, <2>2, <2>5 DEF StateOK
  <2>9. \A q \in A.finished \cup A.closed :
          q.peer # ProcNull => Fulfilled(p, q, M) /\ q.serial \in 1 .. Len(A.log)
    <3>1. \A q \in S.finished \cup S.closed :
            q.peer # ProcNull => Fulfilled(p, q, M) /\ q.serial \in 1 .. n
      BY <2>4 DEF StateOK
    <3>2. r.type \in {TypeStd, TypeEager} => Fulfilled(p, x, M) /\ x.serial \in 1 .. n + 1
      BY <2>2, <2>4 DEF Fulfilled, IsReceive, TypeReceive, TypeStd, TypeEager, TypeRendezvous
    <3>3. \A i \in 1 .. n : i \in 1 .. n + 1
      OBVIOUS
    <3> QED BY <1>3, <2>3, <2>4, <3>1, <3>2, <3>3
  <2>10. \A q \in A.closed : q.peer # ProcNull /\ q \notin A.finished
    <3>1. \A q \in S.closed : q.peer # ProcNull /\ q \notin S.finished /\ q.serial \in 1 .. n
      BY <2>4 DEF StateOK
    <3>2. x.serial = n + 1
      BY <2>2, <2>4
    <3>3. \A q \in S.closed : q # x
      BY <3>1, <3>2
    <3> QED BY <1>3, <2>3, <3>1, <3>3
  <2>11. Accounted(A, D)
    <3>2. /\ D \subseteq 1 .. n
          /\ \A i \in 1 .. l : S.active[i].serial \in (1 .. n) \ D
          /\ \A i, j \in 1 .. l : S.active[i].serial = S.active[j].serial => i = j
          /\ \A k \in (1 .. n) \ D : \E i \in 1 .. l : S.active[i].serial = k
      BY <2>4, <2>5 DEF StateOK, Accounted
    <3>3. PICK ser \in [1 .. l + 1 -> Int] :
             ser = [i \in 1 .. l + 1 |-> A.active[i].serial]
      <4>1. \A i \in 1 .. l : A.active[i].serial \in Int
        BY <2>5, <3>2
      <4>2. A.active[l + 1].serial \in Int
        BY <2>2, <2>5
      <4>3. \A i \in 1 .. l + 1 : i \in 1 .. l \/ i = l + 1
        OBVIOUS
      <4> QED BY <4>1, <4>2, <4>3
    <3>4. /\ \A i \in 1 .. l : ser[i] \in (1 .. n) \ D
          /\ \A i, j \in 1 .. l : ser[i] = ser[j] => i = j
          /\ \A k \in (1 .. n) \ D : \E i \in 1 .. l : ser[i] = k
          /\ ser[l + 1] = n + 1
      <4>1. \A i \in 1 .. l : i \in 1 .. l + 1 /\ ser[i] = S.active[i].serial
        BY <2>5, <3>3
      <4>2. ser[l + 1] = n + 1
        BY <2>2, <2>4, <2>5, <3>3
      <4> QED BY <3>2, <4>1, <4>2, SMTT(20)
    <3>5. /\ D \subseteq 1 .. n + 1
          /\ \A i \in 1 .. l + 1 : ser[i] \in (1 .. n + 1) \ D
          /\ \A i, j \in 1 .. l + 1 : ser[i] = ser[j] => i = j
          /\ \A k \in (1 .. n + 1) \ D : \E i \in 1 .. l + 1 : ser[i] = k
      <4>1. /\ \A i \in 1 .. n + 1 : i \in 1 .. n \/ i = n + 1
            /\ \A i \in 1 .. n : i \in 1 .. n + 1 /\ i # n + 1
            /\ n + 1 \notin D
            /\ \A i \in 1 .. l + 1 : i \in 1 .. l \/ i = l + 1
            /\ \A i \in 1 .. l : i \in 1 .. l + 1 /\ i # l + 1
            /\ l + 1 \in 1 .. l + 1 /\ n + 1 \in 1 .. n + 1
        BY <3>2
      <4>2. D \subseteq 1 .. n + 1
        BY <3>2, <4>1
      <4>3. \A i \in 1 .. l + 1 : ser[i] \in (1 .. n + 1) \ D
        BY <3>4, <4>1
      <4>4. ASSUME NEW i \in 1 .. l + 1, NEW j \in 1 .. l + 1, ser[i] = ser[j] PROVE i = j
        <5>1. \A k \in 1 .. l : ser[k] # n + 1
          BY <3>4, <4>1
        <5> QED BY <3>4, <4>1, <4>4, <5>1
      <4>5. \A k \in (1 .. n + 1) \ D : \E i \in 1 .. l + 1 : ser[i] = k
        BY <3>4, <4>1
      <4> QED BY <4>2, <4>3, <4>4, <4>5
    <3> QED BY <2>4, <2>5, <3>3, <3>5 DEF Accounted
  <2> QED BY <1>2, <1>3, <1>4, <2>6, <2>7, <2>8, <2>9, <2>10, <2>11 DEF StateOK
<1> QED BY <1>5, <1>6

-----------------------------------------------------------------------------
(* Ids of requests *)

Types == 0 .. TypesCount - 1

LEMMA RequestIdIsNumber ==
  ASSUME NEW p \in Procs, NEW t \in Types, NEW k \in Nat
  PROVE  RequestId(p, t, k) \in Nat
<1>1. ProcessCount \in Nat /\ p \in Nat /\ t \in Nat
  BY ProtocolAssumption DEF Procs, Types
<1>2. ProcessCount * k \in Nat
  BY <1>1
<1>3. PICK a \in Nat : a = ProcessCount * k + p
  BY <1>1, <1>2
<1>4. 5 * a + t \in Nat
  BY <1>1
<1> QED BY <1>3, <1>4 DEF RequestId, TypesCount

\* An id tells the process, the type and the number of the request.
LEMMA RequestIdsDiffer ==
  ASSUME NEW p \in Procs, NEW q \in Procs, NEW t \in Types, NEW u \in Types,
         NEW k \in Nat, NEW l \in Nat, RequestId(p, t, k) = RequestId(q, u, l)
  PROVE  p = q /\ t = u /\ k = l
<1> DEFINE N == ProcessCount
<1>1. N \in Nat \ {0} /\ p \in 0 .. N - 1 /\ q \in 0 .. N - 1 /\ t \in 0 .. 4 /\ u \in 0 .. 4
  BY ProtocolAssumption DEF Procs, Types, TypesCount
<1>2. PICK a \in Nat, b \in Nat : a = N * k + p /\ b = N * l + q
  BY <1>1
<1>3. 5 * a + t = 5 * b + u
  BY <1>2 DEF RequestId, TypesCount
<1>4. a = b /\ t = u
  BY <1>1, <1>3
<1>5. ASSUME NEW i \in Nat, NEW j \in Nat, NEW x \in 0 .. N - 1, NEW y \in 0 .. N - 1,
             i < j, N * i + x = N * j + y
      PROVE  FALSE
  <2>1. PICK d \in Nat \ {0} : j = i + d
    <3>1. j - i \in Nat \ {0} /\ j = i + (j - i)
      BY <1>5
    <3> QED BY <3>1
  <2>2. N * j = N * i + N * d
    BY <2>1, <1>1
  <2>3. N * d >= N
    <3>1. PICK e \in Nat : d = e + 1
      BY <2>1
    <3>2. N * d = N * e + N
      BY <3>1, <1>1
    <3>3. N * e \in Nat
      BY <1>1
    <3> QED BY <1>1, <3>2, <3>3
  <2>4. PICK m \in Int, n \in Int : m = N * i /\ n = N * d
    BY <1>1, <2>1
  <2>5. m + x = m + n + y /\ n >= N
    BY <1>5, <2>2, <2>3, <2>4
  <2>6. x = n + y
    BY <2>5, <2>4, <1>1
  <2> QED BY <2>5, <2>6, <1>1
<1>6. k = l
  <2>1. ~(k < l)
    BY <1>1, <1>2, <1>4, <1>5
  <2>2. ~(l < k)
    BY <1>1, <1>2, <1>4, <1>5
  <2> QED BY <2>1, <2>2
<1>7. p = q
  BY <1>1, <1>2, <1>4, <1>6
<1> QED BY <1>4, <1>6, <1>7

LEMMA IdsAreFinite ==
  ASSUME NEW R, IsFiniteSet(R)
  PROVE  IsFiniteSet(Ids(R))
<1>1. PICK f : f = [r \in R |-> r.id]
  OBVIOUS
<1>2. f \in Surjection(R, Ids(R))
  BY <1>1 DEF Ids, Surjection
<1> QED BY <1>2, FS_Surjection

LEMMA ElementsAreFinite ==
  ASSUME NEW X, NEW s \in Seq(X)
  PROVE  IsFiniteSet(ToSet(s))
<1>1. Len(s) \in Nat /\ DOMAIN s = 1 .. Len(s)
  BY LenProperties
<1>2. IsFiniteSet(DOMAIN s)
  BY <1>1, FS_Interval
<1>3. PICK f : f = [i \in DOMAIN s |-> s[i]]
  OBVIOUS
<1>4. f \in Surjection(DOMAIN s, ToSet(s))
  BY <1>3 DEF Surjection, ToSet
<1> QED BY <1>2, <1>4, FS_Surjection

\* new_request_id finds an id that no request of the process has.
LEMMA NewIdIsFree ==
  ASSUME NEW S \in StateRecords, IsFiniteSet(S.finished), IsFiniteSet(S.persistent),
         NEW p \in Procs, NEW t \in Types
  PROVE  /\ \E k \in Nat : NewRequestId(S, p, t) = RequestId(p, t, k)
         /\ NewRequestId(S, p, t) \in Nat
         /\ NewRequestId(S, p, t) \notin Ids(LiveRequests(S) \cup S.persistent)
<1>1. PICK used : used = Ids(LiveRequests(S) \cup S.persistent)
  OBVIOUS
<1>2. IsFiniteSet(used)
  <2>1. IsFiniteSet(ToSet(S.active))
    BY ElementsAreFinite DEF StateRecords
  <2>2. IsFiniteSet(LiveRequests(S) \cup S.persistent)
    BY <2>1, FS_Union DEF LiveRequests
  <2> QED BY <1>1, <2>2, IdsAreFinite
<1>3. PICK c \in Nat : c = Cardinality(used)
  BY <1>2, FS_CardinalityType
<1>4. PICK K : K = {k \in 1 .. c + 1 : RequestId(p, t, k) \notin used}
  OBVIOUS
<1>5. K # {}
  <2> SUFFICES ASSUME \A k \in 1 .. c + 1 : RequestId(p, t, k) \in used PROVE FALSE
    BY <1>4
  <2>1. PICK f : f = [k \in 1 .. c + 1 |-> RequestId(p, t, k)]
    OBVIOUS
  <2>2. f \in [1 .. c + 1 -> used]
    BY <2>1
  <2>3. IsFiniteSet(1 .. c + 1) /\ Cardinality(1 .. c + 1) = c + 1
    BY FS_Interval
  <2>4. \E x, y \in 1 .. c + 1 : x # y /\ f[x] = f[y]
    BY <1>2, <1>3, <2>2, <2>3, FS_PigeonHole
  <2>5. PICK x \in 1 .. c + 1, y \in 1 .. c + 1 : x # y /\ f[x] = f[y]
    BY <2>4
  <2>6. RequestId(p, t, x) = RequestId(p, t, y)
    BY <2>1, <2>5
  <2>7. x \in Nat /\ y \in Nat
    OBVIOUS
  <2> QED BY <2>5, <2>6, <2>7, RequestIdsDiffer
<1>6. K \in SUBSET Nat
  BY <1>4
<1>7. Min(K) \in K
  BY <1>5, <1>6, MinIsSmallest
<1>8. NewRequestId(S, p, t) = RequestId(p, t, Min(K))
  BY <1>1, <1>3, <1>4 DEF NewRequestId
<1>9. PICK k \in Nat : k = Min(K) /\ RequestId(p, t, k) \notin used
  BY <1>4, <1>6, <1>7
<1> QED BY <1>1, <1>8, <1>9, RequestIdIsNumber

-----------------------------------------------------------------------------
(* Calls *)

LEMMA MayCallIsChecked ==
  ASSUME NEW p \in Procs
  PROVE  MayCall(p) \subseteq ProgramCalls(p)
<1>1. ASSUME NEW program \in Programs, NEW calls \in ToSet(program[p])
      PROVE  calls \subseteq ProgramCalls(p)
  <2>1. PICK t \in Seq(SUBSET ProgramCalls(p)) : t = program[p]
    BY ProgramsAssumption
  <2>2. calls \in SUBSET ProgramCalls(p)
    BY <2>1, LenProperties, ElementOfSeq DEF ToSet
  <2> QED BY <2>2
<1> QED BY <1>1 DEF MayCall

\* The arguments that check.py has let through.
LEMMA CallFields ==
  ASSUME NEW p \in Procs, NEW call \in MayCall(p)
  PROVE  /\ call.op \in {"Send", "Isend", "Send_init", "Sendrecv"} =>
              /\ call.comm \in CommsOf(p) /\ call.target \in Ranks(call.comm) \cup {ProcNull}
              /\ call.tag \in Tags /\ call.size \in Nat
         /\ call.op \in {"Recv", "Irecv", "Recv_init", "Probe", "Iprobe"} =>
              /\ call.comm \in CommsOf(p)
              /\ call.source \in Ranks(call.comm) \cup {ProcNull, AnySource}
              /\ call.tag \in Tags \cup {AnyTag}
         /\ call.op = "Sendrecv" =>
              /\ call.source \in Ranks(call.comm) \cup {ProcNull, AnySource}
              /\ call.recvtag \in Tags \cup {AnyTag}
         /\ call.op \in {"Recv", "Irecv", "Recv_init"} => call.size \in Nat
         /\ call.op \in {"Isend", "Send_init", "Irecv", "Recv_init", "Wait", "Test",
                         "Request_free"} => call.slot \in 1 .. Slots
         /\ call.op \in {"Start", "Startall"} => call.slots \in Seq(1 .. Slots)
         /\ call.op \in {"Recv", "Irecv", "Recv_init", "Sendrecv"} =>
              call.source \in Sources(p, call.comm)
         /\ call.op \in {"Probe", "Iprobe"} => call.comm \in Probed(p)
<1> DEFINE comms == {c \in Comms : p \in ToSet(Group[c])}
           modes == {"Send", "Ssend", "Bsend"}
           tags == Tags \cup {AnyTag}
           slots == 1 .. Slots
           C1 == [op : {"Send"}, mode : modes, comm : comms, target : Int, tag : Tags, size : Nat]
           C2 == [op : {"Isend", "Send_init"}, mode : modes, comm : comms, target : Int,
                  tag : Tags, size : Nat, slot : slots]
           C3 == [op : {"Recv"}, comm : comms, source : Int, tag : tags, size : Nat]
           C4 == [op : {"Irecv", "Recv_init"}, comm : comms, source : Int, tag : tags,
                  size : Nat, slot : slots]
           C5 == [op : {"Sendrecv"}, comm : comms, target : Int, tag : Tags, source : Int,
                  recvtag : tags, size : Nat]
           C6 == [op : {"Probe", "Iprobe"}, comm : comms, source : Int, tag : tags]
           C7 == [op : {"Wait", "Test", "Request_free"}, slot : slots]
           C8 == [op : {"Start", "Startall"}, slots : Seq(slots)]
           C9 == [op : {"Waitall", "Waitany", "Waitsome", "Testall"}]
           Target == call.target \in Ranks(call.comm) \cup {ProcNull}
           Source == call.source \in Ranks(call.comm) \cup {ProcNull, AnySource}
<1>1. /\ call \in ((((C1 \cup C2) \cup (C3 \cup C4)) \cup (C5 \cup C6)) \cup ((C7 \cup C8) \cup C9))
      /\ "target" \in DOMAIN call => Target
      /\ "source" \in DOMAIN call => Source
  BY MayCallIsChecked DEF ProgramCalls
<1>2. \/ call \in C1 \/ call \in C2 \/ call \in C3 \/ call \in C4 \/ call \in C5
      \/ call \in C6 \/ call \in C7 \/ call \in C8 \/ call \in C9
  BY <1>1
<1>3. (call \in C1 \/ call \in C2 \/ call \in C5) => "target" \in DOMAIN call
  OBVIOUS
<1>4. (call \in C3 \/ call \in C4 \/ call \in C5 \/ call \in C6) => "source" \in DOMAIN call
  OBVIOUS
<1>5. comms = CommsOf(p)
  BY DEF CommsOf
<1>15. /\ call.op \in {"Recv", "Irecv", "Recv_init", "Sendrecv"} =>
            call.source \in Sources(p, call.comm)
       /\ call.op \in {"Probe", "Iprobe"} => call.comm \in Probed(p)
  BY DEF Sources, Probed
<1> HIDE DEF Target, Source, comms
<1>6. CASE call \in C1
  BY <1>1, <1>3, <1>5, <1>6, <1>15 DEF Target
<1>7. CASE call \in C2
  BY <1>1, <1>3, <1>5, <1>7, <1>15 DEF Target
<1>8. CASE call \in C3
  BY <1>1, <1>4, <1>5, <1>8, <1>15 DEF Source
<1>9. CASE call \in C4
  BY <1>1, <1>4, <1>5, <1>9, <1>15 DEF Source
<1>10. CASE call \in C5
  BY <1>1, <1>3, <1>4, <1>5, <1>10, <1>15 DEF Target, Source
<1>11. CASE call \in C6
  BY <1>1, <1>4, <1>5, <1>11, <1>15 DEF Source
<1>12. CASE call \in C7
  BY <1>12, <1>15
<1>13. CASE call \in C8
  BY <1>13, <1>15
<1>14. CASE call \in C9
  BY <1>14, <1>15
<1> QED BY <1>2, <1>6, <1>7, <1>8, <1>9, <1>10, <1>11, <1>12, <1>13, <1>14

\* What a process in its program may do now.
LEMMA CallIsNext ==
  ASSUME IInv, NEW p \in Procs, NEW names, NEW call \in Calls(p, names)
  PROVE  /\ call \in MayCall(p) /\ call.op \in names
         /\ phase = "run" /\ states[p].status = "Running"
         /\ Tail(todo[p]) \in Seq(SUBSET MayCall(p))
<1>1. /\ phase = "run" /\ states[p].status = "Running" /\ todo[p] # <<>>
      /\ call \in Head(todo[p]) /\ call.op \in names
  BY DEF Calls
<1>2. todo[p] \in Seq(SUBSET MayCall(p))
  BY DEF IInv
<1>3. Head(todo[p]) \in SUBSET MayCall(p) /\ Tail(todo[p]) \in Seq(SUBSET MayCall(p))
  BY <1>1, <1>2, HeadTailProperties
<1> QED BY <1>1, <1>3

LEMMA TagsAreNumbers == \A t \in Tags \cup {AnyTag} : t \in Int
<1>1. Tags \subseteq Nat
  BY ProgramsAssumption
<1> QED BY <1>1, Constants

\* A request made by a call is one that MPI allows.
LEMMA NewRequestFits ==
  ASSUME NEW S \in StateRecords, IsFiniteSet(S.finished), IsFiniteSet(S.persistent),
         NEW p \in Procs, NEW t \in Types, NEW peer \in Int, NEW call,
         call.comm \in Comms, call.tag \in Int, call.size \in Nat
  PROVE  LET r == NewRequest(S, p, t, peer, call)
         IN /\ r \in Requests
            /\ r.id = NewRequestId(S, p, t) /\ r.type = t /\ r.comm = call.comm
            /\ r.peer = peer /\ r.tag = call.tag /\ r.buffer = NoBuffer /\ r.serial = 0
<1>1. PICK id \in Nat : id = NewRequestId(S, p, t)
  BY NewIdIsFree
<1> QED BY <1>1, Constants DEF NewRequest, Requests, Types

LEMMA SendRequestFits ==
  ASSUME NEW S \in StateRecords, IsFiniteSet(S.finished), IsFiniteSet(S.persistent),
         NEW p \in Procs, NEW mode, NEW call,
         call.comm \in CommsOf(p), call.target \in Ranks(call.comm) \cup {ProcNull},
         call.tag \in Tags, call.size \in Nat
  PROVE  LET r == SendRequest(S, p, mode, call)
         IN /\ r \in Requests /\ Legal(p, r) /\ IsSend(r) /\ r.type \in Types
            /\ r.id = NewRequestId(S, p, r.type) /\ r.peer = call.target
<1>1. SendType(mode, call.size) \in {TypeStd, TypeEager, TypeRendezvous}
  BY DEF SendType
<1>2. PICK t : t = SendType(mode, call.size)
  OBVIOUS
<1>3. t \in Types /\ t # TypeReceive /\ t \in {TypeReceive, TypeStd, TypeEager, TypeRendezvous}
  BY <1>1, <1>2 DEF Types, TypesCount, TypeReceive, TypeStd, TypeEager, TypeRendezvous
<1>4. call.comm \in Comms /\ call.target \in Int /\ call.tag \in Int
  <2>1. call.comm \in Comms
    BY DEF CommsOf
  <2>2. \A k \in Ranks(call.comm) : k \in Int
    BY <2>1, RanksArePids DEF Ranks
  <2>3. call.tag \in Int
    BY TagsAreNumbers, Zenon
  <2> QED BY <2>1, <2>2, <2>3, Constants
<1>5. PICK r : r = SendRequest(S, p, mode, call)
  OBVIOUS
<1>6. r = NewRequest(S, p, t, call.target, call)
  BY <1>2, <1>5 DEF SendRequest
<1>7. /\ r \in Requests
      /\ r.id = NewRequestId(S, p, t) /\ r.type = t /\ r.comm = call.comm
      /\ r.peer = call.target /\ r.tag = call.tag
  BY <1>3, <1>4, <1>6, NewRequestFits
<1> QED BY <1>3, <1>5, <1>7 DEF Legal, IsSend, IsReceive

LEMMA ReceiveRequestFits ==
  ASSUME NEW S \in StateRecords, IsFiniteSet(S.finished), IsFiniteSet(S.persistent),
         NEW p \in Procs, NEW call,
         call.comm \in CommsOf(p), call.source \in Ranks(call.comm) \cup {ProcNull, AnySource},
         call.source \in Sources(p, call.comm),
         call.tag \in Tags \cup {AnyTag}, call.size \in Nat
  PROVE  LET r == ReceiveRequest(S, p, call)
         IN /\ r \in Requests /\ Legal(p, r) /\ IsReceive(r) /\ r.type \in Types
            /\ r.id = NewRequestId(S, p, r.type) /\ r.peer = call.source
<1>1. TypeReceive \in Types
  BY DEF Types, TypesCount, TypeReceive
<1>2. call.comm \in Comms /\ call.source \in Int /\ call.tag \in Int
  <2>1. call.comm \in Comms
    BY DEF CommsOf
  <2>2. \A k \in Ranks(call.comm) : k \in Int
    BY <2>1, RanksArePids DEF Ranks
  <2>3. call.tag \in Int
    BY TagsAreNumbers, Zenon
  <2> QED BY <2>1, <2>2, <2>3, Constants
<1>3. PICK r : r = ReceiveRequest(S, p, call)
  OBVIOUS
<1>4. /\ r \in Requests
      /\ r.id = NewRequestId(S, p, TypeReceive) /\ r.type = TypeReceive /\ r.comm = call.comm
      /\ r.peer = call.source /\ r.tag = call.tag
  BY <1>1, <1>2, <1>3, NewRequestFits DEF ReceiveRequest
<1> QED BY <1>1, <1>3, <1>4 DEF Legal, IsSend, IsReceive

-----------------------------------------------------------------------------
(* What the steps of one process do to its state *)

\* A change that leaves the requests alone.
LEMMA SameRequests ==
  ASSUME NEW p \in Procs, NEW M, NEW D, NEW S, StateOK(p, S, M, D),
         NEW T \in StateRecords, T.active = S.active, T.finished = S.finished,
         T.persistent = S.persistent, T.log = S.log, T.closed = S.closed,
         WaitIsRecorded(p, T)
  PROVE  StateOK(p, T, M, D)
<1>1. Accounted(T, D)
  BY DEF StateOK, Accounted
<1>2. LiveRequests(T) = LiveRequests(S)
  BY DEF LiveRequests
<1> QED BY <1>1, <1>2 DEF StateOK

LEMMA WithStatus ==
  ASSUME NEW p \in Procs, NEW M, NEW D, NEW S, StateOK(p, S, M, D),
         NEW status \in {"Ready", "Running", "Finished"}
  PROVE  /\ StateOK(p, [ResetState(S) EXCEPT !.status = status], M, D)
         /\ [ResetState(S) EXCEPT !.status = status].active = S.active
         /\ [ResetState(S) EXCEPT !.status = status].finished = S.finished
         /\ [ResetState(S) EXCEPT !.status = status].persistent = S.persistent
         /\ [ResetState(S) EXCEPT !.status = status].tested = <<>>
         /\ [ResetState(S) EXCEPT !.status = status].probe_promise = S.probe_promise
<1>1. PICK T : T = [ResetState(S) EXCEPT !.status = status]
  OBVIOUS
<1>2. S \in StateRecords
  BY DEF StateOK
<1>3. PICK t \in Seq([id : Int, slot : 0 .. Slots]) : t = <<>>
  BY EmptySeq
<1>4. PICK d \in [comm : Comms \cup {0}, source : Int, tag : Int, flag : BOOLEAN] : d = NoProbe
  BY Constants
<1>5. T = [S EXCEPT !.tested = t, !.probe_data = d, !.status = status]
  BY <1>1, <1>2, <1>3, <1>4 DEF ResetState, StateRecords
<1>6. status \in Statuses /\ status \notin Completing /\ status # "Probe"
  BY DEF Statuses, Completing
<1>7. /\ T \in StateRecords /\ T.active = S.active /\ T.finished = S.finished
      /\ T.persistent = S.persistent /\ T.log = S.log /\ T.closed = S.closed
      /\ T.probe_promise = S.probe_promise
      /\ T.tested = t /\ T.probe_data = d /\ T.status = status
  BY <1>2, <1>5, <1>6 DEF StateRecords
<1>8. WaitIsRecorded(p, T)
  BY <1>3, <1>4, <1>6, <1>7 DEF StateOK, WaitIsRecorded
<1> QED BY <1>1, <1>3, <1>7, <1>8, SameRequests

LEMMA WithTests ==
  ASSUME NEW p \in Procs, NEW M, NEW D, NEW S, StateOK(p, S, M, D),
         NEW status \in Completing, NEW tested \in Seq([id : Int, slot : 0 .. Slots]),
         Slots > 0 => tested # <<>>
  PROVE  /\ StateOK(p, SetWait(S, status, tested), M, D)
         /\ SetWait(S, status, tested).active = S.active
         /\ SetWait(S, status, tested).finished = S.finished
         /\ SetWait(S, status, tested).persistent = S.persistent
         /\ SetWait(S, status, tested).tested = tested
         /\ SetWait(S, status, tested).probe_promise = S.probe_promise
<1>1. PICK T : T = SetWait(S, status, tested)
  OBVIOUS
<1>2. S \in StateRecords
  BY DEF StateOK
<1>4. PICK d \in [comm : Comms \cup {0}, source : Int, tag : Int, flag : BOOLEAN] : d = NoProbe
  BY Constants
<1>5. T = [S EXCEPT !.tested = tested, !.probe_data = d, !.status = status]
  BY <1>1, <1>2, <1>4 DEF SetWait, ResetState, StateRecords
<1>6. status \in Statuses /\ status # "Probe"
  BY DEF Statuses, Completing
<1>7. /\ T \in StateRecords /\ T.active = S.active /\ T.finished = S.finished
      /\ T.persistent = S.persistent /\ T.log = S.log /\ T.closed = S.closed
      /\ T.probe_promise = S.probe_promise
      /\ T.tested = tested /\ T.probe_data = d /\ T.status = status
  BY <1>2, <1>5, <1>6 DEF StateRecords
<1>8. WaitIsRecorded(p, T)
  BY <1>4, <1>6, <1>7 DEF StateOK, WaitIsRecorded
<1> QED BY <1>1, <1>7, <1>8, SameRequests

LEMMA WithProbe ==
  ASSUME NEW p \in Procs, NEW M, NEW D, NEW S, StateOK(p, S, M, D),
         NEW call, call.comm \in CommsOf(p) \cap Probed(p),
         call.source \in Ranks(call.comm) \cup {AnySource},
         call.tag \in Tags \cup {AnyTag}, NEW flag \in BOOLEAN
  PROVE  /\ StateOK(p, SetProbe(S, call, flag), M, D)
         /\ SetProbe(S, call, flag).active = S.active
         /\ SetProbe(S, call, flag).finished = S.finished
         /\ SetProbe(S, call, flag).persistent = S.persistent
         /\ SetProbe(S, call, flag).tested = <<>>
         /\ SetProbe(S, call, flag).probe_promise = S.probe_promise
<1>1. PICK T : T = SetProbe(S, call, flag)
  OBVIOUS
<1>2. S \in StateRecords
  BY DEF StateOK
<1>3. PICK t \in Seq([id : Int, slot : 0 .. Slots]) : t = <<>>
  BY EmptySeq
<1>4. PICK d : d = [comm |-> call.comm, source |-> call.source, tag |-> call.tag, flag |-> flag]
  OBVIOUS
<1>5. d \in [comm : Comms \cup {0}, source : Int, tag : Int, flag : BOOLEAN]
  <2>1. call.comm \in Comms
    BY DEF CommsOf
  <2>2. call.source \in Int
    BY <2>1, RanksArePids, Constants DEF Ranks
  <2>3. call.tag \in Int
    BY TagsAreNumbers, Zenon
  <2> QED BY <1>4, <2>1, <2>2, <2>3
<1>6. T = [S EXCEPT !.tested = t, !.probe_data = d, !.status = "Probe"]
  BY <1>1, <1>2, <1>3, <1>4 DEF SetProbe, ResetState, StateRecords
<1>7. /\ T \in StateRecords /\ T.active = S.active /\ T.finished = S.finished
      /\ T.persistent = S.persistent /\ T.log = S.log /\ T.closed = S.closed
      /\ T.probe_promise = S.probe_promise
      /\ T.tested = t /\ T.probe_data = d /\ T.status = "Probe"
  BY <1>2, <1>5, <1>6 DEF StateRecords, Statuses
<1>8. d.comm = call.comm /\ d.source = call.source /\ d.tag = call.tag
  BY <1>4
<1>9. WaitIsRecorded(p, T)
  BY <1>3, <1>7, <1>8 DEF StateOK, WaitIsRecorded, Completing
<1> QED BY <1>1, <1>3, <1>7, <1>9, SameRequests

\* Requests that are closed have been finished.
LEMMA CloseOK ==
  ASSUME NEW p \in Procs, NEW M, NEW D, NEW S, StateOK(p, S, M, D), NEW indices
  PROVE  /\ StateOK(p, Close(S, indices), M, D)
         /\ Close(S, indices).active = S.active
         /\ Close(S, indices).persistent = S.persistent
         /\ Close(S, indices).finished = {r \in S.finished : r.id \notin IdsAt(S, indices)}
         /\ Close(S, indices).probe_promise = S.probe_promise
<1>1. PICK T : T = Close(S, indices)
  OBVIOUS
<1>2. S \in StateRecords
  BY DEF StateOK
<1>3. PICK done : done = {r \in S.finished : r.id \in IdsAt(S, indices)}
  OBVIOUS
<1>4. PICK f, c : f = S.finished \ done /\ c = S.closed \cup {r \in done : r.peer # ProcNull}
  OBVIOUS
<1>5. f \in SUBSET Requests /\ c \in SUBSET Requests /\ f \subseteq S.finished
  BY <1>2, <1>3, <1>4 DEF StateRecords
<1>6. T = [S EXCEPT !.finished = f, !.closed = c]
  BY <1>1, <1>2, <1>3, <1>4 DEF Close, StateRecords
<1>7. /\ T \in StateRecords /\ T.active = S.active /\ T.finished = f
      /\ T.persistent = S.persistent /\ T.log = S.log /\ T.closed = c
      /\ T.probe_promise = S.probe_promise
      /\ T.tested = S.tested /\ T.probe_data = S.probe_data /\ T.status = S.status
  BY <1>2, <1>5, <1>6 DEF StateRecords
<1>8. WaitIsRecorded(p, T)
  BY <1>7 DEF StateOK, WaitIsRecorded
<1>9. Accounted(T, D)
  BY <1>7 DEF StateOK, Accounted
<1>10. IsFiniteSet(T.finished) /\ IsFiniteSet(T.persistent)
  BY <1>5, <1>7, FS_Subset DEF StateOK
<1>11. /\ \A r \in LiveRequests(T) \cup T.persistent : Legal(p, r)
       /\ \A r \in ToSet(T.active) :
            r.peer # ProcNull /\ (IsSend(r) => r.buffer.pid = p /\ r.buffer.serial = r.serial)
  BY <1>5, <1>7 DEF StateOK, LiveRequests
<1>12. \A r \in T.finished \cup T.closed :
         r.peer # ProcNull => Fulfilled(p, r, M) /\ r.serial \in 1 .. Len(T.log)
  BY <1>3, <1>4, <1>5, <1>7 DEF StateOK
<1>13. \A r \in T.closed : r.peer # ProcNull /\ r \notin T.finished
  BY <1>3, <1>4, <1>7 DEF StateOK
<1>14. T.finished = {r \in S.finished : r.id \notin IdsAt(S, indices)}
  BY <1>3, <1>4, <1>7
<1> QED BY <1>1, <1>7, <1>8, <1>9, <1>10, <1>11, <1>12, <1>13, <1>14 DEF StateOK

-----------------------------------------------------------------------------
(* Matching *)

\* The state S without its active request i, and with the finished requests f.
Without(S, i, f) == [S EXCEPT !.active = RemoveAt(@, i), !.finished = f]

Loses(S, T, i, f) ==
  /\ T \in StateRecords /\ T.active = RemoveAt(S.active, i) /\ T.finished = f
  /\ T.persistent = S.persistent /\ T.log = S.log /\ T.closed = S.closed
  /\ T.probe_promise = S.probe_promise
  /\ T.tested = S.tested /\ T.probe_data = S.probe_data /\ T.status = S.status

LEMMA WithoutFields ==
  ASSUME NEW S \in StateRecords, NEW i \in DOMAIN S.active, NEW f \in SUBSET Requests,
         NEW T, T = Without(S, i, f)
  PROVE  Loses(S, T, i, f)
<1>1. PICK a : a = RemoveAt(S.active, i)
  OBVIOUS
<1>2. a \in Seq(Requests)
  <2>1. S.active \in Seq(Requests)
    BY DEF StateRecords
  <2>2. i \in 1 .. Len(S.active)
    BY <2>1, LenProperties
  <2> QED BY <1>1, <2>1, <2>2, RemovingOne
<1>3. T = [S EXCEPT !.active = a, !.finished = f]
  BY <1>1 DEF StateRecords, Without
<1> QED BY <1>1, <1>2, <1>3 DEF StateRecords, Loses

\* What may become of a request that leaves the active ones.
MayFinish(p, S, N, i, f, x) ==
  \/ f = S.finished
  \/ /\ f = S.finished \cup {x}
     /\ x.serial = S.active[i].serial /\ x.peer # ProcNull /\ x \notin S.closed
     /\ Legal(p, x) /\ Fulfilled(p, x, N)

LEMMA LeavesActive ==
  ASSUME NEW p \in Procs, NEW M, NEW N, M \subseteq N, NEW D, NEW S, StateOK(p, S, M, D),
         NEW i \in DOMAIN S.active, NEW f \in SUBSET Requests, NEW x,
         MayFinish(p, S, N, i, f, x), NEW T, T = Without(S, i, f)
  PROVE  StateOK(p, T, N, D \cup {S.active[i].serial})
<1>1. S \in StateRecords
  BY DEF StateOK
<1>2. PICK a : a = S.active
  OBVIOUS
<1>3. a \in Seq(Requests)
  BY <1>1, <1>2 DEF StateRecords
<1>4. PICK n \in Nat : n = Len(a) /\ DOMAIN a = 1 .. n /\ i \in 1 .. n
  BY <1>2, <1>3, LenProperties
<1>5. PICK b : b = RemoveAt(a, i)
  OBVIOUS
<1>6. /\ b \in Seq(Requests) /\ Len(b) = n - 1
      /\ \A j \in 1 .. n - 1 : b[j] = a[IF j < i THEN j ELSE j + 1]
  BY <1>3, <1>4, <1>5, RemovingOne
<1>7. DOMAIN b = 1 .. n - 1
  BY <1>6, LenProperties
<1>8. /\ \A j \in DOMAIN b : \E k \in DOMAIN a : k # i /\ b[j] = a[k]
      /\ \A k \in DOMAIN a : k # i => \E j \in DOMAIN b : b[j] = a[k]
  <2>1. i \in 1 .. Len(a)
    BY <1>4
  <2>2. OthersStay(a, i, b)
    BY <1>3, <1>5, <2>1, WhatStays
  <2> QED BY <2>2 DEF OthersStay
<1>10. /\ T \in StateRecords /\ T.active = b /\ T.finished = f
       /\ T.persistent = S.persistent /\ T.log = S.log /\ T.closed = S.closed
       /\ T.probe_promise = S.probe_promise
       /\ T.tested = S.tested /\ T.probe_data = S.probe_data /\ T.status = S.status
  BY <1>1, <1>2, <1>5, WithoutFields DEF Loses
<1>11. WaitIsRecorded(p, T)
  BY <1>10 DEF StateOK, WaitIsRecorded
<1>12. PICK s : s = a[i].serial
  OBVIOUS
<1>13. PICK L \in Nat : L = Len(S.log)
  BY <1>1, LenProperties DEF StateRecords
<1>14. Accounted(T, D \cup {s})
  <2>1. /\ D \subseteq 1 .. L
        /\ \A j \in DOMAIN a : a[j].serial \in (1 .. L) \ D
        /\ \A j, k \in DOMAIN a : a[j].serial = a[k].serial => j = k
        /\ \A k \in (1 .. L) \ D : \E j \in DOMAIN a : a[j].serial = k
    BY <1>2, <1>13 DEF StateOK, Accounted
  <2>2. D \cup {s} \subseteq 1 .. L
    <3>1. s \in 1 .. L
      BY <1>2, <1>12, <2>1
    <3> QED BY <2>1, <3>1
  <2>3. \A j \in DOMAIN b : b[j].serial \in (1 .. L) \ (D \cup {s})
    <3>1. TAKE j \in DOMAIN b
    <3>2. PICK k \in DOMAIN a : k # i /\ b[j] = a[k]
      BY <1>8
    <3> QED BY <1>2, <1>12, <2>1, <3>2
  <2>4. ASSUME NEW j \in DOMAIN b, NEW k \in DOMAIN b, b[j].serial = b[k].serial PROVE j = k
    <3>1. PICK u, v : u = (IF j < i THEN j ELSE j + 1) /\ v = (IF k < i THEN k ELSE k + 1)
      OBVIOUS
    <3>2. u \in 1 .. n /\ v \in 1 .. n
      BY <1>4, <1>7, <3>1
    <3>3. b[j] = a[u] /\ b[k] = a[v]
      BY <1>6, <1>7, <3>1
    <3>4. u = v
      BY <1>4, <2>1, <2>4, <3>2, <3>3
    <3> QED BY <1>4, <1>7, <3>1, <3>4
  <2>5. \A k \in (1 .. L) \ (D \cup {s}) : \E j \in DOMAIN b : b[j].serial = k
    <3>1. TAKE k \in (1 .. L) \ (D \cup {s})
    <3>2. PICK j \in DOMAIN a : a[j].serial = k
      BY <2>1
    <3>3. j # i
      BY <1>12, <3>2
    <3> QED BY <1>8, <3>2, <3>3
  <2> QED BY <1>10, <1>13, <2>2, <2>3, <2>4, <2>5 DEF Accounted
<1>15. ToSet(b) \subseteq ToSet(a)
  BY <1>8 DEF ToSet
<1>16. IsFiniteSet(T.finished) /\ IsFiniteSet(T.persistent)
  <2>1. IsFiniteSet(S.finished) /\ IsFiniteSet(S.persistent)
    BY DEF StateOK
  <2>2. IsFiniteSet(S.finished \cup {x})
    BY <2>1, FS_AddElement
  <2> QED BY <1>10, <2>1, <2>2 DEF MayFinish
<1>17. \A r \in LiveRequests(T) \cup T.persistent : Legal(p, r)
  BY <1>2, <1>10, <1>15 DEF StateOK, LiveRequests, MayFinish
<1>18. \A r \in ToSet(T.active) :
         r.peer # ProcNull /\ (IsSend(r) => r.buffer.pid = p /\ r.buffer.serial = r.serial)
  BY <1>2, <1>10, <1>15 DEF StateOK
<1>19. \A r \in T.finished \cup T.closed :
         r.peer # ProcNull => Fulfilled(p, r, N) /\ r.serial \in 1 .. Len(T.log)
  <2>1. \A r : Fulfilled(p, r, M) => Fulfilled(p, r, N)
    BY DEF Fulfilled
  <2>2. S.active[i].serial \in 1 .. L
    BY <1>13 DEF StateOK, Accounted
  <2> QED BY <1>10, <1>13, <2>1, <2>2 DEF StateOK, MayFinish
<1>20. \A r \in T.closed : r.peer # ProcNull /\ r \notin T.finished
  BY <1>10 DEF StateOK, MayFinish
<1>21. s = S.active[i].serial
  BY <1>2, <1>12
<1>22. StateOK(p, T, N, D \cup {s})
  BY <1>10, <1>11, <1>14, <1>16, <1>17, <1>18, <1>19, <1>20 DEF StateOK
<1> QED BY <1>21, <1>22

\* What has been recorded stays so when more is matched.
LEMMA MoreMatchings ==
  ASSUME NEW p \in Procs, NEW M, NEW N, M \subseteq N, NEW D, NEW S, StateOK(p, S, M, D)
  PROVE  StateOK(p, S, N, D)
<1>1. \A r : Fulfilled(p, r, M) => Fulfilled(p, r, N)
  BY DEF Fulfilled
<1> QED BY <1>1 DEF StateOK

LEMMA NewMatching ==
  ASSUME NEW p, NEW M, NEW src, NEW send, NEW dst, NEW recv,
         NEW m, m.src = src, m.send = send, m.dst = dst, m.recv = recv
  PROVE  MatchedBy(p, M \cup {m}) =
           (MatchedBy(p, M) \cup (IF p = dst THEN {recv} ELSE {}))
             \cup (IF p = src THEN {send} ELSE {})
<1>2. {n.send : n \in {n \in M \cup {m} : n.src = p}} =
        {n.send : n \in {n \in M : n.src = p}} \cup (IF p = src THEN {send} ELSE {})
  OBVIOUS
<1>3. {n.recv : n \in {n \in M \cup {m} : n.dst = p}} =
        {n.recv : n \in {n \in M : n.dst = p}} \cup (IF p = dst THEN {recv} ELSE {})
  OBVIOUS
<1> QED BY <1>2, <1>3 DEF MatchedBy

\* What is closed has been matched if a matching completes it, so it is not active.
LEMMA ActiveIsNotClosed ==
  ASSUME NEW p \in Procs, NEW M, NEW S, StateOK(p, S, M, MatchedBy(p, M)),
         NEW i \in DOMAIN S.active, NEW x, x.serial = S.active[i].serial,
         IsReceive(x) \/ x.type = TypeRendezvous
  PROVE  x \notin S.closed
<1> SUFFICES ASSUME x \in S.closed PROVE FALSE
  OBVIOUS
<1>1. x.peer # ProcNull /\ Fulfilled(p, x, M)
  BY DEF StateOK
<1>2. x.serial \in MatchedBy(p, M)
  BY <1>1 DEF Fulfilled, MatchedBy
<1>3. S.active[i].serial \notin MatchedBy(p, M)
  BY DEF StateOK, Accounted
<1> QED BY <1>2, <1>3

\* A receive that gets its message.
LEMMA FinishReceiveFields ==
  ASSUME NEW S \in StateRecords, NEW i \in DOMAIN S.active,
         NEW b \in [pid : Procs \cup {-1}, serial : Nat, size : Nat],
         NEW x, x = [S.active[i] EXCEPT !.buffer = b],
         NEW T, T = FinishReceive(S, i, b)
  PROVE  /\ S.active[i] \in Requests /\ x \in Requests
         /\ T = Without(S, i, S.finished \cup {x}) /\ Loses(S, T, i, S.finished \cup {x})
<1>1. PICK r : r = S.active[i]
  OBVIOUS
<1>2. r \in Requests
  BY <1>1, ElementOfSeq, LenProperties DEF StateRecords
<1>3. x = [r EXCEPT !.buffer = b]
  BY <1>1
<1>4. x \in Requests
  BY <1>2, <1>3 DEF Requests
<1>5. PICK f : f = S.finished \cup {x}
  OBVIOUS
<1>6. f \in SUBSET Requests
  BY <1>4, <1>5 DEF StateRecords
<1>7. T = Without(S, i, f)
  BY <1>1, <1>3, <1>5 DEF FinishReceive, StateRecords, Without
<1>8. Loses(S, T, i, f)
  BY <1>6, <1>7, WithoutFields
<1> QED BY <1>1, <1>2, <1>3, <1>4, <1>5, <1>7, <1>8

LEMMA FinishReceiveOK ==
  ASSUME NEW p \in Procs, NEW M, NEW S, StateOK(p, S, M, MatchedBy(p, M)),
         NEW i \in DOMAIN S.active, IsReceive(S.active[i]),
         NEW b \in [pid : Procs \cup {-1}, serial : Nat, size : Nat],
         NEW N, M \subseteq N,
         NEW m \in N, m.dst = p, m.recv = S.active[i].serial, m.src = b.pid, m.send = b.serial
  PROVE  StateOK(p, FinishReceive(S, i, b), N, MatchedBy(p, M) \cup {S.active[i].serial})
<1>1. S \in StateRecords
  BY DEF StateOK
<1>2. PICK r, x, T :
         r = S.active[i] /\ x = [S.active[i] EXCEPT !.buffer = b] /\ T = FinishReceive(S, i, b)
  OBVIOUS
<1>3. r \in Requests /\ x \in Requests /\ T = Without(S, i, S.finished \cup {x})
  BY <1>1, <1>2, FinishReceiveFields
<1>4. Legal(p, r) /\ r.peer # ProcNull /\ IsReceive(r)
  BY <1>1, <1>2, LenProperties DEF StateOK, LiveRequests, StateRecords, ToSet
<1>5. /\ x.buffer = b /\ x.serial = r.serial /\ x.type = r.type
      /\ x.peer = r.peer /\ x.comm = r.comm /\ x.tag = r.tag
  <2>1. x = [r EXCEPT !.buffer = b]
    BY <1>2
  <2> QED BY <1>3, <2>1 DEF Requests
<1>6. Legal(p, x) /\ IsReceive(x)
  BY <1>4, <1>5 DEF Legal, IsReceive, IsSend
<1>7. Fulfilled(p, x, N)
  BY <1>2, <1>5, <1>6 DEF Fulfilled, IsReceive, TypeReceive, TypeRendezvous
<1>8. x \notin S.closed
  BY <1>2, <1>5, <1>6, ActiveIsNotClosed
<1>9. PICK f : f = S.finished \cup {x}
  OBVIOUS
<1>10. f \in SUBSET Requests
  BY <1>1, <1>3, <1>9 DEF StateRecords
<1>11. MayFinish(p, S, N, i, f, x)
  BY <1>2, <1>4, <1>5, <1>6, <1>7, <1>8, <1>9 DEF MayFinish
<1> QED BY <1>2, <1>3, <1>9, <1>10, <1>11, LeavesActive

\* A send whose message is taken.
LEMMA FinishSendFields ==
  ASSUME NEW S \in StateRecords, NEW s \in ToSet(S.active), NEW T, T = FinishSend(S, s),
         NEW f, f = IF s.type = TypeRendezvous THEN S.finished \cup {s} ELSE S.finished
  PROVE  /\ s \in Requests
         /\ \E i \in DOMAIN S.active : S.active[i] = s /\ T = Without(S, i, f) /\ Loses(S, T, i, f)
<1>1. PICK a \in Seq(Requests) : a = S.active
  BY DEF StateRecords
<1>2. \E k \in 1 .. Len(a) : a[k] = s /\ RemoveFirst(a, s) = RemoveAt(a, k)
  BY <1>1, RemovingFirst
<1>3. PICK i \in 1 .. Len(a) : a[i] = s /\ RemoveFirst(a, s) = RemoveAt(a, i)
  BY <1>2
<1>4. i \in DOMAIN a /\ i \in DOMAIN S.active /\ S.active[i] = s
  BY <1>1, <1>3, LenProperties
<1>5. s \in Requests
  BY <1>1, <1>3, ElementOfSeq
<1>6. f \in SUBSET Requests
  BY <1>5 DEF StateRecords
<1>7. T = Without(S, i, f)
  BY <1>1, <1>3 DEF FinishSend, StateRecords, Without
<1>8. Loses(S, T, i, f)
  BY <1>4, <1>6, <1>7, WithoutFields
<1> QED BY <1>4, <1>5, <1>7, <1>8

LEMMA FinishSendOK ==
  ASSUME NEW p \in Procs, NEW N, NEW D, NEW S, StateOK(p, S, N, D),
         NEW s \in ToSet(S.active), IsSend(s), s.type = TypeRendezvous => s \notin S.closed,
         NEW m \in N, m.src = p, m.send = s.serial
  PROVE  StateOK(p, FinishSend(S, s), N, D \cup {s.serial})
<1>1. S \in StateRecords
  BY DEF StateOK
<1>2. PICK T, f : /\ T = FinishSend(S, s)
                  /\ f = IF s.type = TypeRendezvous THEN S.finished \cup {s} ELSE S.finished
  OBVIOUS
<1>3. s \in Requests
  BY <1>1, <1>2, FinishSendFields
<1>4. PICK i \in DOMAIN S.active : S.active[i] = s /\ T = Without(S, i, f)
  BY <1>1, <1>2, FinishSendFields
<1>5. Legal(p, s) /\ s.peer # ProcNull
  BY DEF StateOK, LiveRequests
<1>6. Fulfilled(p, s, N)
  BY DEF Fulfilled, IsSend
<1>7. f \in SUBSET Requests
  BY <1>1, <1>2, <1>3 DEF StateRecords
<1>8. MayFinish(p, S, N, i, f, s)
  <2>1. CASE s.type = TypeRendezvous
    BY <1>2, <1>4, <1>5, <1>6, <2>1 DEF MayFinish
  <2>2. CASE s.type # TypeRendezvous
    BY <1>2, <2>2 DEF MayFinish
  <2> QED BY <2>1, <2>2
<1>9. N \subseteq N
  OBVIOUS
<1> QED BY <1>2, <1>4, <1>7, <1>8, <1>9, LeavesActive

\* FirstSend is the first send of q that fits.
LEMMA FirstSendFits ==
  ASSUME NEW p, NEW q \in Procs, NEW r, states[q].active \in Seq(Requests),
         FirstSend(q, p, r) # 0
  PROVE  \E k \in DOMAIN states[q].active :
           /\ FirstSend(q, p, r) = k
           /\ Fits(states[q].active[k], p, r.comm, r.tag)
           /\ \A j \in DOMAIN states[q].active :
                Fits(states[q].active[j], p, r.comm, r.tag) => k <= j
<1>1. PICK a : a = states[q].active
  OBVIOUS
<1>2. PICK n \in Nat : n = Len(a) /\ DOMAIN a = 1 .. n
  BY <1>1, LenProperties
<1>3. PICK I : I = {i \in 1 .. n : Fits(a[i], p, r.comm, r.tag)}
  OBVIOUS
<1>4. FirstSend(q, p, r) = IF I # {} THEN Min(I) ELSE 0
  BY <1>1, <1>2, <1>3 DEF FirstSend, SelectInSeq
<1>5. I \in SUBSET (1 .. n)
  BY <1>3
<1>6. PICK k : k = IF I # {} THEN Min(I) ELSE 0
  OBVIOUS
<1>7. (k = 0 <=> I = {}) /\ (I # {} => k \in I /\ \A j \in I : k <= j)
  BY <1>5, <1>6, FirstPlace
<1>8. k \in I /\ \A j \in I : k <= j
  BY <1>4, <1>6, <1>7
<1> QED BY <1>1, <1>2, <1>3, <1>4, <1>6, <1>8

\* A send that fits is one that may have been posted.
LEMMA FirstSendIsActive ==
  ASSUME IInv, NEW p \in Procs, NEW q \in Procs, NEW i \in OpenReceives(p),
         FirstSend(q, p, states[p].active[i]) # 0
  PROVE  LET s == states[q].active[FirstSend(q, p, states[p].active[i])]
         IN /\ i \in DOMAIN states[p].active /\ IsReceive(states[p].active[i])
            /\ states[p].active[i] \in Requests
            /\ FirstSend(q, p, states[p].active[i]) \in DOMAIN states[q].active
            /\ s \in Requests /\ s \in ToSet(states[q].active) /\ IsSend(s)
            /\ Fits(s, p, states[p].active[i].comm, states[p].active[i].tag)
<1>1. states[p].active \in Seq(Requests) /\ states[q].active \in Seq(Requests)
  BY DEF IInv, StateRecords
<1>2. PICK r, a, b : r = states[p].active[i] /\ a = states[p].active /\ b = states[q].active
  OBVIOUS
<1>3. i \in DOMAIN a /\ IsReceive(a[i])
  BY <1>2 DEF OpenReceives
<1>4. a[i] \in Requests
  BY <1>1, <1>2, <1>3, ElementOfSeq, LenProperties
<1>5. PICK k \in DOMAIN b : FirstSend(q, p, r) = k /\ Fits(b[k], p, r.comm, r.tag)
  BY <1>1, <1>2, FirstSendFits
<1>6. b[k] \in Requests
  BY <1>1, <1>2, <1>5, ElementOfSeq, LenProperties
<1>7. IsSend(b[k]) /\ b[k] \in ToSet(b)
  BY <1>5 DEF Fits, ToSet
<1> QED BY <1>2, <1>3, <1>4, <1>5, <1>6, <1>7

\* A send and a receive are matched.
LEMMA ApplyMatchingOK ==
  ASSUME IInv, NEW dst \in Procs, NEW src \in Procs, NEW i \in OpenReceives(dst),
         FirstSend(src, dst, states[dst].active[i]) # 0, ApplyMatching(dst, i, src)
  PROVE  /\ states' \in [Procs -> StateRecords]
         /\ \A p \in Procs : StateOK(p, states'[p], matched', MatchedBy(p, matched'))
         /\ matched' \subseteq Matchings
         /\ todo' = todo /\ handles' = handles /\ error' = error
<1>1. PICK S, Q, r, s, M :
         /\ S = states[dst] /\ Q = states[src] /\ r = S.active[i]
         /\ s = Q.active[FirstSend(src, dst, r)] /\ M = matched
  OBVIOUS
<1>2. /\ i \in DOMAIN S.active /\ IsReceive(r) /\ r \in Requests
      /\ s \in Requests /\ s \in ToSet(Q.active) /\ IsSend(s)
  BY <1>1, FirstSendIsActive
<1>3. /\ StateOK(dst, S, M, MatchedBy(dst, M)) /\ StateOK(src, Q, M, MatchedBy(src, M))
      /\ S \in StateRecords /\ Q \in StateRecords /\ states \in [Procs -> StateRecords]
      /\ M \subseteq Matchings
  BY <1>1 DEF IInv
<1>4. s.buffer \in [pid : Procs \cup {-1}, serial : Nat, size : Nat] /\ s.serial \in Nat
      /\ r.serial \in Nat
  BY <1>2 DEF Requests
<1>5. s.buffer.pid = src /\ s.buffer.serial = s.serial
  BY <1>2, <1>3 DEF StateOK
<1>6. PICK m : m = [src |-> src, send |-> s.serial, dst |-> dst, recv |-> r.serial]
  OBVIOUS
<1>7. m.src = src /\ m.send = s.serial /\ m.dst = dst /\ m.recv = r.serial /\ m \in Matchings
  BY <1>4, <1>6 DEF Matchings
<1>8. PICK N : N = M \cup {m}
  OBVIOUS
<1>9. PICK R : R = FinishReceive(S, i, s.buffer)
  OBVIOUS
<1>10. /\ StateOK(dst, R, N, MatchedBy(dst, M) \cup {r.serial})
       /\ R.active = RemoveAt(S.active, i) /\ R.closed = S.closed
  <2>1. M \subseteq N /\ m \in N
    BY <1>8
  <2>2. m.src = s.buffer.pid /\ m.send = s.buffer.serial
    BY <1>5, <1>7
  <2>3. IsReceive(S.active[i]) /\ m.recv = S.active[i].serial
    BY <1>1, <1>2, <1>7
  <2>4. PICK b \in [pid : Procs \cup {-1}, serial : Nat, size : Nat] : b = s.buffer
    BY <1>4
  <2>5. StateOK(dst, FinishReceive(S, i, b), N, MatchedBy(dst, M) \cup {S.active[i].serial})
    BY <1>2, <1>3, <1>7, <2>1, <2>2, <2>3, <2>4, FinishReceiveOK
  <2>6. R = FinishReceive(S, i, b)
    BY <1>9, <2>4
  <2>7. PICK x : x = [S.active[i] EXCEPT !.buffer = b]
    OBVIOUS
  <2>8. R.active = RemoveAt(S.active, i) /\ R.closed = S.closed
    <3>1. S \in StateRecords /\ i \in DOMAIN S.active
      BY <1>2, <1>3
    <3>2. S.finished \cup {x} \in SUBSET Requests
      <4>1. x \in Requests
        BY <3>1, <2>6, <2>7, FinishReceiveFields
      <4> QED BY <3>1, <4>1 DEF StateRecords
    <3>3. R = Without(S, i, S.finished \cup {x})
      BY <3>1, <2>6, <2>7, FinishReceiveFields
    <3> QED BY <3>1, <3>2, <3>3, WithoutFields DEF Loses
  <2> QED BY <1>1, <2>5, <2>6, <2>8
<1>11. PICK V : V = [states EXCEPT ![dst] = R]
  OBVIOUS
<1>12. R \in StateRecords /\ V \in [Procs -> StateRecords]
  BY <1>3, <1>10, <1>11 DEF StateOK
<1>13. PICK D : D = MatchedBy(src, M) \cup (IF src = dst THEN {r.serial} ELSE {})
  OBVIOUS
<1>14. StateOK(src, V[src], N, D)
  <2>1. CASE src = dst
    BY <1>3, <1>10, <1>11, <1>13, <2>1
  <2>2. CASE src # dst
    <3>1. M \subseteq N
      BY <1>8
    <3>2. StateOK(src, Q, N, MatchedBy(src, M))
      BY <1>3, <3>1, MoreMatchings
    <3>3. V[src] = Q /\ D = MatchedBy(src, M)
      BY <1>1, <1>11, <1>13, <2>2
    <3> QED BY <3>2, <3>3
  <2> QED BY <2>1, <2>2
<1>15. s \in ToSet(V[src].active)
  <2>1. CASE src = dst
    <3>1. PICK a \in Seq(Requests) : a = S.active
      BY <1>3 DEF StateRecords
    <3>2. PICK k \in DOMAIN a : a[k] = s
      BY <1>1, <1>2, <2>1, <3>1 DEF ToSet
    <3>3. k # i
      BY <1>1, <1>2, <3>1, <3>2 DEF IsSend
    <3>4. i \in 1 .. Len(a)
      BY <1>2, <3>1, LenProperties
    <3>5. PICK b : b = RemoveAt(a, i)
      OBVIOUS
    <3>a. OthersStay(a, i, b)
      BY <3>1, <3>4, <3>5, WhatStays
    <3>6. V[src].active = b
      BY <1>3, <1>10, <1>11, <2>1, <3>1, <3>5
    <3> QED BY <3>2, <3>3, <3>6, <3>a DEF ToSet, OthersStay
  <2>2. CASE src # dst
    BY <1>1, <1>2, <1>3, <1>11, <2>2
  <2> QED BY <2>1, <2>2
<1>16. s.type = TypeRendezvous => s \notin V[src].closed
  <2>1. V[src].closed = Q.closed
    BY <1>1, <1>3, <1>10, <1>11
  <2>2. PICK k \in DOMAIN Q.active : Q.active[k] = s
    BY <1>2 DEF ToSet
  <2>3. s.type = TypeRendezvous => s \notin Q.closed
    BY <1>3, <2>2, ActiveIsNotClosed
  <2> QED BY <2>1, <2>3
<1>17. PICK F : F = FinishSend(V[src], s)
  OBVIOUS
<1>18. StateOK(src, F, N, D \cup {s.serial})
  <2>1. m \in N
    BY <1>8
  <2> QED BY <1>2, <1>7, <1>14, <1>15, <1>16, <1>17, <2>1, FinishSendOK
<1>19. /\ states' = [V EXCEPT ![src] = F] /\ matched' = N
       /\ todo' = todo /\ handles' = handles /\ error' = error
  BY <1>1, <1>6, <1>8, <1>9, <1>11, <1>12, <1>17, <1>3 DEF ApplyMatching
<1>20. states' \in [Procs -> StateRecords]
  BY <1>12, <1>18, <1>19 DEF StateOK
<1>21. ASSUME NEW p \in Procs PROVE StateOK(p, states'[p], N, MatchedBy(p, N))
  <2>1. MatchedBy(p, N) = (MatchedBy(p, M) \cup (IF p = dst THEN {r.serial} ELSE {}))
                            \cup (IF p = src THEN {s.serial} ELSE {})
    BY <1>6, <1>8, NewMatching
  <2>2. CASE p = src
    <3>1. MatchedBy(p, N) = D \cup {s.serial}
      BY <1>13, <2>1, <2>2
    <3>2. states'[p] = F
      BY <1>12, <1>19, <2>2
    <3> QED BY <1>18, <2>2, <3>1, <3>2
  <2>3. CASE p # src /\ p = dst
    <3>1. MatchedBy(p, N) = MatchedBy(dst, M) \cup {r.serial}
      BY <2>1, <2>3
    <3>2. states'[p] = R
      BY <1>3, <1>11, <1>12, <1>19, <2>3
    <3> QED BY <1>10, <2>3, <3>1, <3>2
  <2>4. CASE p # src /\ p # dst
    <3>1. MatchedBy(p, N) = MatchedBy(p, M)
      BY <2>1, <2>4
    <3>2. states'[p] = states[p]
      BY <1>3, <1>11, <1>12, <1>19, <2>4
    <3>3. StateOK(p, states[p], M, MatchedBy(p, M)) /\ M \subseteq N
      BY <1>1, <1>8 DEF IInv
    <3> QED BY <3>1, <3>2, <3>3, MoreMatchings
  <2> QED BY <2>2, <2>3, <2>4
<1>22. matched' \subseteq Matchings
  BY <1>3, <1>7, <1>8, <1>19
<1> QED BY <1>19, <1>20, <1>21, <1>22

-----------------------------------------------------------------------------
(* Starting persistent requests *)

\* The function by which Started is defined exists: if not for all lengths, there is a
\* smallest length without it, and the function of the length before can be extended.
StartSteps(S, p, ids, n, f) ==
  f = [k \in 0 .. n |->
         IF k = 0 THEN S
         ELSE Activate(f[k - 1], p, CHOOSE r \in S.persistent : r.id = ids[k])]

LEMMA StartsExist ==
  ASSUME NEW n \in Nat, NEW S, NEW p, NEW ids
  PROVE  \E f : StartSteps(S, p, ids, n, f)
<1> DEFINE Rq(k) == CHOOSE r \in S.persistent : r.id = ids[k]
           Is(f, m) == f = [k \in 0 .. m |-> IF k = 0 THEN S ELSE Activate(f[k - 1], p, Rq(k))]
           Bad == {m \in Nat : ~\E f : Is(f, m)}
<1>1. ASSUME NEW m \in Nat, NEW g, Is(g, m) PROVE \E f : Is(f, m + 1)
  <2>1. PICK f : f = [k \in 0 .. m + 1 |->
                        IF k = m + 1 THEN Activate(g[m], p, Rq(m + 1)) ELSE g[k]]
    OBVIOUS
  <2>2. \A k \in 0 .. m : g[k] = IF k = 0 THEN S ELSE Activate(g[k - 1], p, Rq(k))
    <3> HIDE DEF Rq
    <3>1. g = [k \in 0 .. m |-> IF k = 0 THEN S ELSE Activate(g[k - 1], p, Rq(k))]
      BY <1>1
    <3> HIDE <1>1
    <3> QED BY <3>1
  <2>3. /\ \A k \in 0 .. m : f[k] = g[k]
        /\ f[m + 1] = Activate(g[m], p, Rq(m + 1))
    <3> HIDE DEF Rq
    <3>1. \A k \in 0 .. m : k \in 0 .. m + 1 /\ k # m + 1
      OBVIOUS
    <3>2. m + 1 \in 0 .. m + 1
      OBVIOUS
    <3> QED BY <2>1, <3>1, <3>2
  <2>4. ASSUME NEW k \in 0 .. m + 1
        PROVE  f[k] = IF k = 0 THEN S ELSE Activate(f[k - 1], p, Rq(k))
    <3> HIDE DEF Rq
    <3>1. CASE k = m + 1
      <4>1. k # 0 /\ k - 1 = m /\ m \in 0 .. m
        BY <3>1
      <4> QED BY <2>3, <3>1, <4>1
    <3>2. CASE k = 0
      <4>1. k \in 0 .. m
        BY <3>2
      <4> QED BY <2>2, <2>3, <3>2, <4>1
    <3>3. CASE k # 0 /\ k # m + 1
      <4>1. k \in 0 .. m /\ k - 1 \in 0 .. m
        BY <3>3
      <4> QED BY <2>2, <2>3, <3>3, <4>1
    <3> QED BY <3>1, <3>2, <3>3
  <2>5. f = [k \in 0 .. m + 1 |-> f[k]]
    <3> HIDE DEF Rq
    <3> QED BY <2>1
  <2>6. f = [k \in 0 .. m + 1 |-> IF k = 0 THEN S ELSE Activate(f[k - 1], p, Rq(k))]
    <3> HIDE DEF Rq
    <3> QED BY <2>4, <2>5
  <2> QED BY <2>6
<1>2. \E f : Is(f, 0)
  <2>1. PICK f : f = [k \in 0 .. 0 |-> S]
    OBVIOUS
  <2>2. \A k \in 0 .. 0 : k = 0
    OBVIOUS
  <2>3. f = [k \in 0 .. 0 |-> IF k = 0 THEN S ELSE Activate(f[k - 1], p, Rq(k))]
    <3> HIDE DEF Rq
    <3> QED BY <2>1, <2>2
  <2> QED BY <2>3
<1> HIDE DEF Is
<1>3. Bad = {}
  <2> SUFFICES ASSUME Bad # {} PROVE FALSE
    OBVIOUS
  <2>1. PICK m \in Bad : \A k \in Bad : m <= k
    <3>1. Bad \in SUBSET Nat
      OBVIOUS
    <3> HIDE DEF Bad
    <3> QED BY <3>1, SmallestNumber
  <2>2. m # 0
    BY <1>2, <2>1
  <2>3. PICK l \in Nat : m = l + 1
    <3>1. m \in Nat
      BY <2>1
    <3>2. m - 1 \in Nat /\ m = (m - 1) + 1
      BY <2>2, <3>1
    <3> QED BY <3>2
  <2>4. l \notin Bad
    <3> HIDE DEF Bad
    <3> QED BY <2>1, <2>3
  <2>5. PICK g : Is(g, l)
    BY <2>4
  <2> QED BY <1>1, <2>1, <2>3, <2>5
<1>4. \E f : Is(f, n)
  BY <1>3
<1> QED BY <1>4 DEF Is, StartSteps

\* Starting requests activates them one after the other.
LEMMA StartedBySteps ==
  ASSUME NEW S, NEW p, NEW ids, NEW n \in Nat, n = Len(ids),
         \A k \in 1 .. n : ids[k] \in Ids(S.persistent)
  PROVE  \E f : /\ f[0] = S /\ f[n] = Started(S, p, ids)
                /\ \A k \in 1 .. n : \E r \in S.persistent :
                     r.id = ids[k] /\ f[k] = Activate(f[k - 1], p, r)
<1> DEFINE Rq(k) == CHOOSE r \in S.persistent : r.id = ids[k]
           F == CHOOSE f : StartSteps(S, p, ids, n, f)
<1>1. Started(S, p, ids) = F[n]
  BY DEF Started, StartSteps
<1>2. F = [k \in 0 .. n |-> IF k = 0 THEN S ELSE Activate(F[k - 1], p, Rq(k))]
  <2>1. \E f : StartSteps(S, p, ids, n, f)
    BY StartsExist
  <2>2. StartSteps(S, p, ids, n, F)
    BY <2>1
  <2> QED BY <2>2 DEF StartSteps
<1>3. PICK f : f = F
  OBVIOUS
<1> HIDE DEF F
<1>4. f = [k \in 0 .. n |-> IF k = 0 THEN S ELSE Activate(f[k - 1], p, Rq(k))]
  BY <1>2, <1>3
<1>5. \A k \in 1 .. n : Rq(k) \in S.persistent /\ Rq(k).id = ids[k]
  BY DEF Ids
<1> HIDE DEF Rq
<1>6. f[0] = S /\ \A k \in 1 .. n : f[k] = Activate(f[k - 1], p, Rq(k))
  <2>1. 0 \in 0 .. n /\ \A k \in 1 .. n : k \in 0 .. n /\ k # 0
    OBVIOUS
  <2> HIDE <1>4
  <2> QED BY <1>4, <2>1
<1> QED BY <1>1, <1>3, <1>5, <1>6

\* Starting persistent requests that are not active.
LEMMA StartedOK ==
  ASSUME NEW p \in Procs, NEW M, NEW D, NEW S, StateOK(p, S, M, D),
         NEW ids, NEW n \in Nat, n = Len(ids), \A k \in 1 .. n : ids[k] \in Ids(S.persistent)
  PROVE  StateOK(p, Started(S, p, ids), M, D)
<1>1. PICK f : /\ f[0] = S /\ f[n] = Started(S, p, ids)
               /\ \A k \in 1 .. n : \E r \in S.persistent :
                    r.id = ids[k] /\ f[k] = Activate(f[k - 1], p, r)
  BY StartedBySteps
<1>2. \A r \in S.persistent : r \in Requests /\ Legal(p, r)
  BY DEF StateOK, StateRecords
<1>3. PICK Bad : Bad = {k \in 0 .. n : ~StateOK(p, f[k], M, D)}
  OBVIOUS
<1>4. Bad = {}
  <2> SUFFICES ASSUME Bad # {} PROVE FALSE
    OBVIOUS
  <2>1. PICK m \in Bad : \A k \in Bad : m <= k
    <3>1. Bad \in SUBSET Nat
      BY <1>3
    <3> QED BY <3>1, SmallestNumber
  <2>2. m # 0
    BY <1>1, <1>3, <2>1
  <2>3. m \in 1 .. n /\ m - 1 \in 0 .. n /\ ~(m <= m - 1)
    BY <1>3, <2>1, <2>2
  <2>4. StateOK(p, f[m - 1], M, D)
    BY <1>3, <2>1, <2>3
  <2>5. PICK r \in S.persistent : f[m] = Activate(f[m - 1], p, r)
    BY <1>1, <2>3
  <2>6. StateOK(p, f[m], M, D)
    BY <1>2, <2>4, <2>5, ActivateOK
  <2> QED BY <1>3, <2>1, <2>6
<1>5. n \in 0 .. n
  OBVIOUS
<1> QED BY <1>1, <1>3, <1>4, <1>5

-----------------------------------------------------------------------------
(* Tested requests *)

Tests == [id : Int, slot : 0 .. Slots]
Handles == [1 .. Slots -> Nat \cup {RequestNull}]

LEMMA TestedFits ==
  ASSUME NEW n \in Nat, NEW ids, ids \in [1 .. n -> Int]
  PROVE  /\ Tested(ids) \in Seq(Tests)
         /\ n > 0 => Tested(ids) # <<>>
<1>1. PICK t : t = Tested(ids)
  OBVIOUS
<1>2. t = [i \in 1 .. n |-> [id |-> ids[i], slot |-> 0]]
  BY <1>1 DEF Tested
<1>3. t \in [1 .. n -> Tests]
  BY <1>2, ProtocolAssumption DEF Tests
<1>4. t \in Seq(Tests)
  BY <1>3, SeqDef
<1>5. n > 0 => t # <<>>
  <2>1. ASSUME t = <<>> PROVE 1 .. n = {}
    <3>1. DOMAIN t = 1 .. n
      BY <1>3
    <3>2. DOMAIN << >> = {}
      OBVIOUS
    <3> QED BY <2>1, <3>1, <3>2
  <2>2. n > 0 => 1 \in 1 .. n
    OBVIOUS
  <2> QED BY <2>1, <2>2
<1> QED BY <1>1, <1>4, <1>5

LEMMA TestedInPlaceFits ==
  ASSUME NEW ids \in [1 .. Slots -> Int]
  PROVE  /\ TestedInPlace(ids) \in Seq(Tests)
         /\ Slots > 0 => TestedInPlace(ids) # <<>>
<1>1. PICK n \in Nat : n = Slots
  BY ProtocolAssumption
<1>2. PICK t : t = TestedInPlace(ids)
  OBVIOUS
<1>3. t = [i \in 1 .. n |-> [id |-> ids[i], slot |-> i]]
  BY <1>1, <1>2 DEF TestedInPlace
<1>4. t \in [1 .. n -> Tests]
  BY <1>1, <1>3 DEF Tests
<1>5. t \in Seq(Tests)
  BY <1>4, SeqDef
<1>6. n > 0 => t # <<>>
  <2>1. ASSUME t = <<>> PROVE 1 .. n = {}
    <3>1. DOMAIN t = 1 .. n
      BY <1>4
    <3>2. DOMAIN << >> = {}
      OBVIOUS
    <3> QED BY <2>1, <3>1, <3>2
  <2>2. n > 0 => 1 \in 1 .. n
    OBVIOUS
  <2> QED BY <2>1, <2>2
<1> QED BY <1>1, <1>2, <1>5, <1>6

-----------------------------------------------------------------------------
(* The invariant is preserved: calls *)

LEMMA ProceedKeeps ==
  ASSUME IInv, NEW p \in Procs, NEW S, StateOK(p, S, matched, MatchedBy(p, matched)),
         NEW hs \in Handles, Tail(todo[p]) \in Seq(SUBSET MayCall(p)), phase = "run",
         Proceed(p, S, hs)
  PROVE  IInv'
<1>1. /\ states' = [states EXCEPT ![p] = S] /\ handles' = [handles EXCEPT ![p] = hs]
      /\ todo' = [todo EXCEPT ![p] = Tail(@)] /\ phase' = "match"
      /\ error' = error /\ matched' = matched
  BY DEF Proceed
<1>2. S \in StateRecords /\ states \in [Procs -> StateRecords] /\ error.name = "none"
  BY DEF StateOK, IInv
<1>3. states' \in [Procs -> StateRecords]
  BY <1>1, <1>2
<1>4. \A q \in Procs : states'[q] = IF q = p THEN S ELSE states[q]
  BY <1>1, <1>2
<1>5. \A q \in Procs : StateOK(q, states'[q], matched', MatchedBy(q, matched'))
  <2>1. \A q \in Procs : StateOK(q, states[q], matched, MatchedBy(q, matched))
    BY DEF IInv
  <2> QED BY <1>1, <1>4, <2>1
<1>6. handles' \in [Procs -> [1 .. Slots -> Nat \cup {RequestNull}]]
  BY <1>1 DEF IInv, Handles
<1>7. DOMAIN todo' = Procs /\ \A q \in Procs : todo'[q] \in Seq(SUBSET MayCall(q))
  <2>1. DOMAIN todo = Procs /\ \A q \in Procs : todo[q] \in Seq(SUBSET MayCall(q))
    BY DEF IInv
  <2>2. DOMAIN todo' = Procs
    BY <1>1, <2>1
  <2>3. \A q \in Procs : todo'[q] = IF q = p THEN Tail(todo[q]) ELSE todo[q]
    BY <1>1, <2>1
  <2> QED BY <2>1, <2>2, <2>3
<1>8. matched' \subseteq Matchings
  BY <1>1 DEF IInv
<1> QED BY <1>1, <1>2, <1>3, <1>5, <1>6, <1>7, <1>8 DEF IInv

LEMMA FailKeeps ==
  ASSUME IInv, NEW p \in Procs, NEW name, name # "none", NEW id, Fail(name, p, id),
         name = "ActivePersistentRequest" =>
           IsPersistent(states[p], id) /\ id \in Ids(LiveRequests(states[p]))
  PROVE  IInv'
<1>1. /\ phase' = "error" /\ error' = [name |-> name, pid |-> p, id |-> id]
      /\ states' = states /\ todo' = todo /\ handles' = handles /\ matched' = matched
  BY DEF Fail
<1>2. error'.name = name /\ error'.pid = p /\ error'.id = id
  BY <1>1
<1> QED BY <1>1, <1>2 DEF IInv

LEMMA HandleFits ==
  ASSUME IInv, NEW p \in Procs, NEW k \in 1 .. Slots, NEW id \in Nat \cup {RequestNull}
  PROVE  handles[p] \in Handles /\ SetHandle(p, k, id) \in Handles
BY DEF IInv, Handles, SetHandle

LEMMA HandlesAreNumbers ==
  ASSUME IInv, NEW p \in Procs
  PROVE  /\ handles[p] \in Handles /\ handles[p] \in [1 .. Slots -> Int]
         /\ \A k \in 1 .. Slots : handles[p][k] \in Nat \cup {RequestNull} /\ handles[p][k] \in Int
<1>1. handles[p] \in Handles
  BY DEF IInv, Handles
<1>2. \A k \in 1 .. Slots : handles[p][k] \in Nat \cup {RequestNull}
  BY <1>1 DEF Handles
<1>3. \A k \in 1 .. Slots : handles[p][k] \in Int
  BY <1>2, Constants
<1>4. handles[p] \in [1 .. Slots -> Int]
  BY <1>1, <1>3 DEF Handles
<1> QED BY <1>1, <1>2, <1>3, <1>4

LEMMA ProcessIsOK ==
  ASSUME IInv, NEW p \in Procs
  PROVE  /\ StateOK(p, states[p], matched, MatchedBy(p, matched))
         /\ states[p] \in StateRecords
         /\ IsFiniteSet(states[p].finished) /\ IsFiniteSet(states[p].persistent)
BY DEF IInv, StateOK

\* A call that posts one request and waits for it.
LEMMA PostAndWait ==
  ASSUME NEW p \in Procs, NEW M, NEW D, NEW S, StateOK(p, S, M, D),
         NEW r \in Requests, Legal(p, r)
  PROVE  StateOK(p, SetWait(Activate(S, p, r), "WaitAll", Tested(<<r.id>>)), M, D)
<1>1. StateOK(p, Activate(S, p, r), M, D)
  BY ActivateOK
<1>2. PICK ids : ids = <<r.id>>
  OBVIOUS
<1>3. PICK n \in Nat : n = 1
  OBVIOUS
<1>4. ids \in [1 .. n -> Int]
  BY <1>2, <1>3 DEF Requests
<1>5. Tested(ids) \in Seq(Tests) /\ (n > 0 => Tested(ids) # <<>>)
  BY <1>4, TestedFits
<1>6. Tested(ids) \in Seq(Tests) /\ Tested(ids) # <<>>
  BY <1>3, <1>5
<1>7. StateOK(p, SetWait(Activate(S, p, r), "WaitAll", Tested(ids)), M, D)
  BY <1>1, <1>6, WithTests DEF Tests, Completing
<1> QED BY <1>2, <1>7

LEMMA SendKeeps ==
  ASSUME IInv, NEW p \in Procs, Send(p)
  PROVE  IInv'
<1>1. PICK call \in Calls(p, {"Send"}) :
         Proceed(p, SetWait(Activate(states[p], p, SendRequest(states[p], p, call.mode, call)),
                            "WaitAll",
                            Tested(<<SendRequest(states[p], p, call.mode, call).id>>)),
                 handles[p])
  BY DEF Send
<1>2. /\ call \in MayCall(p) /\ call.op \in {"Send"} /\ phase = "run"
      /\ Tail(todo[p]) \in Seq(SUBSET MayCall(p))
  BY CallIsNext, Zenon
<1>3. PICK r : r = SendRequest(states[p], p, call.mode, call)
  OBVIOUS
<1>4. r \in Requests /\ Legal(p, r)
  BY <1>2, <1>3, CallFields, ProcessIsOK, SendRequestFits
<1>5. StateOK(p, SetWait(Activate(states[p], p, r), "WaitAll", Tested(<<r.id>>)), matched,
              MatchedBy(p, matched))
  BY <1>4, ProcessIsOK, PostAndWait
<1> QED BY <1>1, <1>2, <1>3, <1>5, HandlesAreNumbers, ProceedKeeps

LEMMA RecvKeeps ==
  ASSUME IInv, NEW p \in Procs, Recv(p)
  PROVE  IInv'
<1>1. PICK call \in Calls(p, {"Recv"}) :
         Proceed(p, IF call.source = ProcNull THEN states[p]
                    ELSE SetWait(Activate(states[p], p, ReceiveRequest(states[p], p, call)),
                                 "WaitAll", Tested(<<ReceiveRequest(states[p], p, call).id>>)),
                 handles[p])
  BY DEF Recv
<1>2. /\ call \in MayCall(p) /\ call.op \in {"Recv"} /\ phase = "run"
      /\ Tail(todo[p]) \in Seq(SUBSET MayCall(p))
  BY CallIsNext, Zenon
<1>3. PICK r : r = ReceiveRequest(states[p], p, call)
  OBVIOUS
<1>4. r \in Requests /\ Legal(p, r)
  BY <1>2, <1>3, CallFields, ProcessIsOK, ReceiveRequestFits
<1>5. StateOK(p, SetWait(Activate(states[p], p, r), "WaitAll", Tested(<<r.id>>)), matched,
              MatchedBy(p, matched))
  BY <1>4, ProcessIsOK, PostAndWait
<1> QED BY <1>1, <1>2, <1>3, <1>5, ProcessIsOK, HandlesAreNumbers, ProceedKeeps

LEMMA SendrecvKeeps ==
  ASSUME IInv, NEW p \in Procs, Sendrecv(p)
  PROVE  IInv'
<1>1. PICK call, s, S, c, r :
         /\ call \in Calls(p, {"Sendrecv"})
         /\ s = SendRequest(states[p], p, "Send", call)
         /\ S = Activate(states[p], p, s)
         /\ c = [comm |-> call.comm, source |-> call.source, tag |-> call.recvtag,
                 size |-> call.size]
         /\ r = ReceiveRequest(S, p, c)
         /\ IF call.source = ProcNull THEN Fail("Crash", p, s.id)
            ELSE Proceed(p, SetWait(Activate(S, p, r), "WaitAll", Tested(<<s.id, r.id>>)),
                         handles[p])
  BY DEF Sendrecv
<1> call \in Calls(p, {"Sendrecv"})
  BY <1>1
<1>2. /\ call \in MayCall(p) /\ call.op \in {"Sendrecv"} /\ phase = "run"
      /\ Tail(todo[p]) \in Seq(SUBSET MayCall(p))
  BY CallIsNext, Zenon
<1>3. CASE call.source = ProcNull
  <2>1. Fail("Crash", p, s.id)
    BY <1>1, <1>3
  <2> QED BY <2>1, FailKeeps
<1>4. CASE call.source # ProcNull
  <2>1. /\ call.comm \in CommsOf(p) /\ call.target \in Ranks(call.comm) \cup {ProcNull}
        /\ call.tag \in Tags /\ call.size \in Nat
        /\ call.source \in Ranks(call.comm) \cup {ProcNull, AnySource}
        /\ call.recvtag \in Tags \cup {AnyTag} /\ call.source \in Sources(p, call.comm)
    BY <1>2, CallFields
  <2>2. s \in Requests /\ Legal(p, s)
    BY <1>1, <2>1, ProcessIsOK, SendRequestFits
  <2>3. StateOK(p, S, matched, MatchedBy(p, matched))
    BY <1>1, <2>2, ProcessIsOK, ActivateOK
  <2>4. S \in StateRecords /\ IsFiniteSet(S.finished) /\ IsFiniteSet(S.persistent)
    BY <2>3 DEF StateOK
  <2>5. c.comm = call.comm /\ c.source = call.source /\ c.tag = call.recvtag /\ c.size = call.size
    BY <1>1
  <2>6. r \in Requests /\ Legal(p, r)
    BY <1>1, <2>1, <2>4, <2>5, ReceiveRequestFits
  <2>7. StateOK(p, Activate(S, p, r), matched, MatchedBy(p, matched))
    BY <2>3, <2>6, ActivateOK
  <2>8. PICK ids : ids = <<s.id, r.id>>
    OBVIOUS
  <2>9. PICK n \in Nat : n = 2
    OBVIOUS
  <2>10. Tested(ids) \in Seq(Tests) /\ Tested(ids) # <<>>
    <3>1. ids \in [1 .. n -> Int]
      BY <2>2, <2>6, <2>8, <2>9 DEF Requests
    <3>2. Tested(ids) \in Seq(Tests) /\ (n > 0 => Tested(ids) # <<>>)
      BY <3>1, TestedFits
    <3> QED BY <2>9, <3>2
  <2>11. StateOK(p, SetWait(Activate(S, p, r), "WaitAll", Tested(ids)), matched,
                 MatchedBy(p, matched))
    BY <2>7, <2>10, WithTests DEF Tests, Completing
  <2>12. Proceed(p, SetWait(Activate(S, p, r), "WaitAll", Tested(ids)), handles[p])
    BY <1>1, <1>4, <2>8
  <2> QED BY <1>2, <2>11, <2>12, HandlesAreNumbers, ProceedKeeps
<1> QED BY <1>3, <1>4

LEMMA IsendKeeps ==
  ASSUME IInv, NEW p \in Procs, Isend(p)
  PROVE  IInv'
<1>1. PICK call, r :
         /\ call \in Calls(p, {"Isend"})
         /\ r = SendRequest(states[p], p, call.mode, call)
         /\ Proceed(p, Activate(states[p], p, r), SetHandle(p, call.slot, r.id))
  BY DEF Isend
<1> call \in Calls(p, {"Isend"})
  BY <1>1
<1>2. /\ call \in MayCall(p) /\ call.op \in {"Isend"} /\ phase = "run"
      /\ Tail(todo[p]) \in Seq(SUBSET MayCall(p))
  BY CallIsNext, Zenon
<1>3. r \in Requests /\ Legal(p, r)
  BY <1>1, <1>2, CallFields, ProcessIsOK, SendRequestFits
<1>4. StateOK(p, Activate(states[p], p, r), matched, MatchedBy(p, matched))
  BY <1>3, ProcessIsOK, ActivateOK
<1>5. SetHandle(p, call.slot, r.id) \in Handles
  <2>1. r.id \in Nat /\ call.slot \in 1 .. Slots
    BY <1>2, <1>3, CallFields DEF Requests
  <2> QED BY <2>1, HandleFits
<1> QED BY <1>1, <1>2, <1>4, <1>5, ProceedKeeps

LEMMA IrecvKeeps ==
  ASSUME IInv, NEW p \in Procs, Irecv(p)
  PROVE  IInv'
<1>1. PICK call, r :
         /\ call \in Calls(p, {"Irecv"})
         /\ r = ReceiveRequest(states[p], p, call)
         /\ Proceed(p, Activate(states[p], p, r), SetHandle(p, call.slot, r.id))
  BY DEF Irecv
<1> call \in Calls(p, {"Irecv"})
  BY <1>1
<1>2. /\ call \in MayCall(p) /\ call.op \in {"Irecv"} /\ phase = "run"
      /\ Tail(todo[p]) \in Seq(SUBSET MayCall(p))
  BY CallIsNext, Zenon
<1>3. r \in Requests /\ Legal(p, r)
  BY <1>1, <1>2, CallFields, ProcessIsOK, ReceiveRequestFits
<1>4. StateOK(p, Activate(states[p], p, r), matched, MatchedBy(p, matched))
  BY <1>3, ProcessIsOK, ActivateOK
<1>5. SetHandle(p, call.slot, r.id) \in Handles
  <2>1. r.id \in Nat /\ call.slot \in 1 .. Slots
    BY <1>2, <1>3, CallFields DEF Requests
  <2> QED BY <2>1, HandleFits
<1> QED BY <1>1, <1>2, <1>4, <1>5, ProceedKeeps

LEMMA CreatePersistentKeeps ==
  ASSUME IInv, NEW p \in Procs, CreatePersistent(p)
  PROVE  IInv'
<1>1. PICK call, r :
         /\ call \in Calls(p, {"Send_init", "Recv_init"})
         /\ r = IF call.op = "Send_init" THEN SendRequest(states[p], p, call.mode, call)
                ELSE ReceiveRequest(states[p], p, call)
         /\ Proceed(p, [states[p] EXCEPT !.persistent = @ \cup {r}], SetHandle(p, call.slot, r.id))
  BY DEF CreatePersistent
<1> call \in Calls(p, {"Send_init", "Recv_init"})
  BY <1>1
<1>2. /\ call \in MayCall(p) /\ call.op \in {"Send_init", "Recv_init"} /\ phase = "run"
      /\ Tail(todo[p]) \in Seq(SUBSET MayCall(p))
  BY CallIsNext, Zenon
<1>3. r \in Requests /\ Legal(p, r)
  <2>1. CASE call.op = "Send_init"
    <3>1. r = SendRequest(states[p], p, call.mode, call)
      BY <1>1, <2>1
    <3> QED BY <1>2, <2>1, <3>1, CallFields, ProcessIsOK, SendRequestFits
  <2>2. CASE call.op = "Recv_init"
    <3>1. r = ReceiveRequest(states[p], p, call)
      BY <1>1, <2>2
    <3> QED BY <1>2, <2>2, <3>1, CallFields, ProcessIsOK, ReceiveRequestFits
  <2> QED BY <1>2, <2>1, <2>2
<1>4. PICK S : S = states[p]
  OBVIOUS
<1>5. /\ StateOK(p, S, matched, MatchedBy(p, matched)) /\ S \in StateRecords
      /\ IsFiniteSet(S.finished) /\ IsFiniteSet(S.persistent)
  BY <1>4, ProcessIsOK
<1>6. PICK T : T = [S EXCEPT !.persistent = @ \cup {r}]
  OBVIOUS
<1>7. /\ T \in StateRecords /\ T.active = S.active /\ T.finished = S.finished
      /\ T.persistent = S.persistent \cup {r} /\ T.log = S.log /\ T.closed = S.closed
      /\ T.status = S.status /\ T.tested = S.tested /\ T.probe_data = S.probe_data
      /\ T.probe_promise = S.probe_promise
  BY <1>3, <1>5, <1>6 DEF StateRecords
<1>8. StateOK(p, T, matched, MatchedBy(p, matched))
  <2>1. IsFiniteSet(S.persistent \cup {r})
    BY <1>5, FS_AddElement
  <2>2. Accounted(T, MatchedBy(p, matched)) /\ WaitIsRecorded(p, T)
    BY <1>5, <1>7 DEF StateOK, Accounted, WaitIsRecorded
  <2>3. \A q \in LiveRequests(T) \cup T.persistent : Legal(p, q)
    BY <1>3, <1>5, <1>7 DEF StateOK, LiveRequests
  <2> QED BY <1>5, <1>7, <2>1, <2>2, <2>3 DEF StateOK
<1>9. SetHandle(p, call.slot, r.id) \in Handles
  <2>1. r.id \in Nat /\ call.slot \in 1 .. Slots
    BY <1>2, <1>3, CallFields DEF Requests
  <2> QED BY <2>1, HandleFits
<1>10. Proceed(p, T, SetHandle(p, call.slot, r.id))
  BY <1>1, <1>4, <1>6
<1> QED BY <1>2, <1>8, <1>9, <1>10, ProceedKeeps

LEMMA Request_freeKeeps ==
  ASSUME IInv, NEW p \in Procs, Request_free(p)
  PROVE  IInv'
<1>1. PICK call, S, id :
         /\ call \in Calls(p, {"Request_free"})
         /\ S = states[p] /\ id = handles[p][call.slot]
         /\ IF ~IsPersistent(S, id) THEN Fail(PersistentError(S, id), p, id)
            ELSE Proceed(p, [S EXCEPT !.persistent = {r \in @ : r.id # id}],
                         SetHandle(p, call.slot, RequestNull))
  BY DEF Request_free
<1> call \in Calls(p, {"Request_free"})
  BY <1>1
<1>2. /\ call \in MayCall(p) /\ call.op \in {"Request_free"} /\ phase = "run"
      /\ Tail(todo[p]) \in Seq(SUBSET MayCall(p))
  BY CallIsNext, Zenon
<1>3. CASE ~IsPersistent(S, id)
  <2>1. PICK name : name = PersistentError(S, id) /\ Fail(name, p, id)
    BY <1>1, <1>3
  <2>2. name \in {"InvalidPersistentRequest", "NotPersistentRequest"}
    BY <1>3, <2>1 DEF PersistentError
  <2> QED BY <2>1, <2>2, FailKeeps
<1>4. CASE IsPersistent(S, id)
  <2>1. /\ StateOK(p, S, matched, MatchedBy(p, matched)) /\ S \in StateRecords
        /\ IsFiniteSet(S.finished) /\ IsFiniteSet(S.persistent)
    BY <1>1, ProcessIsOK
  <2>2. PICK T, f : f = {r \in S.persistent : r.id # id} /\ T = [S EXCEPT !.persistent = f]
    OBVIOUS
  <2>3. f \subseteq S.persistent /\ IsFiniteSet(f)
    BY <2>1, <2>2, FS_Subset
  <2>4. /\ T \in StateRecords /\ T.active = S.active /\ T.finished = S.finished
        /\ T.persistent = f /\ T.log = S.log /\ T.closed = S.closed
        /\ T.status = S.status /\ T.tested = S.tested /\ T.probe_data = S.probe_data
        /\ T.probe_promise = S.probe_promise
    BY <2>1, <2>2, <2>3 DEF StateRecords
  <2>5. StateOK(p, T, matched, MatchedBy(p, matched))
    <3>1. Accounted(T, MatchedBy(p, matched)) /\ WaitIsRecorded(p, T)
      BY <2>1, <2>4 DEF StateOK, Accounted, WaitIsRecorded
    <3>2. \A q \in LiveRequests(T) \cup T.persistent : Legal(p, q)
      BY <2>1, <2>3, <2>4 DEF StateOK, LiveRequests
    <3> QED BY <2>1, <2>3, <2>4, <3>1, <3>2 DEF StateOK
  <2>6. SetHandle(p, call.slot, RequestNull) \in Handles
    BY <1>2, CallFields, HandleFits
  <2>7. Proceed(p, T, SetHandle(p, call.slot, RequestNull))
    BY <1>1, <1>4, <2>1, <2>2 DEF StateRecords
  <2> QED BY <1>2, <2>5, <2>6, <2>7, ProceedKeeps
<1> QED BY <1>3, <1>4

LEMMA StartKeeps ==
  ASSUME IInv, NEW p \in Procs, Start(p)
  PROVE  IInv'
<1>1. PICK call, S, ids, refused :
         /\ call \in Calls(p, {"Start", "Startall"})
         /\ S = states[p]
         /\ ids = [i \in DOMAIN call.slots |-> handles[p][call.slots[i]]]
         /\ refused = {i \in DOMAIN ids : ~IsPersistent(S, ids[i])
                                           \/ ids[i] \in Ids(LiveRequests(S))}
         /\ IF refused # {}
            THEN Fail(PersistentError(S, ids[Min(refused)]), p, ids[Min(refused)])
            ELSE Proceed(p, Started(S, p, ids), handles[p])
  BY DEF Start
<1> call \in Calls(p, {"Start", "Startall"})
  BY <1>1
<1>2. /\ call \in MayCall(p) /\ call.op \in {"Start", "Startall"} /\ phase = "run"
      /\ Tail(todo[p]) \in Seq(SUBSET MayCall(p))
  BY CallIsNext, Zenon
<1>3. call.slots \in Seq(1 .. Slots)
  BY <1>2, CallFields
<1>4. PICK n \in Nat : n = Len(call.slots) /\ DOMAIN call.slots = 1 .. n
  BY <1>3, LenProperties
<1>5. ids \in [1 .. n -> Int]
  <2>1. \A i \in 1 .. n : call.slots[i] \in 1 .. Slots
    BY <1>3, <1>4, ElementOfSeq
  <2> QED BY <1>1, <1>4, <2>1, HandlesAreNumbers
<1>6. n = Len(ids) /\ DOMAIN ids = 1 .. n
  <2>1. DOMAIN ids = 1 .. n
    BY <1>5
  <2>2. ids \in Seq(Int)
    BY <1>5, SeqDef
  <2> QED BY <2>1, <2>2, LenProperties
<1>7. CASE refused # {}
  <2>a. refused \subseteq DOMAIN ids
    BY <1>1
  <2>1. refused \in SUBSET Nat
    BY <1>6, <2>a
  <2>2. PICK k : k = Min(refused) /\ k \in refused
    BY <1>7, <2>1, MinIsSmallest
  <2>3. PICK name : name = PersistentError(S, ids[k]) /\ Fail(name, p, ids[k])
    BY <1>1, <1>7, <2>2
  <2>4. CASE IsPersistent(S, ids[k])
    <3>1. Fail("ActivePersistentRequest", p, ids[k])
      BY <2>3, <2>4 DEF PersistentError
    <3>2. IsPersistent(states[p], ids[k]) /\ ids[k] \in Ids(LiveRequests(states[p]))
      BY <1>1, <2>2, <2>4
    <3> QED BY <3>1, <3>2, FailKeeps
  <2>5. CASE ~IsPersistent(S, ids[k])
    <3>1. name \in {"InvalidPersistentRequest", "NotPersistentRequest"}
      BY <2>3, <2>5 DEF PersistentError
    <3> QED BY <2>3, <3>1, FailKeeps
  <2> QED BY <2>4, <2>5
<1>8. CASE refused = {}
  <2>2. \A k \in 1 .. n : ids[k] \in Ids(S.persistent)
    BY <1>1, <1>6, <1>8 DEF IsPersistent
  <2>3. Proceed(p, Started(S, p, ids), handles[p])
    BY <1>1, <1>8
  <2>4. StateOK(p, S, matched, MatchedBy(p, matched))
    BY <1>1, ProcessIsOK
  <2>5. StateOK(p, Started(S, p, ids), matched, MatchedBy(p, matched))
    BY <1>6, <2>2, <2>4, StartedOK
  <2> QED BY <1>2, <2>3, <2>5, HandlesAreNumbers, ProceedKeeps
<1> QED BY <1>7, <1>8

LEMMA ProbeKeeps ==
  ASSUME IInv, NEW p \in Procs, Probe(p)
  PROVE  IInv'
<1>1. PICK call \in Calls(p, {"Probe"}) :
         Proceed(p, IF call.source = ProcNull THEN states[p]
                    ELSE SetProbe(states[p], call, FALSE), handles[p])
  BY DEF Probe
<1>2. /\ call \in MayCall(p) /\ call.op \in {"Probe"} /\ phase = "run"
      /\ Tail(todo[p]) \in Seq(SUBSET MayCall(p))
  BY CallIsNext, Zenon
<1>3. /\ call.comm \in CommsOf(p) \cap Probed(p)
      /\ call.source \in Ranks(call.comm) \cup {ProcNull, AnySource}
      /\ call.tag \in Tags \cup {AnyTag}
  BY <1>2, CallFields
<1>4. CASE call.source = ProcNull
  <2>1. Proceed(p, states[p], handles[p])
    BY <1>1, <1>4
  <2> QED BY <1>2, <2>1, ProcessIsOK, HandlesAreNumbers, ProceedKeeps
<1>5. CASE call.source # ProcNull
  <2>1. Proceed(p, SetProbe(states[p], call, FALSE), handles[p])
    BY <1>1, <1>5
  <2>2. call.source \in Ranks(call.comm) \cup {AnySource}
    BY <1>3, <1>5
  <2>3. StateOK(p, SetProbe(states[p], call, FALSE), matched, MatchedBy(p, matched))
    BY <1>3, <2>2, ProcessIsOK, WithProbe
  <2> QED BY <1>2, <2>1, <2>3, HandlesAreNumbers, ProceedKeeps
<1> QED BY <1>4, <1>5

LEMMA IprobeKeeps ==
  ASSUME IInv, NEW p \in Procs, Iprobe(p)
  PROVE  IInv'
<1>1. PICK call \in Calls(p, {"Iprobe"}) :
         Proceed(p, IF call.source = ProcNull THEN SetReady(states[p])
                    ELSE SetProbe(states[p], call, TRUE), handles[p])
  BY DEF Iprobe
<1>2. /\ call \in MayCall(p) /\ call.op \in {"Iprobe"} /\ phase = "run"
      /\ Tail(todo[p]) \in Seq(SUBSET MayCall(p))
  BY CallIsNext, Zenon
<1>3. /\ call.comm \in CommsOf(p) \cap Probed(p)
      /\ call.source \in Ranks(call.comm) \cup {ProcNull, AnySource}
      /\ call.tag \in Tags \cup {AnyTag}
  BY <1>2, CallFields
<1>4. CASE call.source = ProcNull
  <2>1. Proceed(p, SetReady(states[p]), handles[p])
    BY <1>1, <1>4
  <2>2. StateOK(p, SetReady(states[p]), matched, MatchedBy(p, matched))
    BY ProcessIsOK, WithStatus DEF SetReady
  <2> QED BY <1>2, <2>1, <2>2, HandlesAreNumbers, ProceedKeeps
<1>5. CASE call.source # ProcNull
  <2>1. Proceed(p, SetProbe(states[p], call, TRUE), handles[p])
    BY <1>1, <1>5
  <2>2. call.source \in Ranks(call.comm) \cup {AnySource}
    BY <1>3, <1>5
  <2>3. StateOK(p, SetProbe(states[p], call, TRUE), matched, MatchedBy(p, matched))
    BY <1>3, <2>2, ProcessIsOK, WithProbe
  <2> QED BY <1>2, <2>1, <2>3, HandlesAreNumbers, ProceedKeeps
<1> QED BY <1>4, <1>5

LEMMA WaitKeeps ==
  ASSUME IInv, NEW p \in Procs, Wait(p)
  PROVE  IInv'
<1>1. PICK call, id, ids :
         /\ call \in Calls(p, {"Wait"})
         /\ id = handles[p][call.slot] /\ ids = <<id>>
         /\ IF Invalid(p, ids) # {} THEN Fail("InvalidRequest", p, id)
            ELSE Proceed(p, SetWait(states[p], "WaitAll", Tested(ids)),
                         SetHandle(p, call.slot, Nulled(p, ids)[1]))
  BY DEF Wait
<1> call \in Calls(p, {"Wait"})
  BY <1>1
<1>2. /\ call \in MayCall(p) /\ call.op \in {"Wait"} /\ phase = "run"
      /\ Tail(todo[p]) \in Seq(SUBSET MayCall(p))
  BY CallIsNext, Zenon
<1>3. call.slot \in 1 .. Slots
  BY <1>2, CallFields
<1>4. id \in Nat \cup {RequestNull} /\ id \in Int
  BY <1>1, <1>3, HandlesAreNumbers
<1>5. CASE Invalid(p, ids) # {}
  <2>1. Fail("InvalidRequest", p, id)
    BY <1>1, <1>5
  <2> QED BY <2>1, FailKeeps
<1>6. CASE Invalid(p, ids) = {}
  <2>1. PICK n \in Nat : n = 1
    OBVIOUS
  <2>2. ids \in [1 .. n -> Int]
    BY <1>1, <1>4, <2>1
  <2>3. Tested(ids) \in Seq(Tests) /\ Tested(ids) # <<>>
    <3>1. Tested(ids) \in Seq(Tests) /\ (n > 0 => Tested(ids) # <<>>)
      BY <2>2, TestedFits
    <3> QED BY <2>1, <3>1
  <2>4. StateOK(p, SetWait(states[p], "WaitAll", Tested(ids)), matched, MatchedBy(p, matched))
    BY <2>3, ProcessIsOK, WithTests DEF Tests, Completing
  <2>5. Nulled(p, ids)[1] \in Nat \cup {RequestNull}
    <3>1. 1 \in DOMAIN ids /\ ids[1] = id
      BY <1>1
    <3> QED BY <1>4, <3>1 DEF Nulled
  <2>6. SetHandle(p, call.slot, Nulled(p, ids)[1]) \in Handles
    BY <1>3, <2>5, HandleFits
  <2>7. Proceed(p, SetWait(states[p], "WaitAll", Tested(ids)),
                SetHandle(p, call.slot, Nulled(p, ids)[1]))
    BY <1>1, <1>6
  <2> QED BY <1>2, <2>4, <2>6, <2>7, ProceedKeeps
<1> QED BY <1>5, <1>6

LEMMA WaitallKeeps ==
  ASSUME IInv, NEW p \in Procs, Waitall(p)
  PROVE  IInv'
<1>1. PICK call \in Calls(p, {"Waitall"}) :
         IF Invalid(p, handles[p]) # {}
         THEN Fail("InvalidRequest", p, Min(Invalid(p, handles[p])))
         ELSE Proceed(p, SetWait(states[p], "WaitAll", Tested(handles[p])), Nulled(p, handles[p]))
  BY DEF Waitall
<1>2. phase = "run" /\ Tail(todo[p]) \in Seq(SUBSET MayCall(p))
  BY CallIsNext
<1>3. CASE Invalid(p, handles[p]) # {}
  <2>1. Fail("InvalidRequest", p, Min(Invalid(p, handles[p])))
    BY <1>1, <1>3
  <2> QED BY <2>1, FailKeeps
<1>4. CASE Invalid(p, handles[p]) = {}
  <2>1. PICK hs : hs = handles[p]
    OBVIOUS
  <2>2. hs \in Handles /\ hs \in [1 .. Slots -> Int]
    BY <2>1, HandlesAreNumbers
  <2>3. Tested(hs) \in Seq(Tests) /\ (Slots > 0 => Tested(hs) # <<>>)
    <3>1. PICK n \in Nat : n = Slots
      BY ProtocolAssumption
    <3>2. hs \in [1 .. n -> Int]
      BY <2>2, <3>1
    <3>3. Tested(hs) \in Seq(Tests) /\ (n > 0 => Tested(hs) # <<>>)
      BY <3>2, TestedFits
    <3> QED BY <3>1, <3>3
  <2>4. StateOK(p, SetWait(states[p], "WaitAll", Tested(hs)), matched, MatchedBy(p, matched))
    BY <2>3, ProcessIsOK, WithTests DEF Tests, Completing
  <2>5. Nulled(p, hs) \in Handles
    BY <2>2 DEF Nulled, Handles
  <2>6. Proceed(p, SetWait(states[p], "WaitAll", Tested(hs)), Nulled(p, hs))
    BY <1>1, <1>4, <2>1
  <2> QED BY <1>2, <2>4, <2>5, <2>6, ProceedKeeps
<1> QED BY <1>3, <1>4

LEMMA WaitForSomeKeeps ==
  ASSUME IInv, NEW p \in Procs, WaitForSome(p)
  PROVE  IInv'
<1>1. PICK call, bad, ids, status :
         /\ call \in Calls(p, {"Waitany", "Waitsome"})
         /\ ids = [i \in DOMAIN handles[p] |->
                     IF handles[p][i] \in Ids(LiveRequests(states[p])) THEN handles[p][i]
                     ELSE RequestNull]
         /\ status = IF call.op = "Waitany" THEN "WaitAny" ELSE "WaitSome"
         /\ IF bad # {} THEN Fail("InvalidRequest", p, Min(bad))
            ELSE Proceed(p, IF ToSet(ids) \subseteq {RequestNull} THEN states[p]
                            ELSE SetWait(states[p], status, TestedInPlace(ids)), handles[p])
  BY DEF WaitForSome
<1> call \in Calls(p, {"Waitany", "Waitsome"})
  BY <1>1
<1>2. phase = "run" /\ Tail(todo[p]) \in Seq(SUBSET MayCall(p))
  BY CallIsNext
<1>3. CASE bad # {}
  <2>1. Fail("InvalidRequest", p, Min(bad))
    BY <1>1, <1>3
  <2> QED BY <2>1, FailKeeps
<1>4. CASE bad = {}
  <2>1. ids \in [1 .. Slots -> Int]
    <3>1. handles[p] \in [1 .. Slots -> Int]
      BY HandlesAreNumbers
    <3> QED BY <1>1, <3>1, Constants
  <2>2. TestedInPlace(ids) \in Seq(Tests) /\ (Slots > 0 => TestedInPlace(ids) # <<>>)
    BY <2>1, TestedInPlaceFits
  <2>3. status \in Completing
    BY <1>1 DEF Completing
  <2>4. StateOK(p, SetWait(states[p], status, TestedInPlace(ids)), matched,
                MatchedBy(p, matched))
    BY <2>2, <2>3, ProcessIsOK, WithTests DEF Tests
  <2>5. CASE ToSet(ids) \subseteq {RequestNull}
    <3>1. Proceed(p, states[p], handles[p])
      BY <1>1, <1>4, <2>5
    <3> QED BY <1>2, <3>1, ProcessIsOK, HandlesAreNumbers, ProceedKeeps
  <2>6. CASE ~(ToSet(ids) \subseteq {RequestNull})
    <3>1. Proceed(p, SetWait(states[p], status, TestedInPlace(ids)), handles[p])
      BY <1>1, <1>4, <2>6
    <3> QED BY <1>2, <2>4, <3>1, HandlesAreNumbers, ProceedKeeps
  <2> QED BY <2>5, <2>6
<1> QED BY <1>3, <1>4

LEMMA TestKeeps ==
  ASSUME IInv, NEW p \in Procs, Test(p)
  PROVE  IInv'
<1>1. PICK call, id, tested :
         /\ call \in Calls(p, {"Test"})
         /\ id = handles[p][call.slot]
         /\ tested = <<[id |-> id, slot |-> call.slot]>>
         /\ IF Invalid(p, <<id>>) # {} THEN Fail("InvalidRequest", p, id)
            ELSE Proceed(p, SetWait(states[p], "Test", tested), handles[p])
  BY DEF Test
<1> call \in Calls(p, {"Test"})
  BY <1>1
<1>2. /\ call \in MayCall(p) /\ call.op \in {"Test"} /\ phase = "run"
      /\ Tail(todo[p]) \in Seq(SUBSET MayCall(p))
  BY CallIsNext, Zenon
<1>3. call.slot \in 1 .. Slots
  BY <1>2, CallFields
<1>4. id \in Int
  BY <1>1, <1>3, HandlesAreNumbers
<1>5. CASE Invalid(p, <<id>>) # {}
  <2>1. Fail("InvalidRequest", p, id)
    BY <1>1, <1>5
  <2> QED BY <2>1, FailKeeps
<1>6. CASE Invalid(p, <<id>>) = {}
  <2>1. tested \in Seq(Tests) /\ tested # <<>>
    <3>1. [id |-> id, slot |-> call.slot] \in Tests
      BY <1>3, <1>4, ProtocolAssumption DEF Tests
    <3> QED BY <1>1, <3>1
  <2>2. StateOK(p, SetWait(states[p], "Test", tested), matched, MatchedBy(p, matched))
    BY <2>1, ProcessIsOK, WithTests DEF Tests, Completing
  <2>3. Proceed(p, SetWait(states[p], "Test", tested), handles[p])
    BY <1>1, <1>6
  <2> QED BY <1>2, <2>2, <2>3, HandlesAreNumbers, ProceedKeeps
<1> QED BY <1>5, <1>6

LEMMA TestallKeeps ==
  ASSUME IInv, NEW p \in Procs, Testall(p)
  PROVE  IInv'
<1>1. PICK call \in Calls(p, {"Testall"}) :
         IF Invalid(p, handles[p]) # {}
         THEN Fail("InvalidRequest", p, Min(Invalid(p, handles[p])))
         ELSE Proceed(p, SetWait(states[p], "Test", TestedInPlace(handles[p])), handles[p])
  BY DEF Testall
<1>2. phase = "run" /\ Tail(todo[p]) \in Seq(SUBSET MayCall(p))
  BY CallIsNext
<1>3. CASE Invalid(p, handles[p]) # {}
  <2>1. Fail("InvalidRequest", p, Min(Invalid(p, handles[p])))
    BY <1>1, <1>3
  <2> QED BY <2>1, FailKeeps
<1>4. CASE Invalid(p, handles[p]) = {}
  <2>1. PICK hs : hs = handles[p]
    OBVIOUS
  <2>2. hs \in Handles /\ hs \in [1 .. Slots -> Int]
    BY <2>1, HandlesAreNumbers
  <2>3. TestedInPlace(hs) \in Seq(Tests) /\ (Slots > 0 => TestedInPlace(hs) # <<>>)
    BY <2>2, TestedInPlaceFits
  <2>4. StateOK(p, SetWait(states[p], "Test", TestedInPlace(hs)), matched,
                MatchedBy(p, matched))
    BY <2>3, ProcessIsOK, WithTests DEF Tests, Completing
  <2>5. Proceed(p, SetWait(states[p], "Test", TestedInPlace(hs)), hs)
    BY <1>1, <1>4, <2>1
  <2> QED BY <1>2, <2>2, <2>4, <2>5, ProceedKeeps
<1> QED BY <1>3, <1>4

-----------------------------------------------------------------------------
(* The invariant is preserved: the worker *)

\* A step that is not a call and does not fail.
LEMMA OtherStepKeeps ==
  ASSUME IInv, states' \in [Procs -> StateRecords],
         \A p \in Procs : StateOK(p, states'[p], matched', MatchedBy(p, matched')),
         matched' \subseteq Matchings, \A p \in Procs : handles'[p] \in Handles,
         handles' = [p \in Procs |-> handles'[p]], todo' = todo, error' = error,
         phase # "error", phase' \in {"run", "match", "node", "done", "deadlock"}
  PROVE  IInv'
<1>1. error.name = "none"
  BY DEF IInv
<1>2. handles' \in [Procs -> [1 .. Slots -> Nat \cup {RequestNull}]]
  BY DEF Handles
<1> QED BY <1>1, <1>2 DEF IInv

LEMMA SameHandles ==
  ASSUME IInv, handles' = handles
  PROVE  (\A p \in Procs : handles'[p] \in Handles) /\ handles' = [p \in Procs |-> handles'[p]]
BY DEF IInv, Handles

LEMMA ExitKeeps ==
  ASSUME IInv, NEW p \in Procs, Exit(p)
  PROVE  IInv'
<1>1. /\ phase = "run" /\ phase' = "match" /\ states' = [states EXCEPT ![p] = SetFinished(@)]
      /\ todo' = todo /\ handles' = handles /\ error' = error /\ matched' = matched
  BY DEF Exit
<1>2. StateOK(p, SetFinished(states[p]), matched, MatchedBy(p, matched))
  BY ProcessIsOK, WithStatus DEF SetFinished
<1>3. states \in [Procs -> StateRecords] /\ SetFinished(states[p]) \in StateRecords
  BY <1>2 DEF IInv, StateOK
<1>4. states' \in [Procs -> StateRecords]
  BY <1>1, <1>3
<1>5. \A q \in Procs : states'[q] = IF q = p THEN SetFinished(states[p]) ELSE states[q]
  BY <1>1, <1>3
<1>6. \A q \in Procs : StateOK(q, states'[q], matched, MatchedBy(q, matched))
  BY <1>2, <1>5, ProcessIsOK
<1>7. matched \subseteq Matchings
  BY DEF IInv
<1> QED BY <1>1, <1>4, <1>6, <1>7, SameHandles, OtherStepKeeps

LEMMA MatchingKeeps ==
  ASSUME IInv, NEW dst \in Procs, NEW src \in Procs, NEW i \in OpenReceives(dst),
         FirstSend(src, dst, states[dst].active[i]) # 0, ApplyMatching(dst, i, src),
         phase \in {"match", "node"}, phase' = "match"
  PROVE  IInv'
<1>1. /\ states' \in [Procs -> StateRecords]
      /\ \A p \in Procs : StateOK(p, states'[p], matched', MatchedBy(p, matched'))
      /\ matched' \subseteq Matchings
      /\ todo' = todo /\ handles' = handles /\ error' = error
  BY ApplyMatchingOK
<1> QED BY <1>1, SameHandles, OtherStepKeeps

\* The receive r names the process q, or any process.
Names(r, q) == r.peer = AnySource \/ (r.peer \in Ranks(r.comm) /\ RankToPid(r.comm, r.peer) = q)

\* The match that the worker makes by itself.
LEMMA MatchIsOpen ==
  ASSUME IInv, Match
  PROVE  \E p \in Procs : \E i \in OpenReceives(p) : \E q \in Procs :
           /\ FirstSend(q, p, states[p].active[i]) # 0
           /\ Names(states[p].active[i], q) /\ ApplyMatching(p, i, q)
           /\ phase = "match" /\ phase' = "match"
<1>1. PICK p : p = Min(DeterministicPids)
  OBVIOUS
<1>2. p \in Procs /\ DeterministicReceives(p) # {}
  <2>1. DeterministicPids # {} /\ DeterministicPids \in SUBSET Nat
    BY DEF Match, DeterministicPids, Procs
  <2>2. Min(DeterministicPids) \in DeterministicPids
    BY <2>1, MinIsSmallest
  <2> QED BY <1>1, <2>2 DEF DeterministicPids
<1>3. PICK i : i = Min(DeterministicReceives(p))
  OBVIOUS
<1>4. i \in DeterministicReceives(p)
  <2>1. states[p].active \in Seq(Requests)
    BY <1>2 DEF IInv, StateRecords
  <2>2. DOMAIN states[p].active \subseteq Nat
    BY <2>1, LenProperties
  <2>3. DeterministicReceives(p) \in SUBSET Nat
    BY <2>2 DEF DeterministicReceives, OpenReceives
  <2> QED BY <1>2, <1>3, <2>3, MinIsSmallest
<1>5. PICK r : r = states[p].active[i]
  OBVIOUS
<1>6. /\ i \in OpenReceives(p) /\ r.peer # AnySource
      /\ FirstSend(RankToPid(r.comm, r.peer), p, r) # 0
  BY <1>4, <1>5 DEF DeterministicReceives
<1>7. PICK q : q = RankToPid(r.comm, r.peer)
  OBVIOUS
<1>8. ApplyMatching(p, i, q) /\ phase = "match" /\ phase' = "match"
  BY <1>1, <1>3, <1>5, <1>7 DEF Match
<1>9. q \in Procs /\ Names(r, q)
  <2>1. i \in DOMAIN states[p].active /\ IsReceive(r)
    BY <1>5, <1>6 DEF OpenReceives
  <2>2. r \in ToSet(states[p].active)
    BY <1>5, <2>1 DEF ToSet
  <2>3. Legal(p, r) /\ r.peer # ProcNull
    BY <1>2, <2>2 DEF IInv, StateOK, LiveRequests
  <2>4. r.comm \in Comms /\ r.peer \in Ranks(r.comm)
    BY <1>6, <2>1, <2>3 DEF Legal, CommsOf
  <2> QED BY <1>7, <2>4, RanksArePids DEF Names
<1> QED BY <1>2, <1>5, <1>6, <1>7, <1>8, <1>9

LEMMA MatchKeeps ==
  ASSUME IInv, Match
  PROVE  IInv'
BY MatchIsOpen, MatchingKeeps

LEMMA ChooseMatchingIsOpen ==
  ASSUME IInv, ChooseMatching
  PROVE  \E p \in Procs : \E i \in OpenReceives(p) : \E q \in Procs :
           /\ FirstSend(q, p, states[p].active[i]) # 0
           /\ Names(states[p].active[i], q) /\ ApplyMatching(p, i, q)
           /\ phase = "node" /\ phase' = "match"
<1>1. PICK p \in Procs : \E m \in NondeterministicMatches(p) : ApplyMatching(p, m[1], m[2])
  BY DEF ChooseMatching
<1>2. PICK m \in NondeterministicMatches(p) : ApplyMatching(p, m[1], m[2])
  BY <1>1
<1>3. /\ m \in OpenReceives(p) \X Procs
      /\ FirstSend(m[2], p, states[p].active[m[1]]) # 0
      /\ Names(states[p].active[m[1]], m[2])
  BY <1>2 DEF NondeterministicMatches, Names
<1>4. m[1] \in OpenReceives(p) /\ m[2] \in Procs
  BY <1>3
<1>5. phase = "node" /\ phase' = "match"
  BY DEF ChooseMatching
<1> QED BY <1>2, <1>3, <1>4, <1>5

LEMMA ChooseMatchingKeeps ==
  ASSUME IInv, ChooseMatching
  PROVE  IInv'
BY ChooseMatchingIsOpen, MatchingKeeps

LEMMA FreeHandlesFit ==
  ASSUME IInv, NEW p \in Procs, NEW indices
  PROVE  FreeHandles(p, indices) \in Handles
<1>1. handles[p] \in Handles
  BY HandlesAreNumbers
<1>2. PICK freed : freed = {states[p].tested[i].slot :
                      i \in {i \in indices : /\ states[p].tested[i].id # RequestNull
                                            /\ ~IsPersistent(states[p], states[p].tested[i].id)}}
  OBVIOUS
<1>3. FreeHandles(p, indices) =
        [i \in DOMAIN handles[p] |-> IF i \in freed THEN RequestNull ELSE handles[p][i]]
  BY <1>2 DEF FreeHandles
<1> QED BY <1>1, <1>3 DEF Handles

LEMMA ResumeKeeps ==
  ASSUME IInv, Resume
  PROVE  IInv'
<1>1. PICK ready, bad, running, name :
         /\ ready \subseteq Procs /\ bad \subseteq ready
         /\ name \in {"Crash", "MessageTruncated"}
         /\ IF bad # {} THEN Fail(name, Min(bad), 0)
            ELSE /\ states' = [p \in Procs |->
                      IF p \in ready THEN SetRunning(Close(states[p], DOMAIN states[p].tested))
                      ELSE states[p]]
                 /\ handles' = [p \in Procs |->
                      IF p \in ready THEN FreeHandles(p, DOMAIN states[p].tested)
                      ELSE handles[p]]
                 /\ phase' = IF ready \cup running # {} THEN "run" ELSE "node"
                 /\ UNCHANGED <<todo, error, matched>>
  <2>1. PICK ready : ready = {p \in Procs : Resumable(p)}
    OBVIOUS
  <2>2. PICK bad : bad = {p \in ready : BreaksPromise(p) \/
                                        Truncates(states[p], DOMAIN states[p].tested)}
    OBVIOUS
  <2>3. PICK name : name = IF BreaksPromise(Min(bad)) THEN "Crash" ELSE "MessageTruncated"
    OBVIOUS
  <2>4. PICK running : running = {p \in Procs : states[p].status = "Running"}
    OBVIOUS
  <2>5. ready \subseteq Procs /\ bad \subseteq ready /\ name \in {"Crash", "MessageTruncated"}
    BY <2>1, <2>2, <2>3
  <2>6. IF bad # {} THEN Fail(name, Min(bad), 0)
        ELSE /\ states' = [p \in Procs |->
                  IF p \in ready THEN SetRunning(Close(states[p], DOMAIN states[p].tested))
                  ELSE states[p]]
             /\ handles' = [p \in Procs |->
                  IF p \in ready THEN FreeHandles(p, DOMAIN states[p].tested)
                  ELSE handles[p]]
             /\ phase' = IF ready \cup running # {} THEN "run" ELSE "node"
             /\ UNCHANGED <<todo, error, matched>>
    BY <2>1, <2>2, <2>3, <2>4, Zenon DEF Resume
  <2> QED BY <2>5, <2>6
<1>2. CASE bad # {}
  <2>1. bad \in SUBSET Nat
    BY <1>1 DEF Procs
  <2>2. Min(bad) \in Procs
    BY <1>1, <1>2, <2>1, MinIsSmallest
  <2>3. Fail(name, Min(bad), 0) /\ name # "none" /\ name # "ActivePersistentRequest"
    BY <1>1, <1>2
  <2> QED BY <2>2, <2>3, FailKeeps
<1>3. CASE bad = {}
  <2>1. /\ states' = [p \in Procs |->
             IF p \in ready THEN SetRunning(Close(states[p], DOMAIN states[p].tested))
             ELSE states[p]]
        /\ handles' = [p \in Procs |->
             IF p \in ready THEN FreeHandles(p, DOMAIN states[p].tested) ELSE handles[p]]
        /\ phase' \in {"run", "node"} /\ todo' = todo /\ error' = error /\ matched' = matched
    BY <1>1, <1>3
  <2>2. ASSUME NEW p \in Procs
        PROVE  StateOK(p, SetRunning(Close(states[p], DOMAIN states[p].tested)), matched,
                       MatchedBy(p, matched))
    <3>1. StateOK(p, Close(states[p], DOMAIN states[p].tested), matched, MatchedBy(p, matched))
      BY ProcessIsOK, CloseOK
    <3> QED BY <3>1, WithStatus DEF SetRunning
  <2>3. \A p \in Procs : StateOK(p, states'[p], matched', MatchedBy(p, matched'))
    BY <2>1, <2>2, ProcessIsOK
  <2>4. states' \in [Procs -> StateRecords]
    BY <2>1, <2>3 DEF StateOK
  <2>5. \A p \in Procs : handles'[p] \in Handles
    BY <2>1, FreeHandlesFit, HandlesAreNumbers
  <2>6. matched' \subseteq Matchings
    BY <2>1 DEF IInv
  <2>7. phase # "error" /\ handles' = [p \in Procs |-> handles'[p]]
    BY <2>1 DEF Resume
  <2> QED BY <2>1, <2>3, <2>4, <2>5, <2>6, <2>7, OtherStepKeeps
<1> QED BY <1>2, <1>3

LEMMA CompleteKeeps ==
  ASSUME IInv, NEW p \in Procs, NEW indices, phase = "node", Complete(p, indices)
  PROVE  IInv'
<1>1. CASE Truncates(states[p], indices)
  <2>1. Fail("MessageTruncated", p, 0)
    BY <1>1 DEF Complete
  <2> QED BY <2>1, FailKeeps
<1>2. CASE ~Truncates(states[p], indices)
  <2>1. /\ states' = [states EXCEPT ![p] = SetReady(Close(@, indices))]
        /\ handles' = [handles EXCEPT ![p] = FreeHandles(p, indices)]
        /\ phase' = "match" /\ todo' = todo /\ error' = error /\ matched' = matched
    BY <1>2 DEF Complete
  <2>2. PICK T : T = SetReady(Close(states[p], indices))
    OBVIOUS
  <2>3. StateOK(p, T, matched, MatchedBy(p, matched))
    <3>1. StateOK(p, Close(states[p], indices), matched, MatchedBy(p, matched))
      BY ProcessIsOK, CloseOK
    <3> QED BY <2>2, <3>1, WithStatus DEF SetReady
  <2>4. T \in StateRecords /\ states \in [Procs -> StateRecords]
    BY <2>3 DEF StateOK, IInv
  <2>5. states' \in [Procs -> StateRecords]
    BY <2>1, <2>2, <2>4
  <2>6. \A q \in Procs : states'[q] = IF q = p THEN T ELSE states[q]
    BY <2>1, <2>2, <2>4
  <2>7. \A q \in Procs : StateOK(q, states'[q], matched', MatchedBy(q, matched'))
    BY <2>1, <2>3, <2>6, ProcessIsOK
  <2>8. FreeHandles(p, indices) \in Handles /\ handles \in [Procs -> Handles]
    BY FreeHandlesFit DEF IInv, Handles
  <2>9. handles' \in [Procs -> Handles]
    BY <2>1, <2>8
  <2>10. (\A q \in Procs : handles'[q] \in Handles) /\ handles' = [q \in Procs |-> handles'[q]]
    BY <2>9
  <2>11. matched' \subseteq Matchings
    BY <2>1 DEF IInv
  <2> QED BY <2>1, <2>5, <2>7, <2>10, <2>11, OtherStepKeeps
<1> QED BY <1>1, <1>2

LEMMA ChoicesKeep ==
  ASSUME IInv, NEW p \in Procs, ChooseWaitAny(p) \/ ChooseWaitSome(p) \/ ChooseTestAll(p)
  PROVE  IInv'
<1>1. PICK indices : phase = "node" /\ Complete(p, indices)
  BY DEF ChooseWaitAny, ChooseWaitSome, ChooseTestAll
<1> QED BY <1>1, CompleteKeeps

LEMMA ChooseFlag0Keeps ==
  ASSUME IInv, NEW p \in Procs, ChooseFlag0(p)
  PROVE  IInv'
<1>1. /\ phase = "node" /\ phase' = "match" /\ states' = [states EXCEPT ![p] = SetReady(@)]
      /\ todo' = todo /\ handles' = handles /\ error' = error /\ matched' = matched
  BY DEF ChooseFlag0
<1>2. StateOK(p, SetReady(states[p]), matched, MatchedBy(p, matched))
  BY ProcessIsOK, WithStatus DEF SetReady
<1>3. states \in [Procs -> StateRecords] /\ SetReady(states[p]) \in StateRecords
  BY <1>2 DEF IInv, StateOK
<1>4. states' \in [Procs -> StateRecords]
  BY <1>1, <1>3
<1>5. \A q \in Procs : states'[q] = IF q = p THEN SetReady(states[p]) ELSE states[q]
  BY <1>1, <1>3
<1>6. \A q \in Procs : StateOK(q, states'[q], matched, MatchedBy(q, matched))
  BY <1>2, <1>5, ProcessIsOK
<1>7. matched \subseteq Matchings
  BY DEF IInv
<1> QED BY <1>1, <1>4, <1>6, <1>7, SameHandles, OtherStepKeeps

LEMMA PidsHaveRanks ==
  ASSUME NEW c \in Comms, NEW q
  PROVE  /\ PidToRank(c, q) \in Int
         /\ q \in ToSet(Group[c]) => PidToRank(c, q) \in Ranks(c) /\ RankToPid(c, PidToRank(c, q)) = q
<1>1. PICK n \in Nat : n = Len(Group[c]) /\ DOMAIN Group[c] = 1 .. n
  BY RanksArePids
<1>2. PICK I : I = {i \in 1 .. n : Group[c][i] = q}
  OBVIOUS
<1>3. PidToRank(c, q) = (IF I # {} THEN Min(I) ELSE 0) - 1
  BY <1>1, <1>2 DEF PidToRank, SelectInSeq
<1>4. PICK k : k = IF I # {} THEN Min(I) ELSE 0
  OBVIOUS
<1>5. I \in SUBSET (1 .. n)
  BY <1>2
<1>6. k \in 0 .. n /\ (I # {} => k \in I)
  BY <1>4, <1>5, FirstPlace
<1>7. q \in ToSet(Group[c]) => I # {}
  BY <1>1, <1>2 DEF ToSet
<1>8. PidToRank(c, q) = k - 1
  BY <1>3, <1>4
<1>9. PidToRank(c, q) \in Int
  BY <1>6, <1>8
<1>10. ASSUME q \in ToSet(Group[c])
       PROVE  PidToRank(c, q) \in Ranks(c) /\ RankToPid(c, PidToRank(c, q)) = q
  <2>1. k \in 1 .. n /\ Group[c][k] = q
    BY <1>2, <1>6, <1>7, <1>10
  <2>2. k - 1 \in 0 .. n - 1 /\ (k - 1) + 1 = k
    BY <2>1
  <2> QED BY <1>1, <1>8, <2>1, <2>2 DEF Ranks, RankToPid
<1> QED BY <1>9, <1>10

\* S, the state of process p, becomes T with the promise pr of a message of the rank.
Promised(p, rank, S, T, pr) ==
  /\ S = states[p] /\ S.status = "Probe" /\ rank \in Promisable(p)
  /\ S \in StateRecords /\ T \in StateRecords
  /\ pr = [comm |-> S.probe_data.comm, source |-> S.probe_data.source,
           tag |-> S.probe_data.tag, rank |-> rank]
  /\ S.probe_data.comm \in CommsOf(p)
  /\ S.probe_data.source \in Ranks(S.probe_data.comm) \cup {AnySource}
  /\ S.probe_data.tag \in Tags \cup {AnyTag}
  /\ T.probe_promise = pr /\ T.active = S.active /\ T.finished = S.finished
  /\ T.persistent = S.persistent /\ T.log = S.log /\ T.closed = S.closed
  /\ T.status = S.status /\ T.tested = S.tested /\ T.probe_data = S.probe_data
  /\ states' = [states EXCEPT ![p] = T]
  /\ phase = "node" /\ phase' = "match"
  /\ todo' = todo /\ handles' = handles /\ error' = error /\ matched' = matched

\* What ChoosePromise promises.
LEMMA PromiseFields ==
  ASSUME IInv, NEW p \in Procs, ChoosePromise(p)
  PROVE  \E rank, S, T, pr : Promised(p, rank, S, T, pr)
<1>1. PICK rank, S, pr :
         /\ rank \in Promisable(p)
         /\ S = states[p]
         /\ pr = [comm |-> S.probe_data.comm, source |-> S.probe_data.source,
                  tag |-> S.probe_data.tag, rank |-> rank]
         /\ states' = [states EXCEPT ![p].probe_promise = pr]
  BY DEF ChoosePromise
<1> rank \in Promisable(p)
  BY <1>1
<1>2. /\ phase = "node" /\ phase' = "match"
      /\ todo' = todo /\ handles' = handles /\ error' = error /\ matched' = matched
  BY DEF ChoosePromise
<1>3. S.status = "Probe"
  BY <1>1 DEF Promisable
<1>4. S \in StateRecords /\ WaitIsRecorded(p, S) /\ states \in [Procs -> StateRecords]
  BY <1>1 DEF IInv, StateOK
<1>5. /\ S.probe_data.comm \in CommsOf(p)
      /\ S.probe_data.source \in Ranks(S.probe_data.comm) \cup {AnySource}
      /\ S.probe_data.tag \in Tags \cup {AnyTag}
  BY <1>3, <1>4 DEF WaitIsRecorded
<1>6. /\ S.probe_data.comm \in Comms /\ S.probe_data.source \in Int /\ S.probe_data.tag \in Int
  BY <1>4, <1>5 DEF StateRecords, CommsOf
<1>7. rank \in Int
  <2>1. CASE S.probe_data.source = AnySource
    <3>1. rank \in ProbeNondeterministic(p, S.probe_data.comm, S.probe_data.tag)
      BY <1>1, <2>1 DEF Promisable
    <3>2. PICK q \in Procs : rank = PidToRank(S.probe_data.comm, q)
      BY <3>1 DEF ProbeNondeterministic
    <3> QED BY <1>6, <3>2, PidsHaveRanks
  <2>2. CASE S.probe_data.source # AnySource
    <3>1. rank = S.probe_data.source
      BY <1>1, <2>2 DEF Promisable
    <3> QED BY <1>6, <3>1
  <2> QED BY <2>1, <2>2
<1>8. pr \in [comm : Comms \cup {0}, source : Int, tag : Int, rank : Int]
  BY <1>1, <1>6, <1>7
<1>9. PICK T : T = [S EXCEPT !.probe_promise = pr]
  OBVIOUS
<1>10. /\ T \in StateRecords /\ T.probe_promise = pr
       /\ T.active = S.active /\ T.finished = S.finished
       /\ T.persistent = S.persistent /\ T.log = S.log /\ T.closed = S.closed
       /\ T.status = S.status /\ T.tested = S.tested /\ T.probe_data = S.probe_data
  BY <1>4, <1>8, <1>9 DEF StateRecords
<1>11. states' = [states EXCEPT ![p] = T]
  BY <1>1, <1>4, <1>9
<1>12. Promised(p, rank, S, T, pr)
  BY <1>1, <1>2, <1>3, <1>4, <1>5, <1>10, <1>11 DEF Promised
<1> QED BY <1>12

LEMMA ChoosePromiseKeeps ==
  ASSUME IInv, NEW p \in Procs, ChoosePromise(p)
  PROVE  IInv'
<1>0. PICK rank, S, T, pr : Promised(p, rank, S, T, pr)
  BY PromiseFields
<1>1. /\ S = states[p] /\ S \in StateRecords /\ T \in StateRecords
      /\ pr.comm = S.probe_data.comm /\ S.probe_data.comm \in CommsOf(p)
      /\ T.probe_promise = pr /\ T.active = S.active /\ T.finished = S.finished
      /\ T.persistent = S.persistent /\ T.log = S.log /\ T.closed = S.closed
      /\ T.status = S.status /\ T.tested = S.tested /\ T.probe_data = S.probe_data
      /\ states' = [states EXCEPT ![p] = T]
      /\ phase = "node" /\ phase' = "match"
      /\ todo' = todo /\ handles' = handles /\ error' = error /\ matched' = matched
  BY <1>0 DEF Promised
<1>2. StateOK(p, S, matched, MatchedBy(p, matched))
  BY <1>1, ProcessIsOK
<1>3. WaitIsRecorded(p, T)
  <2>1. pr.comm = S.probe_data.comm
    BY <1>1
  <2> QED BY <1>1, <1>2, <2>1 DEF StateOK, WaitIsRecorded
<1>4. StateOK(p, T, matched, MatchedBy(p, matched))
  BY <1>1, <1>2, <1>3, SameRequests
<1>5. states \in [Procs -> StateRecords] /\ matched \subseteq Matchings
  BY DEF IInv
<1>6. states' \in [Procs -> StateRecords]
  BY <1>1, <1>5
<1>7. \A q \in Procs : states'[q] = IF q = p THEN T ELSE states[q]
  BY <1>1, <1>5
<1>8. \A q \in Procs : StateOK(q, states'[q], matched, MatchedBy(q, matched))
  BY <1>4, <1>7, ProcessIsOK
<1> QED BY <1>1, <1>5, <1>6, <1>8, SameHandles, OtherStepKeeps

LEMMA ConcludeKeeps ==
  ASSUME IInv, Conclude
  PROVE  IInv'
<1>1. /\ phase = "node" /\ phase' \in {"done", "deadlock"}
      /\ states' = states /\ todo' = todo /\ handles' = handles /\ error' = error
      /\ matched' = matched
  BY DEF Conclude
<1> QED BY <1>1 DEF IInv

LEMMA StutterKeeps ==
  ASSUME IInv, UNCHANGED vars
  PROVE  IInv'
BY DEF IInv, vars

-----------------------------------------------------------------------------
(* The inductive invariant holds in all reachable states. *)

LEMMA StepKeeps ==
  ASSUME IInv, NEW p \in Procs, Step(p)
  PROVE  IInv'
BY SendKeeps, RecvKeeps, SendrecvKeeps, IsendKeeps, IrecvKeeps, CreatePersistentKeeps, StartKeeps,
   Request_freeKeeps, ProbeKeeps, IprobeKeeps, WaitKeeps, WaitallKeeps, WaitForSomeKeeps,
   TestKeeps, TestallKeeps, ExitKeeps DEF Step

LEMMA NextKeeps ==
  ASSUME IInv, [Next]_vars
  PROVE  IInv'
<1>1. CASE \E p \in Procs : Step(p)
  BY <1>1, StepKeeps
<1>2. CASE Match
  BY <1>2, MatchKeeps
<1>3. CASE Resume
  BY <1>3, ResumeKeeps
<1>4. CASE ChooseMatching
  BY <1>4, ChooseMatchingKeeps
<1>5. CASE \E p \in Procs : \/ ChooseWaitAny(p) \/ ChooseWaitSome(p) \/ ChooseTestAll(p)
                            \/ ChooseFlag0(p) \/ ChoosePromise(p)
  BY <1>5, ChoicesKeep, ChooseFlag0Keeps, ChoosePromiseKeeps
<1>6. CASE Conclude
  BY <1>6, ConcludeKeeps
<1>7. CASE Stop
  BY <1>7, StutterKeeps DEF Stop
<1>8. CASE UNCHANGED vars
  BY <1>8, StutterKeeps
<1> QED BY <1>1, <1>2, <1>3, <1>4, <1>5, <1>6, <1>7, <1>8 DEF Next

LEMMA InitialStateIsOK ==
  ASSUME NEW p \in Procs
  PROVE  InitialState \in StateRecords /\ StateOK(p, InitialState, {}, MatchedBy(p, {}))
<1>1. PICK S : S = InitialState
  OBVIOUS
<1>2. /\ S.status = "Ready" /\ S.active = <<>> /\ S.finished = {} /\ S.persistent = {}
      /\ S.tested = <<>> /\ S.probe_data = NoProbe /\ S.probe_promise = NoPromise
      /\ S.log = <<>> /\ S.closed = {}
  BY <1>1 DEF InitialState
<1>3. S \in StateRecords
  <2>1. /\ <<>> \in Seq(Requests) /\ <<>> \in Seq(Operations)
        /\ <<>> \in Seq([id : Int, slot : 0 .. Slots])
    BY EmptySeq
  <2> QED BY <1>1, <2>1, Constants DEF InitialState, StateRecords, Statuses
<1>4. LiveRequests(S) = {} /\ ToSet(S.active) = {} /\ DOMAIN S.active = {} /\ Len(S.log) = 0
  <2>1. DOMAIN S.active = {} /\ Len(S.log) = 0
    BY <1>2, EmptySeq
  <2> QED BY <1>2, <2>1 DEF LiveRequests, ToSet
<1>5. PICK D : D = MatchedBy(p, {})
  OBVIOUS
<1>6. D = {}
  BY <1>5 DEF MatchedBy
<1>7. Accounted(S, D)
  BY <1>4, <1>6 DEF Accounted
<1>8. WaitIsRecorded(p, S)
  BY <1>2 DEF WaitIsRecorded, Completing
<1>9. IsFiniteSet(S.finished) /\ IsFiniteSet(S.persistent)
  BY <1>2, FS_EmptySet
<1>10. StateOK(p, S, {}, D)
  BY <1>2, <1>3, <1>4, <1>7, <1>8, <1>9 DEF StateOK
<1> QED BY <1>1, <1>3, <1>5, <1>10

LEMMA InitHolds ==
  ASSUME Init
  PROVE  IInv
<1>1. /\ states = [p \in Procs |-> InitialState] /\ todo \in Programs
      /\ handles = [p \in Procs |-> [i \in 1 .. Slots |-> RequestNull]]
      /\ phase = "match" /\ error.name = "none" /\ matched = {}
  BY DEF Init
<1>2. states \in [Procs -> StateRecords]
  BY <1>1, InitialStateIsOK
<1>3. \A p \in Procs : StateOK(p, states[p], matched, MatchedBy(p, matched))
  BY <1>1, InitialStateIsOK
<1>4. handles \in [Procs -> [1 .. Slots -> Nat \cup {RequestNull}]]
  BY <1>1
<1>5. DOMAIN todo = Procs /\ \A p \in Procs : todo[p] \in Seq(SUBSET MayCall(p))
  <2>1. DOMAIN todo = Procs /\ \A p \in Procs : todo[p] \in Seq(SUBSET ProgramCalls(p))
    BY <1>1, ProgramsAssumption
  <2>2. ASSUME NEW p \in Procs PROVE todo[p] \in Seq(SUBSET MayCall(p))
    <3>1. PICK t \in Seq(SUBSET ProgramCalls(p)) : t = todo[p]
      BY <2>1
    <3>2. ASSUME NEW n \in DOMAIN t PROVE t[n] \in SUBSET MayCall(p)
      BY <1>1, <3>1 DEF MayCall, ToSet
    <3>3. Len(t) \in Nat /\ t \in [1 .. Len(t) -> SUBSET MayCall(p)]
      BY <3>2, LenProperties
    <3>4. t \in Seq(SUBSET MayCall(p))
      BY <3>3
    <3> QED BY <3>1, <3>4
  <2> QED BY <2>1, <2>2
<1> QED BY <1>1, <1>2, <1>3, <1>4, <1>5 DEF IInv

\* The inductive invariant of the point-to-point core.
THEOREM RequestsAreAccounted == Spec => []IInv
<1>1. Init => IInv
  BY InitHolds
<1>2. IInv /\ [Next]_vars => IInv'
  BY NextKeeps
<1> QED BY <1>1, <1>2, PTL DEF Spec

-----------------------------------------------------------------------------
(* What the inductive invariant says *)

LEMMA IInvTypes ==
  ASSUME IInv
  PROVE  TypeOK
<1>1. ASSUME NEW p \in Procs, NEW S, S = states[p]
      PROVE  /\ S.status \in {"Running", "Ready", "Finished", "WaitAll", "WaitAny", "WaitSome",
                              "Test", "Probe"}
             /\ LiveRequests(S) \cup S.persistent \cup S.closed \subseteq Requests
             /\ S.log \in Seq(Operations)
             /\ S.tested \in Seq([id : Int, slot : 0 .. Slots])
             /\ S.tested # <<>> => S.status \in Completing
             /\ Slots > 0 /\ S.status \in Completing => S.tested # <<>>
             /\ S.probe_data # NoProbe <=> S.status = "Probe"
             /\ S.probe_promise # NoPromise => S.probe_promise.comm \in Comms
  <2>1. StateOK(p, S, matched, MatchedBy(p, matched)) /\ S \in StateRecords
    BY <1>1, ProcessIsOK
  <2>2. WaitIsRecorded(p, S)
    BY <2>1 DEF StateOK
  <2>3. /\ S.status \in Statuses /\ S.active \in Seq(Requests) /\ S.finished \subseteq Requests
        /\ S.persistent \subseteq Requests /\ S.closed \subseteq Requests
        /\ S.log \in Seq(Operations) /\ S.tested \in Seq([id : Int, slot : 0 .. Slots])
    BY <2>1 DEF StateRecords
  <2>4. ToSet(S.active) \subseteq Requests
    BY <2>3, ElementOfSeq, LenProperties DEF ToSet
  <2>5. S.probe_data # NoProbe <=> S.status = "Probe"
    <3>1. CASE S.status = "Probe"
      <4>1. S.probe_data.comm \in Comms
        BY <2>2, <3>1 DEF WaitIsRecorded, CommsOf
      <4>2. S.probe_data.comm # 0
        BY <4>1, GroupAssumption
      <4> QED BY <3>1, <4>2 DEF NoProbe
    <3>2. CASE S.status # "Probe"
      BY <2>2, <3>2 DEF WaitIsRecorded
    <3> QED BY <3>1, <3>2
  <2> QED BY <2>2, <2>3, <2>4, <2>5
       DEF Statuses, Completing, LiveRequests, WaitIsRecorded, CommsOf
<1>2. DOMAIN states = Procs
  BY DEF IInv
<1>3. /\ handles \in [Procs -> [1 .. Slots -> Nat \cup {RequestNull}]]
      /\ phase \in {"run", "match", "node", "done", "deadlock", "error"}
      /\ error.name # "none" <=> phase = "error"
  BY DEF IInv
<1> QED BY <1>1, <1>2, <1>3 DEF TypeOK, Completing

LEMMA MatchedIsMatchedBy ==
  ASSUME NEW p, NEW n
  PROVE  Matched(p, n) <=> n \in MatchedBy(p, matched)
BY DEF Matched, MatchedBy

LEMMA IInvConserves ==
  ASSUME IInv
  PROVE  Conservation
<1> SUFFICES ASSUME NEW p \in Procs, NEW n \in DOMAIN states[p].log
             PROVE  Cardinality({j \in DOMAIN states[p].active : states[p].active[j].serial = n})
                      = IF Matched(p, n) THEN 0 ELSE 1
  BY DEF Conservation
<1>1. PICK S, D : S = states[p] /\ D = MatchedBy(p, matched)
  OBVIOUS
<1>2. StateOK(p, S, matched, D) /\ S \in StateRecords
  BY <1>1, ProcessIsOK
<1>3. n \in 1 .. Len(S.log)
  BY <1>1, <1>2, LenProperties DEF StateRecords
<1>4. Accounted(S, D)
  BY <1>2 DEF StateOK
<1>5. PICK J : J = {j \in DOMAIN S.active : S.active[j].serial = n}
  OBVIOUS
<1>6. CASE n \in D
  <2>1. J = {}
    BY <1>4, <1>5, <1>6 DEF Accounted
  <2>2. Cardinality(J) = 0
    BY <2>1, FS_EmptySet
  <2> QED BY <1>1, <1>5, <1>6, <2>2, MatchedIsMatchedBy
<1>7. CASE n \notin D
  <2>1. PICK i \in DOMAIN S.active : S.active[i].serial = n
    BY <1>3, <1>4, <1>7 DEF Accounted
  <2>2. J = {i}
    BY <1>4, <1>5, <2>1 DEF Accounted
  <2>3. Cardinality(J) = 1
    BY <2>2, FS_Singleton
  <2> QED BY <1>1, <1>5, <1>7, <2>3, MatchedIsMatchedBy
<1> QED BY <1>6, <1>7

LEMMA IInvCompletes ==
  ASSUME IInv
  PROVE  CompletionFollowsMatching
<1> SUFFICES ASSUME NEW p \in Procs, NEW r \in states[p].closed
             PROVE  /\ r.type = TypeRendezvous => Matched(p, r.serial)
                    /\ IsReceive(r) =>
                         \E m \in matched : /\ m.dst = p /\ m.recv = r.serial
                                            /\ m.src = r.buffer.pid /\ m.send = r.buffer.serial
  BY DEF CompletionFollowsMatching
<1>1. StateOK(p, states[p], matched, MatchedBy(p, matched))
  BY ProcessIsOK
<1>2. r.peer # ProcNull
  BY <1>1 DEF StateOK
<1>3. Fulfilled(p, r, matched)
  BY <1>1, <1>2 DEF StateOK
<1> QED BY <1>3 DEF Fulfilled, Matched

LEMMA IInvReports ==
  ASSUME IInv
  PROVE  ActiveErrorIsReal
<1> SUFFICES ASSUME error.name = "ActivePersistentRequest"
             PROVE  LET S == states[error.pid]
                    IN /\ IsPersistent(S, error.id)
                       /\ \E r \in LiveRequests(S) :
                            /\ r.id = error.id
                            /\ r \in S.closed => r.type \in {TypeStd, TypeEager}
                                                 /\ r \in ToSet(S.active)
  BY DEF ActiveErrorIsReal
<1>1. PICK p \in Procs : p = error.pid
  BY DEF IInv
<1>2. PICK S : S = states[p]
  OBVIOUS
<1>3. IsPersistent(S, error.id) /\ error.id \in Ids(LiveRequests(S))
  BY <1>1, <1>2 DEF IInv
<1>4. PICK r \in LiveRequests(S) : r.id = error.id
  BY <1>3 DEF Ids
<1>5. StateOK(p, S, matched, MatchedBy(p, matched))
  BY <1>2, ProcessIsOK
<1>6. ASSUME r \in S.closed
      PROVE  r.type \in {TypeStd, TypeEager} /\ r \in ToSet(S.active)
  <2>1. r \in ToSet(S.active)
    BY <1>5, <1>6 DEF StateOK, LiveRequests
  <2>2. PICK i \in DOMAIN S.active : S.active[i] = r
    BY <2>1 DEF ToSet
  <2>3. ~(IsReceive(r) \/ r.type = TypeRendezvous)
    BY <1>5, <1>6, <2>2, ActiveIsNotClosed
  <2>4. r.type \in {TypeReceive, TypeStd, TypeEager, TypeRendezvous}
    BY <1>5 DEF StateOK, Legal
  <2> QED BY <2>1, <2>3, <2>4 DEF IsReceive
<1> QED BY <1>1, <1>2, <1>3, <1>4, <1>6

-----------------------------------------------------------------------------
(* The theorems *)

\* The states of the processes, their requests, handles and waits keep their types
\* whatever the programs do, and a blocking call always records what it waits for.
THEOREM TypesAreKept == Spec => []TypeOK
BY RequestsAreAccounted, IInvTypes, PTL

\* No matching loses a message or takes one twice: every operation that was posted is
\* active in one place, or has been matched and is active nowhere.
THEOREM NothingIsLostOrTakenTwice == Spec => []Conservation
BY RequestsAreAccounted, IInvConserves, PTL

\* What a wait or a test completes has been matched, and the buffer a receive unpacks
\* is that of the send it was matched with.
THEOREM CompletedWasMatched == Spec => []CompletionFollowsMatching
BY RequestsAreAccounted, IInvCompletes, PTL

\* A persistent request that MPI_Start reports as active has not been completed since
\* it was started, unless it is a buffered send whose message is still to be received.
THEOREM ReportedIsActive == Spec => []ActiveErrorIsReal
BY RequestsAreAccounted, IInvReports, PTL

-----------------------------------------------------------------------------
(***************************************************************************)
(* Ids identify requests, though new_request_id reuses them, if no         *)
(* MPI_Startall names a request twice.                                     *)
(***************************************************************************)

IsBuffered(r) == r.type \in {TypeStd, TypeEager}

\* The id of r is one of process p and of the type of r.
HasId(p, r) == \E k \in Nat : r.id = RequestId(p, r.type, k)

\* The ids of the requests that may be completed.
Held(S) == Ids((S.persistent \cup S.finished) \cup {r \in ToSet(S.active) : ~IsBuffered(r)})

DistinctIds(requests) ==
  \A i, j \in DOMAIN requests : requests[i].id = requests[j].id => i = j

\* Ids of requests of process p in state S: only a buffered send is active and finished.
IdsFit(p, S) ==
  /\ \A r \in LiveRequests(S) \cup S.persistent : HasId(p, r)
  /\ \A r, s \in S.persistent : r.id = s.id => r = s
  /\ \A r, s \in S.finished : r.id = s.id => r = s
  /\ DistinctIds(S.active)
  /\ \A r \in ToSet(S.active), s \in S.finished : r.id = s.id => r = s /\ IsBuffered(r)

\* The handles hs of a process in state S: each names a request that may be completed.
HandlesNamed(S, hs) ==
  /\ \A i \in 1 .. Slots : hs[i] \in Held(S) \cup {RequestNull}
  /\ \A i, j \in 1 .. Slots : hs[i] = hs[j] => i = j \/ hs[i] = RequestNull

\* A tested request that closing forgets has its handle where closing frees it, or none.
TestsNamed(S, hs) ==
  \A k \in DOMAIN S.tested :
    LET t == S.tested[k]
    IN t.id # RequestNull =>
         IF t.slot = 0 THEN IsPersistent(S, t.id) \/ \A i \in 1 .. Slots : hs[i] # t.id
         ELSE t.slot \in 1 .. Slots /\ hs[t.slot] = t.id

IdsOK(p, S, hs) == IdsFit(p, S) /\ HandlesNamed(S, hs) /\ TestsNamed(S, hs)

\* Calls of process p whose MPI_Startall names no request twice.
DistinctCalls(p) ==
  {call \in ProgramCalls(p) : call.op \in {"Start", "Startall"} => IsInjective(call.slots)}

AllIdsOK == \A p \in Procs : IdsOK(p, states[p], handles[p])

\* The inductive strengthening of IdsAreUnique.
IdsInv ==
  /\ AllIdsOK
  /\ \A p \in Procs : todo[p] \in Seq(SUBSET DistinctCalls(p))

\* MPI forbids to start a request twice, and the verifier does not check it.
DistinctStarts ==
  \A program \in Programs : \A p \in Procs : program[p] \in Seq(SUBSET DistinctCalls(p))

-----------------------------------------------------------------------------
(* Sequences of requests *)

\* Elements with ids of their own keep them when one of the elements is removed.
LEMMA RemovedIds ==
  ASSUME NEW X, NEW a \in Seq(X), NEW i \in DOMAIN a,
         DistinctIds(a),
         NEW t, t = RemoveAt(a, i)
  PROVE  /\ DistinctIds(t)
         /\ \A x \in ToSet(t) : x \in ToSet(a) /\ x.id # a[i].id
         /\ \A x \in ToSet(a) : x = a[i] \/ x \in ToSet(t)
<1>1. PICK n \in Nat : n = Len(a) /\ DOMAIN a = 1 .. n
  BY LenProperties
<1>2. /\ t \in Seq(X) /\ Len(t) = n - 1 /\ i \in 1 .. n
      /\ \A j \in 1 .. n - 1 : t[j] = a[IF j < i THEN j ELSE j + 1]
  BY <1>1, RemovingOne
<1>3. DOMAIN t = 1 .. n - 1
  BY <1>2, LenProperties
<1>4. ASSUME NEW j \in 1 .. n - 1, NEW k \in 1 .. n - 1, t[j].id = t[k].id
      PROVE  j = k
  <2>1. PICK u, v : u = (IF j < i THEN j ELSE j + 1) /\ v = (IF k < i THEN k ELSE k + 1)
    OBVIOUS
  <2>2. u \in 1 .. n /\ v \in 1 .. n /\ (u = v => j = k)
    BY <1>2, <2>1
  <2>3. t[j] = a[u] /\ t[k] = a[v]
    BY <1>2, <2>1
  <2> QED BY <1>1, <1>4, <2>2, <2>3 DEF DistinctIds
<1>5. /\ \A j \in DOMAIN t : \E k \in DOMAIN a : k # i /\ t[j] = a[k]
      /\ \A k \in DOMAIN a : k # i => \E j \in DOMAIN t : t[j] = a[k]
  <2>1. i \in 1 .. Len(a)
    BY <1>1
  <2>2. OthersStay(a, i, t)
    BY <2>1, WhatStays
  <2> QED BY <2>2 DEF OthersStay
<1>6. \A x \in ToSet(t) : x \in ToSet(a) /\ x.id # a[i].id
  BY <1>5 DEF ToSet, DistinctIds
<1>7. \A x \in ToSet(a) : x = a[i] \/ x \in ToSet(t)
  BY <1>5 DEF ToSet
<1> QED BY <1>3, <1>4, <1>6, <1>7 DEF DistinctIds

LEMMA AppendedIds ==
  ASSUME NEW X, NEW a \in Seq(X), NEW x \in X, \A y \in ToSet(a) : y.id # x.id,
         DistinctIds(a),
         NEW t, t = Append(a, x)
  PROVE  /\ DistinctIds(t)
         /\ ToSet(t) = ToSet(a) \cup {x}
<1>1. PICK n \in Nat :
        /\ DOMAIN a = 1 .. n /\ DOMAIN t = 1 .. n + 1
        /\ \A j \in 1 .. n : t[j] = a[j]
        /\ t[n + 1] = x /\ ToSet(t) = ToSet(a) \cup {x}
  BY Appended
<1>2. \A j \in 1 .. n : a[j] \in ToSet(a)
  BY <1>1 DEF ToSet
<1>3. \A j \in 1 .. n + 1 : j \in 1 .. n \/ j = n + 1
  OBVIOUS
<1>4. ASSUME NEW j \in 1 .. n + 1, NEW k \in 1 .. n + 1, t[j].id = t[k].id
      PROVE  j = k
  BY <1>1, <1>2, <1>3, <1>4 DEF DistinctIds
<1> QED BY <1>1, <1>4 DEF DistinctIds

-----------------------------------------------------------------------------
(* States *)

LEMMA SameIds ==
  ASSUME NEW p, NEW S, NEW T, IdsFit(p, S), T.active = S.active,
         T.finished \subseteq S.finished, T.persistent \subseteq S.persistent
  PROVE  IdsFit(p, T)
BY DEF IdsFit, LiveRequests

\* A request is activated whose id no live request has.
LEMMA ActivateIds ==
  ASSUME NEW p \in Procs, NEW S \in StateRecords, NEW r \in Requests, Legal(p, r),
         IdsFit(p, S), HasId(p, r), r.id \notin Ids(LiveRequests(S)),
         NEW A, A = Activate(S, p, r)
  PROVE  /\ IdsFit(p, A) /\ A.persistent = S.persistent /\ A.tested = S.tested
         /\ Held(A) = Held(S) \cup {r.id}
         /\ Ids(LiveRequests(A)) = Ids(LiveRequests(S)) \cup {r.id}
<1>1. A.persistent = S.persistent /\ A.tested = S.tested
  BY ActivateFields DEF Kept
<1>2. \A x \in LiveRequests(S) : x.id # r.id
  BY DEF Ids
<1>3. CASE r.peer = ProcNull
  <2>1. A.active = S.active /\ A.finished = S.finished \cup {r}
    BY <1>3, ActivateFields DEF PostsNothing
  <2>2. LiveRequests(A) = LiveRequests(S) \cup {r}
    BY <2>1 DEF LiveRequests
  <2>3. IdsFit(p, A)
    BY <1>1, <1>2, <2>1, <2>2 DEF IdsFit, LiveRequests
  <2>4. Held(A) = Held(S) \cup {r.id}
    BY <1>1, <2>1 DEF Held, Ids
  <2>5. Ids(LiveRequests(A)) = Ids(LiveRequests(S)) \cup {r.id}
    BY <2>2 DEF Ids
  <2> QED BY <1>1, <2>3, <2>4, <2>5
<1>4. CASE r.peer # ProcNull
  <2>1. PICK x : x = Posted(S, p, r)
    OBVIOUS
  <2>2. x \in Requests /\ x.id = r.id /\ x.type = r.type
    BY <1>4, <2>1, PostedFields
  <2>3. PICK a \in Seq(Requests) : a = S.active
    BY DEF StateRecords
  <2>4. /\ A.active = Append(a, x)
        /\ A.finished = IF IsBuffered(x) THEN S.finished \cup {x} ELSE S.finished
    <3>1. PostsOne(S, A, r, x)
      BY <1>4, <2>1, ActivateFields
    <3> QED BY <2>2, <2>3, <3>1 DEF PostsOne, IsBuffered
  <2>5. \A y \in LiveRequests(S) : y.id # x.id
    BY <1>2, <2>2
  <2>6. /\ DistinctIds(A.active)
        /\ ToSet(A.active) = ToSet(S.active) \cup {x}
    <3>1. \A y \in ToSet(a) : y.id # x.id
      BY <2>3, <2>5 DEF LiveRequests
    <3>2. DistinctIds(a)
      BY <2>3 DEF IdsFit
    <3>3. PICK t : t = Append(a, x)
      OBVIOUS
    <3>4. ToSet(t) = ToSet(a) \cup {x}
      BY <2>2, <3>3, Appended
    <3>5. DistinctIds(t)
      BY <2>2, <3>1, <3>2, <3>3, AppendedIds
    <3> QED BY <2>3, <2>4, <3>3, <3>4, <3>5
  <2>7. LiveRequests(A) = LiveRequests(S) \cup {x}
    BY <2>4, <2>6 DEF LiveRequests
  <2>8. HasId(p, x)
    BY <2>2 DEF HasId
  <2>9. /\ \A y, z \in A.finished : y.id = z.id => y = z
        /\ \A y \in ToSet(A.active), z \in A.finished : y.id = z.id => y = z /\ IsBuffered(y)
    <3>1. /\ \A y, z \in S.finished : y.id = z.id => y = z
          /\ \A y \in ToSet(S.active), z \in S.finished : y.id = z.id => y = z /\ IsBuffered(y)
          /\ \A z \in S.finished : z.id # x.id
          /\ \A z \in ToSet(S.active) : z.id # x.id
      BY <2>5 DEF IdsFit, LiveRequests
    <3> QED BY <2>4, <2>6, <3>1
  <2>10. IdsFit(p, A)
    <3>1. \A y \in LiveRequests(S) \cup S.persistent : HasId(p, y)
      BY DEF IdsFit
    <3>2. \A y, z \in S.persistent : y.id = z.id => y = z
      BY DEF IdsFit
    <3> QED BY <1>1, <2>6, <2>7, <2>8, <2>9, <3>1, <3>2 DEF IdsFit
  <2>11. Held(A) = Held(S) \cup {r.id}
    <3>1. CASE IsBuffered(x)
      BY <1>1, <2>2, <2>4, <2>6, <3>1 DEF Held, Ids
    <3>2. CASE ~IsBuffered(x)
      BY <1>1, <2>2, <2>4, <2>6, <3>2 DEF Held, Ids
    <3> QED BY <3>1, <3>2
  <2>12. Ids(LiveRequests(A)) = Ids(LiveRequests(S)) \cup {r.id}
    BY <2>2, <2>7 DEF Ids
  <2> QED BY <1>1, <2>10, <2>11, <2>12
<1> QED BY <1>3, <1>4

\* An active request is matched: it leaves for the finished ones, or is there already.
Leaves(S, T, i, x) ==
  /\ S.active \in Seq(Requests) /\ i \in DOMAIN S.active
  /\ x.id = S.active[i].id /\ x.type = S.active[i].type
  /\ T.active = RemoveAt(S.active, i) /\ T.persistent = S.persistent /\ T.tested = S.tested
  /\ T.finished = IF IsBuffered(x) THEN S.finished ELSE S.finished \cup {x}

LEMMA RemoveIds ==
  ASSUME NEW p \in Procs, NEW S, IdsFit(p, S), NEW i, NEW x, NEW T, Leaves(S, T, i, x)
  PROVE  IdsFit(p, T) /\ Held(S) \subseteq Held(T)
<1>0. /\ S.active \in Seq(Requests) /\ i \in DOMAIN S.active
      /\ x.id = S.active[i].id /\ x.type = S.active[i].type
      /\ T.active = RemoveAt(S.active, i) /\ T.persistent = S.persistent /\ T.tested = S.tested
      /\ T.finished = IF IsBuffered(x) THEN S.finished ELSE S.finished \cup {x}
  BY DEF Leaves
<1>1. PICK a \in Seq(Requests) : a = S.active
  BY <1>0
<1>2. /\ DistinctIds(T.active)
      /\ \A y \in ToSet(T.active) : y \in ToSet(S.active) /\ y.id # x.id
      /\ \A y \in ToSet(S.active) : y = S.active[i] \/ y \in ToSet(T.active)
  <2>1. DistinctIds(a)
    BY <1>1 DEF IdsFit
  <2> QED BY <1>0, <1>1, <2>1, RemovedIds
<1>3. PICK r : r = S.active[i]
  OBVIOUS
<1>4. r \in ToSet(S.active) /\ r.id = x.id /\ r.type = x.type
  BY <1>0, <1>3 DEF ToSet
<1>5. /\ \A y, z \in S.finished : y.id = z.id => y = z
      /\ \A y \in ToSet(S.active), z \in S.finished : y.id = z.id => y = z /\ IsBuffered(y)
      /\ \A y \in LiveRequests(S) \cup S.persistent : HasId(p, y)
      /\ \A y, z \in S.persistent : y.id = z.id => y = z
  BY DEF IdsFit
<1>6. HasId(p, x)
  <2>1. HasId(p, r)
    BY <1>0, <1>4, <1>5 DEF LiveRequests
  <2> QED BY <1>0, <1>4, <2>1 DEF HasId
<1>7. \A y \in LiveRequests(T) \cup T.persistent : HasId(p, y)
  BY <1>0, <1>2, <1>5, <1>6 DEF LiveRequests
<1>8. ~IsBuffered(x) => \A z \in S.finished : z.id # x.id
  BY <1>0, <1>4, <1>5 DEF IsBuffered
<1>9. \A y, z \in T.finished : y.id = z.id => y = z
  BY <1>0, <1>5, <1>8
<1>10. \A y \in ToSet(T.active), z \in T.finished : y.id = z.id => y = z /\ IsBuffered(y)
  BY <1>0, <1>2, <1>5
<1>11. IdsFit(p, T)
  BY <1>0, <1>2, <1>5, <1>7, <1>9, <1>10 DEF IdsFit
<1>12. Held(S) \subseteq Held(T)
  <2>1. ASSUME NEW y \in (S.persistent \cup S.finished) \cup {z \in ToSet(S.active) : ~IsBuffered(z)}
        PROVE  y.id \in Held(T)
    <3>1. CASE y \in S.persistent \cup S.finished
      BY <1>0, <3>1 DEF Held, Ids
    <3>2. CASE y \in ToSet(S.active) /\ ~IsBuffered(y) /\ y # r
      BY <1>0, <1>2, <1>3, <3>2 DEF Held, Ids
    <3>3. CASE y = r /\ ~IsBuffered(y)
      <4>1. x \in T.finished
        BY <1>0, <1>4, <3>3 DEF IsBuffered
      <4> QED BY <1>0, <1>4, <3>3, <4>1 DEF Held, Ids
    <3> QED BY <2>1, <3>1, <3>2, <3>3
  <2> QED BY <2>1 DEF Held, Ids
<1> QED BY <1>11, <1>12

LEMMA MoreHeld ==
  ASSUME NEW S, NEW T, NEW hs, HandlesNamed(S, hs), Held(S) \subseteq Held(T)
  PROVE  HandlesNamed(T, hs)
BY DEF HandlesNamed

LEMMA HeldIsKnown ==
  ASSUME NEW S, NEW id, id \notin Ids(LiveRequests(S) \cup S.persistent)
  PROVE  id \notin Held(S) /\ id \notin Ids(LiveRequests(S)) /\ id \notin Ids(S.persistent)
BY DEF Held, Ids, LiveRequests

\* T has the requests of S.
SameLists(S, T) ==
  T.active = S.active /\ T.finished = S.finished /\ T.persistent = S.persistent

LEMMA SameListsKeep ==
  ASSUME NEW p, NEW S, NEW T, IdsFit(p, S), SameLists(S, T)
  PROVE  IdsFit(p, T) /\ Held(T) = Held(S)
BY SameIds DEF SameLists, Held

LEMMA Listed ==
  ASSUME NEW S \in StateRecords
  PROVE  /\ \A status, tested : /\ SameLists(S, SetWait(S, status, tested))
                                /\ SetWait(S, status, tested).tested = tested
         /\ \A call, flag : /\ SameLists(S, SetProbe(S, call, flag))
                            /\ SetProbe(S, call, flag).tested = <<>>
         /\ SameLists(S, SetReady(S)) /\ SetReady(S).tested = <<>>
         /\ SameLists(S, SetRunning(S)) /\ SetRunning(S).tested = <<>>
         /\ SameLists(S, SetFinished(S)) /\ SetFinished(S).tested = <<>>
<1>1. PICK R : R = ResetState(S)
  OBVIOUS
<1>2. SameLists(S, R) /\ R.tested = <<>> /\ R \in StateRecords
  <2>1. <<>> \in Seq([id : Int, slot : 0 .. Slots])
    BY EmptySeq
  <2> QED BY <1>1, <2>1, Constants DEF ResetState, StateRecords, SameLists
<1>3. ASSUME NEW status, NEW tested
      PROVE  /\ SameLists(S, SetWait(S, status, tested))
             /\ SetWait(S, status, tested).tested = tested
  <2>1. SetWait(S, status, tested) = [R EXCEPT !.status = status, !.tested = tested]
    BY <1>1 DEF SetWait
  <2> QED BY <1>2, <2>1 DEF StateRecords, SameLists
<1>4. ASSUME NEW call, NEW flag
      PROVE  /\ SameLists(S, SetProbe(S, call, flag))
             /\ SetProbe(S, call, flag).tested = <<>>
  <2>1. PICK pd : pd = [comm |-> call.comm, source |-> call.source, tag |-> call.tag,
                        flag |-> flag]
    OBVIOUS
  <2>2. SetProbe(S, call, flag) = [R EXCEPT !.status = "Probe", !.probe_data = pd]
    BY <1>1, <2>1 DEF SetProbe
  <2> QED BY <1>2, <2>2 DEF StateRecords, SameLists
<1>5. ASSUME NEW status
      PROVE  /\ SameLists(S, [R EXCEPT !.status = status])
             /\ [R EXCEPT !.status = status].tested = <<>>
  BY <1>2 DEF StateRecords, SameLists
<1>6. /\ SameLists(S, SetReady(S)) /\ SetReady(S).tested = <<>>
      /\ SameLists(S, SetRunning(S)) /\ SetRunning(S).tested = <<>>
      /\ SameLists(S, SetFinished(S)) /\ SetFinished(S).tested = <<>>
  BY <1>1, <1>5 DEF SetReady, SetRunning, SetFinished
<1> QED BY <1>3, <1>4, <1>6

LEMMA NoTests ==
  ASSUME NEW S, NEW hs, S.tested = <<>>
  PROVE  TestsNamed(S, hs)
BY DEF TestsNamed

-----------------------------------------------------------------------------
(* Handles *)

\* A handle gets the id of a new request.
LEMMA NewHandle ==
  ASSUME NEW S, NEW T, NEW hs \in Handles, HandlesNamed(S, hs), NEW slot \in 1 .. Slots,
         NEW id, id \in Held(T), Held(S) \subseteq Held(T), id \notin Held(S), id # RequestNull
  PROVE  HandlesNamed(T, [hs EXCEPT ![slot] = id])
<1>1. PICK g : g = [hs EXCEPT ![slot] = id]
  OBVIOUS
<1>2. \A i \in 1 .. Slots : g[i] = IF i = slot THEN id ELSE hs[i]
  BY <1>1 DEF Handles
<1>3. \A i \in 1 .. Slots : hs[i] # id
  BY DEF HandlesNamed
<1>4. HandlesNamed(T, g)
  BY <1>2, <1>3 DEF HandlesNamed
<1> QED BY <1>1, <1>4

\* A handle is freed.
LEMMA FreedHandle ==
  ASSUME NEW S, NEW T, NEW hs \in Handles, HandlesNamed(S, hs), NEW slot \in 1 .. Slots,
         \A id \in Held(S) : id = hs[slot] \/ id \in Held(T)
  PROVE  /\ HandlesNamed(T, [hs EXCEPT ![slot] = RequestNull])
         /\ \A i \in 1 .. Slots : /\ hs[slot] # RequestNull
                                  => [hs EXCEPT ![slot] = RequestNull][i] # hs[slot]
<1>1. PICK g : g = [hs EXCEPT ![slot] = RequestNull]
  OBVIOUS
<1>2. \A i \in 1 .. Slots : g[i] = IF i = slot THEN RequestNull ELSE hs[i]
  BY <1>1 DEF Handles
<1>3. \A i \in 1 .. Slots : i # slot => hs[i] # hs[slot] \/ hs[i] = RequestNull
  BY DEF HandlesNamed
<1>4. HandlesNamed(T, g)
  BY <1>2, <1>3 DEF HandlesNamed
<1>5. \A i \in 1 .. Slots : hs[slot] # RequestNull => g[i] # hs[slot]
  BY <1>2, <1>3
<1> QED BY <1>1, <1>4, <1>5

\* Closing frees the handles of what it forgets.
LEMMA CloseIds ==
  ASSUME IInv, IdsInv, NEW p \in Procs, NEW indices, indices \subseteq DOMAIN states[p].tested,
         NEW C, C = Close(states[p], indices)
  PROVE  IdsFit(p, C) /\ HandlesNamed(C, FreeHandles(p, indices))
<1>1. PICK S, hs : S = states[p] /\ hs = handles[p]
  OBVIOUS
<1>2. /\ S \in StateRecords /\ hs \in Handles
      /\ IdsFit(p, S) /\ HandlesNamed(S, hs) /\ TestsNamed(S, hs)
  BY <1>1, ProcessIsOK, HandlesAreNumbers DEF IdsInv, AllIdsOK, IdsOK
<1>3. StateOK(p, S, matched, MatchedBy(p, matched))
  BY <1>1, ProcessIsOK
<1>4. /\ C.active = S.active /\ C.persistent = S.persistent
      /\ C.finished = {r \in S.finished : r.id \notin IdsAt(S, indices)}
  BY <1>1, <1>3, CloseOK
<1>5. IdsFit(p, C)
  BY <1>2, <1>4, SameIds
<1>6. PICK freed, g :
        /\ freed = {S.tested[i].slot :
                      i \in {i \in indices : S.tested[i].id # RequestNull /\ ~IsPersistent(S, S.tested[i].id)}}
        /\ g = [i \in DOMAIN hs |-> IF i \in freed THEN RequestNull ELSE hs[i]]
  OBVIOUS
<1>7. FreeHandles(p, indices) = g
  BY <1>1, <1>6 DEF FreeHandles
<1>8. \A i \in 1 .. Slots : g[i] = IF i \in freed THEN RequestNull ELSE hs[i]
  BY <1>2, <1>6 DEF Handles
<1>9. ASSUME NEW i \in 1 .. Slots, i \notin freed, hs[i] # RequestNull
      PROVE  hs[i] \in Held(C)
  <2>1. PICK r : /\ r \in (S.persistent \cup S.finished) \cup {x \in ToSet(S.active) : ~IsBuffered(x)}
                 /\ r.id = hs[i]
    <3>1. hs[i] \in Held(S)
      BY <1>2, <1>9 DEF HandlesNamed
    <3> QED BY <3>1 DEF Held, Ids
  <2>2. CASE r \notin S.finished
    BY <1>4, <2>1, <2>2 DEF Held, Ids
  <2>3. CASE r \in S.finished /\ r.id \notin IdsAt(S, indices)
    BY <1>4, <2>1, <2>3 DEF Held, Ids
  <2>4. CASE r.id \in IdsAt(S, indices)
    <3>1. PICK k \in indices : S.tested[k].id = hs[i]
      BY <2>1, <2>4 DEF IdsAt
    <3>2. CASE IsPersistent(S, hs[i])
      BY <1>4, <3>2 DEF IsPersistent, Held, Ids
    <3>3. CASE ~IsPersistent(S, hs[i])
      <4>1. PICK t : t = S.tested[k]
        OBVIOUS
      <4>2. IF t.slot = 0 THEN IsPersistent(S, t.id) \/ \A j \in 1 .. Slots : hs[j] # t.id
            ELSE t.slot \in 1 .. Slots /\ hs[t.slot] = t.id
        BY <1>1, <1>2, <1>9, <3>1, <4>1 DEF TestsNamed
      <4>3. t.slot \in 1 .. Slots /\ hs[t.slot] = hs[i]
        BY <3>1, <3>3, <4>1, <4>2
      <4>4. t.slot = i
        BY <1>2, <1>9, <4>3 DEF HandlesNamed
      <4>5. i \in freed
        BY <1>6, <1>9, <3>1, <3>3, <4>1, <4>4
      <4> QED BY <1>9, <4>5
    <3> QED BY <3>2, <3>3
  <2> QED BY <2>2, <2>3, <2>4
<1>10. HandlesNamed(C, g)
  BY <1>2, <1>8, <1>9 DEF HandlesNamed
<1> QED BY <1>5, <1>7, <1>10

-----------------------------------------------------------------------------
(* Calls *)

LEMMA ProceedIds ==
  ASSUME IInv, IdsInv, NEW p \in Procs, NEW S, NEW hs, Proceed(p, S, hs), IdsOK(p, S, hs)
  PROVE  AllIdsOK'
<1>1. /\ states' = [states EXCEPT ![p] = S] /\ handles' = [handles EXCEPT ![p] = hs]
      /\ DOMAIN states = Procs /\ DOMAIN handles = Procs
  BY DEF Proceed, IInv
<1>2. \A q \in Procs : /\ states'[q] = IF q = p THEN S ELSE states[q]
                       /\ handles'[q] = IF q = p THEN hs ELSE handles[q]
  BY <1>1
<1> QED BY <1>2 DEF IdsInv, AllIdsOK

LEMMA SameAll ==
  ASSUME IdsInv, states' = states, handles' = handles
  PROVE  AllIdsOK'
BY DEF IdsInv, AllIdsOK

LEMMA FailIds ==
  ASSUME IdsInv, NEW name, NEW p, NEW id, Fail(name, p, id)
  PROVE  AllIdsOK'
BY SameAll DEF Fail

\* What a call finds.
LEMMA CallIds ==
  ASSUME IInv, IdsInv, NEW p \in Procs, NEW names, NEW call \in Calls(p, names)
  PROVE  /\ states[p] \in StateRecords /\ IsFiniteSet(states[p].finished)
         /\ IsFiniteSet(states[p].persistent) /\ states[p].tested = <<>>
         /\ IdsFit(p, states[p]) /\ HandlesNamed(states[p], handles[p])
         /\ handles[p] \in Handles /\ IdsOK(p, states[p], handles[p])
<1>1. states[p].status = "Running"
  BY CallIsNext
<1>2. WaitIsRecorded(p, states[p])
  BY ProcessIsOK DEF StateOK
<1>3. states[p].tested = <<>>
  BY <1>1, <1>2 DEF WaitIsRecorded, Completing
<1> QED BY <1>3, ProcessIsOK, HandlesAreNumbers DEF IdsInv, AllIdsOK, IdsOK

\* The id of a new request is its own.
LEMMA NewIds ==
  ASSUME NEW S \in StateRecords, IsFiniteSet(S.finished), IsFiniteSet(S.persistent),
         NEW p \in Procs, NEW r, r.type \in Types, r.id = NewRequestId(S, p, r.type)
  PROVE  /\ HasId(p, r) /\ r.id # RequestNull
         /\ r.id \notin Held(S) /\ r.id \notin Ids(LiveRequests(S)) /\ r.id \notin Ids(S.persistent)
<1>1. PICK t \in Types : t = r.type
  OBVIOUS
<1>2. /\ \E k \in Nat : NewRequestId(S, p, t) = RequestId(p, t, k)
      /\ NewRequestId(S, p, t) \in Nat
      /\ NewRequestId(S, p, t) \notin Ids(LiveRequests(S) \cup S.persistent)
  BY NewIdIsFree
<1>3. r.id \notin Ids(LiveRequests(S) \cup S.persistent) /\ r.id # RequestNull
  BY <1>1, <1>2, Constants
<1>4. HasId(p, r)
  BY <1>1, <1>2 DEF HasId
<1> QED BY <1>3, <1>4, HeldIsKnown

\* Waiting for requests that no handle names.
LEMMA FreshTests ==
  ASSUME NEW S, NEW hs, HandlesNamed(S, hs), NEW n \in Nat, NEW ids, ids \in [1 .. n -> Int],
         \A k \in 1 .. n : ids[k] \notin Held(S),
         NEW T, T.tested = Tested(ids)
  PROVE  TestsNamed(T, hs)
<1>1. T.tested = [k \in 1 .. n |-> [id |-> ids[k], slot |-> 0]]
  BY DEF Tested
<1>2. ASSUME NEW k \in 1 .. n, ids[k] # RequestNull PROVE \A i \in 1 .. Slots : hs[i] # ids[k]
  BY <1>2 DEF HandlesNamed
<1> QED BY <1>1, <1>2 DEF TestsNamed

\* A request is posted and waited for.
LEMMA PostIds ==
  ASSUME NEW p \in Procs, NEW S \in StateRecords, IdsFit(p, S),
         NEW hs, HandlesNamed(S, hs), NEW r \in Requests, Legal(p, r), HasId(p, r),
         r.id \notin Held(S), r.id \notin Ids(LiveRequests(S))
  PROVE  IdsOK(p, SetWait(Activate(S, p, r), "WaitAll", Tested(<<r.id>>)), hs)
<1>1. PICK A : A = Activate(S, p, r)
  OBVIOUS
<1>2. IdsFit(p, A) /\ Held(A) = Held(S) \cup {r.id}
  BY <1>1, ActivateIds
<1>3. A \in StateRecords
  BY <1>1, ActivateFields DEF Kept
<1>4. PICK ids : ids = <<r.id>>
  OBVIOUS
<1>5. PICK n \in Nat : n = 1
  OBVIOUS
<1>6. ids \in [1 .. n -> Int] /\ \A k \in 1 .. n : ids[k] \notin Held(S)
  BY <1>4, <1>5 DEF Requests
<1>7. PICK W : W = SetWait(A, "WaitAll", Tested(ids))
  OBVIOUS
<1>8. SameLists(A, W) /\ W.tested = Tested(ids)
  BY <1>3, <1>7, Listed
<1>9. IdsFit(p, W) /\ Held(W) = Held(A)
  BY <1>2, <1>8, SameListsKeep
<1>10. HandlesNamed(W, hs)
  BY <1>2, <1>9, MoreHeld
<1>11. TestsNamed(W, hs)
  BY <1>6, <1>8, FreshTests
<1> QED BY <1>1, <1>4, <1>7, <1>9, <1>10, <1>11 DEF IdsOK

LEMMA SendIds ==
  ASSUME IInv, IdsInv, NEW p \in Procs, Send(p)
  PROVE  AllIdsOK'
<1>1. PICK call, r :
         /\ call \in Calls(p, {"Send"})
         /\ r = SendRequest(states[p], p, call.mode, call)
         /\ Proceed(p, SetWait(Activate(states[p], p, r), "WaitAll", Tested(<<r.id>>)), handles[p])
  BY DEF Send
<1> call \in Calls(p, {"Send"})
  BY <1>1
<1>2. call \in MayCall(p) /\ call.op \in {"Send"}
  BY CallIsNext, Zenon
<1>3. /\ r \in Requests /\ Legal(p, r) /\ r.type \in Types
      /\ r.id = NewRequestId(states[p], p, r.type)
  BY <1>1, <1>2, CallFields, ProcessIsOK, SendRequestFits
<1>4. /\ HasId(p, r) /\ r.id \notin Held(states[p])
      /\ r.id \notin Ids(LiveRequests(states[p]))
  BY <1>3, CallIds, NewIds
<1>5. IdsOK(p, SetWait(Activate(states[p], p, r), "WaitAll", Tested(<<r.id>>)), handles[p])
  BY <1>3, <1>4, CallIds, PostIds
<1> QED BY <1>1, <1>5, ProceedIds

LEMMA RecvIds ==
  ASSUME IInv, IdsInv, NEW p \in Procs, Recv(p)
  PROVE  AllIdsOK'
<1>1. PICK call, r :
         /\ call \in Calls(p, {"Recv"})
         /\ r = ReceiveRequest(states[p], p, call)
         /\ Proceed(p, IF call.source = ProcNull THEN states[p]
                       ELSE SetWait(Activate(states[p], p, r), "WaitAll", Tested(<<r.id>>)),
                    handles[p])
  BY DEF Recv
<1> call \in Calls(p, {"Recv"})
  BY <1>1
<1>2. call \in MayCall(p) /\ call.op \in {"Recv"}
  BY CallIsNext, Zenon
<1>3. /\ r \in Requests /\ Legal(p, r) /\ r.type \in Types
      /\ r.id = NewRequestId(states[p], p, r.type)
  BY <1>1, <1>2, CallFields, ProcessIsOK, ReceiveRequestFits
<1>4. /\ HasId(p, r) /\ r.id \notin Held(states[p])
      /\ r.id \notin Ids(LiveRequests(states[p]))
  BY <1>3, CallIds, NewIds
<1>5. /\ IdsOK(p, SetWait(Activate(states[p], p, r), "WaitAll", Tested(<<r.id>>)), handles[p])
      /\ IdsOK(p, states[p], handles[p])
  BY <1>3, <1>4, CallIds, PostIds
<1> QED BY <1>1, <1>5, ProceedIds

LEMMA SendrecvIds ==
  ASSUME IInv, IdsInv, NEW p \in Procs, Sendrecv(p)
  PROVE  AllIdsOK'
<1>1. PICK call, s, S, c, r :
         /\ call \in Calls(p, {"Sendrecv"})
         /\ s = SendRequest(states[p], p, "Send", call)
         /\ S = Activate(states[p], p, s)
         /\ c = [comm |-> call.comm, source |-> call.source, tag |-> call.recvtag,
                 size |-> call.size]
         /\ r = ReceiveRequest(S, p, c)
         /\ IF call.source = ProcNull THEN Fail("Crash", p, s.id)
            ELSE Proceed(p, SetWait(Activate(S, p, r), "WaitAll", Tested(<<s.id, r.id>>)),
                         handles[p])
  BY DEF Sendrecv
<1> call \in Calls(p, {"Sendrecv"})
  BY <1>1
<1>2. call \in MayCall(p) /\ call.op \in {"Sendrecv"}
  BY CallIsNext, Zenon
<1>3. CASE call.source = ProcNull
  <2>1. Fail("Crash", p, s.id)
    BY <1>1, <1>3
  <2> QED BY <2>1, FailIds
<1>4. CASE call.source # ProcNull
  <2>1. /\ call.comm \in CommsOf(p) /\ call.target \in Ranks(call.comm) \cup {ProcNull}
        /\ call.tag \in Tags /\ call.size \in Nat
        /\ call.source \in Ranks(call.comm) \cup {ProcNull, AnySource}
        /\ call.recvtag \in Tags \cup {AnyTag} /\ call.source \in Sources(p, call.comm)
    BY <1>2, CallFields
  <2>2. /\ s \in Requests /\ Legal(p, s) /\ s.type \in Types
        /\ s.id = NewRequestId(states[p], p, s.type)
    BY <1>1, <2>1, ProcessIsOK, SendRequestFits
  <2>3. /\ HasId(p, s) /\ s.id \notin Held(states[p])
        /\ s.id \notin Ids(LiveRequests(states[p]))
    BY <2>2, CallIds, NewIds
  <2>4. IdsFit(p, S) /\ Held(S) = Held(states[p]) \cup {s.id}
    BY <1>1, <2>2, <2>3, CallIds, ActivateIds
  <2>5. StateOK(p, S, matched, MatchedBy(p, matched))
    BY <1>1, <2>2, ProcessIsOK, ActivateOK
  <2>6. S \in StateRecords /\ IsFiniteSet(S.finished) /\ IsFiniteSet(S.persistent)
    BY <2>5 DEF StateOK
  <2>7. c.comm = call.comm /\ c.source = call.source /\ c.tag = call.recvtag /\ c.size = call.size
    BY <1>1
  <2>8. /\ r \in Requests /\ Legal(p, r) /\ r.type \in Types /\ r.id = NewRequestId(S, p, r.type)
    BY <1>1, <2>1, <2>6, <2>7, ReceiveRequestFits
  <2>9. HasId(p, r) /\ r.id \notin Held(S) /\ r.id \notin Ids(LiveRequests(S))
    BY <2>6, <2>8, NewIds
  <2>10. PICK A : A = Activate(S, p, r)
    OBVIOUS
  <2>11. IdsFit(p, A) /\ Held(A) = Held(S) \cup {r.id}
    BY <2>4, <2>6, <2>8, <2>9, <2>10, ActivateIds
  <2>12. A \in StateRecords
    BY <2>6, <2>8, <2>10, ActivateFields DEF Kept
  <2>13. PICK ids : ids = <<s.id, r.id>>
    OBVIOUS
  <2>14. PICK n \in Nat : n = 2
    OBVIOUS
  <2>15. ids \in [1 .. n -> Int] /\ \A k \in 1 .. n : ids[k] \notin Held(states[p])
    <3>1. \A k \in 1 .. n : k = 1 \/ k = 2
      BY <2>14
    <3>2. ids[1] = s.id /\ ids[2] = r.id
      BY <2>13
    <3>3. r.id \notin Held(states[p])
      BY <2>4, <2>9
    <3>4. ids \in [1 .. n -> Int]
      BY <2>2, <2>8, <2>13, <2>14 DEF Requests
    <3> QED BY <2>3, <3>1, <3>2, <3>3, <3>4
  <2>16. PICK W : W = SetWait(A, "WaitAll", Tested(ids))
    OBVIOUS
  <2>17. SameLists(A, W) /\ W.tested = Tested(ids)
    BY <2>12, <2>16, Listed
  <2>18. IdsFit(p, W) /\ Held(W) = Held(A)
    BY <2>11, <2>17, SameListsKeep
  <2>19. HandlesNamed(states[p], handles[p])
    BY CallIds
  <2>20. HandlesNamed(W, handles[p])
    BY <2>4, <2>11, <2>18, <2>19, MoreHeld
  <2>21. TestsNamed(W, handles[p])
    BY <2>15, <2>17, <2>19, FreshTests
  <2>22. Proceed(p, W, handles[p])
    BY <1>1, <1>4, <2>10, <2>13, <2>16
  <2> QED BY <2>18, <2>20, <2>21, <2>22, ProceedIds DEF IdsOK
<1> QED BY <1>3, <1>4

\* A request is posted, and its id goes to a handle.
LEMMA PostHandleIds ==
  ASSUME IInv, IdsInv, NEW p \in Procs, states[p].tested = <<>>,
         states[p] \in StateRecords, IsFiniteSet(states[p].finished),
         IsFiniteSet(states[p].persistent), IdsFit(p, states[p]),
         HandlesNamed(states[p], handles[p]), handles[p] \in Handles,
         NEW r \in Requests, Legal(p, r), r.type \in Types,
         r.id = NewRequestId(states[p], p, r.type),
         NEW slot \in 1 .. Slots, Proceed(p, Activate(states[p], p, r), SetHandle(p, slot, r.id))
  PROVE  AllIdsOK'
<1>6. PICK S, hs : S = states[p] /\ hs = handles[p]
  OBVIOUS
<1>8. /\ HasId(p, r) /\ r.id # RequestNull /\ r.id \notin Held(S)
      /\ r.id \notin Ids(LiveRequests(S))
  BY <1>6, NewIds
<1>9. PICK A : A = Activate(S, p, r)
  OBVIOUS
<1>10. IdsFit(p, A) /\ A.tested = S.tested /\ Held(A) = Held(S) \cup {r.id}
  BY <1>6, <1>8, <1>9, ActivateIds
<1>12. HandlesNamed(A, [hs EXCEPT ![slot] = r.id])
  BY <1>6, <1>8, <1>10, NewHandle
<1>13. IdsOK(p, A, SetHandle(p, slot, r.id))
  BY <1>6, <1>10, <1>12, NoTests DEF IdsOK, SetHandle
<1> QED BY <1>6, <1>9, <1>13, ProceedIds

LEMMA IsendIds ==
  ASSUME IInv, IdsInv, NEW p \in Procs, Isend(p)
  PROVE  AllIdsOK'
<1>1. PICK call, r :
         /\ call \in Calls(p, {"Isend"})
         /\ r = SendRequest(states[p], p, call.mode, call)
         /\ Proceed(p, Activate(states[p], p, r), SetHandle(p, call.slot, r.id))
  BY DEF Isend
<1> call \in Calls(p, {"Isend"})
  BY <1>1
<1>2. call \in MayCall(p) /\ call.op \in {"Isend"}
  BY CallIsNext, Zenon
<1>3. /\ r \in Requests /\ Legal(p, r) /\ r.type \in Types
      /\ r.id = NewRequestId(states[p], p, r.type)
  BY <1>1, <1>2, CallFields, ProcessIsOK, SendRequestFits
<1>4. call.slot \in 1 .. Slots
  BY <1>2, CallFields
<1> QED BY <1>1, <1>3, <1>4, CallIds, PostHandleIds

LEMMA IrecvIds ==
  ASSUME IInv, IdsInv, NEW p \in Procs, Irecv(p)
  PROVE  AllIdsOK'
<1>1. PICK call, r :
         /\ call \in Calls(p, {"Irecv"})
         /\ r = ReceiveRequest(states[p], p, call)
         /\ Proceed(p, Activate(states[p], p, r), SetHandle(p, call.slot, r.id))
  BY DEF Irecv
<1> call \in Calls(p, {"Irecv"})
  BY <1>1
<1>2. call \in MayCall(p) /\ call.op \in {"Irecv"}
  BY CallIsNext, Zenon
<1>3. /\ r \in Requests /\ Legal(p, r) /\ r.type \in Types
      /\ r.id = NewRequestId(states[p], p, r.type)
  BY <1>1, <1>2, CallFields, ProcessIsOK, ReceiveRequestFits
<1>4. call.slot \in 1 .. Slots
  BY <1>2, CallFields
<1> QED BY <1>1, <1>3, <1>4, CallIds, PostHandleIds

LEMMA CreatePersistentIds ==
  ASSUME IInv, IdsInv, NEW p \in Procs, CreatePersistent(p)
  PROVE  AllIdsOK'
<1>1. PICK call, r :
         /\ call \in Calls(p, {"Send_init", "Recv_init"})
         /\ r = IF call.op = "Send_init" THEN SendRequest(states[p], p, call.mode, call)
                ELSE ReceiveRequest(states[p], p, call)
         /\ Proceed(p, [states[p] EXCEPT !.persistent = @ \cup {r}], SetHandle(p, call.slot, r.id))
  BY DEF CreatePersistent
<1> call \in Calls(p, {"Send_init", "Recv_init"})
  BY <1>1
<1>2. call \in MayCall(p) /\ call.op \in {"Send_init", "Recv_init"}
  BY CallIsNext, Zenon
<1>3. r \in Requests /\ r.type \in Types /\ r.id = NewRequestId(states[p], p, r.type)
  <2>1. CASE call.op = "Send_init"
    BY <1>1, <1>2, <2>1, CallFields, ProcessIsOK, SendRequestFits
  <2>2. CASE call.op = "Recv_init"
    BY <1>1, <1>2, <2>2, CallFields, ProcessIsOK, ReceiveRequestFits
  <2> QED BY <1>2, <2>1, <2>2
<1>4. PICK S, hs : S = states[p] /\ hs = handles[p]
  OBVIOUS
<1>5. /\ S \in StateRecords /\ IsFiniteSet(S.finished) /\ IsFiniteSet(S.persistent)
      /\ S.tested = <<>> /\ IdsFit(p, S) /\ HandlesNamed(S, hs) /\ hs \in Handles
  BY <1>4, CallIds
<1>6. /\ HasId(p, r) /\ r.id # RequestNull /\ r.id \notin Held(S)
      /\ r.id \notin Ids(S.persistent)
  BY <1>3, <1>4, <1>5, NewIds
<1>7. PICK T : T = [S EXCEPT !.persistent = S.persistent \cup {r}]
  OBVIOUS
<1>8. /\ T.active = S.active /\ T.finished = S.finished /\ T.tested = S.tested
      /\ T.persistent = S.persistent \cup {r}
  BY <1>5, <1>7 DEF StateRecords
<1>9. IdsFit(p, T)
  <2>1. \A x \in S.persistent : x.id # r.id
    BY <1>6 DEF Ids
  <2> QED BY <1>5, <1>6, <1>8, <2>1 DEF IdsFit, LiveRequests
<1>10. Held(S) \subseteq Held(T) /\ r.id \in Held(T)
  BY <1>8 DEF Held, Ids
<1>11. call.slot \in 1 .. Slots
  BY <1>2, CallFields
<1>12. HandlesNamed(T, [hs EXCEPT ![call.slot] = r.id])
  BY <1>5, <1>6, <1>10, <1>11, NewHandle
<1>13. IdsOK(p, T, SetHandle(p, call.slot, r.id))
  BY <1>4, <1>5, <1>8, <1>9, <1>12, NoTests DEF IdsOK, SetHandle
<1> QED BY <1>1, <1>4, <1>7, <1>13, ProceedIds

\* T follows from S when process p starts its persistent requests with the ids.
Follows(p, S, T, ids) ==
  /\ IdsFit(p, T) /\ T.persistent = S.persistent /\ T.tested = S.tested
  /\ Held(S) \subseteq Held(T)
  /\ Ids(LiveRequests(T)) = Ids(LiveRequests(S)) \cup ids

LEMMA StartedIds ==
  ASSUME NEW p \in Procs, NEW M, NEW D, NEW S, StateOK(p, S, M, D), IdsFit(p, S),
         NEW ids, NEW n \in Nat, n = Len(ids),
         \A k \in 1 .. n : ids[k] \in Ids(S.persistent) /\ ids[k] \notin Ids(LiveRequests(S)),
         DOMAIN ids = 1 .. n, IsInjective(ids)
  PROVE  \E started : Follows(p, S, Started(S, p, ids), started)
<1>a. \A k \in 1 .. n : ids[k] \in Ids(S.persistent)
  OBVIOUS
<1>1. PICK f : /\ f[0] = S /\ f[n] = Started(S, p, ids)
               /\ \A k \in 1 .. n : \E r \in S.persistent :
                    r.id = ids[k] /\ f[k] = Activate(f[k - 1], p, r)
  BY <1>a, StartedBySteps, SMTT(20)
<1>2. \A r \in S.persistent : r \in Requests /\ Legal(p, r) /\ HasId(p, r)
  <2>1. \A r \in S.persistent : r \in Requests /\ Legal(p, r)
    BY DEF StateOK, StateRecords
  <2> QED BY <2>1 DEF IdsFit
<1> DEFINE Until(k) == {ids[j] : j \in 1 .. k}
<1>3. PICK Bad :
        Bad = {k \in 0 .. n : ~(StateOK(p, f[k], M, D) /\ Follows(p, S, f[k], Until(k)))}
  OBVIOUS
<1>4. Bad = {}
  <2> SUFFICES ASSUME Bad # {} PROVE FALSE
    OBVIOUS
  <2>1. PICK m \in Bad : \A k \in Bad : m <= k
    <3>1. Bad \in SUBSET Nat
      BY <1>3
    <3> QED BY <3>1, SmallestNumber
  <2>2. m # 0
    <3>1. Until(0) = {}
      OBVIOUS
    <3>2. Follows(p, S, S, {})
      BY DEF Follows
    <3> QED BY <1>1, <1>3, <2>1, <3>1, <3>2
  <2>3. m \in 1 .. n /\ m - 1 \in 0 .. n /\ ~(m <= m - 1)
    BY <1>3, <2>1, <2>2
  <2>4. StateOK(p, f[m - 1], M, D) /\ Follows(p, S, f[m - 1], Until(m - 1))
    BY <1>3, <2>1, <2>3
  <2>5. PICK r \in S.persistent : r.id = ids[m] /\ f[m] = Activate(f[m - 1], p, r)
    BY <1>1, <2>3
  <2>6. StateOK(p, f[m], M, D)
    BY <1>2, <2>4, <2>5, ActivateOK
  <2>7. r.id \notin Until(m - 1)
    <3>1. \A j \in 1 .. m - 1 : j \in 1 .. n /\ j # m
      BY <2>3
    <3> QED BY <2>3, <2>5, <3>1 DEF IsInjective
  <2>8. Until(m) = Until(m - 1) \cup {r.id}
    <3>1. \A j : j \in 1 .. m <=> j \in 1 .. m - 1 \/ j = m
      BY <2>3
    <3> QED BY <2>5, <3>1
  <2>9. PICK B, A : B = f[m - 1] /\ A = f[m]
    OBVIOUS
  <2>10. B \in StateRecords /\ Follows(p, S, B, Until(m - 1))
    BY <2>4, <2>9 DEF StateOK
  <2> HIDE DEF Until
  <2>11. r.id \notin Ids(LiveRequests(B))
    BY <2>3, <2>5, <2>7, <2>10 DEF Follows
  <2>12. /\ IdsFit(p, A) /\ A.persistent = B.persistent /\ A.tested = B.tested
         /\ Held(A) = Held(B) \cup {r.id}
         /\ Ids(LiveRequests(A)) = Ids(LiveRequests(B)) \cup {r.id}
    <3>1. IdsFit(p, B)
      BY <2>10 DEF Follows
    <3>2. A = Activate(B, p, r)
      BY <2>5, <2>9
    <3> QED BY <1>2, <2>10, <2>11, <3>1, <3>2, ActivateIds
  <2>13. Follows(p, S, A, Until(m))
    BY <2>8, <2>10, <2>12 DEF Follows
  <2> QED BY <1>3, <2>1, <2>6, <2>9, <2>13
<1>5. n \in 0 .. n
  OBVIOUS
<1>6. Follows(p, S, f[n], Until(n))
  BY <1>3, <1>4, <1>5
<1> QED BY <1>1, <1>6

LEMMA StartIds ==
  ASSUME IInv, IdsInv, NEW p \in Procs, Start(p)
  PROVE  AllIdsOK'
<1>1. PICK call, S, ids, refused, name, id :
         /\ call \in Calls(p, {"Start", "Startall"})
         /\ S = states[p]
         /\ ids = [i \in DOMAIN call.slots |-> handles[p][call.slots[i]]]
         /\ refused = {i \in DOMAIN ids : ~IsPersistent(S, ids[i])
                                           \/ ids[i] \in Ids(LiveRequests(S))}
         /\ IF refused # {} THEN Fail(name, p, id) ELSE Proceed(p, Started(S, p, ids), handles[p])
  BY DEF Start
<1>b. PICK hs : hs = handles[p]
  OBVIOUS
<1> call \in Calls(p, {"Start", "Startall"})
  BY <1>1
<1>2. call \in MayCall(p) /\ call.op \in {"Start", "Startall"}
  BY CallIsNext, Zenon
<1>3. call.slots \in Seq(1 .. Slots)
  BY <1>2, CallFields
<1>4. IsInjective(call.slots)
  <2>1. todo[p] \in Seq(SUBSET DistinctCalls(p)) /\ todo[p] # <<>> /\ call \in Head(todo[p])
    BY DEF Calls, IdsInv
  <2>2. call \in DistinctCalls(p)
    BY <2>1, HeadTailProperties
  <2> QED BY <1>2, <2>2 DEF DistinctCalls
<1>5. PICK n \in Nat : n = Len(call.slots) /\ DOMAIN call.slots = 1 .. n
  BY <1>3, LenProperties
<1>6. /\ \A i \in 1 .. n : call.slots[i] \in 1 .. Slots /\ ids[i] = hs[call.slots[i]]
      /\ ids \in [1 .. n -> Int]
  <2>1. \A i \in 1 .. n : call.slots[i] \in 1 .. Slots
    BY <1>3, <1>5, ElementOfSeq
  <2> QED BY <1>1, <1>b, <1>5, <2>1, HandlesAreNumbers
<1>7. n = Len(ids) /\ DOMAIN ids = 1 .. n
  <2>1. DOMAIN ids = 1 .. n
    BY <1>6
  <2>2. ids \in Seq(Int)
    BY <1>6, SeqDef
  <2> QED BY <2>1, <2>2, LenProperties
<1>8. CASE refused # {}
  BY <1>1, <1>8, FailIds
<1>9. CASE refused = {}
  <2>1. \A k \in 1 .. n : ids[k] \in Ids(S.persistent) /\ ids[k] \notin Ids(LiveRequests(S))
    BY <1>1, <1>7, <1>9 DEF IsPersistent
  <2>2. /\ StateOK(p, S, matched, MatchedBy(p, matched)) /\ IdsFit(p, S)
        /\ HandlesNamed(S, hs) /\ S.tested = <<>>
    BY <1>1, <1>b, ProcessIsOK, CallIds
  <2>3. \A k \in 1 .. n : ids[k] # RequestNull
    <3>1. \A r \in S.persistent : r.id \in Nat
      BY <1>1, ProcessIsOK DEF StateRecords, Requests
    <3> QED BY <2>1, <3>1, Constants DEF Ids
  <2>4. IsInjective(ids)
    <3>1. \A j, k \in 1 .. n : call.slots[j] = call.slots[k] => j = k
      BY <1>4, <1>5 DEF IsInjective
    <3> QED BY <1>6, <1>7, <2>2, <2>3, <3>1 DEF HandlesNamed, IsInjective
  <2>5. PICK T, started : T = Started(S, p, ids) /\ Follows(p, S, T, started)
    BY <1>7, <2>1, <2>2, <2>4, StartedIds
  <2>6. IdsFit(p, T) /\ HandlesNamed(T, hs) /\ T.tested = <<>>
    BY <2>2, <2>5, MoreHeld DEF Follows
  <2>7. Proceed(p, T, hs)
    BY <1>1, <1>b, <1>9, <2>5
  <2> QED BY <2>6, <2>7, NoTests, ProceedIds DEF IdsOK
<1> QED BY <1>8, <1>9

LEMMA Request_freeIds ==
  ASSUME IInv, IdsInv, NEW p \in Procs, Request_free(p)
  PROVE  AllIdsOK'
<1>1. PICK call, S, id, name :
         /\ call \in Calls(p, {"Request_free"})
         /\ S = states[p] /\ id = handles[p][call.slot]
         /\ \/ Fail(name, p, id)
            \/ Proceed(p, [S EXCEPT !.persistent = {r \in @ : r.id # id}],
                       SetHandle(p, call.slot, RequestNull))
  BY DEF Request_free
<1> call \in Calls(p, {"Request_free"})
  BY <1>1
<1>2. call \in MayCall(p) /\ call.op \in {"Request_free"}
  BY CallIsNext, Zenon
<1>3. call.slot \in 1 .. Slots
  BY <1>2, CallFields
<1>4. CASE Fail(name, p, id)
  BY <1>4, FailIds
<1>5. CASE Proceed(p, [S EXCEPT !.persistent = {r \in @ : r.id # id}],
                   SetHandle(p, call.slot, RequestNull))
  <2>1. PICK hs, f, T : /\ hs = handles[p] /\ f = {r \in S.persistent : r.id # id}
                        /\ T = [S EXCEPT !.persistent = f]
    OBVIOUS
  <2>2. /\ S \in StateRecords /\ IdsFit(p, S) /\ HandlesNamed(S, hs) /\ hs \in Handles
        /\ S.tested = <<>>
    BY <1>1, <2>1, CallIds
  <2>3. /\ T.active = S.active /\ T.finished = S.finished /\ T.persistent = f
        /\ T.tested = S.tested
    BY <2>1, <2>2 DEF StateRecords
  <2>4. IdsFit(p, T)
    BY <2>1, <2>2, <2>3, SameIds
  <2>5. \A i \in Held(S) : i = hs[call.slot] \/ i \in Held(T)
    BY <1>1, <2>1, <2>3 DEF Held, Ids
  <2>6. HandlesNamed(T, [hs EXCEPT ![call.slot] = RequestNull])
    BY <1>3, <2>2, <2>5, FreedHandle
  <2>7. IdsOK(p, T, SetHandle(p, call.slot, RequestNull))
    BY <2>1, <2>2, <2>3, <2>4, <2>6, NoTests DEF IdsOK, SetHandle
  <2>8. Proceed(p, T, SetHandle(p, call.slot, RequestNull))
    BY <1>5, <2>1, <2>2 DEF StateRecords
  <2> QED BY <2>7, <2>8, ProceedIds
<1> QED BY <1>1, <1>4, <1>5

\* The requests stay; p waits for some of them or for nothing.
LEMMA WaitIds ==
  ASSUME IInv, IdsInv, NEW p \in Procs, NEW names, NEW call \in Calls(p, names),
         NEW T, SameLists(states[p], T), NEW hs, HandlesNamed(states[p], hs), TestsNamed(T, hs),
         Proceed(p, T, hs)
  PROVE  AllIdsOK'
<1>1. IdsFit(p, T) /\ Held(T) = Held(states[p])
  BY CallIds, SameListsKeep
<1>2. HandlesNamed(T, hs)
  BY <1>1, MoreHeld
<1> QED BY <1>1, <1>2, ProceedIds DEF IdsOK

LEMMA ProbeIds ==
  ASSUME IInv, IdsInv, NEW p \in Procs, Probe(p) \/ Iprobe(p)
  PROVE  AllIdsOK'
<1>1. PICK call, T, flag :
         /\ call \in Calls(p, {"Probe", "Iprobe"}) /\ Proceed(p, T, handles[p])
         /\ T \in {states[p], SetReady(states[p]), SetProbe(states[p], call, flag)}
  <2>1. CASE Probe(p)
    BY <2>1 DEF Probe, Calls
  <2>2. CASE Iprobe(p)
    BY <2>2 DEF Iprobe, Calls
  <2> QED BY <2>1, <2>2
<1> call \in Calls(p, {"Probe", "Iprobe"})
  BY <1>1
<1>2. SameLists(states[p], T) /\ T.tested = <<>>
  <2>1. states[p] \in StateRecords /\ states[p].tested = <<>>
    BY CallIds
  <2>2. CASE T = states[p]
    BY <2>1, <2>2 DEF SameLists
  <2>3. CASE T = SetReady(states[p])
    BY <2>1, <2>3, Listed
  <2>4. CASE T = SetProbe(states[p], call, flag)
    BY <2>1, <2>4, Listed
  <2> QED BY <1>1, <2>2, <2>3, <2>4
<1>3. HandlesNamed(states[p], handles[p])
  BY CallIds
<1> QED BY <1>1, <1>2, <1>3, NoTests, WaitIds

\* Tests of requests in the places of their handles.
LEMMA PlacedTests ==
  ASSUME NEW T, NEW hs, NEW ids, ids \in [1 .. Slots -> Int], T.tested = TestedInPlace(ids),
         \A k \in 1 .. Slots : ids[k] \in {hs[k], RequestNull}
  PROVE  TestsNamed(T, hs)
<1>1. T.tested = [k \in 1 .. Slots |-> [id |-> ids[k], slot |-> k]]
  BY DEF TestedInPlace
<1>2. \A k \in 1 .. Slots : k # 0
  BY ProtocolAssumption
<1> QED BY <1>1, <1>2 DEF TestsNamed

LEMMA WaitForSomeIds ==
  ASSUME IInv, IdsInv, NEW p \in Procs, WaitForSome(p)
  PROVE  AllIdsOK'
<1>1. PICK call, ids, status, T, name, id :
         /\ call \in Calls(p, {"Waitany", "Waitsome"})
         /\ ids = [i \in DOMAIN handles[p] |->
                     IF handles[p][i] \in Ids(LiveRequests(states[p])) THEN handles[p][i]
                     ELSE RequestNull]
         /\ T \in {states[p], SetWait(states[p], status, TestedInPlace(ids))}
         /\ Fail(name, p, id) \/ Proceed(p, T, handles[p])
  BY DEF WaitForSome
<1> call \in Calls(p, {"Waitany", "Waitsome"})
  BY <1>1
<1>2. PICK hs : hs = handles[p]
  OBVIOUS
<1>3. /\ hs \in [1 .. Slots -> Int] /\ HandlesNamed(states[p], hs)
      /\ states[p] \in StateRecords /\ states[p].tested = <<>>
  BY <1>2, CallIds, HandlesAreNumbers
<1>4. ids \in [1 .. Slots -> Int] /\ \A k \in 1 .. Slots : ids[k] \in {hs[k], RequestNull}
  BY <1>1, <1>2, <1>3, Constants
<1>5. SameLists(states[p], T) /\ TestsNamed(T, hs)
  <2>1. CASE T = states[p]
    BY <1>3, <2>1, NoTests DEF SameLists
  <2>2. CASE T = SetWait(states[p], status, TestedInPlace(ids))
    <3>1. SameLists(states[p], T) /\ T.tested = TestedInPlace(ids)
      BY <1>3, <2>2, Listed
    <3> QED BY <1>4, <3>1, PlacedTests
  <2> QED BY <1>1, <2>1, <2>2
<1>6. CASE Fail(name, p, id)
  BY <1>6, FailIds
<1>7. CASE Proceed(p, T, handles[p])
  BY <1>2, <1>3, <1>5, <1>7, WaitIds
<1> QED BY <1>1, <1>6, <1>7

LEMMA TestallIds ==
  ASSUME IInv, IdsInv, NEW p \in Procs, Testall(p)
  PROVE  AllIdsOK'
<1>1. PICK call, T, name, id :
         /\ call \in Calls(p, {"Testall"})
         /\ T = SetWait(states[p], "Test", TestedInPlace(handles[p]))
         /\ Fail(name, p, id) \/ Proceed(p, T, handles[p])
  BY DEF Testall
<1> call \in Calls(p, {"Testall"})
  BY <1>1
<1>2. PICK hs : hs = handles[p]
  OBVIOUS
<1>3. /\ hs \in [1 .. Slots -> Int] /\ HandlesNamed(states[p], hs)
      /\ states[p] \in StateRecords
  BY <1>2, CallIds, HandlesAreNumbers
<1>4. SameLists(states[p], T) /\ T.tested = TestedInPlace(hs)
  BY <1>1, <1>2, <1>3, Listed
<1>5. TestsNamed(T, hs)
  BY <1>3, <1>4, PlacedTests
<1>6. CASE Fail(name, p, id)
  BY <1>6, FailIds
<1>7. CASE Proceed(p, T, handles[p])
  BY <1>2, <1>3, <1>4, <1>5, <1>7, WaitIds
<1> QED BY <1>1, <1>6, <1>7

LEMMA TestIds ==
  ASSUME IInv, IdsInv, NEW p \in Procs, Test(p)
  PROVE  AllIdsOK'
<1>1. PICK call, t, T, name, id :
         /\ call \in Calls(p, {"Test"})
         /\ t = [id |-> handles[p][call.slot], slot |-> call.slot]
         /\ T = SetWait(states[p], "Test", <<t>>)
         /\ Fail(name, p, id) \/ Proceed(p, T, handles[p])
  BY DEF Test
<1> call \in Calls(p, {"Test"})
  BY <1>1
<1>2. call \in MayCall(p) /\ call.op \in {"Test"}
  BY CallIsNext, Zenon
<1>3. call.slot \in 1 .. Slots /\ call.slot # 0
  BY <1>2, CallFields, ProtocolAssumption
<1>4. SameLists(states[p], T) /\ T.tested = <<t>>
  BY <1>1, CallIds, Listed
<1>5. TestsNamed(T, handles[p])
  <2>1. t.id = handles[p][call.slot] /\ t.slot = call.slot
    BY <1>1
  <2>2. \A k \in DOMAIN T.tested : T.tested[k] = t
    BY <1>4
  <2> QED BY <1>3, <2>1, <2>2 DEF TestsNamed
<1>6. CASE Fail(name, p, id)
  BY <1>6, FailIds
<1>7. CASE Proceed(p, T, handles[p])
  BY <1>4, <1>5, <1>7, CallIds, WaitIds
<1> QED BY <1>1, <1>6, <1>7

LEMMA WaitOneIds ==
  ASSUME IInv, IdsInv, NEW p \in Procs, Wait(p)
  PROVE  AllIdsOK'
<1>1. PICK call, id, ids, T, name :
         /\ call \in Calls(p, {"Wait"})
         /\ id = handles[p][call.slot] /\ ids = <<id>>
         /\ T = SetWait(states[p], "WaitAll", Tested(ids))
         /\ \/ Fail(name, p, id)
            \/ Proceed(p, T, SetHandle(p, call.slot, Nulled(p, ids)[1]))
  BY DEF Wait
<1> call \in Calls(p, {"Wait"})
  BY <1>1
<1>2. call \in MayCall(p) /\ call.op \in {"Wait"}
  BY CallIsNext, Zenon
<1>3. call.slot \in 1 .. Slots
  BY <1>2, CallFields
<1>4. PICK S, hs, g : /\ S = states[p] /\ hs = handles[p]
                      /\ g = SetHandle(p, call.slot, Nulled(p, ids)[1])
  OBVIOUS
<1>5. S \in StateRecords /\ HandlesNamed(S, hs) /\ hs \in Handles
  BY <1>4, CallIds
<1>6. SameLists(S, T) /\ T.tested = Tested(ids)
  BY <1>1, <1>4, <1>5, Listed
<1>7. g = [hs EXCEPT ![call.slot] = IF IsPersistent(S, id) THEN id ELSE RequestNull]
  <2>1. Nulled(p, ids)[1] = IF IsPersistent(S, id) THEN id ELSE RequestNull
    <3>1. 1 \in DOMAIN ids /\ ids[1] = id
      BY <1>1
    <3> QED BY <1>4, <3>1 DEF Nulled
  <2> QED BY <1>4, <2>1 DEF SetHandle
<1>8. /\ HandlesNamed(S, g)
      /\ id # RequestNull => IsPersistent(S, id) \/ \A i \in 1 .. Slots : g[i] # id
  <2>1. CASE IsPersistent(S, id)
    <3>1. g = hs
      BY <1>1, <1>3, <1>4, <1>5, <1>7, <2>1 DEF Handles
    <3> QED BY <1>5, <2>1, <3>1
  <2>2. CASE ~IsPersistent(S, id)
    <3>1. id = hs[call.slot] /\ g = [hs EXCEPT ![call.slot] = RequestNull]
      BY <1>1, <1>4, <1>7, <2>2
    <3>2. /\ HandlesNamed(S, [hs EXCEPT ![call.slot] = RequestNull])
          /\ \A i \in 1 .. Slots : /\ hs[call.slot] # RequestNull
                                   => [hs EXCEPT ![call.slot] = RequestNull][i] # hs[call.slot]
      BY <1>3, <1>5, FreedHandle
    <3> QED BY <3>1, <3>2
  <2> QED BY <2>1, <2>2
<1>9. TestsNamed(T, g)
  <2>1. T.tested = [k \in 1 .. 1 |-> [id |-> id, slot |-> 0]]
    <3>1. DOMAIN ids = 1 .. 1 /\ \A k \in 1 .. 1 : ids[k] = id
      BY <1>1
    <3> QED BY <1>6, <3>1 DEF Tested
  <2>2. IsPersistent(S, id) => IsPersistent(T, id)
    BY <1>6 DEF SameLists, IsPersistent
  <2> QED BY <1>8, <2>1, <2>2 DEF TestsNamed
<1>10. CASE Fail(name, p, id)
  BY <1>10, FailIds
<1>11. CASE Proceed(p, T, SetHandle(p, call.slot, Nulled(p, ids)[1]))
  BY <1>4, <1>6, <1>8, <1>9, <1>11, WaitIds
<1> QED BY <1>1, <1>10, <1>11

LEMMA WaitallIds ==
  ASSUME IInv, IdsInv, NEW p \in Procs, Waitall(p)
  PROVE  AllIdsOK'
<1>1. PICK call, T, name, id :
         /\ call \in Calls(p, {"Waitall"})
         /\ T = SetWait(states[p], "WaitAll", Tested(handles[p]))
         /\ Fail(name, p, id) \/ Proceed(p, T, Nulled(p, handles[p]))
  BY DEF Waitall
<1> call \in Calls(p, {"Waitall"})
  BY <1>1
<1>2. PICK S, hs, g : S = states[p] /\ hs = handles[p] /\ g = Nulled(p, hs)
  OBVIOUS
<1>3. S \in StateRecords /\ HandlesNamed(S, hs) /\ hs \in [1 .. Slots -> Int]
  BY <1>2, CallIds, HandlesAreNumbers
<1>4. SameLists(S, T) /\ T.tested = Tested(hs)
  BY <1>1, <1>2, <1>3, Listed
<1>5. \A i \in 1 .. Slots : g[i] = IF IsPersistent(S, hs[i]) THEN hs[i] ELSE RequestNull
  BY <1>2, <1>3 DEF Nulled
<1>6. HandlesNamed(S, g)
  BY <1>3, <1>5 DEF HandlesNamed
<1>7. TestsNamed(T, g)
  <2>1. T.tested = [k \in 1 .. Slots |-> [id |-> hs[k], slot |-> 0]]
    BY <1>3, <1>4 DEF Tested
  <2>2. \A i : IsPersistent(S, i) => IsPersistent(T, i)
    BY <1>4 DEF SameLists, IsPersistent
  <2> QED BY <1>5, <2>1, <2>2 DEF TestsNamed
<1>8. CASE Fail(name, p, id)
  BY <1>8, FailIds
<1>9. CASE Proceed(p, T, Nulled(p, handles[p]))
  BY <1>2, <1>4, <1>6, <1>7, <1>9, WaitIds
<1> QED BY <1>1, <1>8, <1>9

LEMMA ExitIds ==
  ASSUME IInv, IdsInv, NEW p \in Procs, Exit(p)
  PROVE  AllIdsOK'
<1>1. PICK T : T = SetFinished(states[p])
  OBVIOUS
<1>2. \A q \in Procs : /\ states'[q] = IF q = p THEN T ELSE states[q]
                       /\ handles'[q] = handles[q]
  BY <1>1 DEF Exit, IInv
<1>3. SameLists(states[p], T) /\ T.tested = <<>>
  BY <1>1, ProcessIsOK, Listed
<1>4. IdsFit(p, states[p]) /\ HandlesNamed(states[p], handles[p])
  BY DEF IdsInv, AllIdsOK, IdsOK
<1>5. IdsOK(p, T, handles[p])
  BY <1>3, <1>4, SameListsKeep, MoreHeld, NoTests DEF IdsOK
<1> QED BY <1>2, <1>5 DEF IdsInv, AllIdsOK

LEMMA StepIds ==
  ASSUME IInv, IdsInv, NEW p \in Procs, Step(p)
  PROVE  AllIdsOK'
BY SendIds, RecvIds, SendrecvIds, IsendIds, IrecvIds, CreatePersistentIds, StartIds,
   Request_freeIds, ProbeIds, WaitOneIds, WaitallIds, WaitForSomeIds, TestIds, TestallIds,
   ExitIds DEF Step

-----------------------------------------------------------------------------
(* Matching *)

LEMMA KeptIds ==
  ASSUME NEW p, NEW S, NEW T, NEW hs, IdsOK(p, S, hs), IdsFit(p, T), Held(S) \subseteq Held(T),
         T.persistent = S.persistent, T.tested = S.tested
  PROVE  IdsOK(p, T, hs)
BY MoreHeld DEF IdsOK, TestsNamed, IsPersistent

LEMMA FinishReceiveIds ==
  ASSUME NEW p \in Procs, NEW S \in StateRecords, NEW hs, IdsOK(p, S, hs),
         NEW i \in DOMAIN S.active, IsReceive(S.active[i]),
         NEW b \in [pid : Procs \cup {-1}, serial : Nat, size : Nat],
         NEW T, T = FinishReceive(S, i, b)
  PROVE  IdsOK(p, T, hs)
<1>1. PICK r, x : r = S.active[i] /\ x = [r EXCEPT !.buffer = b]
  OBVIOUS
<1>2. /\ r \in Requests /\ T.active = RemoveAt(S.active, i) /\ T.finished = S.finished \cup {x}
      /\ T.persistent = S.persistent /\ T.tested = S.tested
  <2>1. r \in Requests
    BY <1>1, ElementOfSeq, LenProperties DEF StateRecords
  <2>a. x \in Requests
    BY <1>1, <2>1 DEF Requests
  <2>2. PICK f : f = S.finished \cup {x}
    OBVIOUS
  <2>3. f \in SUBSET Requests
    BY <2>a, <2>2 DEF StateRecords
  <2>4. T = Without(S, i, f)
    BY <1>1, <2>2 DEF FinishReceive, StateRecords, Without
  <2>5. /\ T.active = RemoveAt(S.active, i) /\ T.finished = f
        /\ T.persistent = S.persistent /\ T.tested = S.tested
    BY <2>3, <2>4, WithoutFields DEF Loses
  <2> QED BY <2>1, <2>2, <2>5
<1>3. x.id = r.id /\ x.type = r.type
  BY <1>1, <1>2 DEF Requests
<1>4. ~IsBuffered(x)
  BY <1>1, <1>3 DEF IsReceive, IsBuffered, TypeReceive, TypeStd, TypeEager
<1>5. S.active \in Seq(Requests) /\ IdsFit(p, S)
  BY DEF StateRecords, IdsOK
<1>6. T.finished = IF IsBuffered(x) THEN S.finished ELSE S.finished \cup {x}
  BY <1>2, <1>4
<1>7. IdsFit(p, T) /\ Held(S) \subseteq Held(T)
  <2>1. Leaves(S, T, i, x)
    BY <1>1, <1>2, <1>3, <1>5, <1>6 DEF Leaves
  <2> QED BY <1>5, <2>1, RemoveIds
<1> QED BY <1>2, <1>7, KeptIds

LEMMA FinishSendIds ==
  ASSUME NEW p \in Procs, NEW S \in StateRecords, NEW hs, IdsOK(p, S, hs),
         NEW s \in ToSet(S.active), s.type \in {TypeStd, TypeEager, TypeRendezvous},
         NEW T, T = FinishSend(S, s)
  PROVE  IdsOK(p, T, hs)
<1>1. /\ \E i \in DOMAIN S.active : S.active[i] = s /\ T.active = RemoveAt(S.active, i)
      /\ T.finished = IF s.type = TypeRendezvous THEN S.finished \cup {s} ELSE S.finished
      /\ T.persistent = S.persistent /\ T.tested = S.tested
  <2>1. PICK f : f = IF s.type = TypeRendezvous THEN S.finished \cup {s} ELSE S.finished
    OBVIOUS
  <2>2. PICK i \in DOMAIN S.active : S.active[i] = s /\ Loses(S, T, i, f)
    BY <2>1, FinishSendFields
  <2> QED BY <2>1, <2>2 DEF Loses
<1>2. PICK i \in DOMAIN S.active : S.active[i] = s /\ T.active = RemoveAt(S.active, i)
  BY <1>1
<1>3. T.finished = IF IsBuffered(s) THEN S.finished ELSE S.finished \cup {s}
  BY <1>1 DEF IsBuffered, TypeStd, TypeEager, TypeRendezvous
<1>4. S.active \in Seq(Requests) /\ IdsFit(p, S)
  BY DEF StateRecords, IdsOK
<1>5. IdsFit(p, T) /\ Held(S) \subseteq Held(T)
  <2>1. Leaves(S, T, i, s)
    BY <1>1, <1>2, <1>3, <1>4 DEF Leaves
  <2> QED BY <1>4, <2>1, RemoveIds
<1> QED BY <1>1, <1>5, KeptIds

LEMMA MatchingIds ==
  ASSUME IInv, IdsInv, NEW dst \in Procs, NEW src \in Procs, NEW i \in OpenReceives(dst),
         FirstSend(src, dst, states[dst].active[i]) # 0, ApplyMatching(dst, i, src)
  PROVE  AllIdsOK'
<1>1. PICK S, Q, r, s :
         /\ S = states[dst] /\ Q = states[src] /\ r = S.active[i]
         /\ s = Q.active[FirstSend(src, dst, r)]
  OBVIOUS
<1>2. /\ i \in DOMAIN S.active /\ IsReceive(r) /\ r \in Requests
      /\ s \in Requests /\ s \in ToSet(Q.active) /\ IsSend(s)
  BY <1>1, FirstSendIsActive
<1>3. S \in StateRecords /\ Q \in StateRecords /\ states \in [Procs -> StateRecords]
  BY <1>1 DEF IInv
<1>4. s.type \in {TypeStd, TypeEager, TypeRendezvous}
  <2>1. Legal(src, s)
    BY <1>1, <1>2, ProcessIsOK DEF StateOK, LiveRequests
  <2> QED BY <1>2, <2>1 DEF Legal, IsSend, IsReceive
<1>5. PICK b \in [pid : Procs \cup {-1}, serial : Nat, size : Nat] : b = s.buffer
  BY <1>2 DEF Requests
<1>6. PICK R : R = FinishReceive(S, i, b)
  OBVIOUS
<1>7. R \in StateRecords /\ R.active = RemoveAt(S.active, i)
  <2>1. PICK x : x = [S.active[i] EXCEPT !.buffer = b]
    OBVIOUS
  <2>2. i \in DOMAIN S.active /\ S \in StateRecords
    BY <1>1, <1>2, <1>3
  <2>3. Loses(S, R, i, S.finished \cup {x})
    BY <1>6, <2>1, <2>2, FinishReceiveFields
  <2> QED BY <2>3 DEF Loses
<1>8. IdsOK(dst, R, handles[dst])
  <2>1. IdsOK(dst, S, handles[dst])
    BY <1>1 DEF IdsInv, AllIdsOK
  <2> QED BY <1>1, <1>2, <1>3, <1>6, <2>1, FinishReceiveIds
<1>9. PICK V : V = [states EXCEPT ![dst] = R]
  OBVIOUS
<1>10. V \in [Procs -> StateRecords] /\ \A p \in Procs : V[p] = IF p = dst THEN R ELSE states[p]
  BY <1>3, <1>7, <1>9
<1>11. \A p \in Procs : IdsOK(p, V[p], handles[p])
  BY <1>8, <1>10 DEF IdsInv, AllIdsOK
<1>12. s \in ToSet(V[src].active)
  <2>1. CASE src = dst
    <3>1. S.active \in Seq(Requests)
      BY <1>3 DEF StateRecords
    <3>2. s # S.active[i]
      BY <1>1, <1>2 DEF IsSend
    <3>3. PICK a, t : a = S.active /\ t = RemoveAt(a, i)
      OBVIOUS
    <3>4. DistinctIds(a)
      BY <1>1, <3>3 DEF IdsInv, AllIdsOK, IdsOK, IdsFit
    <3>5. \A x \in ToSet(a) : x = a[i] \/ x \in ToSet(t)
      BY <1>2, <3>1, <3>3, <3>4, RemovedIds
    <3> QED BY <1>1, <1>2, <1>7, <1>10, <2>1, <3>2, <3>3, <3>5
  <2>2. CASE src # dst
    BY <1>1, <1>2, <1>10, <2>2
  <2> QED BY <2>1, <2>2
<1>13. PICK F, T : T = V[src] /\ F = FinishSend(T, s)
  OBVIOUS
<1>14. IdsOK(src, F, handles[src])
  BY <1>4, <1>10, <1>11, <1>12, <1>13, FinishSendIds
<1>15. states' = [V EXCEPT ![src] = F]
  BY <1>1, <1>3, <1>5, <1>6, <1>9, <1>10, <1>13 DEF ApplyMatching
<1>16. \A p \in Procs : states'[p] = IF p = src THEN F ELSE V[p]
  BY <1>10, <1>15
<1>17. handles' = handles
  BY DEF ApplyMatching
<1> QED BY <1>11, <1>14, <1>16, <1>17 DEF AllIdsOK

-----------------------------------------------------------------------------
(* The worker *)

LEMMA ClosedIds ==
  ASSUME IInv, IdsInv, NEW p \in Procs, NEW indices, indices \subseteq DOMAIN states[p].tested
  PROVE  /\ IdsOK(p, SetRunning(Close(states[p], indices)), FreeHandles(p, indices))
         /\ IdsOK(p, SetReady(Close(states[p], indices)), FreeHandles(p, indices))
<1>1. PICK C, hs : C = Close(states[p], indices) /\ hs = FreeHandles(p, indices)
  OBVIOUS
<1>2. IdsFit(p, C) /\ HandlesNamed(C, hs)
  BY <1>1, CloseIds
<1>3. C \in StateRecords
  <2>1. StateOK(p, C, matched, MatchedBy(p, matched))
    BY <1>1, ProcessIsOK, CloseOK
  <2> QED BY <2>1 DEF StateOK
<1>4. ASSUME NEW T, SameLists(C, T), T.tested = <<>>
      PROVE  IdsOK(p, T, hs)
  BY <1>2, <1>4, SameListsKeep, MoreHeld, NoTests DEF IdsOK
<1>5. IdsOK(p, SetRunning(C), hs) /\ IdsOK(p, SetReady(C), hs)
  BY <1>3, <1>4, Listed
<1> QED BY <1>1, <1>5

LEMMA ResumeIds ==
  ASSUME IInv, IdsInv, Resume
  PROVE  AllIdsOK'
<1>1. PICK ready, bad, name, id, q :
         \/ Fail(name, q, id)
         \/ /\ states' = [p \in Procs |->
                 IF p \in ready THEN SetRunning(Close(states[p], DOMAIN states[p].tested))
                 ELSE states[p]]
            /\ handles' = [p \in Procs |->
                 IF p \in ready THEN FreeHandles(p, DOMAIN states[p].tested) ELSE handles[p]]
  BY Zenon DEF Resume
<1>2. CASE Fail(name, q, id)
  BY <1>2, FailIds
<1>3. CASE /\ states' = [p \in Procs |->
                IF p \in ready THEN SetRunning(Close(states[p], DOMAIN states[p].tested))
                ELSE states[p]]
           /\ handles' = [p \in Procs |->
                IF p \in ready THEN FreeHandles(p, DOMAIN states[p].tested) ELSE handles[p]]
  <2> SUFFICES ASSUME NEW p \in Procs PROVE IdsOK(p, states'[p], handles'[p])
    BY DEF AllIdsOK
  <2>1. IdsOK(p, states[p], handles[p])
    BY DEF IdsInv, AllIdsOK
  <2>2. IdsOK(p, SetRunning(Close(states[p], DOMAIN states[p].tested)),
              FreeHandles(p, DOMAIN states[p].tested))
    BY ClosedIds
  <2> QED BY <1>3, <2>1, <2>2
<1> QED BY <1>1, <1>2, <1>3

\* One process is left with the state T and the handles hs.
LEMMA OneIds ==
  ASSUME IInv, IdsInv, NEW p \in Procs, NEW T, NEW hs, IdsOK(p, T, hs),
         states' = [states EXCEPT ![p] = T], handles' = [handles EXCEPT ![p] = hs]
  PROVE  AllIdsOK'
<1>1. \A q \in Procs : /\ states'[q] = IF q = p THEN T ELSE states[q]
                       /\ handles'[q] = IF q = p THEN hs ELSE handles[q]
  BY DEF IInv
<1> QED BY <1>1 DEF IdsInv, AllIdsOK

LEMMA CompleteIds ==
  ASSUME IInv, IdsInv, NEW p \in Procs, NEW indices, indices \subseteq DOMAIN states[p].tested,
         Complete(p, indices)
  PROVE  AllIdsOK'
<1>1. CASE Truncates(states[p], indices)
  <2>1. Fail("MessageTruncated", p, 0)
    BY <1>1 DEF Complete
  <2> QED BY <2>1, FailIds
<1>2. CASE ~Truncates(states[p], indices)
  <2>1. PICK T, hs : T = SetReady(Close(states[p], indices)) /\ hs = FreeHandles(p, indices)
    OBVIOUS
  <2>2. states' = [states EXCEPT ![p] = T] /\ handles' = [handles EXCEPT ![p] = hs]
    BY <1>2, <2>1 DEF Complete
  <2>3. IdsOK(p, T, hs)
    BY <2>1, ClosedIds
  <2> QED BY <2>2, <2>3, OneIds
<1> QED BY <1>1, <1>2

LEMMA ChoicesIds ==
  ASSUME IInv, IdsInv, NEW p \in Procs, ChooseWaitAny(p) \/ ChooseWaitSome(p) \/ ChooseTestAll(p)
  PROVE  AllIdsOK'
<1>1. TestedAndFinished(states[p]) \subseteq DOMAIN states[p].tested
  BY DEF TestedAndFinished
<1>2. PICK indices : indices \subseteq DOMAIN states[p].tested /\ Complete(p, indices)
  <2>1. CASE ChooseWaitAny(p)
    BY <1>1, <2>1 DEF ChooseWaitAny
  <2>2. CASE ChooseWaitSome(p)
    BY <1>1, <2>2 DEF ChooseWaitSome
  <2>3. CASE ChooseTestAll(p)
    BY <2>3 DEF ChooseTestAll
  <2> QED BY <2>1, <2>2, <2>3
<1> QED BY <1>2, CompleteIds

LEMMA ChooseFlag0Ids ==
  ASSUME IInv, IdsInv, NEW p \in Procs, ChooseFlag0(p)
  PROVE  AllIdsOK'
<1>1. PICK T, hs : T = SetReady(states[p]) /\ hs = handles[p]
  OBVIOUS
<1>2. /\ states' = [states EXCEPT ![p] = T]
      /\ handles' = [handles EXCEPT ![p] = hs]
  BY <1>1 DEF ChooseFlag0, IInv
<1>3. SameLists(states[p], T) /\ T.tested = <<>>
  BY <1>1, ProcessIsOK, Listed
<1>4. IdsFit(p, states[p]) /\ HandlesNamed(states[p], hs)
  BY <1>1 DEF IdsInv, AllIdsOK, IdsOK
<1>5. IdsOK(p, T, hs)
  BY <1>3, <1>4, SameListsKeep, MoreHeld, NoTests DEF IdsOK
<1> QED BY <1>2, <1>5, OneIds

LEMMA ChoosePromiseIds ==
  ASSUME IInv, IdsInv, NEW p \in Procs, ChoosePromise(p)
  PROVE  AllIdsOK'
<1>1. PICK rank, S, T, pr : Promised(p, rank, S, T, pr)
  BY PromiseFields
<1>2. /\ S = states[p] /\ states' = [states EXCEPT ![p] = T] /\ handles' = handles
      /\ SameLists(S, T) /\ T.tested = S.tested
  BY <1>1 DEF Promised, SameLists
<1>3. IdsOK(p, S, handles[p]) /\ IdsFit(p, S)
  BY <1>2 DEF IdsInv, AllIdsOK, IdsOK
<1>4. IdsFit(p, T) /\ Held(T) = Held(S)
  BY <1>2, <1>3, SameListsKeep
<1>5. T.persistent = S.persistent
  BY <1>2 DEF SameLists
<1>6. IdsOK(p, T, handles[p])
  BY <1>2, <1>3, <1>4, <1>5, KeptIds
<1>7. handles' = [handles EXCEPT ![p] = handles[p]]
  BY <1>2 DEF IInv
<1> QED BY <1>2, <1>6, <1>7, OneIds

-----------------------------------------------------------------------------
(* The inductive invariant holds in all reachable states. *)

\* No step adds a call to a program.
LEMMA ProgramsShrink ==
  ASSUME IInv, IdsInv, Next
  PROVE  \A p \in Procs : todo'[p] \in Seq(SUBSET DistinctCalls(p))
<1>1. CASE \E q \in Procs : Step(q)
  <2>1. PICK q \in Procs : Step(q)
    BY <1>1
  <2>2. CASE todo' = todo
    BY <2>2 DEF IdsInv
  <2>3. CASE todo' = [todo EXCEPT ![q] = Tail(todo[q])] /\ todo[q] # <<>>
    <3>1. \A p \in Procs : todo'[p] = IF p = q THEN Tail(todo[q]) ELSE todo[p]
      BY <2>3 DEF IInv
    <3>2. Tail(todo[q]) \in Seq(SUBSET DistinctCalls(q))
      BY <2>3, HeadTailProperties DEF IdsInv
    <3> QED BY <3>1, <3>2 DEF IdsInv
  <2>4. todo' = todo \/ (todo' = [todo EXCEPT ![q] = Tail(todo[q])] /\ todo[q] # <<>>)
    BY <2>1 DEF Step, Send, Recv, Sendrecv, Isend, Irecv, CreatePersistent, Start, Request_free,
                Probe, Iprobe, Wait, Waitall, WaitForSome, Test, Testall, Exit,
                Proceed, Fail, Calls
  <2> QED BY <2>2, <2>3, <2>4
<1>2. CASE ~\E q \in Procs : Step(q)
  <2>1. todo' = todo
    BY <1>2 DEF Next, Match, Resume, ChooseMatching, ChooseWaitAny, ChooseWaitSome,
                ChooseTestAll, ChooseFlag0, ChoosePromise, Conclude, Stop, ApplyMatching,
                Complete, Fail, vars
  <2> QED BY <2>1 DEF IdsInv
<1> QED BY <1>1, <1>2

LEMMA NextKeepsIds ==
  ASSUME IInv, IdsInv, [Next]_vars
  PROVE  IdsInv'
<1>1. CASE UNCHANGED vars
  BY <1>1 DEF vars, IdsInv, AllIdsOK
<1>2. CASE Next
  <2>1. AllIdsOK'
    <3>1. CASE \E p \in Procs : Step(p)
      BY <3>1, StepIds
    <3>2. CASE Match
      <4>1. \E p \in Procs : \E i \in OpenReceives(p) : \E q \in Procs :
              FirstSend(q, p, states[p].active[i]) # 0 /\ ApplyMatching(p, i, q)
        BY <3>2, MatchIsOpen
      <4> QED BY <4>1, MatchingIds
    <3>3. CASE Resume
      BY <3>3, ResumeIds
    <3>4. CASE ChooseMatching
      <4>1. \E p \in Procs : \E i \in OpenReceives(p) : \E q \in Procs :
              FirstSend(q, p, states[p].active[i]) # 0 /\ ApplyMatching(p, i, q)
        BY <3>4, ChooseMatchingIsOpen
      <4> QED BY <4>1, MatchingIds
    <3>5. CASE \E p \in Procs : \/ ChooseWaitAny(p) \/ ChooseWaitSome(p) \/ ChooseTestAll(p)
                                \/ ChooseFlag0(p) \/ ChoosePromise(p)
      BY <3>5, ChoicesIds, ChooseFlag0Ids, ChoosePromiseIds
    <3>6. CASE Conclude
      BY <3>6, SameAll DEF Conclude
    <3>7. CASE Stop
      BY <3>7, SameAll DEF Stop, vars
    <3> QED BY <1>2, <3>1, <3>2, <3>3, <3>4, <3>5, <3>6, <3>7 DEF Next
  <2>2. \A p \in Procs : todo'[p] \in Seq(SUBSET DistinctCalls(p))
    BY <1>2, ProgramsShrink
  <2> QED BY <2>1, <2>2 DEF IdsInv
<1> QED BY <1>1, <1>2

LEMMA InitIds ==
  ASSUME Init, DistinctStarts
  PROVE  IdsInv
<1>1. /\ states = [p \in Procs |-> InitialState] /\ todo \in Programs
      /\ handles = [p \in Procs |-> [i \in 1 .. Slots |-> RequestNull]]
  BY DEF Init
<1>2. ASSUME NEW p \in Procs PROVE IdsOK(p, states[p], handles[p])
  <2>1. PICK S, hs : S = states[p] /\ hs = handles[p]
    OBVIOUS
  <2>2. /\ S.active = <<>> /\ S.finished = {} /\ S.persistent = {} /\ S.tested = <<>>
        /\ \A i \in 1 .. Slots : hs[i] = RequestNull
    BY <1>1, <2>1 DEF InitialState
  <2>3. ToSet(S.active) = {} /\ DOMAIN S.active = {}
    BY <2>2 DEF ToSet
  <2>4. IdsFit(p, S)
    BY <2>2, <2>3 DEF IdsFit, LiveRequests, DistinctIds
  <2>5. HandlesNamed(S, hs)
    BY <2>2 DEF HandlesNamed
  <2> QED BY <2>1, <2>2, <2>4, <2>5, NoTests DEF IdsOK
<1>3. \A p \in Procs : todo[p] \in Seq(SUBSET DistinctCalls(p))
  BY <1>1 DEF DistinctStarts
<1> QED BY <1>2, <1>3 DEF IdsInv, AllIdsOK

-----------------------------------------------------------------------------
(* What the inductive invariant says *)

LEMMA IdsInvIdentifies ==
  ASSUME IInv, IdsInv
  PROVE  IdsAreUnique
<1>1. ASSUME NEW p \in Procs, NEW q \in Procs, NEW r \in LiveRequests(states[p]),
             NEW s \in LiveRequests(states[q]), r.id = s.id
      PROVE  p = q
  <2>1. HasId(p, r) /\ HasId(q, s)
    BY DEF IdsInv, AllIdsOK, IdsOK, IdsFit
  <2>2. PICK k \in Nat, l \in Nat : /\ r.id = RequestId(p, r.type, k)
                                    /\ s.id = RequestId(q, s.type, l)
    BY <2>1 DEF HasId
  <2>3. r.type \in Types /\ s.type \in Types
    <3>1. Legal(p, r) /\ Legal(q, s)
      BY ProcessIsOK DEF StateOK
    <3> QED BY <3>1 DEF Legal, Types, TypesCount, TypeReceive, TypeStd, TypeEager, TypeRendezvous
  <2>4. PICK t \in Types, u \in Types : t = r.type /\ u = s.type
    BY <2>3
  <2>5. RequestId(p, t, k) = RequestId(q, u, l)
    BY <1>1, <2>2, <2>4
  <2> QED BY <2>5, RequestIdsDiffer
<1>2. ASSUME NEW p \in Procs, NEW r \in LiveRequests(states[p]),
             NEW s \in LiveRequests(states[p]), r.id = s.id
      PROVE  r = s
  <2>1. PICK S : S = states[p]
    OBVIOUS
  <2>2. IdsFit(p, S)
    BY <2>1 DEF IdsInv, AllIdsOK, IdsOK
  <2>3. CASE r \in ToSet(S.active) /\ s \in ToSet(S.active)
    BY <1>2, <2>2, <2>3 DEF IdsFit, DistinctIds, ToSet
  <2>4. CASE r \in ToSet(S.active) /\ s \in S.finished
    BY <1>2, <2>2, <2>4 DEF IdsFit
  <2>5. CASE r \in S.finished /\ s \in ToSet(S.active)
    BY <1>2, <2>2, <2>5 DEF IdsFit
  <2>6. CASE r \in S.finished /\ s \in S.finished
    BY <1>2, <2>2, <2>6 DEF IdsFit
  <2> QED BY <2>1, <2>3, <2>4, <2>5, <2>6 DEF LiveRequests
<1>3. ASSUME NEW p \in Procs
      PROVE  /\ \A r, s \in states[p].persistent : r.id = s.id => r = s
             /\ Range(handles[p]) \subseteq
                  Ids(LiveRequests(states[p]) \cup states[p].persistent) \cup {RequestNull}
  <2>1. PICK S, hs : S = states[p] /\ hs = handles[p]
    OBVIOUS
  <2>2. IdsFit(p, S) /\ HandlesNamed(S, hs)
    BY <2>1 DEF IdsInv, AllIdsOK, IdsOK
  <2>3. Held(S) \subseteq Ids(LiveRequests(S) \cup S.persistent)
    BY DEF Held, Ids, LiveRequests
  <2>4. DOMAIN hs = 1 .. Slots
    BY <2>1, HandlesAreNumbers DEF Handles
  <2>5. \A i \in DOMAIN hs : hs[i] \in Ids(LiveRequests(S) \cup S.persistent) \cup {RequestNull}
    BY <2>2, <2>3, <2>4 DEF HandlesNamed
  <2>6. \A r, s \in S.persistent : r.id = s.id => r = s
    BY <2>2 DEF IdsFit
  <2> QED BY <2>1, <2>5, <2>6 DEF Range
<1> QED BY <1>1, <1>2, <1>3 DEF IdsAreUnique

\* In programs that name no request twice in one MPI_Startall, ids identify requests,
\* though new_request_id gives the ids of completed and freed requests away again: no
\* two live requests of any processes share an id, and a handle names a known request.
THEOREM IdsIdentifyRequests ==
  ASSUME DistinctStarts
  PROVE  Spec => []IdsAreUnique
<1>1. Init => IInv /\ IdsInv
  BY InitHolds, InitIds
<1>2. (IInv /\ IdsInv) /\ [Next]_vars => (IInv /\ IdsInv)'
  BY NextKeeps, NextKeepsIds
<1>3. IInv /\ IdsInv => IdsAreUnique
  BY IdsInvIdentifies
<1> QED BY <1>1, <1>2, <1>3, PTL DEF Spec

-----------------------------------------------------------------------------
(* Completion and handles *)

\* The handles hs that p has when the step leaves it in state T: those that changed named a
\* finished request that is gone from T.
FreesFinished(p, T, hs) ==
  \A i \in 1 .. Slots : hs[i] # handles[p][i] =>
    /\ hs[i] = RequestNull
    /\ handles[p][i] \in Ids(states[p].finished \ T.finished)
    /\ ~IsPersistent(states[p], handles[p][i])

StepFollows == \A p \in Procs : todo'[p] = todo[p] => FreesFinished(p, states'[p], handles'[p])

LEMMA SameHandlesFollow ==
  ASSUME handles' = handles
  PROVE  StepFollows
BY DEF StepFollows, FreesFinished

\* Closing finished requests at the indices frees their handles only.
LEMMA CloseFollows ==
  ASSUME IInv, IdsInv, NEW p \in Procs, NEW indices, indices \subseteq DOMAIN states[p].tested,
         IdsAt(states[p], indices) \subseteq Ids(states[p].finished),
         NEW T, T.finished = Close(states[p], indices).finished
  PROVE  FreesFinished(p, T, FreeHandles(p, indices))
<1>1. PICK S, hs : S = states[p] /\ hs = handles[p]
  OBVIOUS
<1>2. hs \in Handles /\ HandlesNamed(S, hs) /\ TestsNamed(S, hs)
  BY <1>1, HandlesAreNumbers DEF IdsInv, AllIdsOK, IdsOK
<1>3. StateOK(p, S, matched, MatchedBy(p, matched))
  BY <1>1, ProcessIsOK
<1>4. T.finished = {r \in S.finished : r.id \notin IdsAt(S, indices)}
  BY <1>1, <1>3, CloseOK
<1>5. PICK freed, g :
        /\ freed = {S.tested[i].slot :
                      i \in {i \in indices : S.tested[i].id # RequestNull /\ ~IsPersistent(S, S.tested[i].id)}}
        /\ g = [i \in DOMAIN hs |-> IF i \in freed THEN RequestNull ELSE hs[i]]
  OBVIOUS
<1>6. FreeHandles(p, indices) = g
  BY <1>1, <1>5 DEF FreeHandles
<1>7. \A i \in 1 .. Slots : g[i] = IF i \in freed THEN RequestNull ELSE hs[i]
  BY <1>2, <1>5 DEF Handles
<1>8. ASSUME NEW i \in 1 .. Slots, g[i] # hs[i]
      PROVE  /\ g[i] = RequestNull
             /\ hs[i] \in Ids(S.finished \ T.finished)
             /\ ~IsPersistent(S, hs[i])
  <2>1. i \in freed /\ g[i] = RequestNull
    BY <1>7, <1>8
  <2>2. PICK k \in indices : /\ S.tested[k].slot = i /\ S.tested[k].id # RequestNull
                             /\ ~IsPersistent(S, S.tested[k].id)
    BY <1>5, <2>1
  <2>3. k \in DOMAIN S.tested
    BY <1>1
  <2>4. hs[i] = S.tested[k].id
    BY <1>2, <2>2, <2>3 DEF TestsNamed
  <2>5. hs[i] \in IdsAt(S, indices)
    BY <2>2, <2>4 DEF IdsAt
  <2>6. PICK r \in S.finished : r.id = hs[i]
    BY <1>1, <2>5 DEF Ids
  <2>7. r \in S.finished \ T.finished
    BY <1>4, <2>5, <2>6
  <2> QED BY <2>1, <2>2, <2>4, <2>6, <2>7 DEF Ids
<1> QED BY <1>1, <1>6, <1>8 DEF FreesFinished

LEMMA ClosedFollows ==
  ASSUME IInv, IdsInv, NEW p \in Procs, NEW indices, indices \subseteq DOMAIN states[p].tested,
         IdsAt(states[p], indices) \subseteq Ids(states[p].finished)
  PROVE  /\ FreesFinished(p, SetRunning(Close(states[p], indices)), FreeHandles(p, indices))
         /\ FreesFinished(p, SetReady(Close(states[p], indices)), FreeHandles(p, indices))
<1>1. PICK C : C = Close(states[p], indices)
  OBVIOUS
<1>2. C \in StateRecords
  <2>1. StateOK(p, C, matched, MatchedBy(p, matched))
    BY <1>1, ProcessIsOK, CloseOK
  <2> QED BY <2>1 DEF StateOK
<1>3. SetRunning(C).finished = C.finished /\ SetReady(C).finished = C.finished
  BY <1>2, Listed DEF SameLists
<1> QED BY <1>1, <1>3, CloseFollows

\* Resume closes all that a process waits for, if it is finished.
LEMMA ResumableIsFinished ==
  ASSUME IInv, NEW p \in Procs, Resumable(p)
  PROVE  TestedIds(states[p]) \subseteq Ids(states[p].finished)
<1>1. PICK S : S = states[p]
  OBVIOUS
<1>2. WaitIsRecorded(p, S)
  BY <1>1, ProcessIsOK DEF StateOK
<1>3. CASE S.status \in {"WaitAll", "WaitAny", "WaitSome"}
  BY <1>1, <1>3 DEF Resumable, TestedFinished
<1>4. CASE S.status \notin {"WaitAll", "WaitAny", "WaitSome"}
  <2>1. S.status \in {"Ready", "Probe"}
    BY <1>1, <1>4 DEF Resumable
  <2>2. S.tested = <<>>
    BY <1>2, <2>1 DEF WaitIsRecorded, Completing
  <2> QED BY <1>1, <2>2 DEF TestedIds, IdsAt
<1> QED BY <1>3, <1>4

LEMMA ResumeFollows ==
  ASSUME IInv, IdsInv, Resume
  PROVE  StepFollows
<1>1. PICK ready, name, id, q :
         /\ ready = {p \in Procs : Resumable(p)}
         /\ \/ Fail(name, q, id)
            \/ /\ states' = [p \in Procs |->
                    IF p \in ready THEN SetRunning(Close(states[p], DOMAIN states[p].tested))
                    ELSE states[p]]
               /\ handles' = [p \in Procs |->
                    IF p \in ready THEN FreeHandles(p, DOMAIN states[p].tested) ELSE handles[p]]
  BY Zenon DEF Resume
<1>2. CASE Fail(name, q, id)
  BY <1>2, SameHandlesFollow DEF Fail
<1>3. CASE /\ states' = [p \in Procs |->
                IF p \in ready THEN SetRunning(Close(states[p], DOMAIN states[p].tested))
                ELSE states[p]]
           /\ handles' = [p \in Procs |->
                IF p \in ready THEN FreeHandles(p, DOMAIN states[p].tested) ELSE handles[p]]
  <2> SUFFICES ASSUME NEW p \in Procs PROVE FreesFinished(p, states'[p], handles'[p])
    BY DEF StepFollows
  <2>1. CASE p \in ready
    <3>1. TestedIds(states[p]) \subseteq Ids(states[p].finished)
      BY <1>1, <2>1, ResumableIsFinished
    <3>2. FreesFinished(p, SetRunning(Close(states[p], DOMAIN states[p].tested)),
                  FreeHandles(p, DOMAIN states[p].tested))
      BY <3>1, ClosedFollows DEF TestedIds
    <3> QED BY <1>3, <2>1, <3>2
  <2>2. CASE p \notin ready
    <3>1. handles'[p] = handles[p]
      BY <1>3, <2>2
    <3> QED BY <3>1 DEF FreesFinished
  <2> QED BY <2>1, <2>2
<1> QED BY <1>1, <1>2, <1>3

\* The choices at a node close requests that are finished.
LEMMA ChoicesFollow ==
  ASSUME IInv, IdsInv, NEW p \in Procs, ChooseWaitAny(p) \/ ChooseWaitSome(p) \/ ChooseTestAll(p)
  PROVE  StepFollows
<1>1. PICK S : S = states[p]
  OBVIOUS
<1>2. PICK indices : /\ indices \subseteq DOMAIN S.tested /\ IdsAt(S, indices) \subseteq Ids(S.finished)
                     /\ Complete(p, indices)
  <2>1. ASSUME NEW indices \in SUBSET TestedAndFinished(S)
        PROVE  indices \subseteq DOMAIN S.tested /\ IdsAt(S, indices) \subseteq Ids(S.finished)
    BY DEF TestedAndFinished, IdsAt
  <2>2. CASE ChooseWaitAny(p)
    BY <1>1, <2>1, <2>2 DEF ChooseWaitAny
  <2>3. CASE ChooseWaitSome(p)
    BY <1>1, <2>1, <2>3 DEF ChooseWaitSome
  <2>4. CASE ChooseTestAll(p)
    BY <1>1, <2>4 DEF ChooseTestAll, TestedFinished, TestedIds
  <2> QED BY <2>2, <2>3, <2>4
<1>3. CASE Truncates(S, indices)
  <2>1. handles' = handles
    BY <1>1, <1>2, <1>3 DEF Complete, Fail
  <2> QED BY <2>1, SameHandlesFollow
<1>4. CASE ~Truncates(S, indices)
  <2>1. PICK T, hs : T = SetReady(Close(S, indices)) /\ hs = FreeHandles(p, indices)
    OBVIOUS
  <2>2. states' = [states EXCEPT ![p] = T] /\ handles' = [handles EXCEPT ![p] = hs]
    BY <1>1, <1>2, <1>4, <2>1 DEF Complete
  <2>3. FreesFinished(p, T, hs)
    BY <1>1, <1>2, <2>1, ClosedFollows
  <2>4. \A q \in Procs : /\ states'[q] = IF q = p THEN T ELSE states[q]
                         /\ handles'[q] = IF q = p THEN hs ELSE handles[q]
    BY <2>2 DEF IInv
  <2>5. \A q \in Procs : q # p => FreesFinished(q, states'[q], handles'[q])
    BY <2>4 DEF FreesFinished
  <2> QED BY <2>3, <2>4, <2>5 DEF StepFollows
<1> QED BY <1>3, <1>4

\* A call changes the handles of its process, which goes on in its program.
Called(q) ==
  /\ todo[q] # <<>> /\ todo' = [todo EXCEPT ![q] = Tail(todo[q])]
  /\ \E hs : handles' = [handles EXCEPT ![q] = hs]

LEMMA CallsFollow ==
  ASSUME IInv, NEW q \in Procs, Step(q)
  PROVE  StepFollows
<1>1. handles' = handles \/ Called(q)
  <2>1. ASSUME NEW S, NEW hs, todo[q] # <<>>, Proceed(q, S, hs)
        PROVE  Called(q)
    BY <2>1 DEF Proceed, Called
  <2>2. ASSUME NEW name, NEW id, Fail(name, q, id)
        PROVE  handles' = handles
    BY <2>2 DEF Fail
  <2>3. \A names : Calls(q, names) # {} => todo[q] # <<>>
    BY DEF Calls
  <2>4. CASE Send(q) \/ Recv(q) \/ Isend(q) \/ Irecv(q) \/ CreatePersistent(q)
    BY <2>1, <2>3, <2>4 DEF Send, Recv, Isend, Irecv, CreatePersistent
  <2>5. CASE Sendrecv(q) \/ Start(q) \/ Request_free(q) \/ Probe(q) \/ Iprobe(q)
    BY <2>1, <2>2, <2>3, <2>5 DEF Sendrecv, Start, Request_free, Probe, Iprobe
  <2>6. CASE Wait(q) \/ Waitall(q) \/ WaitForSome(q) \/ Test(q) \/ Testall(q)
    BY <2>1, <2>2, <2>3, <2>6 DEF Wait, Waitall, WaitForSome, Test, Testall
  <2>7. CASE Exit(q)
    BY <2>7 DEF Exit
  <2> QED BY <2>4, <2>5, <2>6, <2>7 DEF Step
<1>2. CASE Called(q)
  <2>1. todo[q] \in Seq(SUBSET MayCall(q)) /\ DOMAIN todo = Procs /\ DOMAIN handles = Procs
    BY DEF IInv
  <2>2. todo'[q] # todo[q]
    <3>1. PICK s : s = todo[q]
      OBVIOUS
    <3>2. s \in Seq(SUBSET MayCall(q)) /\ s # <<>>
      BY <1>2, <2>1, <3>1 DEF Called
    <3>3. Len(Tail(s)) = Len(s) - 1 /\ Len(s) \in Nat
      BY <3>2, HeadTailProperties, LenProperties
    <3>4. Tail(s) # s
      BY <3>3
    <3>5. todo'[q] = Tail(s)
      BY <1>2, <2>1, <3>1 DEF Called
    <3> QED BY <3>1, <3>4, <3>5
  <2>3. \A p \in Procs : p # q => handles'[p] = handles[p]
    BY <1>2, <2>1 DEF Called
  <2> QED BY <2>2, <2>3 DEF StepFollows, FreesFinished
<1> QED BY <1>1, <1>2, SameHandlesFollow

LEMMA NextFollows ==
  ASSUME IInv, IdsInv, [Next]_vars
  PROVE  StepFollows
<1>1. CASE \E p \in Procs : Step(p)
  BY <1>1, CallsFollow
<1>2. CASE Resume
  BY <1>2, ResumeFollows
<1>3. CASE \E p \in Procs : ChooseWaitAny(p) \/ ChooseWaitSome(p) \/ ChooseTestAll(p)
  BY <1>3, ChoicesFollow
<1>4. CASE \/ Match \/ ChooseMatching \/ Conclude \/ Stop \/ UNCHANGED vars
           \/ \E p \in Procs : ChooseFlag0(p) \/ ChoosePromise(p)
  <2>1. handles' = handles
    BY <1>4 DEF Match, ChooseMatching, ApplyMatching, Conclude, Stop, ChooseFlag0, ChoosePromise, vars
  <2> QED BY <2>1, SameHandlesFollow
<1> QED BY <1>1, <1>2, <1>3, <1>4 DEF Next

\* A wait or test that is answered takes the handles of the requests it closes and no others:
\* what the program may still complete, start or free keeps its handle.
THEOREM CompletionFreesItsHandles ==
  ASSUME DistinctStarts
  PROVE  Spec => HandlesFollowCompletion
<1>1. Init => IInv /\ IdsInv
  BY InitHolds, InitIds
<1>2. (IInv /\ IdsInv) /\ [Next]_vars => (IInv /\ IdsInv)'
  BY NextKeeps, NextKeepsIds
<1>3. (IInv /\ IdsInv) /\ [Next]_vars =>
        [\A p \in Procs : todo'[p] = todo[p] =>
           \A i \in 1 .. Slots : handles'[p][i] # handles[p][i] =>
             /\ handles'[p][i] = RequestNull
             /\ handles[p][i] \in Ids(states[p].finished \ states'[p].finished)
             /\ ~IsPersistent(states[p], handles[p][i])]_vars
  BY NextFollows DEF StepFollows, FreesFinished
<1> QED BY <1>1, <1>2, <1>3, PTL DEF Spec, HandlesFollowCompletion

=============================================================================
