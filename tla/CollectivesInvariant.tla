------------------------ MODULE CollectivesInvariant ------------------------
(***************************************************************************)
(* The inductive invariant of Collectives, for any number of processes and *)
(* all programs, and the proofs that making communicators, entering        *)
(* operations and calling keep it.                                         *)
(***************************************************************************)
EXTENDS Collectives, FiniteSetTheorems, SequenceTheorems, WellFoundedInduction, TLAPS

(* The parts of the inductive invariant.  They are about a global state G, the memory M of the
   processes, a log L and the calls D[p] that each process p has closed, so that they can be
   stated of the worlds in the middle of a handler too. *)

Statuses == {"running", "ready", "wait", "test", "finished"}
Requests == [id : Nat \ {0}, comm_id : Nat, cc_id : Nat, serial : Nat]
Keyvals == [copy : BOOLEAN, delete : BOOLEAN, freed : BOOLEAN]
Attributes == [comm : Nat, keyval : Nat, value : Procs \X Nat]
GroupTables == UNION {[ids -> Groups] : ids \in {set \in SUBSET Nat : IsFiniteSet(set)}}

StateRecords ==
  [comms : Seq(Comms), counters : Seq(Nat), groups : GroupTables, keyvals : Seq(Keyvals),
   attrs : SUBSET Attributes, made : SUBSET Attributes, deleted : SUBSET Attributes,
   status : Statuses, tested : Seq(Nat), pointer : Seq(1 .. RequestVars),
   active : Seq(Requests), finished : SUBSET Requests]

Data == Int \X Int

OperationRecords ==
  [name : BlockingClasses, blocking : BOOLEAN, comm_id : Nat, cc_id : Nat,
   root : Int \cup {None}, root_pid : Procs \cup {None}, process_count : Nat,
   remaining_enter : Int, remaining_complete : Int,
   buffers : Seq(Data \cup {None}), recvbufs : Seq(Nat \cup {None}), recvbuf : Nat \cup {None},
   op : STRING \cup {None}, count : Nat \cup {None}, group : Groups \cup {None},
   final : {None} \cup Nat \cup Seq(Nat) \cup Seq(Data \cup {None})]

GlobalStates ==
  [states : [Procs -> StateRecords], operations : Seq(OperationRecords), comm_id_counter : Nat]

IsMemory(M) ==
  /\ M = [p \in Procs |-> [requests |-> M[p].requests, comms |-> M[p].comms,
                           groups |-> M[p].groups, results |-> M[p].results]]
  /\ \A p \in Procs : M[p].requests \in [1 .. RequestVars -> Nat]

\* The collective calls that the programs of p contain, and what the log keeps of them.
CollectiveCalls(p) == {call \in MayCall(p) : call.op = "Collective"}
Entries(p) == [comm : Comms, call : CollectiveCalls(p), group : Seq(Procs) \cup {None}]

IsLog(L) == DOMAIN L = Procs /\ \A p \in Procs : L[p] \in Seq(Entries(p))

IsTyped(G, M, L) == G \in GlobalStates /\ IsMemory(M) /\ IsLog(L)

-----------------------------------------------------------------------------
(* Communicators *)

Known(G, L, p) == ToSet(G.states[p].comms) \cup {L[p][t].comm : t \in DOMAIN L[p]}

\* A communicator c of which p is a member, when counter is the last id of one.
IsMember(p, c, counter) ==
  /\ p \in ToSet(c.group.table)
  /\ c.comm_id = CommWorld => c = MakeCommWorld
  /\ c.comm_id = CommSelf => c = MakeCommSelf(p)
  /\ c.comm_id \in {CommWorld, CommSelf} \/ c.comm_id \in CommUserdef + 1 .. counter

CommsOK(G, L) ==
  /\ G.comm_id_counter >= CommUserdef
  /\ \A p \in Procs : \A c \in Known(G, L, p) : IsMember(p, c, G.comm_id_counter)
  /\ \A p \in Procs, q \in Procs : \A c \in Known(G, L, p), d \in Known(G, L, q) :
       c.comm_id = d.comm_id /\ c.comm_id # CommSelf => c = d
  /\ \A p \in Procs : LET comms == G.states[p].comms IN
       /\ \A i \in DOMAIN comms : comms[i].comm_id > CommUserdef
       /\ \A i \in DOMAIN comms, j \in DOMAIN comms : comms[i].comm_id = comms[j].comm_id => i = j

\* The calls of p on a communicator.
CallsOn(L, p, id) == {t \in DOMAIN L[p] : L[p][t].comm.comm_id = id}

\* The counters of a process number its calls.
CountersOK(G, L) ==
  \A p \in Procs : LET S == G.states[p] IN
    /\ Len(S.counters) = Len(S.comms) + 2
    /\ S.counters[1] = Cardinality(CallsOn(L, p, CommWorld))
    /\ S.counters[2] = Cardinality(CallsOn(L, p, CommSelf))
    /\ \A i \in DOMAIN S.comms : S.counters[i + 2] = Cardinality(CallsOn(L, p, S.comms[i].comm_id))

-----------------------------------------------------------------------------
(* Requests *)

\* The root of a rooted call is a rank.
RootsOK(L) ==
  \A p \in Procs : \A t \in DOMAIN L[p] :
    L[p][t].call.name \in Rooted => L[p][t].call.root \in 0 .. Size(L[p][t].comm) - 1

\* The position of a call on its communicator; that of module CollectiveService.
PositionOf(L, p, t) == Cardinality({s \in 1 .. t : L[p][s].comm.comm_id = L[p][t].comm.comm_id})

\* A request stands for its call.
RequestOK(L, p, r) ==
  /\ r.serial \in DOMAIN L[p]
  /\ r.comm_id = L[p][r.serial].comm.comm_id
  /\ r.cc_id + 1 = PositionOf(L, p, r.serial)

\* The requests of p, whose state is S and whose closed calls are those in C.
RequestsOK(S, L, p, C) ==
  /\ IsFiniteSet(S.finished)
  /\ \A r \in LiveRequests(S) : RequestOK(L, p, r)
  /\ \A i \in DOMAIN S.active, j \in DOMAIN S.active :
       S.active[i].id = S.active[j].id \/ S.active[i].serial = S.active[j].serial => i = j
  /\ \A r \in S.finished, q \in LiveRequests(S) : r.id = q.id \/ r.serial = q.serial => r = q
  /\ ToSet(S.active) \cap S.finished = {}
  /\ C \subseteq DOMAIN L[p]
  /\ \A r \in LiveRequests(S) : r.serial \notin C
  /\ \A t \in DOMAIN L[p] \ C : \E r \in LiveRequests(S) : r.serial = t

\* What p waits for; variables are its request variables.
WaitOK(S, L, p, variables) ==
  /\ \A i \in DOMAIN S.tested : S.tested[i] \in RequestIds(S) \cup {RequestNull}
  /\ \A i \in DOMAIN S.tested, j \in DOMAIN S.tested :
       S.tested[i] = S.tested[j] => i = j \/ S.tested[i] = RequestNull
  /\ S.tested # <<>> => S.status \in {"wait", "test"}
  /\ S.status = "wait" => S.pointer = <<>>
  /\ S.status = "test" => /\ DOMAIN S.tested = DOMAIN S.pointer
                          /\ \A i \in DOMAIN S.pointer : S.tested[i] = variables[S.pointer[i]]
  /\ \A v \in 1 .. RequestVars : variables[v] \in RequestIds(S) \cup {RequestNull}
  /\ \A v \in 1 .. RequestVars, w \in 1 .. RequestVars :
       variables[v] = variables[w] => v = w \/ variables[v] = RequestNull
  /\ S.status = "wait" => \A v \in 1 .. RequestVars, i \in DOMAIN S.tested :
                            variables[v] = S.tested[i] => variables[v] = RequestNull
  /\ \A r \in LiveRequests(S) : L[p][r.serial].call.blocking =>
       /\ S.status = "wait" /\ r.id \in ToSet(S.tested)
       /\ \A v \in 1 .. RequestVars : variables[v] # r.id

-----------------------------------------------------------------------------
(* Operations *)

\* The calls of p with number k, counted from 0, on a communicator, who made one, who has
\* completed it, and who has not.
CallsAt(L, p, id, k) == {t \in CallsOn(L, p, id) : PositionOf(L, p, t) = k + 1}
Entered(L, id, k) == {p \in Procs : CallsAt(L, p, id, k) # {}}
Left(L, D, id, k) == {p \in Procs : CallsAt(L, p, id, k) \cap D[p] # {}}
Inside(L, D, id, k) == {p \in Procs : CallsAt(L, p, id, k) \ D[p] # {}}

\* An operation is what the call of p that the entry describes asks for.
Agrees(op, L, p, entry) ==
  /\ op.process_count = Size(entry.comm)
  /\ op.name = entry.call.name /\ op.blocking = entry.call.blocking
  /\ op.name \in Rooted => /\ op.root = entry.call.root
                           /\ op.root_pid = RankToPid(entry.comm, op.root)
  /\ op.name \in {"scatter", "scatterv", "bcast"} =>
       /\ Len(op.buffers) = op.process_count
       /\ op.buffers[op.root + 1] # None => RankToPid(entry.comm, op.root) \in Entered(L, op.comm_id, op.cc_id)
  /\ op.name = "comm_split" /\ op.remaining_enter > 0 =>
       /\ Len(op.buffers) = op.process_count
       /\ op.buffers[PidToRank(entry.comm, p) + 1] \in Data

\* An operation of several processes counts those that entered and those that left.
OpenOK(op, L, D) ==
  /\ Entered(L, op.comm_id, op.cc_id) # {}
  /\ op.remaining_enter + Cardinality(Entered(L, op.comm_id, op.cc_id)) = op.process_count
  /\ op.remaining_complete + Cardinality(Left(L, D, op.comm_id, op.cc_id)) = op.process_count
  /\ op.remaining_complete > 0
  /\ \A p \in Procs : \A t \in CallsAt(L, p, op.comm_id, op.cc_id) : Agrees(op, L, p, L[p][t])

OperationOK(op, L, D) ==
  /\ op.name = "comm_dup" => op.final \in {None} \cup Nat
  /\ IF op.comm_id = CommSelf
     THEN op.process_count = 1 /\ op.remaining_enter = 0 /\ op.remaining_complete = 1
     ELSE OpenOK(op, L, D)

OperationsAt(ops, id, k) == {i \in DOMAIN ops : ops[i].comm_id = id /\ ops[i].cc_id = k}

OperationsOK(ops, L, D) ==
  /\ \A i \in DOMAIN ops : OperationOK(ops[i], L, D)
  /\ \A i \in DOMAIN ops, j \in DOMAIN ops :
       ops[i].comm_id = ops[j].comm_id /\ ops[i].cc_id = ops[j].cc_id /\ ops[i].comm_id # CommSelf => i = j
  /\ \A p \in Procs : \A t \in DOMAIN L[p] :
       LET id == L[p][t].comm.comm_id
           k == PositionOf(L, p, t) - 1
       IN id # CommSelf /\ OperationsAt(ops, id, k) = {} =>
            ToSet(L[p][t].comm.group.table) \subseteq Left(L, D, id, k)
  /\ \A k \in Nat : Cardinality(OperationsAt(ops, CommSelf, k)) = Cardinality(Inside(L, D, CommSelf, k))

ClosedOf(M) == [p \in Procs |-> {r.serial : r \in M[p].results}]

\* What also holds in the middle of closing requests, and what holds between two handlers.
CoreOK(G, M, L) ==
  /\ IsTyped(G, M, L)
  /\ CommsOK(G, L) /\ CountersOK(G, L) /\ RootsOK(L)
  /\ \A p \in Procs : RequestsOK(G.states[p], L, p, ClosedOf(M)[p])
  /\ OperationsOK(G.operations, L, ClosedOf(M))

WorldOK(G, M, L) ==
  /\ CoreOK(G, M, L)
  /\ \A p \in Procs : WaitOK(G.states[p], L, p, M[p].requests)

IInv ==
  /\ DOMAIN todo = Procs /\ \A p \in Procs : todo[p] \in Seq(SUBSET MayCall(p))
  /\ phase \in {"poll", "expand", "sweep", "node", "end"}
  /\ cursor \in 0 .. ProcessCount
  /\ error # "none" => phase = "end"
  /\ error = "none" => WorldOK(gstate, memory, log)

-----------------------------------------------------------------------------
(* Numbers and sequences *)

LEMMA SmallestNumber ==
  ASSUME NEW T \in SUBSET Nat, T # {}
  PROVE  \E m \in T : \A k \in T : m <= k
<1>1. PICK R : R = OpToRel(<, Nat)
  OBVIOUS
<1>2. IsWellFoundedOn(R, Nat)
  BY <1>1, NatLessThanWellFounded
<1>3. PICK m \in T : \A k \in T : ~(<<k, m>> \in R)
  BY <1>2, WFMin
<1>4. \A k \in T : ~(k < m)
  BY <1>1, <1>3 DEF OpToRel
<1> QED BY <1>4

LEMMA MinIsSmallest ==
  ASSUME NEW T \in SUBSET Nat, T # {}
  PROVE  Min(T) \in T /\ \A k \in T : Min(T) <= k
BY SmallestNumber DEF Min

\* RemoveAt(s, i) is s without its i-th element.
LEMMA RemovingOne ==
  ASSUME NEW X, NEW s \in Seq(X), NEW i \in 1 .. Len(s)
  PROVE  /\ RemoveAt(s, i) \in Seq(X)
         /\ Len(RemoveAt(s, i)) = Len(s) - 1
         /\ \A j \in 1 .. Len(s) - 1 : RemoveAt(s, i)[j] = s[IF j < i THEN j ELSE j + 1]
<1> DEFINE a == SubSeq(s, 1, i - 1)
           b == SubSeq(s, i + 1, Len(s))
<1>1. PICK n \in Nat : n = Len(s)
  BY LenProperties
<1>2. i \in 1 .. n /\ \A j \in 1 .. n : s[j] \in X
  BY <1>1, ElementOfSeq
<1>3. /\ a \in Seq(X) /\ Len(a) = i - 1
      /\ \A j \in 1 .. i - 1 : a[j] = s[j]
  <2>1. PICK l \in Nat : l = i - 1
    BY <1>2
  <2>2. \A j \in 1 .. l : s[j] \in X
    BY <1>2, <2>1
  <2>3. /\ SubSeq(s, 1, l) \in Seq(X)
        /\ Len(SubSeq(s, 1, l)) = IF 1 <= l THEN l - 1 + 1 ELSE 0
        /\ \A j \in 1 .. l - 1 + 1 : SubSeq(s, 1, l)[j] = s[1 + j - 1]
    BY <2>1, <2>2, SubSeqProperties
  <2>4. Len(SubSeq(s, 1, l)) = l /\ \A j \in 1 .. l : SubSeq(s, 1, l)[j] = s[j]
    BY <2>1, <2>3
  <2> QED BY <2>1, <2>3, <2>4
<1>4. /\ b \in Seq(X) /\ Len(b) = n - i
      /\ \A j \in 1 .. n - i : b[j] = s[i + j]
  <2>1. PICK l \in Nat : l = i + 1
    BY <1>2
  <2>2. \A j \in l .. n : s[j] \in X
    BY <1>2, <2>1
  <2>3. /\ SubSeq(s, l, n) \in Seq(X)
        /\ Len(SubSeq(s, l, n)) = IF l <= n THEN n - l + 1 ELSE 0
        /\ \A j \in 1 .. n - l + 1 : SubSeq(s, l, n)[j] = s[l + j - 1]
    BY <1>1, <2>1, <2>2, SubSeqProperties
  <2>4. Len(SubSeq(s, l, n)) = n - i /\ \A j \in 1 .. n - i : SubSeq(s, l, n)[j] = s[i + j]
    BY <1>2, <2>1, <2>3
  <2> QED BY <1>1, <2>1, <2>3, <2>4
<1>5. RemoveAt(s, i) = a \o b
  BY DEF RemoveAt
<1>6. PICK c, d : c = a /\ d = b
  OBVIOUS
<1>7. /\ c \in Seq(X) /\ d \in Seq(X) /\ Len(c) = i - 1 /\ Len(d) = n - i
      /\ \A j \in 1 .. i - 1 : c[j] = s[j]
      /\ \A j \in 1 .. n - i : d[j] = s[i + j]
      /\ RemoveAt(s, i) = c \o d
  BY <1>3, <1>4, <1>5, <1>6
<1> HIDE DEF a, b
<1>8. /\ c \o d \in Seq(X) /\ Len(c \o d) = n - 1
      /\ \A j \in 1 .. n - 1 :
           (c \o d)[j] = IF j <= i - 1 THEN c[j] ELSE d[j - (i - 1)]
  BY <1>2, <1>7, ConcatProperties
<1>9. ASSUME NEW j \in 1 .. n - 1
      PROVE  (c \o d)[j] = s[IF j < i THEN j ELSE j + 1]
  <2>1. CASE j < i
    BY <1>2, <1>7, <1>8, <2>1
  <2>2. CASE j >= i
    <3>1. j - (i - 1) \in 1 .. n - i /\ i + (j - (i - 1)) = j + 1 /\ ~(j <= i - 1) /\ ~(j < i)
      BY <1>2, <2>2
    <3>2. (c \o d)[j] = d[j - (i - 1)]
      BY <1>8, <3>1
    <3>3. d[j - (i - 1)] = s[i + (j - (i - 1))]
      BY <1>7, <3>1
    <3> QED BY <3>1, <3>2, <3>3
  <2>3. i \in Int /\ j \in Int
    BY <1>2
  <2>4. j < i \/ j >= i
    BY <2>3
  <2> QED BY <2>1, <2>2, <2>4
<1> QED BY <1>1, <1>7, <1>8, <1>9

\* What SelectInSeq returns: the first place of a set of places, 0 if there is none.
LEMMA FirstPlace ==
  ASSUME NEW n \in Nat, NEW I \in SUBSET (1 .. n)
  PROVE  /\ (IF I # {} THEN Min(I) ELSE 0) \in 0 .. n
         /\ (IF I # {} THEN Min(I) ELSE 0) = 0 <=> I = {}
         /\ I # {} => /\ (IF I # {} THEN Min(I) ELSE 0) \in I
                      /\ \A k \in I : (IF I # {} THEN Min(I) ELSE 0) <= k
<1>1. CASE I = {}
  BY <1>1
<1>2. CASE I # {}
  <2>1. PICK m : m = Min(I)
    OBVIOUS
  <2>2. m \in I /\ \A k \in I : m <= k
    BY <1>2, <2>1, MinIsSmallest
  <2>3. m \in 1 .. n /\ m # 0
    BY <2>2
  <2>4. (IF I # {} THEN Min(I) ELSE 0) = m
    BY <1>2, <2>1
  <2> QED BY <1>2, <2>2, <2>3, <2>4
<1> QED BY <1>1, <1>2

\* Replacing an element keeps a sequence a sequence, wherever it is.
LEMMA ReplacingOne ==
  ASSUME NEW X, NEW s \in Seq(X), NEW i, NEW e \in X
  PROVE  /\ [s EXCEPT ![i] = e] \in Seq(X)
         /\ Len([s EXCEPT ![i] = e]) = Len(s)
<1>1. PICK n \in Nat : n = Len(s)
  BY LenProperties
<1>2. s \in [1 .. n -> X]
  BY <1>1, LenProperties
<1>3. PICK t : t = [s EXCEPT ![i] = e]
  OBVIOUS
<1>4. t \in [1 .. n -> X]
  BY <1>2, <1>3
<1>5. t \in Seq(X) /\ Len(t) = n
  BY <1>4
<1> QED BY <1>1, <1>3, <1>5

\* A function on 1 .. n is a sequence.
LEMMA FunctionIsSequence ==
  ASSUME NEW X, NEW n \in Nat, NEW f \in [1 .. n -> X]
  PROVE  f \in Seq(X) /\ Len(f) = n
OBVIOUS

-----------------------------------------------------------------------------
(* Sets *)

LEMMA ProcsAreFinite == IsFiniteSet(Procs) /\ Cardinality(Procs) = ProcessCount
<1>1. ProcessCount \in Nat \ {0}
  BY CommunicatorsAssumption
<1>2. 0 \in Int /\ ProcessCount - 1 \in Int
  BY <1>1
<1>3. IsFiniteSet(0 .. ProcessCount - 1) /\ Cardinality(0 .. ProcessCount - 1) = ProcessCount
  BY <1>1, <1>2, FS_Interval
<1> QED BY <1>3 DEF Procs

\* One more element.
LEMMA OneMore ==
  ASSUME NEW S, IsFiniteSet(S), NEW x, x \notin S, NEW T, T = S \cup {x}
  PROVE  IsFiniteSet(T) /\ Cardinality(T) = Cardinality(S) + 1
BY FS_AddElement

LEMMA OneLess ==
  ASSUME NEW S, IsFiniteSet(S), NEW x \in S, NEW T, T = S \ {x}
  PROVE  IsFiniteSet(T) /\ Cardinality(T) = Cardinality(S) - 1
BY FS_RemoveElement

\* The table of a group has as many members as places.
LEMMA TableSize ==
  ASSUME NEW n \in Nat, NEW f, f \in [1 .. n -> Procs], IsInjective(f)
  PROVE  ToSet(f) \subseteq Procs /\ IsFiniteSet(ToSet(f)) /\ Cardinality(ToSet(f)) = n
<1>1. IsFiniteSet(1 .. n) /\ Cardinality(1 .. n) = n
  BY FS_Interval
<1>2. f \in Bijection(1 .. n, ToSet(f))
  BY DEF Bijection, Injection, Surjection, IsInjective, ToSet
<1>3. ExistsBijection(1 .. n, ToSet(f))
  BY <1>2 DEF ExistsBijection
<1>4. ToSet(f) \subseteq Procs
  BY DEF ToSet
<1> QED BY <1>1, <1>3, <1>4, FS_Bijection

-----------------------------------------------------------------------------
(* Sorting *)

\* The elements of a finite set have an order, when before is a strict order of them.
LEMMA OrderExists ==
  ASSUME NEW S, IsFiniteSet(S), NEW R,
         \A x \in S : <<x, x>> \notin R,
         \A x \in S, y \in S : x # y => <<x, y>> \in R \/ <<y, x>> \in R,
         \A x \in S, y \in S, z \in S : <<x, y>> \in R /\ <<y, z>> \in R => <<x, z>> \in R
  PROVE  \E s \in [1 .. Cardinality(S) -> S] :
           /\ \A i \in 1 .. Cardinality(S), j \in 1 .. Cardinality(S) : i # j => s[i] # s[j]
           /\ \A i \in 1 .. Cardinality(S), j \in 1 .. Cardinality(S) : i < j => <<s[i], s[j]>> \in R
<1>1. PICK n \in Nat : n = Cardinality(S)
  BY FS_CardinalityType
<1> DEFINE Below(x) == {y \in S : <<y, x>> \in R}
<1>2. \A x \in S : /\ IsFiniteSet(Below(x)) /\ Cardinality(Below(x)) \in Nat
                   /\ Cardinality(Below(x)) + 1 \in 1 .. n
  <2> SUFFICES ASSUME NEW x \in S
               PROVE  /\ IsFiniteSet(Below(x)) /\ Cardinality(Below(x)) \in Nat
                      /\ Cardinality(Below(x)) + 1 \in 1 .. n
    OBVIOUS
  <2>1. IsFiniteSet(S \ {x}) /\ Cardinality(S \ {x}) = n - 1
    BY <1>1, FS_RemoveElement
  <2>2. Below(x) \subseteq S \ {x}
    OBVIOUS
  <2>3. IsFiniteSet(Below(x)) /\ Cardinality(Below(x)) <= Cardinality(S \ {x})
    BY <2>1, <2>2, FS_Subset
  <2>4. Cardinality(Below(x)) \in Nat
    BY <2>3, FS_CardinalityType
  <2> HIDE DEF Below
  <2> QED BY <2>1, <2>3, <2>4
<1>3. PICK pos : pos = [x \in S |-> Cardinality(Below(x)) + 1]
  OBVIOUS
<1>4. ASSUME NEW x \in S, NEW y \in S, <<x, y>> \in R PROVE pos[x] < pos[y]
  <2>1. x \in Below(y) /\ x \notin Below(x)
    BY <1>4
  <2>2. Below(x) \subseteq Below(y)
    BY <1>4
  <2>3. IsFiniteSet(Below(y)) /\ IsFiniteSet(Below(x))
    BY <1>2
  <2>4. Cardinality(Below(x)) <= Cardinality(Below(y)) /\ Cardinality(Below(x)) # Cardinality(Below(y))
    <3> HIDE DEF Below
    <3>1. Below(x) \in SUBSET Below(y) /\ Below(x) # Below(y)
      BY <2>1, <2>2
    <3> QED BY <2>3, <3>1, FS_Subset
  <2> HIDE DEF Below
  <2> QED BY <1>2, <1>3, <2>4
<1>5. pos \in [S -> 1 .. n]
  <2> HIDE DEF Below
  <2> QED BY <1>2, <1>3
<1> HIDE DEF Below
<1>6. ASSUME NEW x \in S, NEW y \in S, pos[x] = pos[y] PROVE x = y
  <2>1. SUFFICES ASSUME x # y PROVE FALSE
    OBVIOUS
  <2>2. <<x, y>> \in R \/ <<y, x>> \in R
    BY <2>1
  <2>3. pos[x] < pos[y] \/ pos[y] < pos[x]
    BY <1>4, <2>2
  <2>4. pos[x] \in Int /\ pos[y] \in Int
    BY <1>5
  <2> QED BY <1>6, <2>3, <2>4
<1>7. pos \in Injection(S, 1 .. n)
  BY <1>5, <1>6 DEF Injection, IsInjective
<1>8. IsFiniteSet(1 .. n) /\ Cardinality(1 .. n) = n
  BY FS_Interval
<1>9. pos \in Surjection(S, 1 .. n)
  BY <1>1, <1>7, <1>8, FS_Injection
<1>10. \A i \in 1 .. n : \E x \in S : pos[x] = i
  BY <1>9 DEF Surjection
<1>11. PICK s : s = [i \in 1 .. n |-> CHOOSE x \in S : pos[x] = i]
  OBVIOUS
<1>12. s \in [1 .. n -> S] /\ \A i \in 1 .. n : s[i] \in S /\ pos[s[i]] = i
  BY <1>10, <1>11
<1>13. \A i \in 1 .. n, j \in 1 .. n : i # j => s[i] # s[j]
  BY <1>12
<1>14. ASSUME NEW i \in 1 .. n, NEW j \in 1 .. n, i < j PROVE <<s[i], s[j]>> \in R
  <2>1. s[i] \in S /\ s[j] \in S /\ pos[s[i]] = i /\ pos[s[j]] = j
    BY <1>12
  <2>2. s[i] # s[j]
    BY <1>13, <1>14
  <2>3. <<s[i], s[j]>> \in R \/ <<s[j], s[i]>> \in R
    BY <2>1, <2>2
  <2>4. <<s[j], s[i]>> \notin R
    <3>1. SUFFICES ASSUME <<s[j], s[i]>> \in R PROVE FALSE
      OBVIOUS
    <3>2. pos[s[j]] < pos[s[i]]
      BY <1>4, <2>1, <3>1
    <3> QED BY <1>14, <2>1, <3>2
  <2> QED BY <2>3, <2>4
<1> QED BY <1>1, <1>12, <1>13, <1>14

-----------------------------------------------------------------------------
(* Logs *)

LEMMA LogDomain ==
  ASSUME NEW L, IsLog(L), NEW p \in Procs
  PROVE  /\ L[p] \in Seq(Entries(p)) /\ Len(L[p]) \in Nat /\ DOMAIN L[p] = 1 .. Len(L[p])
         /\ \A t \in DOMAIN L[p] : L[p][t] \in Entries(p) /\ L[p][t].comm \in Comms /\ L[p][t].comm.comm_id \in Nat
<1>1. L[p] \in Seq(Entries(p))
  BY DEF IsLog
<1>2. Len(L[p]) \in Nat /\ DOMAIN L[p] = 1 .. Len(L[p]) /\ L[p] \in [1 .. Len(L[p]) -> Entries(p)]
  BY <1>1, LenProperties
<1>3. ASSUME NEW t \in DOMAIN L[p] PROVE L[p][t] \in Entries(p)
  BY <1>2
<1>4. ASSUME NEW e \in Entries(p) PROVE e.comm \in Comms /\ e.comm.comm_id \in Nat
  BY DEF Entries, Comms
<1> QED BY <1>1, <1>2, <1>3, <1>4

LEMMA CallsAreFinite ==
  ASSUME NEW L, IsLog(L), NEW p \in Procs, NEW id
  PROVE  /\ CallsOn(L, p, id) \subseteq DOMAIN L[p] /\ IsFiniteSet(CallsOn(L, p, id))
         /\ Cardinality(CallsOn(L, p, id)) \in Nat
<1>1. IsFiniteSet(DOMAIN L[p])
  BY LogDomain, FS_Interval
<1>2. CallsOn(L, p, id) \subseteq DOMAIN L[p]
  BY DEF CallsOn
<1>3. IsFiniteSet(CallsOn(L, p, id))
  BY <1>1, <1>2, FS_Subset
<1> QED BY <1>2, <1>3, FS_CardinalityType

\* The calls of p on a communicator up to call t.
UpTo(L, p, id, t) == {s \in 1 .. t : L[p][s].comm.comm_id = id}

LEMMA PositionIsCount ==
  ASSUME NEW L, IsLog(L), NEW p \in Procs, NEW t \in DOMAIN L[p], NEW id, id = L[p][t].comm.comm_id
  PROVE  /\ PositionOf(L, p, t) = Cardinality(UpTo(L, p, id, t))
         /\ IsFiniteSet(UpTo(L, p, id, t)) /\ UpTo(L, p, id, t) \subseteq CallsOn(L, p, id)
         /\ t \in UpTo(L, p, id, t)
<1>1. PICK n \in Nat : n = Len(L[p]) /\ DOMAIN L[p] = 1 .. n
  BY LogDomain
<1>2. t \in 1 .. n /\ 1 .. t \subseteq 1 .. n
  BY <1>1
<1>3. UpTo(L, p, id, t) \subseteq CallsOn(L, p, id)
  BY <1>1, <1>2 DEF UpTo, CallsOn
<1>4. t \in UpTo(L, p, id, t)
  BY <1>2 DEF UpTo
<1>5. IsFiniteSet(UpTo(L, p, id, t))
  BY <1>3, CallsAreFinite, FS_Subset
<1> QED BY <1>3, <1>4, <1>5 DEF UpTo, PositionOf

\* Calls on a communicator have different positions, counted from 1.
LEMMA PositionFacts ==
  ASSUME NEW L, IsLog(L), NEW p \in Procs, NEW t \in DOMAIN L[p], NEW id, id = L[p][t].comm.comm_id
  PROVE  /\ PositionOf(L, p, t) \in 1 .. Cardinality(CallsOn(L, p, id))
         /\ \A s \in CallsOn(L, p, id) : PositionOf(L, p, s) = PositionOf(L, p, t) => s = t
<1>1. PICK n \in Nat : n = Len(L[p]) /\ DOMAIN L[p] = 1 .. n
  BY LogDomain
<1>2. PositionOf(L, p, t) \in 1 .. Cardinality(CallsOn(L, p, id))
  <2>1. PICK U : U = UpTo(L, p, id, t)
    OBVIOUS
  <2>2. PositionOf(L, p, t) = Cardinality(U) /\ IsFiniteSet(U) /\ U \subseteq CallsOn(L, p, id) /\ t \in U
    BY <2>1, PositionIsCount
  <2>3. IsFiniteSet(CallsOn(L, p, id)) /\ Cardinality(CallsOn(L, p, id)) \in Nat
    BY CallsAreFinite
  <2>4. Cardinality(U) <= Cardinality(CallsOn(L, p, id))
    BY <2>2, <2>3, FS_Subset
  <2>5. Cardinality(U) \in Nat /\ Cardinality(U) # 0
    BY <2>2, FS_CardinalityType, FS_EmptySet
  <2> QED BY <2>2, <2>3, <2>4, <2>5
<1>3. ASSUME NEW r \in CallsOn(L, p, id), NEW s \in CallsOn(L, p, id), r < s
      PROVE  PositionOf(L, p, r) < PositionOf(L, p, s)
  <2>1. PICK U, V : U = UpTo(L, p, id, r) /\ V = UpTo(L, p, id, s)
    OBVIOUS
  <2>2. r \in 1 .. n /\ s \in 1 .. n /\ id = L[p][r].comm.comm_id /\ id = L[p][s].comm.comm_id
    BY <1>1 DEF CallsOn
  <2>3. /\ PositionOf(L, p, r) = Cardinality(U) /\ IsFiniteSet(U)
        /\ PositionOf(L, p, s) = Cardinality(V) /\ IsFiniteSet(V) /\ s \in V
    BY <1>1, <2>1, <2>2, PositionIsCount
  <2>4. U \subseteq V
    BY <1>3, <2>1, <2>2 DEF UpTo
  <2>5. s \notin U
    BY <1>3, <2>1, <2>2 DEF UpTo
  <2>6. Cardinality(U) <= Cardinality(V) /\ Cardinality(U) # Cardinality(V)
    BY <2>3, <2>4, <2>5, FS_Subset
  <2>7. Cardinality(U) \in Nat /\ Cardinality(V) \in Nat
    BY <2>3, FS_CardinalityType
  <2> QED BY <2>3, <2>6, <2>7
<1>4. ASSUME NEW s \in CallsOn(L, p, id), PositionOf(L, p, s) = PositionOf(L, p, t) PROVE s = t
  <2>1. s \in 1 .. n /\ t \in 1 .. n /\ t \in CallsOn(L, p, id)
    BY <1>1 DEF CallsOn
  <2>2. PositionOf(L, p, t) \in Int
    BY <1>2
  <2>3. CASE s < t
    BY <1>3, <1>4, <2>1, <2>2, <2>3
  <2>4. CASE t < s
    BY <1>3, <1>4, <2>1, <2>2, <2>4
  <2> QED BY <2>1, <2>3, <2>4
<1> QED BY <1>2, <1>4

\* K is the log L after the call of p that entry describes.
Appended(L, K, p, entry) == K = [L EXCEPT ![p] = Append(@, entry)]

LEMMA AppendingToLog ==
  ASSUME NEW L, IsLog(L), NEW p \in Procs, NEW entry \in Entries(p), NEW K, Appended(L, K, p, entry)
  PROVE  /\ IsLog(K)
         /\ DOMAIN K[p] = DOMAIN L[p] \cup {Len(L[p]) + 1} /\ Len(L[p]) + 1 \notin DOMAIN L[p]
         /\ Len(K[p]) = Len(L[p]) + 1
         /\ K[p][Len(L[p]) + 1] = entry
         /\ \A t \in DOMAIN L[p] : K[p][t] = L[p][t]
         /\ \A q \in Procs \ {p} : K[q] = L[q]
<1>1. PICK n \in Nat : n = Len(L[p]) /\ DOMAIN L[p] = 1 .. n /\ L[p] \in Seq(Entries(p))
  BY LogDomain
<1>2. DOMAIN L = Procs
  BY DEF IsLog
<1>3. DOMAIN K = Procs /\ K[p] = Append(L[p], entry) /\ \A q \in Procs \ {p} : K[q] = L[q]
  BY <1>2 DEF Appended
<1>4. /\ K[p] \in Seq(Entries(p)) /\ Len(K[p]) = n + 1
      /\ \A t \in 1 .. n : K[p][t] = L[p][t]
      /\ K[p][n + 1] = entry
  BY <1>1, <1>3, AppendProperties
<1>5. IsLog(K)
  BY <1>3, <1>4 DEF IsLog
<1>6. DOMAIN K[p] = 1 .. n + 1
  BY <1>4, LenProperties
<1> QED BY <1>1, <1>3, <1>4, <1>5, <1>6

\* A call is the last on its communicator; the others keep their positions.
LEMMA AppendedCalls ==
  ASSUME NEW L, IsLog(L), NEW p \in Procs, NEW entry \in Entries(p), NEW K, Appended(L, K, p, entry)
  PROVE  /\ \A q \in Procs \ {p} : \A id : CallsOn(K, q, id) = CallsOn(L, q, id)
         /\ \A id : CallsOn(K, p, id) = IF id = entry.comm.comm_id
                                        THEN CallsOn(L, p, id) \cup {Len(L[p]) + 1} ELSE CallsOn(L, p, id)
         /\ \A q \in Procs : \A t \in DOMAIN L[q] :
              K[q][t] = L[q][t] /\ PositionOf(K, q, t) = PositionOf(L, q, t)
         /\ PositionOf(K, p, Len(L[p]) + 1) = Cardinality(CallsOn(L, p, entry.comm.comm_id)) + 1
<1>1. /\ IsLog(K)
      /\ DOMAIN K[p] = DOMAIN L[p] \cup {Len(L[p]) + 1} /\ Len(L[p]) + 1 \notin DOMAIN L[p]
      /\ K[p][Len(L[p]) + 1] = entry
      /\ \A t \in DOMAIN L[p] : K[p][t] = L[p][t]
      /\ \A q \in Procs \ {p} : K[q] = L[q]
  BY AppendingToLog
<1>2. \A q \in Procs \ {p} : \A id : CallsOn(K, q, id) = CallsOn(L, q, id)
  BY <1>1 DEF CallsOn
<1>3. ASSUME NEW id
      PROVE  CallsOn(K, p, id) = IF id = entry.comm.comm_id
                                 THEN CallsOn(L, p, id) \cup {Len(L[p]) + 1} ELSE CallsOn(L, p, id)
  <2>1. \A t \in DOMAIN L[p] : t \in CallsOn(K, p, id) <=> t \in CallsOn(L, p, id)
    BY <1>1 DEF CallsOn
  <2>2. Len(L[p]) + 1 \in CallsOn(K, p, id) <=> id = entry.comm.comm_id
    BY <1>1 DEF CallsOn
  <2>3. CallsOn(K, p, id) \subseteq DOMAIN L[p] \cup {Len(L[p]) + 1} /\ CallsOn(L, p, id) \subseteq DOMAIN L[p]
    BY <1>1 DEF CallsOn
  <2>4. CASE id = entry.comm.comm_id
    <3>1. CallsOn(K, p, id) = CallsOn(L, p, id) \cup {Len(L[p]) + 1}
      BY <2>1, <2>2, <2>3, <2>4
    <3> QED BY <2>4, <3>1
  <2>5. CASE id # entry.comm.comm_id
    <3>1. CallsOn(K, p, id) = CallsOn(L, p, id)
      BY <1>1, <2>1, <2>2, <2>3, <2>5
    <3> QED BY <2>5, <3>1
  <2> QED BY <2>4, <2>5
<1>4. ASSUME NEW q \in Procs, NEW t \in DOMAIN L[q]
      PROVE  K[q][t] = L[q][t] /\ PositionOf(K, q, t) = PositionOf(L, q, t)
  <2>1. \A s \in DOMAIN L[q] : K[q][s] = L[q][s]
    BY <1>1
  <2>2. 1 .. t \subseteq DOMAIN L[q]
    BY LogDomain
  <2>3. \A s \in 1 .. t : K[q][s] = L[q][s]
    BY <2>1, <2>2
  <2>4. {s \in 1 .. t : K[q][s].comm.comm_id = K[q][t].comm.comm_id}
          = {s \in 1 .. t : L[q][s].comm.comm_id = L[q][t].comm.comm_id}
    BY <2>1, <2>3
  <2> QED BY <2>1, <2>4 DEF PositionOf
<1>5. PositionOf(K, p, Len(L[p]) + 1) = Cardinality(CallsOn(L, p, entry.comm.comm_id)) + 1
  <2>1. PICK n \in Nat : n = Len(L[p]) /\ DOMAIN L[p] = 1 .. n
    BY LogDomain
  <2>2. PICK id : id = entry.comm.comm_id
    OBVIOUS
  <2>3. {s \in 1 .. n + 1 : K[p][s].comm.comm_id = K[p][n + 1].comm.comm_id} = CallsOn(K, p, id)
    BY <1>1, <2>1, <2>2 DEF CallsOn
  <2>4. CallsOn(K, p, id) = CallsOn(L, p, id) \cup {n + 1}
    BY <1>3, <2>1, <2>2
  <2>5. IsFiniteSet(CallsOn(L, p, id)) /\ n + 1 \notin CallsOn(L, p, id)
    BY <1>1, <2>1, CallsAreFinite
  <2>6. Cardinality(CallsOn(K, p, id)) = Cardinality(CallsOn(L, p, id)) + 1
    BY <2>4, <2>5, OneMore
  <2> QED BY <2>1, <2>2, <2>3, <2>6 DEF PositionOf
<1> QED BY <1>2, <1>3, <1>4, <1>5

\* Calls of one process with one number on one communicator are one call.
LEMMA OneCallAt ==
  ASSUME NEW L, IsLog(L), NEW p \in Procs, NEW id, NEW k \in Int, NEW t \in CallsAt(L, p, id, k)
  PROVE  /\ CallsAt(L, p, id, k) = {t} /\ t \in DOMAIN L[p] /\ L[p][t].comm.comm_id = id
         /\ PositionOf(L, p, t) = k + 1 /\ k \in Nat /\ k < Cardinality(CallsOn(L, p, id))
<1>1. t \in DOMAIN L[p] /\ L[p][t].comm.comm_id = id /\ t \in CallsOn(L, p, id) /\ PositionOf(L, p, t) = k + 1
  BY DEF CallsAt, CallsOn
<1>2. \A s \in CallsAt(L, p, id, k) : s = t
  BY <1>1, PositionFacts DEF CallsAt
<1>3. k + 1 \in 1 .. Cardinality(CallsOn(L, p, id)) /\ Cardinality(CallsOn(L, p, id)) \in Nat
  BY <1>1, PositionFacts, CallsAreFinite
<1> QED BY <1>1, <1>2, <1>3

\* A call of p is call number k on its communicator, if p had made k calls there.
CalledHere(L, K, p, id, k) ==
  CallsAt(L, p, id, k) = {} /\ CallsAt(K, p, id, k) = {Len(L[p]) + 1}

OthersAsBefore(L, K, p, id, k) ==
  \A q \in Procs : \A d : \A j \in Int :
    q # p \/ d # id \/ j # k => CallsAt(K, q, d, j) = CallsAt(L, q, d, j)

LEMMA AppendedCallsAt ==
  ASSUME NEW L, IsLog(L), NEW p \in Procs, NEW entry \in Entries(p), NEW K, Appended(L, K, p, entry),
         NEW id, id = entry.comm.comm_id, NEW k \in Nat, k = Cardinality(CallsOn(L, p, id))
  PROVE  CalledHere(L, K, p, id, k) /\ OthersAsBefore(L, K, p, id, k)
<1>1. PICK n \in Nat : n = Len(L[p]) /\ DOMAIN L[p] = 1 .. n
  BY LogDomain
<1>2. /\ \A q \in Procs \ {p} : \A d : CallsOn(K, q, d) = CallsOn(L, q, d)
      /\ \A d : CallsOn(K, p, d) = IF d = id THEN CallsOn(L, p, d) \cup {n + 1} ELSE CallsOn(L, p, d)
      /\ \A q \in Procs : \A t \in DOMAIN L[q] : PositionOf(K, q, t) = PositionOf(L, q, t)
      /\ PositionOf(K, p, n + 1) = k + 1
  BY <1>1, AppendedCalls
<1>3. \A q \in Procs : \A d : CallsOn(L, q, d) \subseteq DOMAIN L[q]
  BY DEF CallsOn
<1>4. CallsAt(L, p, id, k) = {}
  <2>1. SUFFICES ASSUME NEW t \in CallsAt(L, p, id, k) PROVE FALSE
    OBVIOUS
  <2> QED BY OneCallAt
<1>5. CallsAt(K, p, id, k) = {n + 1}
  <2>1. ASSUME NEW t \in CallsAt(K, p, id, k) PROVE t = n + 1
    <3>1. SUFFICES ASSUME t # n + 1 PROVE FALSE
      OBVIOUS
    <3>2. t \in CallsOn(L, p, id) /\ PositionOf(K, p, t) = k + 1
      BY <1>2, <2>1, <3>1 DEF CallsAt
    <3>3. t \in CallsAt(L, p, id, k)
      BY <1>2, <1>3, <3>2 DEF CallsAt
    <3> QED BY <1>4, <3>3
  <2>2. n + 1 \in CallsAt(K, p, id, k)
    BY <1>2 DEF CallsAt
  <2> QED BY <2>1, <2>2
<1>6. ASSUME NEW q \in Procs, NEW d, NEW j \in Int, q # p \/ d # id \/ j # k
      PROVE  CallsAt(K, q, d, j) = CallsAt(L, q, d, j)
  <2>1. \A t \in CallsOn(L, q, d) : PositionOf(K, q, t) = PositionOf(L, q, t)
    BY <1>2, <1>3
  <2>2. CASE q # p \/ d # id
    <3>1. CallsOn(K, q, d) = CallsOn(L, q, d)
      BY <1>2, <2>2
    <3> QED BY <2>1, <3>1 DEF CallsAt
  <2>3. CASE q = p /\ d = id /\ j # k
    <3>1. CallsOn(K, q, d) = CallsOn(L, q, d) \cup {n + 1}
      BY <1>2, <2>3
    <3>2. PositionOf(K, q, n + 1) # j + 1
      BY <1>2, <2>3
    <3> QED BY <2>1, <3>1, <3>2 DEF CallsAt
  <2> QED BY <1>6, <2>2, <2>3
<1>7. OthersAsBefore(L, K, p, id, k)
  BY <1>6 DEF OthersAsBefore
<1> QED BY <1>1, <1>4, <1>5, <1>7 DEF CalledHere

-----------------------------------------------------------------------------
(* Types *)

LEMMA GlobalFields ==
  ASSUME NEW G \in GlobalStates
  PROVE  /\ DOMAIN G.states = Procs /\ \A p \in Procs : G.states[p] \in StateRecords
         /\ G.operations \in Seq(OperationRecords) /\ G.comm_id_counter \in Nat
         /\ G = [states |-> G.states, operations |-> G.operations, comm_id_counter |-> G.comm_id_counter]
BY DEF GlobalStates

LEMMA StateFields ==
  ASSUME NEW S \in StateRecords
  PROVE  /\ S.comms \in Seq(Comms) /\ S.counters \in Seq(Nat) /\ S.groups \in GroupTables
         /\ S.keyvals \in Seq(Keyvals) /\ S.attrs \in SUBSET Attributes
         /\ S.made \in SUBSET Attributes /\ S.deleted \in SUBSET Attributes
         /\ S.status \in Statuses /\ S.tested \in Seq(Nat) /\ S.pointer \in Seq(1 .. RequestVars)
         /\ S.active \in Seq(Requests) /\ S.finished \in SUBSET Requests
BY DEF StateRecords

LEMMA CommFields ==
  ASSUME NEW c \in Comms
  PROVE  /\ c.comm_id \in Nat /\ c.group \in Groups
         /\ c.group.table \in Seq(Procs) /\ IsInjective(c.group.table)
         /\ c = [comm_id |-> c.comm_id, group |-> c.group]
BY DEF Comms, Groups

\* The members of a communicator, and how many they are.
Members(c) == ToSet(c.group.table)

LEMMA MembersAreCounted ==
  ASSUME NEW c \in Comms
  PROVE  /\ Size(c) \in Nat /\ DOMAIN c.group.table = 1 .. Size(c)
         /\ Members(c) \subseteq Procs /\ IsFiniteSet(Members(c)) /\ Cardinality(Members(c)) = Size(c)
         /\ \A p \in Members(c) : PidToRank(c, p) \in 0 .. Size(c) - 1 /\ RankToPid(c, PidToRank(c, p)) = p
<1>1. PICK n, f : n \in Nat /\ f = c.group.table /\ n = Len(f) /\ f \in [1 .. n -> Procs] /\ IsInjective(f)
  BY CommFields, LenProperties
<1>2. Size(c) = n /\ DOMAIN c.group.table = 1 .. n /\ Members(c) = ToSet(f)
  BY <1>1 DEF Size, Members
<1>3. Members(c) \subseteq Procs /\ IsFiniteSet(Members(c)) /\ Cardinality(Members(c)) = n
  BY <1>1, <1>2, TableSize
<1>4. ASSUME NEW p \in Members(c)
      PROVE  PidToRank(c, p) \in 0 .. n - 1 /\ RankToPid(c, PidToRank(c, p)) = p
  <2>1. PICK I : I = {i \in 1 .. n : f[i] = p}
    OBVIOUS
  <2>2. I # {} /\ I \in SUBSET Nat
    BY <1>1, <1>2, <2>1 DEF ToSet
  <2>3. PICK m : m = Min(I)
    OBVIOUS
  <2>4. m \in 1 .. n /\ f[m] = p
    BY <2>1, <2>2, <2>3, MinIsSmallest
  <2>5. PidToRank(c, p) = m - 1
    <3>1. SelectInSeq(c.group.table, LAMBDA q : q = p) = m
      BY <1>1, <2>1, <2>2, <2>3 DEF SelectInSeq
    <3> QED BY <2>4, <3>1 DEF PidToRank
  <2>6. m - 1 \in 0 .. n - 1 /\ m - 1 + 1 = m
    BY <1>1, <2>4
  <2> QED BY <1>1, <2>4, <2>5, <2>6 DEF RankToPid
<1> QED BY <1>1, <1>2, <1>3, <1>4

LEMMA PermanentComms ==
  /\ MakeCommWorld \in Comms /\ Members(MakeCommWorld) = Procs /\ MakeCommWorld.comm_id = CommWorld
  /\ \A p \in Procs : /\ MakeCommSelf(p) \in Comms /\ Members(MakeCommSelf(p)) = {p}
                      /\ MakeCommSelf(p).comm_id = CommSelf /\ Size(MakeCommSelf(p)) = 1
<1>1. ProcessCount \in Nat
  BY CommunicatorsAssumption
<1>2. PICK f : f = [i \in 1 .. ProcessCount |-> i - 1]
  OBVIOUS
<1>3. f \in [1 .. ProcessCount -> Procs] /\ IsInjective(f)
  BY <1>1, <1>2 DEF Procs, IsInjective
<1>4. ToSet(f) = Procs
  <2>1. ASSUME NEW p \in Procs PROVE p \in ToSet(f)
    <3>1. p + 1 \in 1 .. ProcessCount /\ f[p + 1] = p
      BY <1>1, <1>2 DEF Procs
    <3> QED BY <1>3, <3>1 DEF ToSet
  <2> QED BY <1>3, <2>1 DEF ToSet
<1>5. GroupWorld \in Groups /\ GroupWorld.table = f
  <2>1. f \in {table \in Seq(Procs) : IsInjective(table)}
    BY <1>1, <1>3, FunctionIsSequence
  <2>2. GroupWorld = [object |-> <<"world", 0, 0>>, table |-> f]
    BY <1>2 DEF GroupWorld, NewGroup
  <2>3. <<"world", 0, 0>> \in {"world", "self", "comm", "made"} \X Nat \X Nat
    OBVIOUS
  <2> QED BY <2>1, <2>2, <2>3 DEF Groups
<1>6. MakeCommWorld \in Comms /\ Members(MakeCommWorld) = Procs /\ MakeCommWorld.comm_id = CommWorld
  BY <1>4, <1>5 DEF MakeCommWorld, Communicator, Comms, CommWorld, Members
<1>7. ASSUME NEW p \in Procs
      PROVE  /\ MakeCommSelf(p) \in Comms /\ Members(MakeCommSelf(p)) = {p}
             /\ MakeCommSelf(p).comm_id = CommSelf /\ Size(MakeCommSelf(p)) = 1
  <2>1. p \in Nat
    BY <1>1 DEF Procs
  <2>2. <<p>> \in Seq(Procs) /\ IsInjective(<<p>>) /\ ToSet(<<p>>) = {p}
    BY DEF IsInjective, ToSet
  <2>3. PICK g : g = NewGroup(<<"self", p, 0>>, <<p>>)
    OBVIOUS
  <2>4. g \in Groups /\ g.table = <<p>>
    <3>1. <<p>> \in {table \in Seq(Procs) : IsInjective(table)}
      BY <2>2
    <3>2. g = [object |-> <<"self", p, 0>>, table |-> <<p>>]
      BY <2>3 DEF NewGroup
    <3>3. <<"self", p, 0>> \in {"world", "self", "comm", "made"} \X Nat \X Nat
      BY <2>1
    <3> QED BY <3>1, <3>2, <3>3 DEF Groups
  <2>5. MakeCommSelf(p) = [comm_id |-> CommSelf, group |-> g]
    BY <2>3 DEF MakeCommSelf, Communicator
  <2> QED BY <2>2, <2>4, <2>5 DEF Comms, CommSelf, Members, Size
<1> QED BY <1>6, <1>7

-----------------------------------------------------------------------------
(* Communicators *)

LEMMA CommNumbers ==
  CommNull = 0 /\ CommSelf = 1 /\ CommWorld = 2 /\ CommUserdef = 3
BY DEF CommNull, CommSelf, CommWorld, CommUserdef

\* Process p finds communicator c under an id.
Finds(G, p, id, c) == c = GetComm(G.states[p], p, id) /\ c # None

LEMMA GettingComm ==
  ASSUME NEW G \in GlobalStates, NEW L, IsLog(L), CommsOK(G, L), NEW p \in Procs, NEW id,
         NEW c, Finds(G, p, id, c)
  PROVE  /\ c \in Comms /\ c.comm_id = id /\ IsMember(p, c, G.comm_id_counter)
         /\ \/ id = CommWorld /\ c = MakeCommWorld
            \/ id = CommSelf /\ c = MakeCommSelf(p)
            \/ /\ id \notin {CommWorld, CommSelf}
               /\ \E i \in DOMAIN G.states[p].comms : c = G.states[p].comms[i]
<1>0. c = GetComm(G.states[p], p, id) /\ c # None
  BY DEF Finds
<1>1. CASE id = CommWorld
  <2>1. c = MakeCommWorld
    BY <1>0, <1>1 DEF GetComm
  <2>2. c \in Comms /\ c.comm_id = id /\ p \in Members(c)
    BY <1>1, <2>1, PermanentComms
  <2>3. IsMember(p, c, G.comm_id_counter)
    BY <1>1, <2>1, <2>2, CommNumbers DEF IsMember, Members
  <2> QED BY <1>1, <2>1, <2>2, <2>3
<1>2. CASE id = CommSelf
  <2>1. c = MakeCommSelf(p)
    BY <1>0, <1>2, CommNumbers DEF GetComm
  <2>2. c \in Comms /\ c.comm_id = id /\ p \in Members(c)
    BY <1>2, <2>1, PermanentComms
  <2>3. IsMember(p, c, G.comm_id_counter)
    BY <1>2, <2>1, <2>2, CommNumbers DEF IsMember, Members
  <2> QED BY <1>2, <2>1, <2>2, <2>3
<1>3. CASE id # CommWorld /\ id # CommSelf
  <2>0. PICK comms : comms = G.states[p].comms
    OBVIOUS
  <2>1. PICK n \in Nat : comms = G.states[p].comms /\ comms \in [1 .. n -> Comms] /\ n = Len(comms)
    <3>1. G.states[p] \in StateRecords
      BY GlobalFields
    <3>2. comms \in Seq(Comms)
      BY <2>0, <3>1, StateFields
    <3> QED BY <2>0, <3>2, LenProperties
  <2>2. PICK I : I = {i \in 1 .. n : comms[i].comm_id = id}
    OBVIOUS
  <2>3. SelectInSeq(comms, LAMBDA d : d.comm_id = id) = IF I # {} THEN Min(I) ELSE 0
    BY <2>1, <2>2 DEF SelectInSeq
  <2>4. PICK m : m = IF I # {} THEN Min(I) ELSE 0
    OBVIOUS
  <2>5. c = IF m = 0 THEN None ELSE comms[m]
    BY <1>0, <1>3, <2>1, <2>3, <2>4 DEF GetComm
  <2>6. m \in 0 .. n /\ (I # {} => m \in I) /\ (m = 0 <=> I = {})
    BY <2>2, <2>4, FirstPlace
  <2>7. m \in 1 .. n /\ comms[m].comm_id = id /\ c = comms[m]
    BY <1>0, <2>2, <2>5, <2>6
  <2>8. c \in Known(G, L, p)
    BY <2>1, <2>7 DEF Known, ToSet
  <2>9. IsMember(p, c, G.comm_id_counter)
    BY <2>8 DEF CommsOK
  <2> QED BY <1>3, <2>1, <2>7, <2>9
<1> QED BY <1>1, <1>2, <1>3

\* Where the counter of a communicator is, and what it counts.
LEMMA CounterOfComm ==
  ASSUME NEW G \in GlobalStates, NEW L, IsLog(L), CommsOK(G, L), CountersOK(G, L), NEW p \in Procs, NEW id,
         NEW c, Finds(G, p, id, c), NEW x, x = CounterIndex(G.states[p], c)
  PROVE  /\ x \in DOMAIN G.states[p].counters
         /\ G.states[p].counters[x] = Cardinality(CallsOn(L, p, id))
         /\ x = 1 <=> id = CommWorld
         /\ x = 2 <=> id = CommSelf
         /\ \A i \in DOMAIN G.states[p].comms : x = i + 2 <=> id = G.states[p].comms[i].comm_id
<1>1. PICK S : S = G.states[p] /\ S \in StateRecords
  BY GlobalFields
<1>2. PICK n \in Nat : n = Len(S.comms) /\ S.comms \in [1 .. n -> Comms] /\ S.counters \in [1 .. n + 2 -> Nat]
  <2>1. Len(S.counters) = Len(S.comms) + 2
    BY <1>1 DEF CountersOK
  <2>2. S.counters \in [1 .. Len(S.counters) -> Nat] /\ S.comms \in [1 .. Len(S.comms) -> Comms]
        /\ Len(S.comms) \in Nat
    BY <1>1, StateFields, LenProperties
  <2> QED BY <2>1, <2>2
<1>3. c.comm_id = id /\ (id \notin {CommWorld, CommSelf} => \E i \in 1 .. n : c = S.comms[i])
  <2>1. /\ c.comm_id = id
        /\ id \notin {CommWorld, CommSelf} => \E i \in DOMAIN G.states[p].comms : c = G.states[p].comms[i]
    BY GettingComm, CommNumbers
  <2>2. DOMAIN G.states[p].comms = 1 .. n
    BY <1>1, <1>2
  <2> QED BY <1>1, <2>1, <2>2
<1>4. /\ \A i \in 1 .. n : S.comms[i].comm_id > CommUserdef
      /\ \A i \in 1 .. n, j \in 1 .. n : S.comms[i].comm_id = S.comms[j].comm_id => i = j
  BY <1>1, <1>2 DEF CommsOK
<1>5. /\ S.counters[1] = Cardinality(CallsOn(L, p, CommWorld))
      /\ S.counters[2] = Cardinality(CallsOn(L, p, CommSelf))
      /\ \A i \in 1 .. n : S.counters[i + 2] = Cardinality(CallsOn(L, p, S.comms[i].comm_id))
  BY <1>1, <1>2 DEF CountersOK
<1>6. \A i \in 1 .. n : S.comms[i].comm_id # CommWorld /\ S.comms[i].comm_id # CommSelf
  <2>1. \A i \in 1 .. n : S.comms[i].comm_id \in Nat
    BY <1>2, CommFields
  <2> QED BY <1>4, <2>1, CommNumbers
<1>6a. DOMAIN S.counters = 1 .. n + 2 /\ DOMAIN S.comms = 1 .. n /\ 1 \in 1 .. n + 2 /\ 2 \in 1 .. n + 2
  BY <1>2
<1>7. CASE id = CommWorld
  <2>1. x = 1
    BY <1>1, <1>3, <1>7, CommNumbers DEF CounterIndex
  <2>2. \A i \in 1 .. n : x # i + 2
    BY <2>1
  <2> QED BY <1>1, <1>5, <1>6, <1>6a, <1>7, <2>1, <2>2, CommNumbers
<1>8. CASE id = CommSelf
  <2>1. x = 2
    BY <1>1, <1>3, <1>8, CommNumbers DEF CounterIndex
  <2>2. \A i \in 1 .. n : x # i + 2
    BY <2>1
  <2> QED BY <1>1, <1>5, <1>6, <1>6a, <1>8, <2>1, <2>2, CommNumbers
<1>9. CASE id # CommWorld /\ id # CommSelf
  <2>1. PICK i \in 1 .. n : c = S.comms[i]
    BY <1>3, <1>9
  <2>2. PICK I : I = {j \in 1 .. n : S.comms[j].comm_id = c.comm_id}
    OBVIOUS
  <2>3. I = {i}
    BY <1>4, <2>1, <2>2
  <2>4. I # {} /\ Min(I) = i
    BY <2>3, MinIsSmallest
  <2>5. SelectInSeq(S.comms, LAMBDA d : d.comm_id = c.comm_id) = i
    BY <1>2, <2>2, <2>4 DEF SelectInSeq
  <2>6. x = 2 + i
    BY <1>1, <1>3, <1>9, <2>5 DEF CounterIndex
  <2>7. x \in 1 .. n + 2 /\ x # 1 /\ x # 2 /\ x = i + 2
    BY <2>6
  <2>8. S.counters[x] = Cardinality(CallsOn(L, p, id))
    BY <1>3, <1>5, <2>1, <2>7
  <2>9. \A j \in 1 .. n : x = j + 2 <=> id = S.comms[j].comm_id
    BY <1>3, <1>4, <2>1, <2>7
  <2> QED BY <1>1, <1>2, <1>9, <2>7, <2>8, <2>9
<1> QED BY <1>7, <1>8, <1>9

\* What requests and waiting depend on, and what attributes depend on, is the same.
SameWork(S, T) ==
  /\ T.active = S.active /\ T.finished = S.finished
  /\ T.status = S.status /\ T.tested = S.tested /\ T.pointer = S.pointer
SameAttributes(S, T) ==
  T.keyvals = S.keyvals /\ T.attrs = S.attrs /\ T.made = S.made /\ T.deleted = S.deleted
SameComms(S, T) == T.comms = S.comms /\ T.counters = S.counters

\* Processes that know a communicator under one id know the same one.
LEMMA OneCommPerId ==
  ASSUME NEW G \in GlobalStates, NEW L, IsLog(L), CommsOK(G, L), NEW p \in Procs, NEW id,
         NEW c, Finds(G, p, id, c),
         NEW q \in Procs, NEW d \in Known(G, L, q), d.comm_id = c.comm_id, c.comm_id # CommSelf
  PROVE  d = c
<1>1. /\ c.comm_id = id
      /\ \/ id = CommWorld /\ c = MakeCommWorld
         \/ id = CommSelf /\ c = MakeCommSelf(p)
         \/ \E i \in DOMAIN G.states[p].comms : c = G.states[p].comms[i]
  BY GettingComm
<1>2. CASE id = CommWorld
  <2>1. IsMember(q, d, G.comm_id_counter)
    BY DEF CommsOK
  <2>2. d = MakeCommWorld
    BY <1>1, <1>2, <2>1 DEF IsMember
  <2>3. c = MakeCommWorld
    BY <1>2 DEF GetComm, Finds
  <2> QED BY <2>2, <2>3
<1>3. CASE id # CommWorld
  <2>1. c \in Known(G, L, p)
    BY <1>1, <1>3 DEF Known, ToSet
  <2> QED BY <2>1 DEF CommsOK
<1> QED BY <1>2, <1>3

LEMMA CommsFrame ==
  ASSUME NEW G, NEW H, NEW L, CommsOK(G, L), CountersOK(G, L),
         \A p \in Procs : SameComms(G.states[p], H.states[p]), H.comm_id_counter = G.comm_id_counter
  PROVE  CommsOK(H, L) /\ CountersOK(H, L)
<1>1. \A p \in Procs : H.states[p].comms = G.states[p].comms /\ H.states[p].counters = G.states[p].counters
  BY DEF SameComms
<1>2. \A p \in Procs : Known(H, L, p) = Known(G, L, p)
  BY <1>1 DEF Known
<1>3. CommsOK(H, L)
  BY <1>1, <1>2 DEF CommsOK
<1>4. CountersOK(H, L)
  BY <1>1 DEF CountersOK
<1> QED BY <1>3, <1>4

\* One state of a global state is replaced.
Replaced(G, p, T, ops) == [G EXCEPT !.operations = ops, !.states[p] = T]

LEMMA ReplacingState ==
  ASSUME NEW G \in GlobalStates, NEW p \in Procs, NEW T \in StateRecords, NEW ops \in Seq(OperationRecords),
         NEW H, H = Replaced(G, p, T, ops)
  PROVE  /\ H \in GlobalStates /\ H.operations = ops /\ H.comm_id_counter = G.comm_id_counter
         /\ H.states[p] = T /\ \A q \in Procs \ {p} : H.states[q] = G.states[q]
<1>1. PICK st : st = [G.states EXCEPT ![p] = T]
  OBVIOUS
<1>2. st \in [Procs -> StateRecords] /\ st[p] = T /\ \A q \in Procs \ {p} : st[q] = G.states[q]
  BY <1>1 DEF GlobalStates
<1>3. H = [states |-> st, operations |-> ops, comm_id_counter |-> G.comm_id_counter]
  BY <1>1 DEF GlobalStates, Replaced
<1> QED BY <1>2, <1>3 DEF GlobalStates

\* A call counts on its communicator.
CountedCall(G, p, c, ops) == Replaced(G, p, IncCounter(G.states[p], c), ops)

LEMMA CallKeepsComms ==
  ASSUME NEW G \in GlobalStates, NEW L, IsLog(L), CommsOK(G, L), CountersOK(G, L), NEW p \in Procs,
         NEW entry \in Entries(p), NEW K, Appended(L, K, p, entry),
         NEW id, Finds(G, p, id, entry.comm),
         NEW ops \in Seq(OperationRecords),
         NEW H, H = CountedCall(G, p, entry.comm, ops)
  PROVE  /\ H \in GlobalStates /\ H.operations = ops /\ H.comm_id_counter = G.comm_id_counter
         /\ CommsOK(H, K) /\ CountersOK(H, K)
         /\ \A q \in Procs : /\ H.states[q].comms = G.states[q].comms
                             /\ SameWork(G.states[q], H.states[q]) /\ SameAttributes(G.states[q], H.states[q])
<1>1. PICK S : S = G.states[p] /\ S \in StateRecords
  BY GlobalFields
<1>2. PICK c : c = entry.comm
  OBVIOUS
<1>3. c.comm_id = id /\ IsMember(p, c, G.comm_id_counter)
  <2>1. entry.comm.comm_id = id /\ IsMember(p, entry.comm, G.comm_id_counter)
    BY GettingComm
  <2> QED BY <1>2, <2>1
<1>4. PICK x : x = CounterIndex(S, c)
  OBVIOUS
<1>5. /\ x \in DOMAIN S.counters
      /\ S.counters[x] = Cardinality(CallsOn(L, p, id))
      /\ x = 1 <=> id = CommWorld
      /\ x = 2 <=> id = CommSelf
      /\ \A i \in DOMAIN S.comms : x = i + 2 <=> id = S.comms[i].comm_id
  <2>1. x = CounterIndex(G.states[p], entry.comm)
    BY <1>1, <1>2, <1>4
  <2>2. /\ x \in DOMAIN G.states[p].counters
        /\ G.states[p].counters[x] = Cardinality(CallsOn(L, p, id))
        /\ x = 1 <=> id = CommWorld
        /\ x = 2 <=> id = CommSelf
        /\ \A i \in DOMAIN G.states[p].comms : x = i + 2 <=> id = G.states[p].comms[i].comm_id
    BY <2>1, CounterOfComm
  <2> QED BY <1>1, <2>2
<1>6. PICK ks : ks = [S.counters EXCEPT ![x] = @ + 1]
  OBVIOUS
<1>7. /\ ks \in Seq(Nat) /\ Len(ks) = Len(S.counters) /\ ks[x] = S.counters[x] + 1
      /\ \A y \in DOMAIN S.counters : y # x => ks[y] = S.counters[y]
  <2>1. S.counters \in Seq(Nat)
    BY <1>1, StateFields
  <2>2. S.counters[x] + 1 \in Nat
    BY <1>5, <2>1, LenProperties
  <2>3. ks = [S.counters EXCEPT ![x] = S.counters[x] + 1]
    BY <1>6
  <2> QED BY <1>5, <2>1, <2>2, <2>3, ReplacingOne
<1>8. PICK T : T = [S EXCEPT !.counters = ks]
  OBVIOUS
<1>9. T \in StateRecords /\ T.comms = S.comms /\ T.counters = ks /\ SameWork(S, T) /\ SameAttributes(S, T)
  BY <1>1, <1>7, <1>8 DEF StateRecords, SameWork, SameAttributes
<1>10. IncCounter(S, c) = T
  BY <1>4, <1>6, <1>8 DEF IncCounter
<1>11. /\ H \in GlobalStates /\ H.operations = ops /\ H.comm_id_counter = G.comm_id_counter
       /\ H.states[p] = T /\ \A q \in Procs \ {p} : H.states[q] = G.states[q]
  <2>1. H = Replaced(G, p, T, ops)
    BY <1>1, <1>2, <1>10 DEF CountedCall
  <2> QED BY <1>9, <2>1, ReplacingState
<1>12. \A q \in Procs : /\ H.states[q].comms = G.states[q].comms
                        /\ SameWork(G.states[q], H.states[q]) /\ SameAttributes(G.states[q], H.states[q])
  BY <1>1, <1>9, <1>11 DEF SameWork, SameAttributes
<1>13. \A q \in Procs \ {p} : Known(H, K, q) = Known(G, L, q)
  <2>1. \A q \in Procs \ {p} : K[q] = L[q]
    BY AppendingToLog
  <2> QED BY <1>12, <2>1 DEF Known
<1>14. Known(H, K, p) = Known(G, L, p) \cup {c}
  <2>1. /\ DOMAIN K[p] = DOMAIN L[p] \cup {Len(L[p]) + 1}
        /\ K[p][Len(L[p]) + 1] = entry
        /\ \A t \in DOMAIN L[p] : K[p][t] = L[p][t]
    BY AppendingToLog
  <2>2. {K[p][t].comm : t \in DOMAIN K[p]} = {L[p][t].comm : t \in DOMAIN L[p]} \cup {c}
    BY <1>2, <2>1
  <2> QED BY <1>12, <2>2 DEF Known
<1>15. CommsOK(H, K)
  <2>1. \A q \in Procs : \A d \in Known(H, K, q) : d \in Known(G, L, q) \/ (q = p /\ d = c)
    BY <1>13, <1>14
  <2>2. \A q \in Procs : \A d \in Known(H, K, q) : IsMember(q, d, H.comm_id_counter)
    BY <1>3, <1>11, <2>1 DEF CommsOK
  <2>3. \A q \in Procs : \A d \in Known(G, L, q) : d.comm_id = c.comm_id /\ c.comm_id # CommSelf => d = c
    BY <1>2, OneCommPerId, Zenon
  <2>4. \A q \in Procs, r \in Procs : \A d \in Known(H, K, q), e \in Known(H, K, r) :
          d.comm_id = e.comm_id /\ d.comm_id # CommSelf => d = e
    <3>1. SUFFICES ASSUME NEW q \in Procs, NEW r \in Procs, NEW d \in Known(H, K, q), NEW e \in Known(H, K, r),
                          d.comm_id = e.comm_id, d.comm_id # CommSelf
                   PROVE  d = e
      OBVIOUS
    <3>2. d \in Known(G, L, q) \/ d = c
      BY <2>1
    <3>3. e \in Known(G, L, r) \/ e = c
      BY <2>1
    <3> QED BY <2>3, <3>1, <3>2, <3>3 DEF CommsOK
  <2> QED BY <1>11, <1>12, <2>2, <2>4 DEF CommsOK
<1>16. CountersOK(H, K)
  <2>1. /\ \A q \in Procs \ {p} : \A d : CallsOn(K, q, d) = CallsOn(L, q, d)
        /\ \A d : d # id => CallsOn(K, p, d) = CallsOn(L, p, d)
        /\ CallsOn(K, p, id) = CallsOn(L, p, id) \cup {Len(L[p]) + 1}
    <3>1. entry.comm.comm_id = id
      BY <1>2, <1>3
    <3>2. \A q \in Procs \ {p} : \A d : CallsOn(K, q, d) = CallsOn(L, q, d)
      BY AppendedCalls
    <3>3. \A d : CallsOn(K, p, d) = IF d = entry.comm.comm_id
                                     THEN CallsOn(L, p, d) \cup {Len(L[p]) + 1} ELSE CallsOn(L, p, d)
      BY AppendedCalls
    <3> QED BY <3>1, <3>2, <3>3
  <2>2. Cardinality(CallsOn(K, p, id)) = Cardinality(CallsOn(L, p, id)) + 1
    <3>1. Len(L[p]) + 1 \notin DOMAIN L[p]
      BY AppendingToLog
    <3>2. IsFiniteSet(CallsOn(L, p, id)) /\ Len(L[p]) + 1 \notin CallsOn(L, p, id)
      BY <3>1, CallsAreFinite
    <3> QED BY <2>1, <3>2, OneMore
  <2>3. SUFFICES ASSUME NEW q \in Procs
                 PROVE  /\ Len(H.states[q].counters) = Len(H.states[q].comms) + 2
                        /\ H.states[q].counters[1] = Cardinality(CallsOn(K, q, CommWorld))
                        /\ H.states[q].counters[2] = Cardinality(CallsOn(K, q, CommSelf))
                        /\ \A i \in DOMAIN H.states[q].comms :
                             H.states[q].counters[i + 2] = Cardinality(CallsOn(K, q, H.states[q].comms[i].comm_id))
    BY DEF CountersOK
  <2>4. CASE q # p
    <3>1. H.states[q] = G.states[q] /\ \A d : CallsOn(K, q, d) = CallsOn(L, q, d)
      BY <1>11, <2>1, <2>4
    <3>2. /\ Len(G.states[q].counters) = Len(G.states[q].comms) + 2
          /\ G.states[q].counters[1] = Cardinality(CallsOn(L, q, CommWorld))
          /\ G.states[q].counters[2] = Cardinality(CallsOn(L, q, CommSelf))
          /\ \A i \in DOMAIN G.states[q].comms :
               G.states[q].counters[i + 2] = Cardinality(CallsOn(L, q, G.states[q].comms[i].comm_id))
      BY DEF CountersOK
    <3> QED BY <3>1, <3>2, Zenon
  <2>5. CASE q = p
    <3>1. PICK n \in Nat : /\ n = Len(S.comms) /\ DOMAIN S.comms = 1 .. n
                           /\ DOMAIN S.counters = 1 .. n + 2 /\ Len(S.counters) = n + 2
      <4>1. S.comms \in Seq(Comms) /\ S.counters \in Seq(Nat)
        BY <1>1, StateFields
      <4>2. Len(S.counters) = Len(S.comms) + 2
        BY <1>1 DEF CountersOK
      <4>3. Len(S.comms) \in Nat /\ DOMAIN S.comms = 1 .. Len(S.comms)
        BY <4>1, LenProperties
      <4>4. DOMAIN S.counters = 1 .. Len(S.counters)
        BY <4>1, LenProperties
      <4> QED BY <4>2, <4>3, <4>4
    <3>2. /\ S.counters[1] = Cardinality(CallsOn(L, p, CommWorld))
          /\ S.counters[2] = Cardinality(CallsOn(L, p, CommSelf))
          /\ \A i \in 1 .. n : S.counters[i + 2] = Cardinality(CallsOn(L, p, S.comms[i].comm_id))
      BY <1>1, <3>1 DEF CountersOK
    <3>3. H.states[q].counters = ks /\ H.states[q].comms = S.comms
      BY <1>9, <1>11, <2>5
    <3>4. ks[x] = Cardinality(CallsOn(K, p, id))
      BY <1>5, <1>7, <2>2
    <3>5. \A y \in 1 .. n + 2 : y # x => ks[y] = S.counters[y]
      BY <1>7, <3>1
    <3>6. 1 \in 1 .. n + 2 /\ 2 \in 1 .. n + 2 /\ \A i \in 1 .. n : i + 2 \in 1 .. n + 2
      OBVIOUS
    <3>7. ks[1] = Cardinality(CallsOn(K, p, CommWorld))
      BY <1>5, <2>1, <3>2, <3>4, <3>5, <3>6
    <3>8. ks[2] = Cardinality(CallsOn(K, p, CommSelf))
      BY <1>5, <2>1, <3>2, <3>4, <3>5, <3>6
    <3>9. ASSUME NEW i \in 1 .. n PROVE ks[i + 2] = Cardinality(CallsOn(K, p, S.comms[i].comm_id))
      <4>1. CASE x = i + 2
        BY <1>5, <3>1, <3>4, <4>1
      <4>2. CASE x # i + 2
        <5>1. S.comms[i].comm_id # id
          BY <1>5, <3>1, <4>2
        <5>2. ks[i + 2] = S.counters[i + 2]
          BY <3>5, <3>6, <4>2
        <5> QED BY <2>1, <3>2, <5>1, <5>2
      <4> QED BY <4>1, <4>2
    <3> QED BY <1>7, <2>5, <3>1, <3>3, <3>7, <3>8, <3>9
  <2> QED BY <2>4, <2>5
<1> QED BY <1>11, <1>12, <1>15, <1>16

\* H has more communicators than G; requests, attributes and operations are the same.
Widens(G, H) ==
  /\ H.operations = G.operations /\ H.comm_id_counter >= G.comm_id_counter
  /\ \A p \in Procs : /\ SameWork(G.states[p], H.states[p]) /\ SameAttributes(G.states[p], H.states[p])
                      /\ ToSet(G.states[p].comms) \subseteq ToSet(H.states[p].comms)

CommunicatorsOK(G, L) == G \in GlobalStates /\ CommsOK(G, L) /\ CountersOK(G, L)

\* A new communicator has an id that nobody knows.
LEMMA CreatingComm ==
  ASSUME NEW G, NEW L, IsLog(L), CommunicatorsOK(G, L), NEW group \in Groups,
         NEW H, H = CreateCommunicator(G, group)
  PROVE  /\ CommunicatorsOK(H, L) /\ Widens(G, H) /\ H.comm_id_counter = G.comm_id_counter + 1
         /\ \A p \in ToSet(group.table) \cap Procs : \E c \in ToSet(H.states[p].comms) : c.comm_id = H.comm_id_counter
<1>1. G \in GlobalStates /\ CommsOK(G, L) /\ CountersOK(G, L)
  BY DEF CommunicatorsOK
<1>2. PICK id \in Nat : id = G.comm_id_counter + 1 /\ id > CommUserdef
  BY <1>1, GlobalFields, CommNumbers DEF CommsOK
<1>3. PICK c : c = Communicator(id, group)
  OBVIOUS
<1>4. c \in Comms /\ c.comm_id = id /\ c.group = group
  BY <1>3 DEF Communicator, Comms
<1>5. PICK st : st = [p \in Procs |-> IF p \in ToSet(group.table) THEN AddComm(G.states[p], c) ELSE G.states[p]]
  OBVIOUS
<1>6. H = [G EXCEPT !.comm_id_counter = id, !.states = st]
  BY <1>2, <1>3, <1>5 DEF CreateCommunicator
<1>7. H.states = st /\ H.operations = G.operations /\ H.comm_id_counter = id
  BY <1>1, <1>6, GlobalFields
<1>8. ASSUME NEW p \in Procs, p \in ToSet(group.table)
      PROVE  LET S == G.states[p] T == st[p] n == Len(G.states[p].comms) IN
               /\ T \in StateRecords /\ SameWork(S, T) /\ SameAttributes(S, T)
               /\ DOMAIN S.comms = 1 .. n /\ DOMAIN T.comms = 1 .. n + 1 /\ n \in Nat
               /\ Len(T.comms) = n + 1 /\ Len(T.counters) = n + 3
               /\ T.comms[n + 1] = c /\ T.counters[n + 3] = 0
               /\ \A i \in 1 .. n : T.comms[i] = S.comms[i]
               /\ \A i \in 1 .. n + 2 : T.counters[i] = S.counters[i]
  <2>1. PICK S : S = G.states[p] /\ S \in StateRecords
    BY <1>1, GlobalFields
  <2>2. S.comms \in Seq(Comms) /\ S.counters \in Seq(Nat) /\ Len(S.counters) = Len(S.comms) + 2
    BY <1>1, <2>1, StateFields DEF CountersOK
  <2>3. PICK n \in Nat : n = Len(S.comms) /\ DOMAIN S.comms = 1 .. n
    BY <2>2, LenProperties
  <2>4. PICK cs, ks : cs = Append(S.comms, c) /\ ks = Append(S.counters, 0)
    OBVIOUS
  <2>5. /\ cs \in Seq(Comms) /\ Len(cs) = n + 1 /\ cs[n + 1] = c
        /\ \A i \in 1 .. n : cs[i] = S.comms[i]
    BY <1>4, <2>2, <2>3, <2>4, AppendProperties
  <2>6. /\ ks \in Seq(Nat) /\ Len(ks) = n + 3 /\ ks[n + 3] = 0
        /\ \A i \in 1 .. n + 2 : ks[i] = S.counters[i]
    <3>1. Len(S.counters) = n + 2 /\ n + 2 + 1 = n + 3
      BY <2>2, <2>3
    <3> QED BY <2>2, <2>4, <3>1, AppendProperties
  <2>7. PICK T : T = [S EXCEPT !.counters = ks, !.comms = cs]
    OBVIOUS
  <2>8. st[p] = T
    BY <1>5, <1>8, <2>1, <2>4, <2>7 DEF AddComm
  <2>9. /\ T \in StateRecords /\ SameWork(S, T) /\ SameAttributes(S, T)
        /\ T.comms = cs /\ T.counters = ks
    BY <2>1, <2>5, <2>6, <2>7 DEF StateRecords, SameWork, SameAttributes
  <2>10. DOMAIN cs = 1 .. n + 1
    BY <2>5, LenProperties
  <2> QED BY <2>1, <2>3, <2>5, <2>6, <2>8, <2>9, <2>10
<1>9. ASSUME NEW p \in Procs, p \notin ToSet(group.table) PROVE st[p] = G.states[p]
  BY <1>5, <1>9
<1>10. H \in GlobalStates
  <2>1. \A p \in Procs : st[p] \in StateRecords
    BY <1>1, <1>8, <1>9, GlobalFields
  <2>2. st \in [Procs -> StateRecords]
    BY <1>5, <2>1
  <2>3. H = [states |-> st, operations |-> G.operations, comm_id_counter |-> id]
    BY <1>1, <1>6, GlobalFields
  <2> QED BY <1>1, <2>2, <2>3, GlobalFields DEF GlobalStates
<1>11. Widens(G, H)
  <2>1. \A p \in Procs : SameWork(G.states[p], st[p]) /\ SameAttributes(G.states[p], st[p])
    BY <1>8, <1>9 DEF SameWork, SameAttributes
  <2>2. ASSUME NEW p \in Procs PROVE ToSet(G.states[p].comms) \subseteq ToSet(st[p].comms)
    <3>1. CASE p \in ToSet(group.table)
      <4>1. PICK n \in Nat : /\ DOMAIN G.states[p].comms = 1 .. n /\ DOMAIN st[p].comms = 1 .. n + 1
                             /\ \A i \in 1 .. n : st[p].comms[i] = G.states[p].comms[i]
        BY <1>8, <3>1
      <4>2. 1 .. n \subseteq 1 .. n + 1
        OBVIOUS
      <4> QED BY <4>1, <4>2 DEF ToSet
    <3>2. CASE p \notin ToSet(group.table)
      BY <1>9, <3>2
    <3> QED BY <3>1, <3>2
  <2>3. id >= G.comm_id_counter
    BY <1>1, <1>2, GlobalFields
  <2> QED BY <1>7, <2>1, <2>2, <2>3 DEF Widens
<1>12. ASSUME NEW p \in Procs
       PROVE  Known(H, L, p) \subseteq Known(G, L, p) \cup (IF p \in ToSet(group.table) THEN {c} ELSE {})
  <2>1. CASE p \in ToSet(group.table)
    <3>1. PICK n \in Nat : /\ DOMAIN G.states[p].comms = 1 .. n /\ DOMAIN st[p].comms = 1 .. n + 1
                           /\ \A i \in 1 .. n : st[p].comms[i] = G.states[p].comms[i]
                           /\ st[p].comms[n + 1] = c
      BY <1>8, <2>1
    <3>2. \A i \in 1 .. n + 1 : i \in 1 .. n \/ i = n + 1
      OBVIOUS
    <3>3. ToSet(st[p].comms) \subseteq ToSet(G.states[p].comms) \cup {c}
      BY <3>1, <3>2 DEF ToSet
    <3> QED BY <1>7, <2>1, <3>3 DEF Known
  <2>2. CASE p \notin ToSet(group.table)
    BY <1>7, <1>9, <2>2 DEF Known
  <2> QED BY <2>1, <2>2
<1>13. \A p \in Procs : \A d \in Known(G, L, p) : d.comm_id < id
  <2>1. \A p \in Procs : \A d \in Known(G, L, p) :
          d.comm_id = CommWorld \/ d.comm_id = CommSelf \/ d.comm_id \in CommUserdef + 1 .. G.comm_id_counter
    BY <1>1 DEF CommsOK, IsMember
  <2>2. G.comm_id_counter \in Nat
    BY <1>1, GlobalFields
  <2> QED BY <1>2, <2>1, <2>2, CommNumbers
<1>14. CommsOK(H, L)
  <2>1. H.comm_id_counter >= CommUserdef
    BY <1>2, <1>7, CommNumbers
  <2>2. ASSUME NEW p \in Procs, NEW d \in Known(H, L, p) PROVE IsMember(p, d, H.comm_id_counter)
    <3>1. CASE d \in Known(G, L, p)
      <4>1. IsMember(p, d, G.comm_id_counter)
        BY <1>1, <3>1 DEF CommsOK
      <4>2. CommUserdef + 1 .. G.comm_id_counter \subseteq CommUserdef + 1 .. id
        BY <1>1, <1>2, GlobalFields, CommNumbers
      <4> QED BY <1>7, <4>1, <4>2 DEF IsMember
    <3>2. CASE d = c /\ p \in ToSet(group.table)
      <4>1. id # CommWorld /\ id # CommSelf /\ id \in CommUserdef + 1 .. id
        BY <1>2, CommNumbers
      <4> QED BY <1>4, <1>7, <3>2, <4>1 DEF IsMember
    <3> QED BY <1>12, <2>2, <3>1, <3>2
  <2>3. ASSUME NEW p \in Procs, NEW q \in Procs, NEW d \in Known(H, L, p), NEW e \in Known(H, L, q),
               d.comm_id = e.comm_id, d.comm_id # CommSelf
        PROVE  d = e
    <3>1. d \in Known(G, L, p) \/ d = c
      BY <1>12
    <3>2. e \in Known(G, L, q) \/ e = c
      BY <1>12
    <3>3. CASE d \in Known(G, L, p) /\ e \in Known(G, L, q)
      BY <1>1, <2>3, <3>3 DEF CommsOK
    <3>4. CASE d \in Known(G, L, p) /\ e = c
      <4>1. d.comm_id < id
        BY <1>13, <3>4
      <4> QED BY <1>4, <2>3, <3>4, <4>1
    <3>5. CASE d = c /\ e \in Known(G, L, q)
      <4>1. e.comm_id < id
        BY <1>13, <3>5
      <4> QED BY <1>4, <2>3, <3>5, <4>1
    <3> QED BY <3>1, <3>2, <3>3, <3>4, <3>5
  <2>4. ASSUME NEW p \in Procs
        PROVE  /\ \A i \in DOMAIN st[p].comms : st[p].comms[i].comm_id > CommUserdef
               /\ \A i \in DOMAIN st[p].comms, j \in DOMAIN st[p].comms :
                    st[p].comms[i].comm_id = st[p].comms[j].comm_id => i = j
    <3>1. /\ \A i \in DOMAIN G.states[p].comms : G.states[p].comms[i].comm_id > CommUserdef
          /\ \A i \in DOMAIN G.states[p].comms, j \in DOMAIN G.states[p].comms :
               G.states[p].comms[i].comm_id = G.states[p].comms[j].comm_id => i = j
      BY <1>1 DEF CommsOK
    <3>2. CASE p \in ToSet(group.table)
      <4>1. PICK n \in Nat : /\ DOMAIN G.states[p].comms = 1 .. n /\ DOMAIN st[p].comms = 1 .. n + 1
                             /\ \A i \in 1 .. n : st[p].comms[i] = G.states[p].comms[i]
                             /\ st[p].comms[n + 1] = c
        BY <1>8, <3>2
      <4>2. \A i \in 1 .. n + 1 : i \in 1 .. n \/ i = n + 1
        OBVIOUS
      <4>3. \A i \in 1 .. n : st[p].comms[i].comm_id < id
        BY <1>13, <4>1 DEF Known, ToSet
      <4>4. st[p].comms[n + 1].comm_id = id
        BY <1>4, <4>1
      <4>5. \A i \in 1 .. n + 1 : st[p].comms[i].comm_id > CommUserdef
        BY <1>2, <3>1, <4>1, <4>2, <4>4
      <4>6. ASSUME NEW i \in 1 .. n + 1, NEW j \in 1 .. n + 1, st[p].comms[i].comm_id = st[p].comms[j].comm_id
            PROVE  i = j
        <5>1. CASE i \in 1 .. n /\ j \in 1 .. n
          BY <3>1, <4>1, <4>6, <5>1
        <5>2. CASE i \in 1 .. n /\ j = n + 1
          BY <4>3, <4>4, <4>6, <5>2
        <5>3. CASE i = n + 1 /\ j \in 1 .. n
          BY <4>3, <4>4, <4>6, <5>3
        <5> QED BY <4>2, <5>1, <5>2, <5>3
      <4> QED BY <4>1, <4>5, <4>6
    <3>3. CASE p \notin ToSet(group.table)
      BY <1>9, <3>1, <3>3
    <3> QED BY <3>2, <3>3
  <2> QED BY <1>7, <2>1, <2>2, <2>3, <2>4 DEF CommsOK
<1>15. CountersOK(H, L)
  <2>1. SUFFICES ASSUME NEW p \in Procs
                 PROVE  /\ Len(st[p].counters) = Len(st[p].comms) + 2
                        /\ st[p].counters[1] = Cardinality(CallsOn(L, p, CommWorld))
                        /\ st[p].counters[2] = Cardinality(CallsOn(L, p, CommSelf))
                        /\ \A i \in DOMAIN st[p].comms :
                             st[p].counters[i + 2] = Cardinality(CallsOn(L, p, st[p].comms[i].comm_id))
    BY <1>7 DEF CountersOK
  <2>2. /\ G.states[p].counters[1] = Cardinality(CallsOn(L, p, CommWorld))
        /\ G.states[p].counters[2] = Cardinality(CallsOn(L, p, CommSelf))
        /\ Len(G.states[p].counters) = Len(G.states[p].comms) + 2
        /\ \A i \in DOMAIN G.states[p].comms :
             G.states[p].counters[i + 2] = Cardinality(CallsOn(L, p, G.states[p].comms[i].comm_id))
    BY <1>1 DEF CountersOK
  <2>3. CASE p \in ToSet(group.table)
    <3>1. PICK n \in Nat : /\ DOMAIN G.states[p].comms = 1 .. n /\ DOMAIN st[p].comms = 1 .. n + 1
                           /\ Len(st[p].comms) = n + 1 /\ Len(st[p].counters) = n + 3
                           /\ st[p].comms[n + 1] = c /\ st[p].counters[n + 3] = 0
                           /\ \A i \in 1 .. n : st[p].comms[i] = G.states[p].comms[i]
                           /\ \A i \in 1 .. n + 2 : st[p].counters[i] = G.states[p].counters[i]
      BY <1>8, <2>3
    <3>2. Cardinality(CallsOn(L, p, id)) = 0
      <4>1. \A t \in DOMAIN L[p] : L[p][t].comm.comm_id # id
        <5>1. \A t \in DOMAIN L[p] : L[p][t].comm.comm_id < id
          BY <1>13 DEF Known
        <5> QED BY <5>1
      <4>2. CallsOn(L, p, id) = {}
        BY <4>1 DEF CallsOn
      <4> QED BY <4>2, FS_EmptySet
    <3>3. 1 \in 1 .. n + 2 /\ 2 \in 1 .. n + 2 /\ \A i \in 1 .. n : i + 2 \in 1 .. n + 2
      OBVIOUS
    <3>4. ASSUME NEW i \in 1 .. n + 1
          PROVE  st[p].counters[i + 2] = Cardinality(CallsOn(L, p, st[p].comms[i].comm_id))
      <4>1. CASE i \in 1 .. n
        BY <2>2, <3>1, <3>3, <4>1
      <4>2. CASE i = n + 1
        <5>1. i + 2 = n + 3
          BY <4>2
        <5> QED BY <1>4, <3>1, <3>2, <4>2, <5>1
      <4> QED BY <4>1, <4>2
    <3>5. Len(st[p].counters) = Len(st[p].comms) + 2
      BY <3>1
    <3>6. st[p].counters[1] = G.states[p].counters[1] /\ st[p].counters[2] = G.states[p].counters[2]
      BY <3>1, <3>3
    <3>7. \A i \in DOMAIN st[p].comms : i \in 1 .. n + 1
      BY <3>1
    <3> QED BY <2>2, <3>4, <3>5, <3>6, <3>7
  <2>4. CASE p \notin ToSet(group.table)
    BY <1>9, <2>2, <2>4
  <2> QED BY <2>3, <2>4
<1>16. ASSUME NEW p \in ToSet(group.table) \cap Procs
       PROVE  \E d \in ToSet(H.states[p].comms) : d.comm_id = H.comm_id_counter
  <2>1. PICK n \in Nat : DOMAIN st[p].comms = 1 .. n + 1 /\ st[p].comms[n + 1] = c
    BY <1>8, <1>16
  <2> QED BY <1>4, <1>7, <2>1 DEF ToSet
<1> QED BY <1>2, <1>7, <1>10, <1>11, <1>14, <1>15, <1>16 DEF CommunicatorsOK

LEMMA WideningTwice ==
  ASSUME NEW F, NEW G \in GlobalStates, NEW H \in GlobalStates, F \in GlobalStates, Widens(F, G), Widens(G, H)
  PROVE  Widens(F, H)
<1>1. F.comm_id_counter \in Nat /\ G.comm_id_counter \in Nat /\ H.comm_id_counter \in Nat
  BY GlobalFields
<1>2. H.comm_id_counter >= F.comm_id_counter /\ H.operations = F.operations
  BY <1>1 DEF Widens
<1>3. \A p \in Procs : SameWork(F.states[p], H.states[p])
  BY DEF Widens, SameWork
<1>4. \A p \in Procs : SameAttributes(F.states[p], H.states[p])
  BY DEF Widens, SameAttributes
<1>5. \A p \in Procs : ToSet(F.states[p].comms) \subseteq ToSet(H.states[p].comms)
  BY DEF Widens
<1> QED BY <1>2, <1>3, <1>4, <1>5 DEF Widens

-----------------------------------------------------------------------------
(* Splitting *)

LEMMA NumbersInOrder ==
  ASSUME NEW S \in SUBSET Int, IsFiniteSet(S), NEW n \in Nat, n = Cardinality(S)
  PROVE  /\ InOrder(S, <) \in [1 .. n -> S]
         /\ \A i \in 1 .. n, j \in 1 .. n : i # j => InOrder(S, <)[i] # InOrder(S, <)[j]
<1>1. PICK R : R = {e \in S \X S : e[1] < e[2]}
  OBVIOUS
<1>2. \A x \in S, y \in S : <<x, y>> \in R <=> x < y
  BY <1>1
<1>3. \E s \in [1 .. Cardinality(S) -> S] :
        /\ \A i \in 1 .. Cardinality(S), j \in 1 .. Cardinality(S) : i # j => s[i] # s[j]
        /\ \A i \in 1 .. Cardinality(S), j \in 1 .. Cardinality(S) : i < j => <<s[i], s[j]>> \in R
  <2>1. \A x \in S : <<x, x>> \notin R
    BY <1>2
  <2>2. \A x \in S, y \in S : x # y => <<x, y>> \in R \/ <<y, x>> \in R
    BY <1>2
  <2>3. \A x \in S, y \in S, z \in S : <<x, y>> \in R /\ <<y, z>> \in R => <<x, z>> \in R
    BY <1>2
  <2> QED BY <2>1, <2>2, <2>3, OrderExists
<1>4. PICK s \in [1 .. n -> S] :
        /\ \A i \in 1 .. n, j \in 1 .. n : i # j => s[i] # s[j]
        /\ \A i \in 1 .. n, j \in 1 .. n : i < j => <<s[i], s[j]>> \in R
  BY <1>3
<1>5. s \in SetToSeqs(S) /\ IsSorted(s, <)
  <2>1. s \in SetToSeqs(S)
    BY <1>4 DEF SetToSeqs
  <2>2. Len(s) = n
    OBVIOUS
  <2>3. \A i \in 1 .. n, j \in 1 .. n : i < j => s[i] < s[j]
    BY <1>2, <1>4
  <2> QED BY <2>1, <2>2, <2>3 DEF IsSorted
<1>6. InOrder(S, <) \in SetToSeqs(S)
  BY <1>5 DEF InOrder
<1> QED BY <1>6 DEF SetToSeqs

\* What the processes of a communicator put into a split.
IsColors(comm, colors) == Len(colors) = Size(comm) /\ colors \in Seq(Data)

LEMMA SplitGroups ==
  ASSUME NEW comm \in Comms, NEW colors, IsColors(comm, colors), NEW c
  PROVE  SplitTable(comm, colors, c) \in Seq(Procs) /\ IsInjective(SplitTable(comm, colors, c))
<1>1. PICK m, f : m \in Nat /\ f = comm.group.table /\ m = Len(f) /\ f \in [1 .. m -> Procs] /\ IsInjective(f)
  BY CommFields, LenProperties
<1>2. Size(comm) = m
  BY <1>1 DEF Size
<1>3. colors \in [1 .. m -> Data]
  BY <1>2, LenProperties DEF IsColors
<1>4. PICK S : S = RanksOfColor(comm, colors, c)
  OBVIOUS
<1>5. S \subseteq 0 .. m - 1 /\ IsFiniteSet(S)
  <2>1. IsFiniteSet(0 .. m - 1)
    <3>1. m \in Int /\ 0 \in Int /\ m - 1 \in Int
      BY <1>1
    <3> QED BY <3>1, FS_Interval
  <2> QED BY <1>2, <1>4, <2>1, FS_Subset DEF RanksOfColor
<1>6. PICK n \in Nat : n = Cardinality(S)
  BY <1>5, FS_CardinalityType
<1>7. \A r \in S : r \in Int /\ colors[r + 1][2] \in Int
  <2>1. \A r \in S : r \in Int /\ r + 1 \in 1 .. m
    BY <1>1, <1>5
  <2>2. \A d \in Data : d[2] \in Int
    BY DEF Data
  <2> QED BY <1>3, <2>1, <2>2
<1> DEFINE before(r, q) == \/ colors[r + 1][2] < colors[q + 1][2]
                           \/ colors[r + 1][2] = colors[q + 1][2] /\ r < q
<1>8. PICK R : R = {e \in S \X S : before(e[1], e[2])}
  OBVIOUS
<1>9. \A x \in S, y \in S : <<x, y>> \in R <=> before(x, y)
  BY <1>8
<1>10. \E s \in [1 .. Cardinality(S) -> S] :
         /\ \A i \in 1 .. Cardinality(S), j \in 1 .. Cardinality(S) : i # j => s[i] # s[j]
         /\ \A i \in 1 .. Cardinality(S), j \in 1 .. Cardinality(S) : i < j => <<s[i], s[j]>> \in R
  <2>1. \A x \in S : <<x, x>> \notin R
    BY <1>7, <1>9
  <2>2. \A x \in S, y \in S : x # y => <<x, y>> \in R \/ <<y, x>> \in R
    BY <1>7, <1>9
  <2>3. \A x \in S, y \in S, z \in S : <<x, y>> \in R /\ <<y, z>> \in R => <<x, z>> \in R
    BY <1>7, <1>9
  <2> HIDE DEF before
  <2> QED BY <1>5, <2>1, <2>2, <2>3, OrderExists
<1>11. PICK s \in [1 .. n -> S] :
         /\ \A i \in 1 .. n, j \in 1 .. n : i # j => s[i] # s[j]
         /\ \A i \in 1 .. n, j \in 1 .. n : i < j => <<s[i], s[j]>> \in R
  BY <1>6, <1>10
<1>12. InOrder(S, before) \in SetToSeqs(S)
  <2>1. s \in SetToSeqs(S)
    BY <1>6, <1>11 DEF SetToSeqs
  <2>2. Len(s) = n
    OBVIOUS
  <2>3. \A i \in 1 .. n, j \in 1 .. n : i < j => before(s[i], s[j])
    <3> HIDE DEF before
    <3> QED BY <1>9, <1>11
  <2>4. IsSorted(s, before)
    <3> HIDE DEF before
    <3> QED BY <2>2, <2>3 DEF IsSorted
  <2> HIDE DEF before
  <2> QED BY <2>1, <2>4 DEF InOrder
<1>13. PICK t : t = InOrder(S, before)
  OBVIOUS
<1>14. t \in [1 .. n -> S] /\ \A i \in 1 .. n, j \in 1 .. n : i # j => t[i] # t[j]
  BY <1>6, <1>12, <1>13 DEF SetToSeqs
<1>15. PICK g : g = [i \in 1 .. n |-> f[t[i] + 1]]
  OBVIOUS
<1>16. SplitTable(comm, colors, c) = g
  <2>1. DOMAIN t = 1 .. n
    BY <1>14
  <2>2. SplitTable(comm, colors, c) = [i \in DOMAIN t |-> RankToPid(comm, t[i])]
    BY <1>4, <1>13 DEF SplitTable
  <2> QED BY <1>1, <1>15, <2>1, <2>2 DEF RankToPid
<1>17. \A i \in 1 .. n : t[i] \in 0 .. m - 1 /\ t[i] + 1 \in 1 .. m
  <2>1. \A i \in 1 .. n : t[i] \in 0 .. m - 1
    BY <1>5, <1>14
  <2>2. \A r \in 0 .. m - 1 : r + 1 \in 1 .. m
    BY <1>1
  <2> QED BY <2>1, <2>2
<1>18. g \in [1 .. n -> Procs]
  BY <1>1, <1>15, <1>17
<1>19. IsInjective(g)
  <2>1. SUFFICES ASSUME NEW i \in 1 .. n, NEW j \in 1 .. n, g[i] = g[j] PROVE i = j
    BY <1>15 DEF IsInjective
  <2>2. f[t[i] + 1] = f[t[j] + 1]
    BY <1>15, <2>1
  <2>3. t[i] + 1 = t[j] + 1
    BY <1>1, <1>17, <2>2 DEF IsInjective
  <2>4. t[i] = t[j]
    BY <1>17, <2>3
  <2> QED BY <1>14, <2>4
<1> QED BY <1>16, <1>18, <1>19, FunctionIsSequence

\* The function by which SplitCommunicator is defined exists.
SplitSteps(G, comm, colors, order, n, f) ==
  f = [k \in 0 .. n |-> IF k = 0 THEN [G |-> G, ids |-> [i \in DOMAIN colors |-> CommNull]]
                        ELSE SplitOff(comm, colors, f[k - 1], order[k])]

LEMMA SplitExists ==
  ASSUME NEW n \in Nat, NEW G, NEW comm, NEW colors, NEW order
  PROVE  \E f : SplitSteps(G, comm, colors, order, n, f)
<1> DEFINE Base == [G |-> G, ids |-> [i \in DOMAIN colors |-> CommNull]]
           Step(x, k) == SplitOff(comm, colors, x, order[k])
           Is(f, m) == f = [k \in 0 .. m |-> IF k = 0 THEN Base ELSE Step(f[k - 1], k)]
           Bad == {m \in Nat : ~\E f : Is(f, m)}
<1>1. ASSUME NEW m \in Nat, NEW g, Is(g, m) PROVE \E f : Is(f, m + 1)
  <2>1. PICK f : f = [k \in 0 .. m + 1 |-> IF k = m + 1 THEN Step(g[m], m + 1) ELSE g[k]]
    OBVIOUS
  <2> HIDE DEF Step, Base
  <2>2. \A k \in 0 .. m : g[k] = IF k = 0 THEN Base ELSE Step(g[k - 1], k)
    <3>1. g = [k \in 0 .. m |-> IF k = 0 THEN Base ELSE Step(g[k - 1], k)]
      BY <1>1
    <3> HIDE <1>1
    <3> QED BY <3>1
  <2>3. (\A k \in 0 .. m : f[k] = g[k]) /\ f[m + 1] = Step(g[m], m + 1)
    <3>1. (\A k \in 0 .. m : k \in 0 .. m + 1 /\ k # m + 1) /\ m + 1 \in 0 .. m + 1
      OBVIOUS
    <3> QED BY <2>1, <3>1
  <2>4. ASSUME NEW k \in 0 .. m + 1
        PROVE  f[k] = IF k = 0 THEN Base ELSE Step(f[k - 1], k)
    <3>1. CASE k = m + 1
      <4>1. k # 0 /\ k - 1 = m /\ m \in 0 .. m
        BY <3>1
      <4> QED BY <2>3, <3>1, <4>1
    <3>2. CASE k = 0
      <4>1. k \in 0 .. m
        BY <3>2
      <4> QED BY <2>2, <2>3, <3>2, <4>1
    <3>3. CASE k # 0 /\ k # m + 1
      <4>1. k \in 0 .. m /\ k - 1 \in 0 .. m
        BY <3>3
      <4> QED BY <2>2, <2>3, <3>3, <4>1
    <3> QED BY <3>1, <3>2, <3>3
  <2>5. f = [k \in 0 .. m + 1 |-> f[k]]
    BY <2>1
  <2> QED BY <2>4, <2>5
<1>2. \E f : Is(f, 0)
  <2> HIDE DEF Step, Base
  <2>1. PICK f : f = [k \in 0 .. 0 |-> Base]
    OBVIOUS
  <2>2. \A k \in 0 .. 0 : k = 0
    OBVIOUS
  <2> QED BY <2>1, <2>2
<1> HIDE DEF Is
<1>3. Bad = {}
  <2> SUFFICES ASSUME Bad # {} PROVE FALSE
    OBVIOUS
  <2>1. PICK m \in Bad : \A k \in Bad : m <= k
    <3>1. Bad \in SUBSET Nat
      OBVIOUS
    <3> HIDE DEF Bad
    <3> QED BY <3>1, SmallestNumber
  <2>2. m # 0
    BY <1>2, <2>1
  <2>3. PICK l \in Nat : m = l + 1
    <3>1. m \in Nat
      BY <2>1
    <3>2. m - 1 \in Nat /\ m = (m - 1) + 1
      BY <2>2, <3>1
    <3> QED BY <3>2
  <2>4. l \notin Bad
    <3> HIDE DEF Bad
    <3> QED BY <2>1, <2>3
  <2>5. PICK g : Is(g, l)
    BY <2>4
  <2> QED BY <1>1, <2>1, <2>3, <2>5
<1>4. \E f : Is(f, n)
  BY <1>3
<1> QED BY <1>4 DEF Is, SplitSteps

\* Splitting makes communicators only.
SplitOK(G, L, colors, split) ==
  /\ CommunicatorsOK(split.G, L) /\ Widens(G, split.G)
  /\ split.ids \in [DOMAIN colors -> {CommNull} \cup (G.comm_id_counter + 1 .. split.G.comm_id_counter)]

LEMMA SplittingOff ==
  ASSUME NEW G, NEW L, IsLog(L), CommunicatorsOK(G, L), NEW comm \in Comms, NEW colors, IsColors(comm, colors),
         NEW split, SplitOK(G, L, colors, split), NEW c
  PROVE  SplitOK(G, L, colors, SplitOff(comm, colors, split, c))
<1>1. PICK F : F = split.G
  OBVIOUS
<1>2. CommunicatorsOK(F, L) /\ Widens(G, F) /\ F \in GlobalStates /\ F.comm_id_counter \in Nat
  BY <1>1, GlobalFields DEF SplitOK, CommunicatorsOK
<1>3. PICK group : group = NewGroup(<<"comm", F.comm_id_counter + 1, 0>>, SplitTable(comm, colors, c))
  OBVIOUS
<1>4. group \in Groups
  <2>1. PICK table : table = SplitTable(comm, colors, c)
    OBVIOUS
  <2>2. table \in {t \in Seq(Procs) : IsInjective(t)}
    BY <2>1, SplitGroups
  <2>3. <<"comm", F.comm_id_counter + 1, 0>> \in {"world", "self", "comm", "made"} \X Nat \X Nat
    BY <1>2
  <2>4. group = [object |-> <<"comm", F.comm_id_counter + 1, 0>>, table |-> table]
    BY <1>3, <2>1 DEF NewGroup
  <2> QED BY <2>2, <2>3, <2>4 DEF Groups
<1>5. PICK H : H = CreateCommunicator(F, group)
  OBVIOUS
<1>6. CommunicatorsOK(H, L) /\ Widens(F, H)
  BY <1>2, <1>4, <1>5, CreatingComm
<1>7. Widens(G, H)
  <2>1. G \in GlobalStates /\ H \in GlobalStates
    BY <1>6 DEF CommunicatorsOK
  <2> QED BY <1>2, <1>6, <2>1, WideningTwice
<1>8. PICK ids : ids = [i \in DOMAIN colors |-> IF i - 1 \in RanksOfColor(comm, colors, c)
                                               THEN H.comm_id_counter ELSE split.ids[i]]
  OBVIOUS
<1>9. SplitOff(comm, colors, split, c) = [G |-> H, ids |-> ids]
  BY <1>1, <1>3, <1>5, <1>8 DEF SplitOff
<1>10. ids \in [DOMAIN colors -> {CommNull} \cup (G.comm_id_counter + 1 .. H.comm_id_counter)]
  <2>1. G.comm_id_counter \in Nat /\ H.comm_id_counter = F.comm_id_counter + 1 /\ F.comm_id_counter >= G.comm_id_counter
    <3>1. G \in GlobalStates /\ G.comm_id_counter \in Nat
      BY GlobalFields DEF CommunicatorsOK
    <3>2. H.comm_id_counter = F.comm_id_counter + 1
      BY <1>2, <1>4, <1>5, CreatingComm
    <3> QED BY <1>2, <3>1, <3>2 DEF Widens
  <2>2. \A i \in DOMAIN colors : split.ids[i] \in {CommNull} \cup (G.comm_id_counter + 1 .. F.comm_id_counter)
    BY <1>1 DEF SplitOK
  <2>3. H.comm_id_counter \in G.comm_id_counter + 1 .. H.comm_id_counter
    BY <1>2, <2>1
  <2>4. G.comm_id_counter + 1 .. F.comm_id_counter \subseteq G.comm_id_counter + 1 .. H.comm_id_counter
    BY <1>2, <2>1
  <2> QED BY <1>8, <2>2, <2>3, <2>4
<1> QED BY <1>6, <1>7, <1>9, <1>10 DEF SplitOK

LEMMA SplittingComm ==
  ASSUME NEW G, NEW L, IsLog(L), CommunicatorsOK(G, L), NEW comm \in Comms, NEW colors, IsColors(comm, colors)
  PROVE  SplitOK(G, L, colors, SplitCommunicator(G, comm, colors))
<1>1. PICK used : used = {colors[i][1] : i \in DOMAIN colors} \ {Undefined}
  OBVIOUS
<1>2. PICK m \in Nat : m = Len(colors) /\ colors \in [1 .. m -> Data]
  BY LenProperties DEF IsColors
<1>3. used \in SUBSET Int /\ IsFiniteSet(used)
  <2>1. PICK f : f = [i \in 1 .. m |-> colors[i][1]]
    OBVIOUS
  <2>2. PICK T : T = {colors[i][1] : i \in 1 .. m}
    OBVIOUS
  <2>3. f \in Surjection(1 .. m, T)
    BY <2>1, <2>2 DEF Surjection
  <2>4. IsFiniteSet(1 .. m)
    BY FS_Interval
  <2>5. IsFiniteSet(T)
    BY <2>3, <2>4, FS_Surjection
  <2>6. \A d \in Data : d[1] \in Int
    BY DEF Data
  <2>7. T \in SUBSET Int
    BY <1>2, <2>2, <2>6
  <2>8. used = T \ {Undefined}
    BY <1>1, <1>2, <2>2
  <2> QED BY <2>5, <2>7, <2>8, FS_RemoveElement
<1>4. PICK n \in Nat : n = Cardinality(used)
  BY <1>3, FS_CardinalityType
<1>5. PICK order : order = InOrder(used, <)
  OBVIOUS
<1>6. Len(order) = n
  <2>1. order \in [1 .. n -> used]
    BY <1>3, <1>4, <1>5, NumbersInOrder
  <2> QED BY <2>1
<1> DEFINE f == CHOOSE f : SplitSteps(G, comm, colors, order, n, f)
<1>7. SplitCommunicator(G, comm, colors) = f[n]
  BY <1>1, <1>5, <1>6 DEF SplitCommunicator, SplitSteps
<1>8. SplitSteps(G, comm, colors, order, n, f)
  BY SplitExists
<1> HIDE DEF f
<1>9. PICK g : g = f
  OBVIOUS
<1>10. g[0] = [G |-> G, ids |-> [i \in DOMAIN colors |-> CommNull]]
       /\ \A k \in 1 .. n : g[k] = SplitOff(comm, colors, g[k - 1], order[k])
  <2>1. g = [k \in 0 .. n |-> IF k = 0 THEN [G |-> G, ids |-> [i \in DOMAIN colors |-> CommNull]]
                              ELSE SplitOff(comm, colors, g[k - 1], order[k])]
    BY <1>8, <1>9 DEF SplitSteps
  <2>2. 0 \in 0 .. n /\ \A k \in 1 .. n : k \in 0 .. n /\ k # 0
    OBVIOUS
  <2> HIDE <1>8, <1>9
  <2> QED BY <2>1, <2>2
<1>11. SplitOK(G, L, colors, g[0])
  <2>1. Widens(G, G)
    <3>1. G.comm_id_counter \in Nat
      BY GlobalFields DEF CommunicatorsOK
    <3> QED BY <3>1 DEF Widens, SameWork, SameAttributes
  <2>2. g[0].G = G /\ g[0].ids = [i \in DOMAIN colors |-> CommNull]
    BY <1>10
  <2> QED BY <2>1, <2>2, CommNumbers DEF SplitOK
<1>12. \A k \in 0 .. n : SplitOK(G, L, colors, g[k])
  <2>1. SUFFICES ASSUME NEW B, B = {k \in 0 .. n : ~SplitOK(G, L, colors, g[k])}, B # {} PROVE FALSE
    OBVIOUS
  <2>2. B \in SUBSET Nat
    BY <2>1
  <2>3. PICK k \in B : \A j \in B : k <= j
    BY <2>1, <2>2, SmallestNumber
  <2>4. k \in 1 .. n
    BY <1>11, <2>1, <2>3
  <2>5. k - 1 \in 0 .. n /\ ~(k <= k - 1)
    BY <2>4
  <2>6. k - 1 \notin B
    BY <2>3, <2>5
  <2>7. SplitOK(G, L, colors, g[k - 1])
    BY <2>1, <2>5, <2>6
  <2>8. SplitOK(G, L, colors, SplitOff(comm, colors, g[k - 1], order[k]))
    BY <2>7, SplittingOff
  <2>9. SplitOK(G, L, colors, g[k])
    BY <1>10, <2>4, <2>8
  <2> QED BY <2>1, <2>3, <2>9
<1>13. n \in 0 .. n
  OBVIOUS
<1> QED BY <1>7, <1>9, <1>12, <1>13

-----------------------------------------------------------------------------
(* Freeing communicators *)

\* What is left when p frees the communicator c.
RemovedComm(G, L, p, id, c, S, T, H) ==
  /\ CommunicatorsOK(H, L) /\ H.operations = G.operations /\ H.comm_id_counter = G.comm_id_counter
  /\ H.states[p] = T /\ \A q \in Procs \ {p} : H.states[q] = G.states[q]
  /\ T \in StateRecords /\ SameWork(S, T)
  /\ T.keyvals = S.keyvals /\ T.made = S.made /\ T.attrs = S.attrs \ GetCommAttrs(S, id)
  /\ T.deleted = S.deleted \cup {a \in GetCommAttrs(S, id) : S.keyvals[a.keyval].delete}
  /\ ToSet(T.comms) = ToSet(S.comms) \ {c}

\* What RemoveComm leaves of a state is a state.
LeftOf(S, as, ds, cs, ks) ==
  [S EXCEPT !.attrs = as, !.deleted = ds, !.comms = cs, !.counters = ks]

LEMMA StateWithout ==
  ASSUME NEW S \in StateRecords, NEW as \in SUBSET Attributes, NEW ds \in SUBSET Attributes,
         NEW cs \in Seq(Comms), NEW ks \in Seq(Nat),
         NEW T, T = LeftOf(S, as, ds, cs, ks)
  PROVE  T \in StateRecords
BY DEF StateRecords, LeftOf

LEMMA RemovingComm ==
  ASSUME NEW G, NEW L, IsLog(L), CommunicatorsOK(G, L), NEW p \in Procs, NEW id, id \notin {CommWorld, CommSelf},
         NEW c, Finds(G, p, id, c), NEW S, S = G.states[p], NEW T, T = RemoveComm(S, c),
         NEW H, H = Replaced(G, p, T, G.operations)
  PROVE  RemovedComm(G, L, p, id, c, S, T, H)
<1>1. G \in GlobalStates /\ CommsOK(G, L) /\ CountersOK(G, L)
  BY DEF CommunicatorsOK
<1>2. S \in StateRecords
  BY <1>1, GlobalFields
<1>3. PICK n \in Nat : /\ n = Len(S.comms) /\ DOMAIN S.comms = 1 .. n /\ S.comms \in Seq(Comms)
                       /\ S.counters \in Seq(Nat) /\ Len(S.counters) = n + 2
  <2>1. S.comms \in Seq(Comms) /\ S.counters \in Seq(Nat)
    BY <1>2, StateFields
  <2>2. Len(S.counters) = Len(S.comms) + 2
    BY <1>1 DEF CountersOK
  <2> QED BY <2>1, <2>2, LenProperties
<1>4. PICK i \in 1 .. n : c = S.comms[i] /\ c.comm_id = id
  <2>1. c.comm_id = id /\ \E i \in DOMAIN G.states[p].comms : c = G.states[p].comms[i]
    BY <1>1, GettingComm
  <2> QED BY <1>3, <2>1
<1>5. /\ \A j \in 1 .. n : S.comms[j].comm_id > CommUserdef
      /\ \A j \in 1 .. n, k \in 1 .. n : S.comms[j].comm_id = S.comms[k].comm_id => j = k
  <2>1. LET comms == G.states[p].comms IN
          /\ \A j \in DOMAIN comms : comms[j].comm_id > CommUserdef
          /\ \A j \in DOMAIN comms, k \in DOMAIN comms : comms[j].comm_id = comms[k].comm_id => j = k
    BY <1>1, Zenon DEF CommsOK
  <2> QED BY <1>3, <2>1
<1>6. SelectInSeq(S.comms, LAMBDA d : d = c) = i
  <2>1. PICK I : I = {j \in 1 .. n : S.comms[j] = c}
    OBVIOUS
  <2>2. I = {i}
    BY <1>4, <1>5, <2>1
  <2>3. I # {} /\ Min(I) = i
    BY <2>2, MinIsSmallest
  <2> QED BY <1>3, <2>1, <2>3 DEF SelectInSeq
<1>7. PICK cs, ks : cs = RemoveAt(S.comms, i) /\ ks = RemoveAt(S.counters, i + 2)
  OBVIOUS
<1>8. /\ cs \in Seq(Comms) /\ Len(cs) = n - 1
      /\ \A j \in 1 .. n - 1 : cs[j] = S.comms[IF j < i THEN j ELSE j + 1]
  <2>1. PICK s : s = S.comms
    OBVIOUS
  <2>2. s \in Seq(Comms) /\ Len(s) = n /\ i \in 1 .. Len(s) /\ cs = RemoveAt(s, i)
    BY <1>3, <1>7, <2>1
  <2>3. /\ RemoveAt(s, i) \in Seq(Comms) /\ Len(RemoveAt(s, i)) = Len(s) - 1
        /\ \A j \in 1 .. Len(s) - 1 : RemoveAt(s, i)[j] = s[IF j < i THEN j ELSE j + 1]
    BY <2>2, RemovingOne
  <2> QED BY <2>1, <2>2, <2>3
<1>9. /\ ks \in Seq(Nat) /\ Len(ks) = n + 1
      /\ \A j \in 1 .. n + 1 : ks[j] = S.counters[IF j < i + 2 THEN j ELSE j + 1]
  <2>1. PICK k, s : k \in Nat /\ s = S.counters /\ k = i + 2
    OBVIOUS
  <2>2. s \in Seq(Nat) /\ Len(s) = n + 2 /\ k \in 1 .. Len(s) /\ ks = RemoveAt(s, k)
    BY <1>3, <1>7, <2>1
  <2>3. /\ RemoveAt(s, k) \in Seq(Nat) /\ Len(RemoveAt(s, k)) = Len(s) - 1
        /\ \A j \in 1 .. Len(s) - 1 : RemoveAt(s, k)[j] = s[IF j < k THEN j ELSE j + 1]
    BY <2>2, RemovingOne
  <2>4. Len(s) - 1 = n + 1
    BY <2>2
  <2> QED BY <2>1, <2>2, <2>3, <2>4
<1>10. DOMAIN cs = 1 .. n - 1
  BY <1>8, LenProperties
<1>11. PICK gone : gone = GetCommAttrs(S, id)
  OBVIOUS
<1>12. T = [S EXCEPT !.attrs = S.attrs \ gone,
                     !.deleted = S.deleted \cup {a \in gone : S.keyvals[a.keyval].delete},
                     !.comms = cs, !.counters = ks]
  <2>1. DeleteAttrs(S, gone) = [S EXCEPT !.attrs = S.attrs \ gone,
                                         !.deleted = S.deleted \cup {a \in gone : S.keyvals[a.keyval].delete}]
    BY DEF DeleteAttrs
  <2>2. T = [DeleteAttrs(S, gone) EXCEPT !.comms = RemoveAt(DeleteAttrs(S, gone).comms, i),
                                         !.counters = RemoveAt(DeleteAttrs(S, gone).counters, i + 2)]
    BY <1>4, <1>6, <1>11 DEF RemoveComm
  <2>3. DeleteAttrs(S, gone).comms = S.comms /\ DeleteAttrs(S, gone).counters = S.counters
    BY <1>2, <2>1 DEF StateRecords
  <2> QED BY <1>7, <2>1, <2>2, <2>3
<1>13. gone \subseteq S.attrs
  BY <1>11 DEF GetCommAttrs
<1>14. /\ T.comms = cs /\ T.counters = ks /\ SameWork(S, T) /\ T.keyvals = S.keyvals /\ T.made = S.made
       /\ T.attrs = S.attrs \ gone /\ T.deleted = S.deleted \cup {a \in gone : S.keyvals[a.keyval].delete}
  BY <1>2, <1>12 DEF StateRecords, SameWork
<1>15. T \in StateRecords
  <2>1. S.attrs \ gone \in SUBSET Attributes
    BY <1>2 DEF StateRecords
  <2>2. S.deleted \cup {a \in gone : S.keyvals[a.keyval].delete} \in SUBSET Attributes
    BY <1>2, <1>13 DEF StateRecords
  <2>3. PICK as, ds : /\ as = S.attrs \ gone
                      /\ ds = S.deleted \cup {a \in gone : S.keyvals[a.keyval].delete}
    OBVIOUS
  <2>4. T = LeftOf(S, as, ds, cs, ks)
    BY <1>12, <2>3 DEF LeftOf
  <2>5. as \in SUBSET Attributes /\ ds \in SUBSET Attributes /\ cs \in Seq(Comms) /\ ks \in Seq(Nat)
    BY <1>8, <1>9, <2>1, <2>2, <2>3
  <2> QED BY <1>2, <2>4, <2>5, StateWithout
<1>16. /\ H \in GlobalStates /\ H.operations = G.operations /\ H.comm_id_counter = G.comm_id_counter
       /\ H.states[p] = T /\ \A q \in Procs \ {p} : H.states[q] = G.states[q]
  <2>1. G.operations \in Seq(OperationRecords)
    BY <1>1, GlobalFields
  <2> QED BY <1>1, <1>15, <2>1, ReplacingState
<1>17. \A j \in 1 .. n - 1 : \E k \in 1 .. n : k # i /\ k = (IF j < i THEN j ELSE j + 1) /\ cs[j] = S.comms[k]
  <2>1. SUFFICES ASSUME NEW j \in 1 .. n - 1
                 PROVE  \E k \in 1 .. n : k # i /\ k = (IF j < i THEN j ELSE j + 1) /\ cs[j] = S.comms[k]
    OBVIOUS
  <2>2. PICK k : k = IF j < i THEN j ELSE j + 1
    OBVIOUS
  <2>3. k \in 1 .. n /\ k # i
    BY <2>2
  <2> QED BY <1>8, <2>2, <2>3
<1>18. ToSet(T.comms) = ToSet(S.comms) \ {c}
  <2>1. ASSUME NEW d \in ToSet(S.comms), d # c PROVE d \in ToSet(cs)
    <3>1. PICK k \in 1 .. n : d = S.comms[k]
      BY <1>3 DEF ToSet
    <3>2. k # i
      BY <1>4, <2>1, <3>1
    <3>3. PICK j : j = IF k < i THEN k ELSE k - 1
      OBVIOUS
    <3>4. j \in 1 .. n - 1 /\ (IF j < i THEN j ELSE j + 1) = k
      BY <3>2, <3>3
    <3>5. cs[j] = d
      BY <1>8, <3>1, <3>4
    <3> QED BY <1>10, <3>4, <3>5 DEF ToSet
  <2>2. ASSUME NEW d \in ToSet(cs) PROVE d \in ToSet(S.comms) /\ d # c
    <3>1. PICK j \in 1 .. n - 1 : d = cs[j]
      BY <1>10 DEF ToSet
    <3>2. PICK k \in 1 .. n : k # i /\ d = S.comms[k]
      BY <1>17, <3>1
    <3>3. d # c
      BY <1>4, <1>5, <3>2
    <3> QED BY <1>3, <3>2, <3>3 DEF ToSet
  <2> QED BY <1>14, <2>1, <2>2
<1>19. \A q \in Procs : Known(H, L, q) \subseteq Known(G, L, q)
  BY <1>16, <1>18 DEF Known
<1>20. CommsOK(H, L)
  <2>1. /\ \A q \in Procs : \A d \in Known(H, L, q) : IsMember(q, d, G.comm_id_counter)
        /\ \A q \in Procs, r \in Procs : \A d \in Known(H, L, q), e \in Known(H, L, r) :
             d.comm_id = e.comm_id /\ d.comm_id # CommSelf => d = e
    BY <1>1, <1>19 DEF CommsOK
  <2>2. /\ \A j \in 1 .. n - 1 : cs[j].comm_id > CommUserdef
        /\ \A j \in 1 .. n - 1, k \in 1 .. n - 1 : cs[j].comm_id = cs[k].comm_id => j = k
    <3>1. \A j \in 1 .. n - 1 : cs[j].comm_id > CommUserdef
      BY <1>5, <1>17
    <3>2. ASSUME NEW j \in 1 .. n - 1, NEW k \in 1 .. n - 1, cs[j].comm_id = cs[k].comm_id PROVE j = k
      <4>1. PICK a \in 1 .. n : a = (IF j < i THEN j ELSE j + 1) /\ cs[j] = S.comms[a]
        BY <1>17
      <4>2. PICK b \in 1 .. n : b = (IF k < i THEN k ELSE k + 1) /\ cs[k] = S.comms[b]
        BY <1>17
      <4>3. a = b
        BY <1>5, <3>2, <4>1, <4>2
      <4> QED BY <4>1, <4>2, <4>3
    <3> QED BY <3>1, <3>2
  <2>3. ASSUME NEW q \in Procs
        PROVE  LET comms == H.states[q].comms IN
                 /\ \A j \in DOMAIN comms : comms[j].comm_id > CommUserdef
                 /\ \A j \in DOMAIN comms, k \in DOMAIN comms : comms[j].comm_id = comms[k].comm_id => j = k
    <3>1. CASE q = p
      <4>1. H.states[q].comms = cs
        BY <1>14, <1>16, <3>1
      <4> QED BY <1>10, <2>2, <4>1
    <3>2. CASE q # p
      <4>1. H.states[q] = G.states[q]
        BY <1>16, <3>2
      <4> QED BY <1>1, <4>1 DEF CommsOK
    <3> QED BY <3>1, <3>2
  <2> QED BY <1>1, <1>16, <2>1, <2>3 DEF CommsOK
<1>21. CountersOK(H, L)
  <2>1. /\ S.counters[1] = Cardinality(CallsOn(L, p, CommWorld))
        /\ S.counters[2] = Cardinality(CallsOn(L, p, CommSelf))
        /\ \A j \in 1 .. n : S.counters[j + 2] = Cardinality(CallsOn(L, p, S.comms[j].comm_id))
    BY <1>1, <1>3 DEF CountersOK
  <2>2. 1 \in 1 .. n + 1 /\ 2 \in 1 .. n + 1 /\ 1 < i + 2 /\ 2 < i + 2
    OBVIOUS
  <2>3. ks[1] = S.counters[1] /\ ks[2] = S.counters[2]
    BY <1>9, <2>2
  <2>4. ASSUME NEW j \in 1 .. n - 1
        PROVE  ks[j + 2] = Cardinality(CallsOn(L, p, cs[j].comm_id))
    <3>1. PICK k \in 1 .. n : k = (IF j < i THEN j ELSE j + 1) /\ cs[j] = S.comms[k]
      BY <1>17
    <3>2. j + 2 \in 1 .. n + 1 /\ (IF j + 2 < i + 2 THEN j + 2 ELSE j + 2 + 1) = k + 2
      BY <3>1
    <3>3. ks[j + 2] = S.counters[k + 2]
      BY <1>9, <3>2
    <3> QED BY <2>1, <3>1, <3>3
  <2>5. Len(ks) = Len(cs) + 2
    BY <1>8, <1>9
  <2>6. ASSUME NEW q \in Procs
        PROVE  /\ Len(H.states[q].counters) = Len(H.states[q].comms) + 2
               /\ H.states[q].counters[1] = Cardinality(CallsOn(L, q, CommWorld))
               /\ H.states[q].counters[2] = Cardinality(CallsOn(L, q, CommSelf))
               /\ \A j \in DOMAIN H.states[q].comms :
                    H.states[q].counters[j + 2] = Cardinality(CallsOn(L, q, H.states[q].comms[j].comm_id))
    <3>1. CASE q = p
      <4>1. H.states[q].counters = ks /\ H.states[q].comms = cs
        BY <1>14, <1>16, <3>1
      <4> QED BY <1>10, <2>1, <2>3, <2>4, <2>5, <3>1, <4>1
    <3>2. CASE q # p
      <4>1. H.states[q] = G.states[q]
        BY <1>16, <3>2
      <4> QED BY <1>1, <4>1 DEF CountersOK
    <3> QED BY <3>1, <3>2
  <2> QED BY <2>6 DEF CountersOK
<1> QED BY <1>11, <1>14, <1>15, <1>16, <1>18, <1>20, <1>21 DEF CommunicatorsOK, RemovedComm

-----------------------------------------------------------------------------
(* Entering an operation *)

LEMMA OperationFields ==
  ASSUME NEW op \in OperationRecords
  PROVE  /\ op.name \in BlockingClasses /\ op.blocking \in BOOLEAN /\ op.comm_id \in Nat /\ op.cc_id \in Nat
         /\ op.root \in Int \cup {None} /\ op.root_pid \in Procs \cup {None} /\ op.process_count \in Nat
         /\ op.remaining_enter \in Int /\ op.remaining_complete \in Int
         /\ op.buffers \in Seq(Data \cup {None}) /\ op.recvbufs \in Seq(Nat \cup {None})
         /\ op.final \in {None} \cup Nat \cup Seq(Nat) \cup Seq(Data \cup {None})
BY DEF OperationRecords

\* What identifies an operation, and its counts of processes, are the same.
SameOperation(op, x) ==
  /\ x \in OperationRecords
  /\ x.name = op.name /\ x.blocking = op.blocking /\ x.comm_id = op.comm_id /\ x.cc_id = op.cc_id
  /\ x.process_count = op.process_count /\ x.remaining_enter = op.remaining_enter
  /\ x.remaining_complete = op.remaining_complete

SameRoot(op, x) == x.root = op.root /\ x.root_pid = op.root_pid

\* Nothing but buffer i is put in.
PutAt(op, x, i) ==
  /\ Len(x.buffers) = Len(op.buffers)
  /\ \A j \in DOMAIN op.buffers : x.buffers[j] # None => op.buffers[j] # None \/ j = i

\* What enters, e, is a call of a member.
Enters(op, e) ==
  /\ e.pid \in Procs /\ e.comm \in Comms /\ e.pid \in Members(e.comm) /\ e.rank = PidToRank(e.comm, e.pid)
  /\ IsCollectiveCall(e.call) /\ e.data \in Data
  /\ op \in OperationRecords /\ op.name = e.call.name /\ op.process_count = Size(e.comm)
  /\ op.name \in Rooted /\ op.root # None => op.root_pid = RankToPid(e.comm, op.root)

\* The root is that of the call.
RootIs(op, x, e) ==
  /\ e.call.root \in 0 .. Size(e.comm) - 1
  /\ x.root = e.call.root /\ x.root_pid = RankToPid(e.comm, e.call.root)
  /\ op.root # None => op.root = x.root

\* What entering does to an operation.
EnteredAs(op, x, e) ==
  /\ SameOperation(op, x)
  /\ op.name \in Rooted => RootIs(op, x, e)
  /\ op.name \in {"scatter", "scatterv", "bcast"} => PutAt(op, x, e.rank + 1)

LEMMA CallFields ==
  ASSUME NEW call, IsCollectiveCall(call)
  PROVE  /\ call.blocking \in BOOLEAN /\ call.name \in BlockingClasses
         /\ call.root \in Int /\ call.inplace \in BOOLEAN /\ call.recvbuf \in Nat
         /\ call.fn \in STRING /\ call.count \in Nat /\ call.color \in Int /\ call.key \in Int
         /\ call.comm \in 1 .. CommVars
BY DEF IsCollectiveCall, BlockingClasses, NonBlockingClasses

LEMMA NotRefused ==
  (\A op \in OperationRecords : ~Refused(op)) /\ \A err : Refused(Refuse(err))
<1>1. ASSUME NEW op \in OperationRecords PROVE ~Refused(op)
  <2>1. DOMAIN op = {"name", "blocking", "comm_id", "cc_id", "root", "root_pid", "process_count",
                     "remaining_enter", "remaining_complete", "buffers", "recvbufs", "recvbuf",
                     "op", "count", "group", "final"}
    BY DEF OperationRecords
  <2> QED BY <2>1 DEF Refused
<1>2. ASSUME NEW err PROVE Refused(Refuse(err))
  BY DEF Refused, Refuse
<1> QED BY <1>1, <1>2

LEMMA PuttingIn ==
  ASSUME NEW op \in OperationRecords, NEW e, e.data \in Data, NEW x, x = PutIn(op, e)
  PROVE  /\ SameOperation(op, x) /\ SameRoot(op, x) /\ PutAt(op, x, e.rank + 1)
         /\ x.buffers = [op.buffers EXCEPT ![e.rank + 1] = e.data]
         /\ x.final = op.final /\ x.group = op.group
<1>1. PICK i, d, b, s : i = e.rank + 1 /\ d = e.data /\ s = op.buffers /\ b = [s EXCEPT ![i] = d]
  OBVIOUS
<1>2. s \in Seq(Data \cup {None}) /\ d \in Data \cup {None}
  BY <1>1, OperationFields
<1>3. b \in Seq(Data \cup {None}) /\ Len(b) = Len(s)
  <2>1. PICK X : X = Data \cup {None}
    OBVIOUS
  <2>2. s \in Seq(X) /\ d \in X
    BY <1>2, <2>1
  <2>3. [s EXCEPT ![i] = d] \in Seq(X) /\ Len([s EXCEPT ![i] = d]) = Len(s)
    BY <2>2, ReplacingOne
  <2> QED BY <1>1, <2>1, <2>3
<1>4. \A j \in DOMAIN op.buffers : b[j] # None => op.buffers[j] # None \/ j = i
  BY <1>1
<1>5. x = [op EXCEPT !.buffers = b]
  BY <1>1 DEF PutIn
<1>6. x \in OperationRecords
  BY <1>3, <1>5 DEF OperationRecords
<1>7. x.buffers = b /\ SameRoot(op, x) /\ x.final = op.final /\ x.group = op.group
  BY <1>5 DEF OperationRecords, SameRoot
<1>8. SameOperation(op, x)
  BY <1>5, <1>6 DEF OperationRecords, SameOperation
<1> QED BY <1>1, <1>3, <1>4, <1>7, <1>8 DEF PutAt

LEMMA ReceivingIn ==
  ASSUME NEW op \in OperationRecords, NEW e, e.call.recvbuf \in Nat, NEW x, x = Receiving(op, e)
  PROVE  /\ SameOperation(op, x) /\ SameRoot(op, x) /\ x.buffers = op.buffers
         /\ x.final = op.final /\ x.group = op.group
<1>1. PICK i, d, b : i = e.rank + 1 /\ d = e.call.recvbuf /\ b = [op.recvbufs EXCEPT ![i] = d]
  OBVIOUS
<1>2. op.recvbufs \in Seq(Nat \cup {None}) /\ d \in Nat \cup {None}
  BY <1>1, OperationFields
<1>3. b \in Seq(Nat \cup {None})
  BY <1>1, <1>2, ReplacingOne
<1>4. x = [op EXCEPT !.recvbufs = b]
  BY <1>1 DEF Receiving
<1>5. x \in OperationRecords
  BY <1>3, <1>4 DEF OperationRecords
<1>6. x.buffers = op.buffers /\ SameRoot(op, x) /\ x.final = op.final /\ x.group = op.group
  BY <1>4 DEF OperationRecords, SameRoot
<1>7. SameOperation(op, x)
  BY <1>4, <1>5 DEF OperationRecords, SameOperation
<1> QED BY <1>6, <1>7

\* The receive buffer of the root.
LEMMA KeepingBuffer ==
  ASSUME NEW op \in OperationRecords, NEW b \in Nat, NEW x, x = [op EXCEPT !.recvbuf = b]
  PROVE  SameOperation(op, x) /\ SameRoot(op, x) /\ x.buffers = op.buffers
<1>1. x \in OperationRecords
  BY DEF OperationRecords
<1>2. x.buffers = op.buffers /\ SameRoot(op, x)
  BY DEF OperationRecords, SameRoot
<1>3. SameOperation(op, x)
  BY <1>1 DEF OperationRecords, SameOperation
<1> QED BY <1>2, <1>3

\* The function and the count of a reduction.
LEMMA KeepingFunction ==
  ASSUME NEW op \in OperationRecords, NEW f \in STRING, NEW n \in Nat, NEW x, x = [op EXCEPT !.op = f, !.count = n]
  PROVE  SameOperation(op, x) /\ SameRoot(op, x) /\ x.buffers = op.buffers
<1>1. x \in OperationRecords
  BY DEF OperationRecords
<1>2. x.buffers = op.buffers /\ SameRoot(op, x)
  BY DEF OperationRecords, SameRoot
<1>3. SameOperation(op, x)
  BY <1>1 DEF OperationRecords, SameOperation
<1> QED BY <1>2, <1>3

LEMMA CheckingRoot ==
  ASSUME NEW op, op.name \in Rooted, NEW e, Enters(op, e), NEW x, x = CheckRoot(op, e), ~Refused(x)
  PROVE  SameOperation(op, x) /\ RootIs(op, x, e) /\ x.buffers = op.buffers
<1>1. op \in OperationRecords /\ e.comm \in Comms
  BY DEF Enters
<1>2. e.call.root \in 0 .. Size(e.comm) - 1
  BY NotRefused DEF CheckRoot
<1>3. PICK r, q : r = e.call.root /\ q = RankToPid(e.comm, r)
  OBVIOUS
<1>4. r \in Int /\ q \in Procs
  <2>1. Size(e.comm) \in Nat /\ DOMAIN e.comm.group.table = 1 .. Size(e.comm) /\ e.comm.group.table \in Seq(Procs)
    BY <1>1, MembersAreCounted, CommFields
  <2>2. r + 1 \in DOMAIN e.comm.group.table
    BY <1>2, <1>3, <2>1
  <2> QED BY <1>2, <1>3, <2>1, <2>2 DEF RankToPid
<1>5. CASE op.root = None
  <2>1. x = [op EXCEPT !.root = r, !.root_pid = q]
    BY <1>2, <1>3, <1>5 DEF CheckRoot
  <2>2. x \in OperationRecords
    BY <1>1, <1>4, <2>1 DEF OperationRecords
  <2>3. SameOperation(op, x) /\ x.buffers = op.buffers /\ x.root = r /\ x.root_pid = q
    BY <1>1, <2>1, <2>2 DEF OperationRecords, SameOperation
  <2> QED BY <1>2, <1>3, <1>5, <2>3 DEF RootIs
<1>6. CASE op.root # None
  <2>1. op.root = e.call.root /\ x = op
    BY <1>2, <1>6, NotRefused DEF CheckRoot
  <2>2. op.root_pid = RankToPid(e.comm, op.root)
    BY <1>6 DEF Enters
  <2> QED BY <1>1, <1>2, <2>1, <2>2 DEF RootIs, SameOperation
<1> QED BY <1>5, <1>6

LEMMA SameTwice ==
  ASSUME NEW a, NEW b, NEW c, SameOperation(a, b), SameOperation(b, c)
  PROVE  /\ SameOperation(a, c)
         /\ \A e : RootIs(a, b, e) /\ SameRoot(b, c) => RootIs(a, c, e)
         /\ SameRoot(a, b) /\ SameRoot(b, c) => SameRoot(a, c)
BY DEF SameOperation, RootIs, SameRoot

\* The data of a process, and the buffer of the root.
LEMMA PuttingForRoot ==
  ASSUME NEW op \in OperationRecords, NEW e, e.data \in Data, e.call.recvbuf \in Nat,
         NEW x, x \in {PutIn(op, e), [PutIn(op, e) EXCEPT !.recvbuf = e.call.recvbuf],
                       [op EXCEPT !.recvbuf = e.call.recvbuf]}
  PROVE  SameOperation(op, x) /\ SameRoot(op, x)
<1>1. PICK y, z, b : y = PutIn(op, e) /\ b = e.call.recvbuf /\ z = [y EXCEPT !.recvbuf = b]
  OBVIOUS
<1>2. SameOperation(op, y) /\ SameRoot(op, y) /\ y \in OperationRecords
  <2>1. SameOperation(op, y) /\ SameRoot(op, y)
    BY <1>1, PuttingIn
  <2> QED BY <2>1 DEF SameOperation
<1>3. SameOperation(y, z) /\ SameRoot(y, z)
  BY <1>1, <1>2, KeepingBuffer
<1>4. SameOperation(op, z) /\ SameRoot(op, z)
  BY <1>2, <1>3, SameTwice
<1>5. ASSUME NEW v, v = [op EXCEPT !.recvbuf = b] PROVE SameOperation(op, v) /\ SameRoot(op, v)
  BY <1>1, <1>5, KeepingBuffer
<1>6. CASE x = y
  BY <1>2, <1>6
<1>7. CASE x = z
  BY <1>4, <1>7
<1>8. CASE x = [op EXCEPT !.recvbuf = b]
  BY <1>5, <1>8
<1> QED BY <1>1, <1>6, <1>7, <1>8

\* A process that puts in and receives, in any order.
LEMMA PuttingAndReceiving ==
  ASSUME NEW op \in OperationRecords, NEW e, e.data \in Data, e.call.recvbuf \in Nat,
         NEW x, x \in {PutIn(Receiving(op, e), e), Receiving(PutIn(op, e), e)}
  PROVE  /\ SameOperation(op, x) /\ SameRoot(op, x) /\ PutAt(op, x, e.rank + 1)
         /\ x.buffers = [op.buffers EXCEPT ![e.rank + 1] = e.data]
         /\ x.final = op.final /\ x.group = op.group
<1>1. CASE x = PutIn(Receiving(op, e), e)
  <2>1. PICK y : y = Receiving(op, e)
    OBVIOUS
  <2>2. /\ SameOperation(op, y) /\ SameRoot(op, y) /\ y.buffers = op.buffers /\ y \in OperationRecords
        /\ y.final = op.final /\ y.group = op.group
    BY <2>1, ReceivingIn DEF SameOperation
  <2>3. /\ SameOperation(y, x) /\ SameRoot(y, x) /\ PutAt(y, x, e.rank + 1)
        /\ x.buffers = [y.buffers EXCEPT ![e.rank + 1] = e.data] /\ x.final = y.final /\ x.group = y.group
    BY <1>1, <2>1, <2>2, PuttingIn
  <2>4. SameOperation(op, x) /\ SameRoot(op, x)
    BY <2>2, <2>3, SameTwice
  <2> QED BY <2>2, <2>3, <2>4 DEF PutAt
<1>2. CASE x = Receiving(PutIn(op, e), e)
  <2>1. PICK y : y = PutIn(op, e)
    OBVIOUS
  <2>2. /\ SameOperation(op, y) /\ SameRoot(op, y) /\ PutAt(op, y, e.rank + 1) /\ y \in OperationRecords
        /\ y.buffers = [op.buffers EXCEPT ![e.rank + 1] = e.data] /\ y.final = op.final /\ y.group = op.group
    BY <2>1, PuttingIn DEF SameOperation
  <2>3. SameOperation(y, x) /\ SameRoot(y, x) /\ x.buffers = y.buffers /\ x.final = y.final /\ x.group = y.group
    BY <1>2, <2>1, <2>2, ReceivingIn
  <2>4. SameOperation(op, x) /\ SameRoot(op, x)
    BY <2>2, <2>3, SameTwice
  <2> QED BY <2>2, <2>3, <2>4 DEF PutAt
<1> QED BY <1>1, <1>2

\* The operations of a root that collects, that spreads, and those without a root.
LEMMA EnteringCollect ==
  ASSUME NEW op, op.name \in Rooted, NEW e, Enters(op, e),
         NEW x, x \in {EnterGatherv(op, e), EnterGather(op, e)}, ~Refused(x)
  PROVE  SameOperation(op, x) /\ RootIs(op, x, e)
<1>1. PICK y : y = CheckRoot(op, e)
  OBVIOUS
<1>2. ~Refused(y)
  BY <1>1, NotRefused DEF EnterGatherv, EnterGather
<1>3. SameOperation(op, y) /\ RootIs(op, y, e) /\ y \in OperationRecords
  BY <1>1, <1>2, CheckingRoot DEF SameOperation
<1>4. x \in {PutIn(y, e), [PutIn(y, e) EXCEPT !.recvbuf = e.call.recvbuf], [y EXCEPT !.recvbuf = e.call.recvbuf]}
  BY <1>1, <1>2, NotRefused DEF EnterGatherv, EnterGather
<1>5. SameOperation(y, x) /\ SameRoot(y, x)
  <2>1. e.data \in Data /\ e.call.recvbuf \in Nat
    BY CallFields DEF Enters
  <2> QED BY <1>3, <1>4, <2>1, PuttingForRoot
<1> QED BY <1>3, <1>5, SameTwice

LEMMA EnteringSpread ==
  ASSUME NEW op, op.name \in Rooted, NEW e, Enters(op, e),
         NEW x, x \in {EnterScatterv(op, e), EnterScatter(op, e), EnterBcast(op, e)}, ~Refused(x)
  PROVE  SameOperation(op, x) /\ RootIs(op, x, e) /\ PutAt(op, x, e.rank + 1)
<1>1. PICK y : y = CheckRoot(op, e)
  OBVIOUS
<1>2. ~Refused(y)
  BY <1>1, NotRefused DEF EnterScatterv, EnterScatter, EnterBcast
<1>3. SameOperation(op, y) /\ RootIs(op, y, e) /\ y.buffers = op.buffers /\ y \in OperationRecords
  BY <1>1, <1>2, CheckingRoot DEF SameOperation
<1>4. x \in {PutIn(y, e), PutIn(Receiving(y, e), e), Receiving(y, e)}
  BY <1>1, <1>2, NotRefused DEF EnterScatterv, EnterScatter, EnterBcast
<1>5. e.data \in Data /\ e.call.recvbuf \in Nat
  BY CallFields DEF Enters
<1>6. SameOperation(y, x) /\ SameRoot(y, x) /\ PutAt(y, x, e.rank + 1)
  <2>1. CASE x = PutIn(y, e)
    BY <1>3, <1>5, <2>1, PuttingIn
  <2>2. CASE x = PutIn(Receiving(y, e), e)
    BY <1>3, <1>5, <2>2, PuttingAndReceiving
  <2>3. CASE x = Receiving(y, e)
    <3>1. SameOperation(y, x) /\ SameRoot(y, x) /\ x.buffers = y.buffers
      BY <1>3, <1>5, <2>3, ReceivingIn
    <3> QED BY <3>1 DEF PutAt
  <2> QED BY <1>4, <2>1, <2>2, <2>3
<1>7. SameOperation(op, x) /\ RootIs(op, x, e)
  BY <1>3, <1>6, SameTwice
<1> QED BY <1>3, <1>6, <1>7 DEF PutAt

LEMMA EnteringReduce ==
  ASSUME NEW op, op.name \in Rooted, NEW e, Enters(op, e), NEW x, x = EnterReduce(op, e), ~Refused(x)
  PROVE  SameOperation(op, x) /\ RootIs(op, x, e)
<1>0. /\ e.data \in Data /\ e.call.recvbuf \in Nat /\ e.call.fn \in STRING /\ e.call.count \in Nat
      /\ op \in OperationRecords
  BY CallFields DEF Enters
<1>1. PICK first, f, n : f = e.call.fn /\ n = e.call.count /\ first = [op EXCEPT !.op = f, !.count = n]
  OBVIOUS
<1>2. SameOperation(op, first) /\ SameRoot(op, first)
  BY <1>0, <1>1, KeepingFunction
<1>3. PICK z : z = IF op.op = None THEN first ELSE op
  OBVIOUS
<1>4. SameOperation(op, z) /\ SameRoot(op, z)
  BY <1>0, <1>2, <1>3 DEF SameOperation, SameRoot
<1>5. PICK y : y = CheckRoot(z, e)
  OBVIOUS
<1>6. ~Refused(y) /\ x = [PutIn(y, e) EXCEPT !.recvbuf = e.call.recvbuf]
  BY <1>1, <1>3, <1>5, NotRefused DEF EnterReduce
<1>7. Enters(z, e) /\ z.name \in Rooted
  BY <1>4 DEF SameOperation, SameRoot, Enters
<1>8. SameOperation(z, y) /\ RootIs(z, y, e) /\ y \in OperationRecords
  BY <1>5, <1>6, <1>7, CheckingRoot DEF SameOperation
<1>9. SameOperation(y, x) /\ SameRoot(y, x)
  BY <1>0, <1>6, <1>8, PuttingForRoot
<1>10. SameOperation(z, x) /\ RootIs(z, x, e)
  BY <1>8, <1>9, SameTwice
<1>11. SameOperation(op, x)
  BY <1>4, <1>10, SameTwice
<1> QED BY <1>4, <1>10, <1>11 DEF SameRoot, RootIs

\* The result of MPI_Reduce_scatter takes the place of what was put in.
LEMMA OperationFilled ==
  ASSUME NEW z \in OperationRecords, NEW b \in Seq(Data \cup {None}), NEW no \in Seq(Data \cup {None}),
         NEW x, x = [z EXCEPT !.final = b, !.buffers = no]
  PROVE  x \in OperationRecords
BY DEF OperationRecords

LEMMA EnteringAll ==
  ASSUME NEW op, NEW e, Enters(op, e),
         NEW x, x \in {EnterAllgather(op, e), EnterAllgatherv(op, e), EnterAllReduce(op, e),
                       EnterReduceScatter(op, e)}, ~Refused(x)
  PROVE  SameOperation(op, x)
<1>0. /\ e.data \in Data /\ e.call.recvbuf \in Nat /\ e.call.fn \in STRING /\ e.call.count \in Nat
      /\ op \in OperationRecords
  BY CallFields DEF Enters
<1>1. PICK first, f, n : f = e.call.fn /\ n = e.call.count /\ first = [op EXCEPT !.op = f, !.count = n]
  OBVIOUS
<1>2. SameOperation(op, first) /\ SameOperation(op, op)
  <2>1. SameOperation(op, first)
    BY <1>0, <1>1, KeepingFunction
  <2> QED BY <1>0, <2>1 DEF SameOperation
<1>3. CASE x \in {EnterAllgather(op, e), EnterAllgatherv(op, e)}
  <2>1. x \in {PutIn(Receiving(op, e), e), Receiving(PutIn(op, e), e)}
    BY <1>3 DEF EnterAllgather, EnterAllgatherv
  <2> QED BY <1>0, <2>1, PuttingAndReceiving
<1>4. CASE x = EnterAllReduce(op, e)
  <2>1. PICK y : y = IF op.op = None THEN first ELSE op
    OBVIOUS
  <2>2. SameOperation(op, y) /\ y \in OperationRecords
    BY <1>2, <2>1 DEF SameOperation
  <2>3. x = PutIn(Receiving(y, e), e)
    BY <1>1, <1>4, <2>1, NotRefused DEF EnterAllReduce
  <2>4. SameOperation(y, x)
    BY <1>0, <2>2, <2>3, PuttingAndReceiving
  <2> QED BY <2>2, <2>4, SameTwice
<1>5. CASE x = EnterReduceScatter(op, e)
  <2>1. PICK y : y = IF op.count = None THEN first ELSE op
    OBVIOUS
  <2>2. SameOperation(op, y) /\ y \in OperationRecords
    BY <1>2, <2>1 DEF SameOperation
  <2>3. PICK z : z = PutIn(Receiving(y, e), e)
    OBVIOUS
  <2>4. x = z \/ x = [z EXCEPT !.final = z.buffers, !.buffers = <<>>]
    BY <1>1, <1>5, <2>1, <2>3, NotRefused DEF EnterReduceScatter
  <2>5. SameOperation(y, z) /\ z \in OperationRecords
    <3>1. SameOperation(y, z)
      BY <1>0, <2>2, <2>3, PuttingAndReceiving
    <3> QED BY <3>1 DEF SameOperation
  <2>6. SameOperation(op, z)
    BY <2>2, <2>5, SameTwice
  <2>7. PICK b : b = z.buffers /\ b \in Seq(Data \cup {None})
    BY <2>5, OperationFields
  <2>8. CASE x = [z EXCEPT !.final = b, !.buffers = <<>>]
    <3>a. <<>> \in Seq(Data \cup {None})
      OBVIOUS
    <3>1. PICK no : no = <<>> /\ no \in Seq(Data \cup {None})
      BY <3>a
    <3>2. x \in OperationRecords
      BY <2>5, <2>7, <2>8, <3>1, OperationFilled
    <3>3. SameOperation(z, x)
      BY <2>5, <2>8, <3>2 DEF OperationRecords, SameOperation
    <3> QED BY <2>6, <3>3, SameTwice
  <2> QED BY <2>4, <2>6, <2>7, <2>8
<1> QED BY <1>3, <1>4, <1>5

LEMMA EnteringBuffers ==
  ASSUME NEW op, NEW e, Enters(op, e), op.name \notin OnComms,
         NEW x, x = EnterWithBuffers(op, e), ~Refused(x)
  PROVE  EnteredAs(op, x, e)
<1>1. op \in OperationRecords /\ op.name \in BlockingClasses \ OnComms
  BY OperationFields DEF Enters
<1>2. CASE op.name = "barrier"
  <2>1. x = op
    BY <1>2 DEF EnterWithBuffers
  <2> QED BY <1>1, <1>2, <2>1 DEF EnteredAs, SameOperation, Rooted
<1>3. CASE op.name \in {"gatherv", "gather"}
  <2>1. x \in {EnterGatherv(op, e), EnterGather(op, e)}
    BY <1>3 DEF EnterWithBuffers
  <2> QED BY <1>3, <2>1, EnteringCollect DEF EnteredAs, Rooted
<1>4. CASE op.name \in {"scatterv", "scatter", "bcast"}
  <2>1. x \in {EnterScatterv(op, e), EnterScatter(op, e), EnterBcast(op, e)}
    BY <1>4 DEF EnterWithBuffers
  <2> QED BY <1>4, <2>1, EnteringSpread DEF EnteredAs, Rooted
<1>5. CASE op.name = "reduce"
  <2>1. x = EnterReduce(op, e)
    BY <1>5 DEF EnterWithBuffers
  <2> QED BY <1>5, <2>1, EnteringReduce DEF EnteredAs, Rooted
<1>6. CASE op.name \in {"allgather", "allgatherv", "allreduce", "scan", "reduce_scatter"}
  <2>1. x \in {EnterAllgather(op, e), EnterAllgatherv(op, e), EnterAllReduce(op, e), EnterReduceScatter(op, e)}
    BY <1>6 DEF EnterWithBuffers
  <2> QED BY <1>6, <2>1, EnteringAll DEF EnteredAs, Rooted
<1> QED BY <1>1, <1>2, <1>3, <1>4, <1>5, <1>6 DEF BlockingClasses, OnComms

-----------------------------------------------------------------------------
(* Entering, and the global state *)

\* The state of p, its communicators apart, and the operations are replaced.
LEMMA ReplacingWork ==
  ASSUME NEW F, NEW L, CommunicatorsOK(F, L), NEW p \in Procs, NEW T \in StateRecords,
         SameComms(F.states[p], T), NEW ops \in Seq(OperationRecords), NEW H, H = Replaced(F, p, T, ops)
  PROVE  /\ CommunicatorsOK(H, L) /\ H.operations = ops /\ H.comm_id_counter = F.comm_id_counter
         /\ H.states[p] = T /\ \A q \in Procs \ {p} : H.states[q] = F.states[q]
<1>1. F \in GlobalStates /\ CommsOK(F, L) /\ CountersOK(F, L)
  BY DEF CommunicatorsOK
<1>2. /\ H \in GlobalStates /\ H.operations = ops /\ H.comm_id_counter = F.comm_id_counter
      /\ H.states[p] = T /\ \A q \in Procs \ {p} : H.states[q] = F.states[q]
  BY <1>1, ReplacingState
<1>3. \A q \in Procs : SameComms(F.states[q], H.states[q])
  BY <1>2 DEF SameComms
<1>4. CommsOK(H, L) /\ CountersOK(H, L)
  BY <1>1, <1>2, <1>3, CommsFrame
<1> QED BY <1>2, <1>4 DEF CommunicatorsOK

\* Only the operations are replaced.
WithOperations(F, ops) == [F EXCEPT !.operations = ops]

LEMMA ReplacingOperations ==
  ASSUME NEW F, NEW L, CommunicatorsOK(F, L), NEW ops \in Seq(OperationRecords), NEW H, H = WithOperations(F, ops)
  PROVE  /\ CommunicatorsOK(H, L) /\ H.operations = ops /\ H.comm_id_counter = F.comm_id_counter
         /\ H.states = F.states
<1>1. F \in GlobalStates /\ CommsOK(F, L) /\ CountersOK(F, L)
  BY DEF CommunicatorsOK
<1>2. /\ H \in GlobalStates /\ H.operations = ops /\ H.comm_id_counter = F.comm_id_counter
      /\ H.states = F.states
  BY <1>1 DEF GlobalStates, WithOperations
<1>3. \A q \in Procs : SameComms(F.states[q], H.states[q])
  BY <1>2 DEF SameComms
<1>4. CommsOK(H, L) /\ CountersOK(H, L)
  BY <1>1, <1>2, <1>3, CommsFrame
<1> QED BY <1>2, <1>4 DEF CommunicatorsOK

\* The attributes of e.pid that go to a duplicate of its communicator.
Copies(G, id, e) ==
  {[a EXCEPT !.comm = id] : a \in {b \in GetCommAttrs(G.states[e.pid], e.comm.comm_id) :
                                     G.states[e.pid].keyvals[b.keyval].copy}}

\* A new communicator is made by the first process.
MadeFirst(G, H, op, x) ==
  IF op.final = None
  THEN x.final = G.comm_id_counter + 1 /\ H.comm_id_counter = G.comm_id_counter + 1
  ELSE x.final = op.final /\ H.comm_id_counter = G.comm_id_counter

Duplicated(G, H, op, x, e) ==
  /\ MadeFirst(G, H, op, x) /\ x.final \in Nat
  /\ op.final = None => \A p \in Members(e.comm) : \E c \in ToSet(H.states[p].comms) : c.comm_id = x.final
  /\ H.states[e.pid].attrs = G.states[e.pid].attrs \cup Copies(G, x.final, e)
  /\ H.states[e.pid].made = G.states[e.pid].made \cup Copies(G, x.final, e)
  /\ H.states[e.pid].keyvals = G.states[e.pid].keyvals /\ H.states[e.pid].deleted = G.states[e.pid].deleted

SplitDone(G, H, x, e) ==
  /\ DOMAIN x.final = 1 .. Size(e.comm)
  /\ \A i \in DOMAIN x.final : x.final[i] \in {CommNull} \cup (G.comm_id_counter + 1 .. H.comm_id_counter)

\* H is G after e entered operation i, which became x.
Effect(G, H, i, x, e) ==
  LET op == G.operations[i] IN
    /\ EnteredAs(op, x, e)
    /\ H.operations = [G.operations EXCEPT ![i] = x]
    /\ H.comm_id_counter >= G.comm_id_counter
    /\ \A p \in Procs :
         /\ SameWork(G.states[p], H.states[p])
         /\ ToSet(G.states[p].comms) \subseteq ToSet(H.states[p].comms)
         /\ p # e.pid \/ op.name # "comm_dup" => SameAttributes(G.states[p], H.states[p])
    /\ op.name = "comm_split" =>
         IF op.remaining_enter = 0 THEN SplitDone(G, H, x, e)
         ELSE x.buffers = [op.buffers EXCEPT ![e.rank + 1] = e.data] /\ x.final = op.final
    /\ op.name = "comm_dup" => Duplicated(G, H, op, x, e)
    /\ op.name = "comm_create" => MadeFirst(G, H, op, x)

\* What a split and a duplication rely on.
MayEnter(op, e) ==
  /\ Enters(op, e)
  /\ op.name = "comm_split" /\ op.remaining_enter = 0 =>
       IsColors(e.comm, [op.buffers EXCEPT ![e.rank + 1] = e.data])
  /\ op.name = "comm_dup" => op.final \in {None} \cup Nat
  /\ op.name = "comm_create" => e.group \in Groups

LEMMA NothingWidens ==
  ASSUME NEW G, NEW L, CommunicatorsOK(G, L)
  PROVE  Widens(G, G)
<1>1. G.comm_id_counter \in Nat
  BY GlobalFields DEF CommunicatorsOK
<1> QED BY <1>1 DEF Widens, SameWork, SameAttributes

\* Operation i is replaced.
WithOperation(F, i, x) == WithOperations(F, [F.operations EXCEPT ![i] = x])

\* The parts of the effect that a widening and the new operation have.
LEMMA WidenedEffect ==
  ASSUME NEW G, NEW L, CommunicatorsOK(G, L), NEW F, CommunicatorsOK(F, L), Widens(G, F),
         NEW i \in DOMAIN G.operations, NEW x \in OperationRecords,
         NEW H, H = WithOperation(F, i, x)
  PROVE  /\ CommunicatorsOK(H, L)
         /\ H.operations = [G.operations EXCEPT ![i] = x]
         /\ H.comm_id_counter >= G.comm_id_counter /\ H.comm_id_counter = F.comm_id_counter
         /\ H.states = F.states
         /\ \A p \in Procs :
              /\ SameWork(G.states[p], H.states[p])
              /\ ToSet(G.states[p].comms) \subseteq ToSet(H.states[p].comms)
              /\ SameAttributes(G.states[p], H.states[p])
<1>1. PICK s : s = G.operations /\ s \in Seq(OperationRecords)
  BY GlobalFields DEF CommunicatorsOK
<1>3. PICK ops : ops = [s EXCEPT ![i] = x]
  OBVIOUS
<1>2. ops \in Seq(OperationRecords)
  <2>1. [s EXCEPT ![i] = x] \in Seq(OperationRecords)
    BY <1>1, ReplacingOne
  <2> QED BY <1>3, <2>1
<1>4. F.operations = s /\ H = WithOperations(F, ops)
  BY <1>1, <1>3 DEF Widens, WithOperation
<1>5. CommunicatorsOK(H, L) /\ H.operations = ops /\ H.comm_id_counter = F.comm_id_counter /\ H.states = F.states
  BY <1>2, <1>4, ReplacingOperations
<1> QED BY <1>1, <1>3, <1>5 DEF Widens

LEMMA EnteringSplit ==
  ASSUME NEW G, NEW L, IsLog(L), CommunicatorsOK(G, L), NEW i \in DOMAIN G.operations,
         NEW op, op = G.operations[i], op.name = "comm_split", NEW e, MayEnter(op, e),
         NEW H, H = EnterMain(G, i, e), ~Refused(H)
  PROVE  CommunicatorsOK(H, L) /\ \E x : Effect(G, H, i, x, e)
<1>0. op \in OperationRecords /\ Enters(op, e) /\ e.data \in Data /\ e.call.recvbuf \in Nat /\ e.comm \in Comms
  BY CallFields DEF MayEnter, Enters
<1>1. PICK y : y = PutIn(Receiving(op, e), e)
  OBVIOUS
<1>2. SameOperation(op, y) /\ y.buffers = [op.buffers EXCEPT ![e.rank + 1] = e.data] /\ y.final = op.final
  BY <1>0, <1>1, PuttingAndReceiving
<1>3. y \in OperationRecords /\ y.remaining_enter = op.remaining_enter
  BY <1>2 DEF SameOperation
<1>4. PICK split : split = SplitCommunicator(G, e.comm, y.buffers)
  OBVIOUS
<1>5. H = IF y.remaining_enter = 0
          THEN [split.G EXCEPT !.operations[i] = [y EXCEPT !.final = split.ids, !.buffers = <<>>]]
          ELSE [G EXCEPT !.operations[i] = y]
  BY <1>1, <1>4, NotRefused DEF EnterMain, EnterCommSplit
<1>6. \A x : EnteredAs(op, x, e) <=> SameOperation(op, x)
  BY DEF EnteredAs, Rooted
<1>7. CASE op.remaining_enter = 0
  <2>1. IsColors(e.comm, y.buffers)
    BY <1>2, <1>7 DEF MayEnter
  <2>2. SplitOK(G, L, y.buffers, split)
    BY <1>0, <1>4, <2>1, SplittingComm
  <2>3. PICK F, ids : F = split.G /\ ids = split.ids
    OBVIOUS
  <2>4. CommunicatorsOK(F, L) /\ Widens(G, F)
    BY <2>2, <2>3 DEF SplitOK
  <2>5. /\ ids \in [1 .. Size(e.comm) -> {CommNull} \cup (G.comm_id_counter + 1 .. F.comm_id_counter)]
        /\ Size(e.comm) \in Nat
    <3>1. DOMAIN y.buffers = 1 .. Size(e.comm)
      <4>1. Len(y.buffers) = Size(e.comm) /\ y.buffers \in Seq(Data)
        BY <2>1 DEF IsColors
      <4> QED BY <4>1, LenProperties
    <3>2. Size(e.comm) \in Nat
      BY <1>0, MembersAreCounted
    <3> QED BY <2>2, <2>3, <3>1, <3>2 DEF SplitOK
  <2>6. ids \in Seq(Nat)
    <3>1. G.comm_id_counter \in Nat /\ F.comm_id_counter \in Nat
      BY <2>4, GlobalFields DEF CommunicatorsOK
    <3>2. {CommNull} \cup (G.comm_id_counter + 1 .. F.comm_id_counter) \subseteq Nat
      BY <3>1, CommNumbers
    <3>3. ids \in [1 .. Size(e.comm) -> Nat]
      BY <2>5, <3>2
    <3> QED BY <2>5, <3>3, FunctionIsSequence
  <2>7. PICK x : x = [y EXCEPT !.final = ids, !.buffers = <<>>]
    OBVIOUS
  <2>8. x \in OperationRecords /\ x.final = ids
    <3>1. <<>> \in Seq(Data \cup {None})
      OBVIOUS
    <3> QED BY <1>3, <2>6, <2>7, <3>1 DEF OperationRecords
  <2>9. SameOperation(y, x)
    BY <1>3, <2>7, <2>8 DEF OperationRecords, SameOperation
  <2>10. SameOperation(op, x)
    BY <1>2, <2>9, SameTwice
  <2>12. H = WithOperation(F, i, x)
    BY <1>3, <1>5, <1>7, <2>3, <2>7 DEF WithOperation, WithOperations
  <2>13. /\ CommunicatorsOK(H, L)
         /\ H.operations = [G.operations EXCEPT ![i] = x]
         /\ H.comm_id_counter >= G.comm_id_counter /\ H.comm_id_counter = F.comm_id_counter
         /\ \A p \in Procs :
              /\ SameWork(G.states[p], H.states[p])
              /\ ToSet(G.states[p].comms) \subseteq ToSet(H.states[p].comms)
              /\ SameAttributes(G.states[p], H.states[p])
    <3>1. x \in OperationRecords
      BY <2>8
    <3>2. PICK K : K = WithOperation(F, i, x)
      OBVIOUS
    <3>3. CommunicatorsOK(K, L)
      BY <2>4, <3>1, <3>2, WidenedEffect
    <3>4. K.operations = [G.operations EXCEPT ![i] = x]
      BY <2>4, <3>1, <3>2, WidenedEffect
    <3>5. K.comm_id_counter >= G.comm_id_counter /\ K.comm_id_counter = F.comm_id_counter
      <4>1. K.comm_id_counter = F.comm_id_counter
        BY <2>4, <3>2 DEF CommunicatorsOK, GlobalStates, WithOperation, WithOperations
      <4> QED BY <2>4, <4>1 DEF Widens
    <3>6. \A p \in Procs :
              /\ SameWork(G.states[p], K.states[p])
              /\ ToSet(G.states[p].comms) \subseteq ToSet(K.states[p].comms)
              /\ SameAttributes(G.states[p], K.states[p])
      BY <2>4, <3>1, <3>2, WidenedEffect
    <3>7. K = H
      BY <2>12, <3>2
    <3> QED BY <3>3, <3>4, <3>5, <3>6, <3>7
  <2>14. SplitDone(G, H, x, e)
    BY <2>5, <2>8, <2>13 DEF SplitDone
  <2>15. Effect(G, H, i, x, e)
    BY <1>6, <1>7, <2>10, <2>13, <2>14 DEF Effect
  <2> QED BY <2>13, <2>15
<1>8. CASE op.remaining_enter # 0
  <2>2. H = WithOperation(G, i, y)
    BY <1>3, <1>5, <1>8 DEF WithOperation, WithOperations
  <2>3. Widens(G, G)
    BY NothingWidens
  <2>4. /\ CommunicatorsOK(H, L)
        /\ H.operations = [G.operations EXCEPT ![i] = y]
        /\ H.comm_id_counter >= G.comm_id_counter
        /\ \A p \in Procs :
             /\ SameWork(G.states[p], H.states[p])
             /\ ToSet(G.states[p].comms) \subseteq ToSet(H.states[p].comms)
             /\ SameAttributes(G.states[p], H.states[p])
    BY <1>3, <2>2, <2>3, WidenedEffect
  <2>5. Effect(G, H, i, y, e)
    BY <1>2, <1>6, <1>8, <2>4 DEF Effect
  <2> QED BY <2>4, <2>5
<1> QED BY <1>7, <1>8

LEMMA EnteringDup ==
  ASSUME NEW G, NEW L, IsLog(L), CommunicatorsOK(G, L), NEW i \in DOMAIN G.operations,
         NEW op, op = G.operations[i], op.name = "comm_dup", NEW e, MayEnter(op, e),
         NEW H, H = EnterMain(G, i, e), ~Refused(H)
  PROVE  CommunicatorsOK(H, L) /\ \E x : Effect(G, H, i, x, e)
<1>0. op \in OperationRecords /\ e.call.recvbuf \in Nat /\ e.comm \in Comms /\ e.pid \in Procs
  BY CallFields DEF MayEnter, Enters
<1>1. PICK y : y = Receiving(op, e)
  OBVIOUS
<1>2. SameOperation(op, y) /\ y.final = op.final /\ y.buffers = op.buffers
  BY <1>0, <1>1, ReceivingIn
<1>3. y \in OperationRecords
  BY <1>2 DEF SameOperation
<1>4. PICK F : F = IF op.final = None THEN CreateCommunicator(G, e.comm.group) ELSE G
  OBVIOUS
<1>5. PICK id : id = IF op.final = None THEN F.comm_id_counter ELSE op.final
  OBVIOUS
<1>6. G.comm_id_counter \in Nat
  BY GlobalFields DEF CommunicatorsOK
<1>7. /\ CommunicatorsOK(F, L) /\ Widens(G, F)
      /\ op.final = None => /\ F.comm_id_counter = G.comm_id_counter + 1
                            /\ \A p \in Members(e.comm) : \E c \in ToSet(F.states[p].comms) : c.comm_id = F.comm_id_counter
  <2>1. CASE op.final = None
    <3>1. PICK g : g = e.comm.group /\ g \in Groups /\ ToSet(g.table) = Members(e.comm)
      BY <1>0, CommFields DEF Members
    <3>2. F = CreateCommunicator(G, g)
      BY <1>4, <2>1, <3>1
    <3>3. /\ CommunicatorsOK(F, L) /\ Widens(G, F) /\ F.comm_id_counter = G.comm_id_counter + 1
          /\ \A p \in ToSet(g.table) \cap Procs : \E c \in ToSet(F.states[p].comms) : c.comm_id = F.comm_id_counter
      BY <3>1, <3>2, CreatingComm
    <3>4. Members(e.comm) \subseteq Procs
      BY <1>0, MembersAreCounted
    <3> QED BY <3>1, <3>3, <3>4
  <2>2. CASE op.final # None
    BY <1>4, <2>2, NothingWidens
  <2> QED BY <2>1, <2>2
<1>8. id \in Nat
  BY <1>5, <1>6, <1>7 DEF MayEnter
<1>9. PICK x : x = [y EXCEPT !.final = id]
  OBVIOUS
<1>10. x \in OperationRecords /\ x.final = id
  BY <1>3, <1>8, <1>9 DEF OperationRecords
<1>11. SameOperation(op, x)
  <2>1. SameOperation(y, x)
    BY <1>3, <1>9, <1>10 DEF OperationRecords, SameOperation
  <2> QED BY <1>2, <2>1, SameTwice
<1>12. PICK S : S = F.states[e.pid] /\ S \in StateRecords
  BY <1>0, <1>7, GlobalFields DEF CommunicatorsOK
<1>13. PICK T : T = CopyCommAttrs(S, e.comm.comm_id, id)
  OBVIOUS
<1>14. PICK cs : cs = Copies(G, id, e)
  OBVIOUS
<1>15. SameAttributes(G.states[e.pid], S)
  BY <1>0, <1>7, <1>12 DEF Widens
<1>16. T = [S EXCEPT !.attrs = S.attrs \cup cs, !.made = S.made \cup cs]
  <2>1. GetCommAttrs(S, e.comm.comm_id) = GetCommAttrs(G.states[e.pid], e.comm.comm_id)
    BY <1>15 DEF SameAttributes, GetCommAttrs
  <2>2. cs = {[a EXCEPT !.comm = id] : a \in {b \in GetCommAttrs(S, e.comm.comm_id) : S.keyvals[b.keyval].copy}}
    BY <1>14, <1>15, <2>1 DEF SameAttributes, Copies
  <2> QED BY <1>13, <2>2 DEF CopyCommAttrs, Attach
<1>17. cs \subseteq Attributes
  <2>1. GetCommAttrs(G.states[e.pid], e.comm.comm_id) \subseteq S.attrs
    BY <1>15 DEF SameAttributes, GetCommAttrs
  <2>2. S.attrs \subseteq Attributes
    BY <1>12, StateFields
  <2>3. \A a \in Attributes : [a EXCEPT !.comm = id] \in Attributes
    BY <1>8 DEF Attributes
  <2> QED BY <1>14, <2>1, <2>2, <2>3 DEF Copies
<1>18. T \in StateRecords
  <2>1. S.attrs \cup cs \in SUBSET Attributes /\ S.made \cup cs \in SUBSET Attributes
    BY <1>12, <1>17, StateFields
  <2> QED BY <1>12, <1>16, <2>1 DEF StateRecords
<1>19. /\ SameWork(S, T) /\ SameComms(S, T) /\ T.keyvals = S.keyvals /\ T.deleted = S.deleted
       /\ T.attrs = S.attrs \cup cs /\ T.made = S.made \cup cs
  BY <1>12, <1>16 DEF StateRecords, SameWork, SameComms
<1>20. PICK s, ops : s = G.operations /\ ops = [s EXCEPT ![i] = x] /\ s \in Seq(OperationRecords)
  BY GlobalFields DEF CommunicatorsOK
<1>21. ops \in Seq(OperationRecords)
  <2>1. [s EXCEPT ![i] = x] \in Seq(OperationRecords)
    BY <1>10, <1>20, ReplacingOne
  <2> QED BY <1>20, <2>1
<1>22. H = Replaced(F, e.pid, T, ops)
  <2>1. F.operations = G.operations
    BY <1>7 DEF Widens
  <2>2. EnterMain(G, i, e) = EnterCommDup(G, i, e)
    BY DEF EnterMain
  <2>3. EnterCommDup(G, i, e) = [F EXCEPT !.operations[i] = x, !.states[e.pid] = T]
    BY <1>1, <1>2, <1>4, <1>5, <1>9, <1>12, <1>13 DEF EnterCommDup
  <2> QED BY <1>20, <2>1, <2>2, <2>3 DEF Replaced
<1>23. PICK K, p : K = Replaced(F, p, T, ops) /\ p = e.pid
  OBVIOUS
<1>24. SameComms(F.states[p], T) /\ p \in Procs
  BY <1>0, <1>12, <1>19, <1>23
<1>25. /\ CommunicatorsOK(K, L) /\ K.operations = ops /\ K.comm_id_counter = F.comm_id_counter
       /\ K.states[p] = T /\ \A q \in Procs \ {p} : K.states[q] = F.states[q]
  BY <1>7, <1>18, <1>21, <1>23, <1>24, ReplacingWork
<1>26. H = K
  BY <1>22, <1>23
<1>27. \A q \in Procs : SameWork(G.states[q], F.states[q]) /\ SameAttributes(G.states[q], F.states[q])
                        /\ ToSet(G.states[q].comms) \subseteq ToSet(F.states[q].comms)
  BY <1>7 DEF Widens
<1>28. \A q \in Procs : /\ SameWork(G.states[q], H.states[q]) /\ H.states[q].comms = F.states[q].comms
                        /\ q # e.pid => SameAttributes(G.states[q], H.states[q])
  <2>1. SUFFICES ASSUME NEW q \in Procs
                 PROVE  /\ SameWork(G.states[q], H.states[q]) /\ H.states[q].comms = F.states[q].comms
                        /\ q # e.pid => SameAttributes(G.states[q], H.states[q])
    OBVIOUS
  <2>2. CASE q = p
    <3>1. H.states[q] = T /\ SameWork(G.states[q], S) /\ S = F.states[q]
      BY <1>12, <1>23, <1>25, <1>26, <1>27, <2>2
    <3> QED BY <1>19, <1>23, <2>2, <3>1 DEF SameWork, SameComms
  <2>3. CASE q # p
    <3>1. H.states[q] = F.states[q]
      BY <1>25, <1>26, <2>3
    <3> QED BY <1>27, <3>1
  <2> QED BY <2>2, <2>3
<1>29. Duplicated(G, H, op, x, e)
  <2>1. H.states[e.pid] = T /\ H.comm_id_counter = F.comm_id_counter
    BY <1>23, <1>25, <1>26
  <2>2. MadeFirst(G, H, op, x)
    BY <1>4, <1>5, <1>7, <1>10, <2>1 DEF MadeFirst
  <2>3. op.final = None => \A q \in Members(e.comm) : \E c \in ToSet(H.states[q].comms) : c.comm_id = x.final
    <3>1. Members(e.comm) \subseteq Procs
      BY <1>0, MembersAreCounted
    <3> QED BY <1>5, <1>7, <1>10, <1>28, <3>1
  <2> QED BY <1>8, <1>10, <1>14, <1>15, <1>19, <2>1, <2>2, <2>3 DEF Duplicated, SameAttributes
<1>30. H.operations = [G.operations EXCEPT ![i] = x] /\ H.comm_id_counter >= G.comm_id_counter
  BY <1>7, <1>20, <1>25, <1>26 DEF Widens
<1>31. EnteredAs(op, x, e)
  BY <1>11 DEF EnteredAs, Rooted
<1>32. Effect(G, H, i, x, e)
  BY <1>27, <1>28, <1>29, <1>30, <1>31 DEF Effect
<1> QED BY <1>25, <1>26, <1>32

LEMMA EnteringCreate ==
  ASSUME NEW G, NEW L, IsLog(L), CommunicatorsOK(G, L), NEW i \in DOMAIN G.operations,
         NEW op, op = G.operations[i], op.name = "comm_create", NEW e, MayEnter(op, e),
         NEW H, H = EnterMain(G, i, e), ~Refused(H)
  PROVE  CommunicatorsOK(H, L) /\ \E x : Effect(G, H, i, x, e)
<1>0. op \in OperationRecords /\ e.call.recvbuf \in Nat /\ e.group \in Groups
  BY CallFields DEF MayEnter, Enters
<1>1. PICK y : y = Receiving(op, e)
  OBVIOUS
<1>2. SameOperation(op, y) /\ y.final = op.final /\ y.buffers = op.buffers
  BY <1>0, <1>1, ReceivingIn
<1>3. y \in OperationRecords
  BY <1>2 DEF SameOperation
<1>4. PICK F : F = IF op.final = None THEN CreateCommunicator(G, e.group) ELSE G
  OBVIOUS
<1>6. G.comm_id_counter \in Nat
  BY GlobalFields DEF CommunicatorsOK
<1>7. /\ CommunicatorsOK(F, L) /\ Widens(G, F)
      /\ op.final = None => F.comm_id_counter = G.comm_id_counter + 1
      /\ op.final # None => F = G
  <2>1. CASE op.final = None
    <3>1. PICK g : g = e.group /\ g \in Groups
      BY <1>0
    <3>2. F = CreateCommunicator(G, g)
      BY <1>4, <2>1, <3>1
    <3>3. CommunicatorsOK(F, L) /\ Widens(G, F) /\ F.comm_id_counter = G.comm_id_counter + 1
      BY <3>1, <3>2, CreatingComm
    <3> QED BY <2>1, <3>3
  <2>2. CASE op.final # None
    BY <1>4, <2>2, NothingWidens
  <2> QED BY <2>1, <2>2
<1>8. PICK x : x = IF op.final = None THEN [y EXCEPT !.final = F.comm_id_counter, !.group = e.group] ELSE y
  OBVIOUS
<1>9. F.comm_id_counter \in Nat
  BY <1>7, GlobalFields DEF CommunicatorsOK
<1>10. x \in OperationRecords /\ x.final = IF op.final = None THEN F.comm_id_counter ELSE op.final
  <2>1. CASE op.final = None
    <3>1. PICK id \in Nat, g \in Groups : id = F.comm_id_counter /\ g = e.group
      BY <1>0, <1>9
    <3>2. x = [y EXCEPT !.final = id, !.group = g]
      BY <1>8, <2>1, <3>1
    <3>3. x \in OperationRecords
      BY <1>3, <3>2 DEF OperationRecords
    <3>4. x.final = id
      BY <1>3, <3>2 DEF OperationRecords
    <3> QED BY <2>1, <3>1, <3>3, <3>4
  <2>2. CASE op.final # None
    BY <1>2, <1>3, <1>8, <2>2
  <2> QED BY <2>1, <2>2
<1>11. SameOperation(op, x)
  <2>1. SameOperation(y, x)
    BY <1>3, <1>8, <1>10 DEF OperationRecords, SameOperation
  <2> QED BY <1>2, <2>1, SameTwice
<1>12. H = WithOperation(F, i, x)
  <2>1. F.operations = G.operations
    BY <1>7 DEF Widens
  <2>2. EnterMain(G, i, e) = EnterCommCreate(G, i, e)
    BY DEF EnterMain
  <2>3. ~Refused(EnterCommCreate(G, i, e))
    BY <2>2
  <2>4. EnterCommCreate(G, i, e) = [F EXCEPT !.operations[i] = x]
    BY <1>1, <1>2, <1>4, <1>8, <2>3, NotRefused DEF EnterCommCreate
  <2> QED BY <2>2, <2>4 DEF WithOperation, WithOperations
<1>13. PICK K : K = WithOperation(F, i, x)
  OBVIOUS
<1>14. CommunicatorsOK(K, L)
  BY <1>7, <1>10, <1>13, WidenedEffect
<1>15. K.operations = [G.operations EXCEPT ![i] = x]
  BY <1>7, <1>10, <1>13, WidenedEffect
<1>16. \A p \in Procs :
          /\ SameWork(G.states[p], K.states[p])
          /\ ToSet(G.states[p].comms) \subseteq ToSet(K.states[p].comms)
          /\ SameAttributes(G.states[p], K.states[p])
  BY <1>7, <1>10, <1>13, WidenedEffect
<1>17. K.comm_id_counter = F.comm_id_counter
  BY <1>7, <1>13 DEF CommunicatorsOK, GlobalStates, WithOperation, WithOperations
<1>18. K = H
  BY <1>12, <1>13
<1>19. H.comm_id_counter >= G.comm_id_counter
  BY <1>7, <1>17, <1>18 DEF Widens
<1>20. MadeFirst(G, H, op, x)
  BY <1>7, <1>10, <1>17, <1>18 DEF MadeFirst
<1>21. EnteredAs(op, x, e)
  BY <1>11 DEF EnteredAs, Rooted
<1>22. Effect(G, H, i, x, e)
  BY <1>15, <1>16, <1>18, <1>19, <1>20, <1>21 DEF Effect
<1> QED BY <1>14, <1>18, <1>22

\* Whatever the operation is.
LEMMA EnteringMain ==
  ASSUME NEW G, NEW L, IsLog(L), CommunicatorsOK(G, L), NEW i \in DOMAIN G.operations,
         NEW op, op = G.operations[i], NEW e, MayEnter(op, e),
         NEW H, H = EnterMain(G, i, e), ~Refused(H)
  PROVE  CommunicatorsOK(H, L) /\ \E x : Effect(G, H, i, x, e)
<1>1. CASE op.name = "comm_split"
  BY <1>1, EnteringSplit
<1>2. CASE op.name = "comm_dup"
  BY <1>2, EnteringDup
<1>3. CASE op.name = "comm_create"
  BY <1>3, EnteringCreate
<1>4. CASE op.name \notin OnComms
  <2>0. Enters(op, e)
    BY DEF MayEnter
  <2>1. PICK x : x = EnterWithBuffers(op, e)
    OBVIOUS
  <2>2. EnterMain(G, i, e) = IF Refused(x) THEN x ELSE [G EXCEPT !.operations[i] = x]
    BY <1>4, <2>1 DEF EnterMain, OnComms
  <2>3. ~Refused(x) /\ H = WithOperation(G, i, x)
    BY <2>2 DEF WithOperation, WithOperations
  <2>4. EnteredAs(op, x, e)
    BY <1>4, <2>0, <2>1, <2>3, EnteringBuffers
  <2>5. x \in OperationRecords
    BY <2>4 DEF EnteredAs, SameOperation
  <2>6. Widens(G, G)
    BY NothingWidens
  <2>7. PICK K : K = WithOperation(G, i, x)
    OBVIOUS
  <2>8. /\ CommunicatorsOK(K, L)
        /\ K.operations = [G.operations EXCEPT ![i] = x]
        /\ K.comm_id_counter >= G.comm_id_counter
        /\ \A p \in Procs :
             /\ SameWork(G.states[p], K.states[p])
             /\ ToSet(G.states[p].comms) \subseteq ToSet(K.states[p].comms)
             /\ SameAttributes(G.states[p], K.states[p])
    BY <2>5, <2>6, <2>7, WidenedEffect
  <2>9. H = K
    BY <2>3, <2>7
  <2>10. Effect(G, H, i, x, e)
    BY <1>4, <2>4, <2>8, <2>9 DEF Effect, OnComms
  <2> QED BY <2>8, <2>9, <2>10
<1> QED BY <1>1, <1>2, <1>3, <1>4 DEF OnComms

-----------------------------------------------------------------------------
(* Operations *)

LEMMA FindingOperation ==
  ASSUME NEW G, G.operations \in Seq(OperationRecords), NEW id, NEW k, NEW i, i = OperationIndex(G, id, k)
  PROVE  /\ i \in 0 .. Len(G.operations)
         /\ i = 0 <=> OperationsAt(G.operations, id, k) = {}
         /\ i # 0 => i \in OperationsAt(G.operations, id, k)
         /\ \A j \in OperationsAt(G.operations, id, k) : i <= j
<1>1. PICK n, ops : n \in Nat /\ ops = G.operations /\ n = Len(ops) /\ DOMAIN ops = 1 .. n
  BY LenProperties
<1>2. PICK I : I = {j \in 1 .. n : ops[j].comm_id = id /\ ops[j].cc_id = k}
  OBVIOUS
<1>3. i = IF I # {} THEN Min(I) ELSE 0
  BY <1>1, <1>2 DEF OperationIndex, SelectInSeq
<1>4. OperationsAt(G.operations, id, k) = I
  BY <1>1, <1>2 DEF OperationsAt
<1>5. i \in 0 .. n /\ (i = 0 <=> I = {}) /\ (I # {} => i \in I /\ \A j \in I : i <= j)
  <2>1. I \in SUBSET (1 .. n)
    BY <1>2
  <2>2. /\ (IF I # {} THEN Min(I) ELSE 0) \in 0 .. n
        /\ (IF I # {} THEN Min(I) ELSE 0) = 0 <=> I = {}
        /\ I # {} => /\ (IF I # {} THEN Min(I) ELSE 0) \in I
                     /\ \A l \in I : (IF I # {} THEN Min(I) ELSE 0) <= l
    BY <1>1, <2>1, FirstPlace
  <2> QED BY <1>3, <2>2
<1> QED BY <1>1, <1>4, <1>5

\* A call enters operation number k on its communicator, if it is the k-th from 0 there.
LEMMA CallEnters ==
  ASSUME NEW L, IsLog(L), NEW p \in Procs, NEW entry \in Entries(p), NEW K, Appended(L, K, p, entry),
         NEW id, id = entry.comm.comm_id, NEW k \in Nat, k = Cardinality(CallsOn(L, p, id)),
         NEW D, D[p] \subseteq DOMAIN L[p]
  PROVE  /\ p \notin Entered(L, id, k) /\ Entered(K, id, k) = Entered(L, id, k) \cup {p}
         /\ p \notin Inside(L, D, id, k) /\ Inside(K, D, id, k) = Inside(L, D, id, k) \cup {p}
         /\ \A d : \A j \in Int : d # id \/ j # k =>
              Entered(K, d, j) = Entered(L, d, j) /\ Inside(K, D, d, j) = Inside(L, D, d, j)
         /\ \A d : \A j \in Int : Left(K, D, d, j) = Left(L, D, d, j)
<1>1. /\ CallsAt(L, p, id, k) = {} /\ CallsAt(K, p, id, k) = {Len(L[p]) + 1}
      /\ \A q \in Procs : \A d : \A j \in Int :
           q # p \/ d # id \/ j # k => CallsAt(K, q, d, j) = CallsAt(L, q, d, j)
  <2>1. CalledHere(L, K, p, id, k) /\ OthersAsBefore(L, K, p, id, k)
    BY AppendedCallsAt
  <2> QED BY <2>1 DEF CalledHere, OthersAsBefore
<1>2. Len(L[p]) + 1 \notin D[p]
  BY AppendingToLog
<1>3. p \notin Entered(L, id, k) /\ p \notin Inside(L, D, id, k)
  BY <1>1 DEF Entered, Inside
<1>4. Entered(K, id, k) = Entered(L, id, k) \cup {p}
  <2>1. ASSUME NEW q \in Procs PROVE CallsAt(K, q, id, k) # {} <=> CallsAt(L, q, id, k) # {} \/ q = p
    <3>1. CASE q = p
      BY <1>1, <3>1
    <3>2. CASE q # p
      BY <1>1, <3>2
    <3> QED BY <3>1, <3>2
  <2> QED BY <2>1 DEF Entered
<1>5. Inside(K, D, id, k) = Inside(L, D, id, k) \cup {p}
  BY <1>1, <1>2 DEF Inside
<1>6. ASSUME NEW d, NEW j \in Int, d # id \/ j # k
      PROVE  Entered(K, d, j) = Entered(L, d, j) /\ Inside(K, D, d, j) = Inside(L, D, d, j)
  <2>1. \A q \in Procs : CallsAt(K, q, d, j) = CallsAt(L, q, d, j)
    BY <1>1, <1>6
  <2> QED BY <2>1 DEF Entered, Inside
<1>7. ASSUME NEW d, NEW j \in Int PROVE Left(K, D, d, j) = Left(L, D, d, j)
  <2>1. \A q \in Procs : CallsAt(K, q, d, j) \cap D[q] = CallsAt(L, q, d, j) \cap D[q]
    <3>1. SUFFICES ASSUME NEW q \in Procs PROVE CallsAt(K, q, d, j) \cap D[q] = CallsAt(L, q, d, j) \cap D[q]
      OBVIOUS
    <3>2. CASE q # p \/ d # id \/ j # k
      BY <1>1, <3>2
    <3>3. CASE q = p /\ d = id /\ j = k
      BY <1>1, <1>2, <3>3
    <3> QED BY <3>2, <3>3
  <2> QED BY <2>1 DEF Left
<1> QED BY <1>3, <1>4, <1>5, <1>6, <1>7

\* What a call of p finds: it is the k-th from 0 on its communicator, whose id is id; D[q] are the
\* closed calls of q, and K is the log with the call.
Calling(G, L, D, p, entry, K, id, k) ==
  /\ IsLog(L) /\ CommunicatorsOK(G, L) /\ RootsOK(L) /\ OperationsOK(G.operations, L, D)
  /\ \A q \in Procs : D[q] \subseteq DOMAIN L[q]
  /\ p \in Procs /\ entry \in Entries(p) /\ Appended(L, K, p, entry) /\ Finds(G, p, id, entry.comm)
  /\ k = Cardinality(CallsOn(L, p, id))

\* A call is one more process that entered its operation, and that has not left it.
NewPlace(L, D, p, K, id, k) ==
  /\ p \notin Entered(L, id, k) /\ Entered(K, id, k) = Entered(L, id, k) \cup {p}
  /\ p \notin Inside(L, D, id, k) /\ Inside(K, D, id, k) = Inside(L, D, id, k) \cup {p}
  /\ \A d : \A j \in Int : d # id \/ j # k =>
       Entered(K, d, j) = Entered(L, d, j) /\ Inside(K, D, d, j) = Inside(L, D, d, j)
  /\ \A d : \A j \in Int : Left(K, D, d, j) = Left(L, D, d, j)

LEMMA CallingFacts ==
  ASSUME NEW G, NEW L, NEW D, NEW p, NEW entry, NEW K, NEW id, NEW k, Calling(G, L, D, p, entry, K, id, k)
  PROVE  /\ p \in Procs /\ entry \in Entries(p) /\ k \in Nat /\ entry.comm.comm_id = id /\ id \in Nat
         /\ IsLog(L) /\ IsLog(K) /\ G \in GlobalStates /\ CommsOK(G, L) /\ G.operations \in Seq(OperationRecords)
         /\ entry.comm \in Comms /\ p \in Members(entry.comm) /\ IsCollectiveCall(entry.call)
         /\ entry.call \in CollectiveCalls(p)
         /\ id = CommSelf => Size(entry.comm) = 1 /\ Members(entry.comm) = {p}
         /\ NewPlace(L, D, p, K, id, k)
<1>1. /\ p \in Procs /\ entry \in Entries(p) /\ IsLog(L) /\ G \in GlobalStates /\ CommsOK(G, L)
      /\ Appended(L, K, p, entry) /\ Finds(G, p, id, entry.comm) /\ k = Cardinality(CallsOn(L, p, id))
      /\ D[p] \subseteq DOMAIN L[p]
  BY DEF Calling, CommunicatorsOK
<1>2. G.operations \in Seq(OperationRecords)
  BY <1>1, GlobalFields
<1>3. PICK c : c = entry.comm
  OBVIOUS
<1>4. Finds(G, p, id, c)
  BY <1>1, <1>3
<1>5. /\ c \in Comms /\ c.comm_id = id /\ IsMember(p, c, G.comm_id_counter)
      /\ \/ id = CommWorld /\ c = MakeCommWorld
         \/ id = CommSelf /\ c = MakeCommSelf(p)
         \/ /\ id \notin {CommWorld, CommSelf}
            /\ \E i \in DOMAIN G.states[p].comms : c = G.states[p].comms[i]
  BY <1>1, <1>4, GettingComm
<1>6. p \in Members(c) /\ id \in Nat
  BY <1>5, CommFields DEF IsMember, Members
<1>7. id = CommSelf => Size(c) = 1 /\ Members(c) = {p}
  BY <1>1, <1>5, PermanentComms, CommNumbers
<1>8. k \in Nat
  BY <1>1, CallsAreFinite
<1>9. IsLog(K)
  BY <1>1, AppendingToLog
<1>10. entry.call \in CollectiveCalls(p) /\ IsCollectiveCall(entry.call)
  <2>1. entry.call \in CollectiveCalls(p)
    BY <1>1 DEF Entries
  <2> QED BY <1>1, <2>1, ProgramsAssumption DEF CollectiveCalls
<1>11. NewPlace(L, D, p, K, id, k)
  <2>1. id = entry.comm.comm_id
    BY <1>3, <1>5
  <2> QED BY <1>1, <1>8, <2>1, CallEnters DEF NewPlace
<1> QED BY <1>1, <1>2, <1>3, <1>5, <1>6, <1>7, <1>8, <1>9, <1>10, <1>11

\* Who entered what a communicator of p is for, called on it and is a member.
LEMMA EnteredAreMembers ==
  ASSUME NEW G \in GlobalStates, NEW L, IsLog(L), CommsOK(G, L), NEW p \in Procs, NEW id, id # CommSelf,
         NEW c, Finds(G, p, id, c), NEW k \in Int, NEW q \in Procs, NEW t \in CallsAt(L, q, id, k)
  PROVE  L[q][t].comm = c /\ q \in Members(c)
<1>1. t \in DOMAIN L[q] /\ L[q][t].comm.comm_id = id
  BY OneCallAt
<1>2. c.comm_id = id
  BY GettingComm
<1>3. PICK d : d = L[q][t].comm
  OBVIOUS
<1>4. d \in Known(G, L, q)
  BY <1>1, <1>3 DEF Known
<1>5. d = c
  BY <1>1, <1>2, <1>3, <1>4, OneCommPerId
<1>6. IsMember(q, d, G.comm_id_counter)
  BY <1>4 DEF CommsOK
<1> QED BY <1>3, <1>5, <1>6 DEF IsMember, Members

LEMMA ProperPart ==
  ASSUME NEW S, IsFiniteSet(S), NEW T, T \subseteq S, NEW x \in S, x \notin T
  PROVE  IsFiniteSet(T) /\ Cardinality(T) \in Nat /\ Cardinality(S) \in Nat /\ Cardinality(T) < Cardinality(S)
<1>1. IsFiniteSet(T) /\ Cardinality(T) <= Cardinality(S) /\ Cardinality(T) # Cardinality(S)
  BY FS_Subset
<1>2. Cardinality(T) \in Nat /\ Cardinality(S) \in Nat
  BY <1>1, FS_CardinalityType
<1> QED BY <1>1, <1>2

Decremented(op) == [op EXCEPT !.remaining_enter = @ - 1]

\* The operation that a call enters: number i of ops.
Opens(G, entry, id, k, ops, i) ==
  \/ id # CommSelf /\ i \in OperationsAt(G.operations, id, k) /\ ops = G.operations
  \/ /\ id = CommSelf \/ OperationsAt(G.operations, id, k) = {}
     /\ ops = Append(G.operations, NewOperation(entry.comm, k, entry.call)) /\ i = Len(G.operations) + 1

Spread == {"scatter", "scatterv", "bcast"}

\* What is so of it before the call.
Opened(op, L, D, entry, id, k) ==
  /\ op \in OperationRecords /\ op.comm_id = id /\ op.cc_id = k /\ op.process_count = Size(entry.comm)
  /\ op.remaining_enter > 0
  /\ op.name = "comm_dup" => op.final \in {None} \cup Nat
  /\ op.name \in Rooted /\ op.root # None => op.root_pid = RankToPid(entry.comm, op.root)
  /\ op.name = entry.call.name /\ op.blocking = entry.call.blocking =>
       /\ op.name \in Spread \cup {"comm_split"} => Len(op.buffers) = Size(entry.comm)
       /\ op.name \in Spread =>
            IF op.root = None THEN \A j \in DOMAIN op.buffers : op.buffers[j] = None
            ELSE op.buffers[op.root + 1] # None => RankToPid(entry.comm, op.root) \in Entered(L, id, k)
  /\ IF id = CommSelf THEN op.remaining_enter = 1 /\ op.remaining_complete = 1
     ELSE /\ op.remaining_enter + Cardinality(Entered(L, id, k)) = op.process_count
          /\ op.remaining_complete + Cardinality(Left(L, D, id, k)) = op.process_count
          /\ op.remaining_complete > 0
          /\ \A q \in Procs : \A t \in CallsAt(L, q, id, k) : Agrees(op, L, q, L[q][t])

LEMMA NewOperationOpened ==
  ASSUME NEW G, NEW L, NEW D, NEW p, NEW entry, NEW K, NEW id, NEW k, Calling(G, L, D, p, entry, K, id, k),
         id = CommSelf \/ OperationsAt(G.operations, id, k) = {},
         NEW op, op = NewOperation(entry.comm, k, entry.call)
  PROVE  Opened(op, L, D, entry, id, k) /\ op.name = entry.call.name /\ op.blocking = entry.call.blocking
<1>1. /\ p \in Procs /\ k \in Nat /\ entry.comm.comm_id = id /\ id \in Nat /\ IsLog(L)
      /\ G \in GlobalStates /\ CommsOK(G, L)
      /\ entry.comm \in Comms /\ p \in Members(entry.comm) /\ IsCollectiveCall(entry.call)
      /\ id = CommSelf => Size(entry.comm) = 1
  BY CallingFacts
<1>2. PICK n \in Nat : n = Size(entry.comm) /\ n > 0
  <2>1. /\ Size(entry.comm) \in Nat /\ IsFiniteSet(Members(entry.comm))
        /\ Cardinality(Members(entry.comm)) = Size(entry.comm)
    BY <1>1, MembersAreCounted
  <2>2. Cardinality({}) < Cardinality(Members(entry.comm)) /\ Cardinality({}) = 0
    BY <1>1, <2>1, ProperPart, FS_EmptySet
  <2> QED BY <2>1, <2>2
<1>3. PICK b : b = [r \in 1 .. n |-> None]
  OBVIOUS
<1>4. b \in Seq(Data \cup {None}) /\ b \in Seq(Nat \cup {None}) /\ Len(b) = n /\ \A j \in DOMAIN b : b[j] = None
  <2>1. b \in [1 .. n -> Data \cup {None}] /\ b \in [1 .. n -> Nat \cup {None}]
    BY <1>3
  <2>2. b \in Seq(Data \cup {None})
    BY <2>1, FunctionIsSequence
  <2>3. b \in Seq(Nat \cup {None}) /\ Len(b) = n
    BY <2>1, FunctionIsSequence
  <2> QED BY <1>3, <2>2, <2>3
<1>5. PICK name, blocking : name = entry.call.name /\ blocking = entry.call.blocking
  OBVIOUS
<1>6. name \in BlockingClasses /\ blocking \in BOOLEAN
  BY <1>1, <1>5, CallFields
<1>7. op = [name |-> name, blocking |-> blocking, comm_id |-> id, cc_id |-> k,
            root |-> None, root_pid |-> None, process_count |-> n,
            remaining_enter |-> n, remaining_complete |-> n,
            buffers |-> b, recvbufs |-> b, recvbuf |-> None, op |-> None, count |-> None,
            group |-> None, final |-> None]
  BY <1>1, <1>2, <1>3, <1>5 DEF NewOperation
<1>8. op \in OperationRecords
  BY <1>1, <1>2, <1>4, <1>6, <1>7 DEF OperationRecords
<1>9. /\ op.name = name /\ op.blocking = blocking /\ op.comm_id = id /\ op.cc_id = k /\ op.root = None
      /\ op.process_count = n /\ op.remaining_enter = n /\ op.remaining_complete = n
      /\ op.buffers = b /\ op.final = None
  BY <1>7
<1>10. id # CommSelf => Entered(L, id, k) = {} /\ Left(L, D, id, k) = {} /\ \A q \in Procs : CallsAt(L, q, id, k) = {}
  <2>1. SUFFICES ASSUME id # CommSelf, NEW q \in Procs, NEW t \in CallsAt(L, q, id, k) PROVE FALSE
    BY DEF Entered, Left
  <2>2. PICK c : c = entry.comm
    OBVIOUS
  <2>3. Finds(G, p, id, c)
    BY <2>2 DEF Calling
  <2>4. L[q][t].comm = c
    <3>1. \A r \in Procs : \A u \in CallsAt(L, r, id, k) : L[r][u].comm = c /\ r \in Members(c)
      BY <1>1, <2>1, <2>3, EnteredAreMembers
    <3> QED BY <2>1, <3>1
  <2>5. t \in DOMAIN L[q] /\ L[q][t].comm.comm_id = id /\ PositionOf(L, q, t) = k + 1
    BY <1>1, OneCallAt
  <2>6. OperationsAt(G.operations, id, k) = {}
    BY <2>1
  <2>7. PositionOf(L, q, t) - 1 = k
    BY <1>1, <2>5
  <2>8. ToSet(L[q][t].comm.group.table) \subseteq Left(L, D, id, k)
    <3>1. OperationsOK(G.operations, L, D)
      BY DEF Calling
    <3> QED BY <2>1, <2>5, <2>6, <2>7, <3>1 DEF OperationsOK
  <2>9. p \in Left(L, D, id, k)
    BY <1>1, <2>2, <2>4, <2>8 DEF Members
  <2>10. p \in Entered(L, id, k)
    BY <2>9 DEF Left, Entered
  <2> QED BY <2>10, CallingFacts DEF NewPlace
<1>11. id # CommSelf => Cardinality(Entered(L, id, k)) = 0 /\ Cardinality(Left(L, D, id, k)) = 0
  BY <1>10, FS_EmptySet
<1>12. /\ op.name \in Spread \cup {"comm_split"} => Len(op.buffers) = Size(entry.comm)
       /\ op.name \in Spread => \A j \in DOMAIN op.buffers : op.buffers[j] = None
  BY <1>2, <1>4, <1>9
<1>13. IF id = CommSelf THEN op.remaining_enter = 1 /\ op.remaining_complete = 1
       ELSE /\ op.remaining_enter + Cardinality(Entered(L, id, k)) = op.process_count
            /\ op.remaining_complete + Cardinality(Left(L, D, id, k)) = op.process_count
            /\ op.remaining_complete > 0
            /\ \A q \in Procs : \A t \in CallsAt(L, q, id, k) : Agrees(op, L, q, L[q][t])
  <2>1. CASE id = CommSelf
    BY <1>1, <1>2, <1>9, <2>1
  <2>2. CASE id # CommSelf
    <3>1. \A q \in Procs : \A t \in CallsAt(L, q, id, k) : Agrees(op, L, q, L[q][t])
      BY <1>10, <2>2
    <3> QED BY <1>2, <1>9, <1>11, <2>2, <3>1
  <2> QED BY <2>1, <2>2
<1> QED BY <1>2, <1>5, <1>8, <1>9, <1>12, <1>13 DEF Opened

LEMMA FoundOperationOpened ==
  ASSUME NEW G, NEW L, NEW D, NEW p, NEW entry, NEW K, NEW id, NEW k, Calling(G, L, D, p, entry, K, id, k),
         id # CommSelf, NEW i \in OperationsAt(G.operations, id, k),
         NEW op, op = G.operations[i]
  PROVE  Opened(op, L, D, entry, id, k)
<1>1. /\ p \in Procs /\ k \in Nat /\ entry.comm.comm_id = id /\ IsLog(L)
      /\ G \in GlobalStates /\ CommsOK(G, L) /\ G.operations \in Seq(OperationRecords)
      /\ entry.comm \in Comms /\ p \in Members(entry.comm) /\ p \notin Entered(L, id, k)
  BY CallingFacts DEF NewPlace
<1>2. i \in DOMAIN G.operations /\ op.comm_id = id /\ op.cc_id = k
  BY DEF OperationsAt
<1>3. op \in OperationRecords
  BY <1>1, <1>2, LenProperties
<1>4. PICK c : c = entry.comm /\ Finds(G, p, id, c)
  BY DEF Calling
<1>5. \A q \in Procs : \A t \in CallsAt(L, q, id, k) : L[q][t].comm = c /\ q \in Members(c)
  BY <1>1, <1>4, EnteredAreMembers
<1>6. OperationOK(op, L, D)
  BY <1>2 DEF Calling, OperationsOK
<1>7. OpenOK(op, L, D)
  BY <1>2, <1>6 DEF OperationOK
<1>8. /\ op.remaining_enter + Cardinality(Entered(L, id, k)) = op.process_count
      /\ op.remaining_complete + Cardinality(Left(L, D, id, k)) = op.process_count
      /\ op.remaining_complete > 0
      /\ \A q \in Procs : \A t \in CallsAt(L, q, id, k) : Agrees(op, L, q, L[q][t])
      /\ Entered(L, id, k) # {}
  BY <1>2, <1>7 DEF OpenOK
<1>9. PICK q, t : q \in Procs /\ t \in CallsAt(L, q, id, k)
  BY <1>8 DEF Entered
<1>10. t \in DOMAIN L[q] /\ L[q][t].comm = c
  BY <1>1, <1>5, <1>9, OneCallAt
<1>11. PICK other : other = L[q][t] /\ other.comm = c /\ Agrees(op, L, q, other)
  BY <1>8, <1>9, <1>10
<1>12. op.process_count = Size(c)
  BY <1>11 DEF Agrees
<1>13. op.remaining_enter > 0
  <2>1. Entered(L, id, k) \subseteq Members(c)
    BY <1>5 DEF Entered
  <2>2. IsFiniteSet(Members(c)) /\ Cardinality(Members(c)) = Size(c) /\ p \in Members(c)
    BY <1>1, <1>4, MembersAreCounted
  <2>3. Cardinality(Entered(L, id, k)) \in Nat /\ Size(c) \in Nat /\ Cardinality(Entered(L, id, k)) < Size(c)
    BY <1>1, <2>1, <2>2, ProperPart
  <2>4. op.remaining_enter \in Int
    BY <1>3, OperationFields
  <2> QED BY <1>8, <1>12, <2>3, <2>4
<1>14. op.name \in Rooted => op.root = other.call.root /\ op.root \in 0 .. Size(c) - 1 /\ op.root_pid = RankToPid(c, op.root)
  <2>1. RootsOK(L)
    BY DEF Calling
  <2>2. op.name = other.call.name
    BY <1>11 DEF Agrees
  <2>3. op.name \in Rooted => other.call.root \in 0 .. Size(c) - 1
    BY <1>9, <1>10, <1>11, <2>1, <2>2 DEF RootsOK
  <2> QED BY <1>11, <2>3 DEF Agrees
<1>15. op.name \in Rooted => op.root # None
  <2>1. Size(c) \in Nat
    BY <1>1, <1>4, MembersAreCounted
  <2> QED BY <1>14, <2>1, NoneAssumption
<1>16. op.name \in Spread \cup {"comm_split"} => Len(op.buffers) = Size(c)
  BY <1>11, <1>12, <1>13 DEF Agrees, Spread
<1>17. op.name \in Spread =>
         (op.buffers[op.root + 1] # None => RankToPid(c, op.root) \in Entered(L, id, k))
  BY <1>2, <1>11 DEF Agrees, Spread
<1>18. op.name = "comm_dup" => op.final \in {None} \cup Nat
  BY <1>6 DEF OperationOK
<1>19. op.name \in Spread => op.name \in Rooted
  BY DEF Spread, Rooted
<1> QED BY <1>2, <1>3, <1>4, <1>8, <1>12, <1>13, <1>14, <1>15, <1>16, <1>17, <1>18, <1>19 DEF Opened

LEMMA AloneOnSelf ==
  ASSUME NEW G, NEW L, NEW D, NEW p, NEW entry, NEW K, NEW k, NEW id, id = CommSelf,
         Calling(G, L, D, p, entry, K, id, k)
  PROVE  Members(entry.comm) = {p}
<1>1. /\ p \in Procs /\ IsLog(L) /\ G \in GlobalStates /\ CommsOK(G, L)
  BY DEF Calling, CommunicatorsOK
<1>2. PICK c : c = entry.comm /\ Finds(G, p, id, c)
  BY DEF Calling
<1>3. c = MakeCommSelf(p)
  BY <1>1, <1>2, GettingComm, CommNumbers
<1> QED BY <1>1, <1>2, <1>3, PermanentComms

\* The ranks of different members are different.
LEMMA RanksDiffer ==
  ASSUME NEW c \in Comms, NEW j \in 1 .. Size(c)
  PROVE  c.group.table[j] \in Members(c) /\ PidToRank(c, c.group.table[j]) + 1 = j
<1>1. PICK n, f : n \in Nat /\ f = c.group.table /\ n = Len(f) /\ f \in [1 .. n -> Procs] /\ IsInjective(f) /\ n = Size(c)
  BY CommFields, LenProperties DEF Size
<1>2. PICK q : q = f[j] /\ q \in Members(c)
  BY <1>1 DEF Members, ToSet
<1>3. PICK r : r = PidToRank(c, q) /\ r \in 0 .. n - 1 /\ RankToPid(c, r) = q
  BY <1>1, <1>2, MembersAreCounted
<1>4. f[r + 1] = f[j] /\ r + 1 \in 1 .. n /\ j \in 1 .. n
  BY <1>1, <1>2, <1>3 DEF RankToPid
<1>5. r + 1 = j
  BY <1>1, <1>4 DEF IsInjective
<1> QED BY <1>1, <1>2, <1>3, <1>5

\* What enters with a call.
Entering(p, entry, e) ==
  /\ e.pid = p /\ e.rank = PidToRank(entry.comm, p) /\ e.comm = entry.comm /\ e.call = entry.call
  /\ e.data \in Data /\ (entry.call.name = "comm_create" => e.group \in Groups)

LEMMA DecrementedOperation ==
  ASSUME NEW op \in OperationRecords, NEW x, x = Decremented(op)
  PROVE  /\ x \in OperationRecords /\ x.remaining_enter = op.remaining_enter - 1
         /\ x.name = op.name /\ x.blocking = op.blocking /\ x.comm_id = op.comm_id /\ x.cc_id = op.cc_id
         /\ x.process_count = op.process_count /\ x.remaining_complete = op.remaining_complete
         /\ x.root = op.root /\ x.root_pid = op.root_pid /\ x.buffers = op.buffers /\ x.final = op.final
<1>1. PICK n \in Int : n = op.remaining_enter - 1
  BY OperationFields
<1>2. x = [op EXCEPT !.remaining_enter = n]
  BY <1>1 DEF Decremented
<1>3. x \in OperationRecords
  BY <1>1, <1>2 DEF OperationRecords
<1>4. /\ x.remaining_enter = n
      /\ x.name = op.name /\ x.blocking = op.blocking /\ x.comm_id = op.comm_id /\ x.cc_id = op.cc_id
      /\ x.process_count = op.process_count /\ x.remaining_complete = op.remaining_complete
  BY <1>2 DEF OperationRecords
<1>5. x.root = op.root /\ x.root_pid = op.root_pid /\ x.buffers = op.buffers /\ x.final = op.final
  BY <1>2 DEF OperationRecords
<1> QED BY <1>1, <1>3, <1>4, <1>5

LEMMA OpenedMayEnter ==
  ASSUME NEW G, NEW L, NEW D, NEW p, NEW entry, NEW K, NEW id, NEW k, Calling(G, L, D, p, entry, K, id, k),
         NEW op, Opened(op, L, D, entry, id, k), op.name = entry.call.name, op.blocking = entry.call.blocking,
         NEW e, Entering(p, entry, e), NEW x, x = Decremented(op)
  PROVE  MayEnter(x, e)
<1>1. /\ p \in Procs /\ k \in Nat /\ entry.comm.comm_id = id /\ IsLog(L)
      /\ G \in GlobalStates /\ CommsOK(G, L)
      /\ entry.comm \in Comms /\ p \in Members(entry.comm) /\ IsCollectiveCall(entry.call)
      /\ p \notin Entered(L, id, k)
  BY CallingFacts DEF NewPlace
<1>9. ASSUME id = CommSelf PROVE Members(entry.comm) = {p}
  BY <1>9, AloneOnSelf
<1>2. PICK c : c = entry.comm /\ Finds(G, p, id, c)
  BY DEF Calling
<1>3. op \in OperationRecords
  BY DEF Opened
<1>4. /\ x \in OperationRecords /\ x.remaining_enter = op.remaining_enter - 1
      /\ x.name = op.name /\ x.process_count = op.process_count
      /\ x.root = op.root /\ x.root_pid = op.root_pid /\ x.buffers = op.buffers /\ x.final = op.final
  BY <1>3, DecrementedOperation
<1>5. Enters(x, e)
  BY <1>1, <1>2, <1>4 DEF Enters, Entering, Opened
<1>6. ASSUME op.name = "comm_split", x.remaining_enter = 0
      PROVE  IsColors(e.comm, [x.buffers EXCEPT ![e.rank + 1] = e.data])
  <2>1. op.remaining_enter = 1
    <3>1. op.remaining_enter \in Int
      BY <1>3, OperationFields
    <3> QED BY <1>4, <1>6, <3>1
  <2>2. \A q \in Members(c) \ {p} : op.buffers[PidToRank(c, q) + 1] \in Data
    <3>1. CASE id = CommSelf
      BY <1>2, <1>9, <3>1
    <3>2. CASE id # CommSelf
      <4>1. /\ 1 + Cardinality(Entered(L, id, k)) = Size(c)
            /\ \A q \in Procs : \A t \in CallsAt(L, q, id, k) : Agrees(op, L, q, L[q][t])
        BY <1>2, <2>1, <3>2 DEF Opened
      <4>2. \A q \in Procs : \A t \in CallsAt(L, q, id, k) : L[q][t].comm = c /\ q \in Members(c)
        <5>1. G \in GlobalStates /\ IsLog(L) /\ CommsOK(G, L) /\ p \in Procs /\ k \in Nat /\ Finds(G, p, id, c)
          BY <1>1, <1>2
        <5> QED BY <3>2, <5>1, EnteredAreMembers
      <4>3. PICK T : T = Members(c) \ {p}
        OBVIOUS
      <4>4. IsFiniteSet(T) /\ Cardinality(T) = Size(c) - 1 /\ Size(c) \in Nat /\ Members(c) \subseteq Procs
        <5>1. /\ IsFiniteSet(Members(c)) /\ Cardinality(Members(c)) = Size(c) /\ p \in Members(c)
              /\ Size(c) \in Nat /\ Members(c) \subseteq Procs
          BY <1>1, <1>2, MembersAreCounted
        <5>2. IsFiniteSet(T) /\ Cardinality(T) = Cardinality(Members(c)) - 1
          BY <4>3, <5>1, OneLess
        <5> QED BY <5>1, <5>2
      <4>5. Entered(L, id, k) \subseteq T
        BY <1>1, <4>2, <4>3 DEF Entered
      <4>6. Entered(L, id, k) = T
        <5>1. PICK E : E = Entered(L, id, k)
          OBVIOUS
        <5>2. Cardinality(E) \in Nat
          BY <4>4, <4>5, <5>1, FS_Subset, FS_CardinalityType
        <5>3. Cardinality(E) = Cardinality(T)
          BY <4>1, <4>4, <5>1, <5>2
        <5> QED BY <4>4, <4>5, <5>1, <5>3, FS_Subset
      <4>7. ASSUME NEW q \in Members(c) \ {p} PROVE op.buffers[PidToRank(c, q) + 1] \in Data
        <5>1. q \in Procs /\ q \in Entered(L, id, k)
          BY <4>3, <4>4, <4>6, <4>7
        <5>2. PICK t : t \in CallsAt(L, q, id, k)
          BY <5>1 DEF Entered
        <5>3. PICK other : other = L[q][t] /\ other.comm = c /\ Agrees(op, L, q, other)
          BY <4>1, <4>2, <5>1, <5>2
        <5> QED BY <1>6, <2>1, <5>3 DEF Agrees
      <4> QED BY <4>7
    <3> QED BY <3>1, <3>2
  <2>3. PICK n, b : n \in Nat /\ n = Size(c) /\ b = op.buffers /\ Len(b) = n /\ DOMAIN b = 1 .. n
    <3>1. Size(c) \in Nat
      BY <1>1, <1>2, MembersAreCounted
    <3>2. Len(op.buffers) = Size(c)
      BY <1>2, <1>6 DEF Opened
    <3>3. op.buffers \in Seq(Data \cup {None})
      BY <1>3, OperationFields
    <3> QED BY <3>1, <3>2, <3>3, LenProperties
  <2>4. PICK r, d : r = e.rank + 1 /\ d = e.data /\ d \in Data /\ r = PidToRank(c, p) + 1
    BY <1>2 DEF Entering
  <2>5. PICK f : f = [b EXCEPT ![r] = d]
    OBVIOUS
  <2>6. ASSUME NEW j \in 1 .. n PROVE f[j] \in Data
    <3>1. PICK q : q = c.group.table[j] /\ q \in Members(c) /\ PidToRank(c, q) + 1 = j
      BY <1>1, <1>2, <2>3, RanksDiffer
    <3>2. CASE q = p
      BY <2>3, <2>4, <2>5, <3>1, <3>2
    <3>3. CASE q # p
      <4>1. b[j] \in Data
        BY <2>2, <2>3, <3>1, <3>3
      <4> QED BY <2>3, <2>4, <2>5, <4>1
    <3> QED BY <3>2, <3>3
  <2>7. f \in [1 .. n -> Data]
    <3>1. f = [j \in 1 .. n |-> f[j]]
      BY <2>3, <2>5
    <3> QED BY <2>6, <3>1
  <2>8. f \in Seq(Data) /\ Len(f) = n
    BY <2>3, <2>7, FunctionIsSequence
  <2>9. [x.buffers EXCEPT ![e.rank + 1] = e.data] = f /\ e.comm = c
    BY <1>2, <1>4, <2>3, <2>4, <2>5 DEF Entering
  <2> QED BY <2>3, <2>8, <2>9 DEF IsColors
<1>7. x.name = "comm_dup" => x.final \in {None} \cup Nat
  BY <1>4 DEF Opened
<1>8. x.name = "comm_create" => e.group \in Groups
  BY <1>4 DEF Entering
<1> QED BY <1>4, <1>5, <1>6, <1>7, <1>8 DEF MayEnter

\* A call enters an operation, which becomes x.
EnteredCall(op, x, e) ==
  /\ EnteredAs(Decremented(op), x, e)
  /\ op.name = "comm_dup" => x.final \in Nat
  /\ op.name = "comm_split" /\ x.remaining_enter # 0 => x.buffers = [op.buffers EXCEPT ![e.rank + 1] = e.data]

\* What is then so of x.
LEMMA EnteredFacts ==
  ASSUME NEW G, NEW L, NEW D, NEW p, NEW entry, NEW K, NEW id, NEW k, Calling(G, L, D, p, entry, K, id, k),
         NEW op, Opened(op, L, D, entry, id, k), op.name = entry.call.name, op.blocking = entry.call.blocking,
         NEW e, Entering(p, entry, e), NEW x, EnteredCall(op, x, e)
  PROVE  /\ x \in OperationRecords /\ x.comm_id = id /\ x.cc_id = k /\ x.process_count = Size(entry.comm)
         /\ x.name = op.name /\ x.blocking = op.blocking
         /\ op.remaining_enter \in Int /\ x.remaining_enter = op.remaining_enter - 1
         /\ x.remaining_complete = op.remaining_complete
         /\ x.name = "comm_dup" => x.final \in Nat
         /\ x.name \in Rooted => /\ x.root = entry.call.root /\ x.root \in 0 .. Size(entry.comm) - 1
                                 /\ x.root_pid = RankToPid(entry.comm, x.root)
                                 /\ op.root # None => op.root = x.root
         /\ x.name \in Spread => /\ Len(x.buffers) = Size(entry.comm)
                                 /\ x.buffers[x.root + 1] # None => RankToPid(entry.comm, x.root) \in Entered(K, id, k)
         /\ x.name = "comm_split" /\ x.remaining_enter > 0 =>
              /\ Len(x.buffers) = Size(entry.comm)
              /\ \A j \in 1 .. Size(entry.comm) :
                   j = PidToRank(entry.comm, p) + 1 \/ op.buffers[j] \in Data => x.buffers[j] \in Data
<1>1. PICK c : c = entry.comm /\ Finds(G, p, id, c)
  BY DEF Calling
<1>2. /\ p \in Procs /\ k \in Nat /\ c \in Comms /\ p \in Members(c)
      /\ p \notin Entered(L, id, k) /\ Entered(K, id, k) = Entered(L, id, k) \cup {p}
  BY <1>1, CallingFacts DEF NewPlace
<1>3. op \in OperationRecords /\ op.remaining_enter \in Int
  BY OperationFields DEF Opened
<1>4. PICK y : y = Decremented(op) /\ EnteredAs(y, x, e)
  BY DEF EnteredCall
<1>5. /\ y \in OperationRecords /\ y.remaining_enter = op.remaining_enter - 1
      /\ y.name = op.name /\ y.blocking = op.blocking /\ y.comm_id = op.comm_id /\ y.cc_id = op.cc_id
      /\ y.process_count = op.process_count /\ y.remaining_complete = op.remaining_complete
      /\ y.root = op.root /\ y.buffers = op.buffers
  BY <1>3, <1>4, DecrementedOperation
<1>6. SameOperation(y, x)
  BY <1>4 DEF EnteredAs
<1>7. /\ x \in OperationRecords /\ x.name = op.name /\ x.blocking = op.blocking
      /\ x.comm_id = op.comm_id /\ x.cc_id = op.cc_id /\ x.process_count = op.process_count
      /\ x.remaining_enter = op.remaining_enter - 1 /\ x.remaining_complete = op.remaining_complete
  BY <1>5, <1>6 DEF SameOperation
<1>8. op.comm_id = id /\ op.cc_id = k /\ op.process_count = Size(c)
  BY <1>1 DEF Opened
<1>9. e.call = entry.call /\ e.comm = c /\ e.rank = PidToRank(c, p) /\ e.data \in Data
  BY <1>1 DEF Entering
<1>10. PICK n, r : n \in Nat /\ n = Size(c) /\ r = PidToRank(c, p) /\ r \in 0 .. n - 1 /\ RankToPid(c, r) = p
  BY <1>2, MembersAreCounted
<1>11. ASSUME x.name \in Rooted
       PROVE  /\ x.root = entry.call.root /\ x.root \in 0 .. n - 1 /\ x.root_pid = RankToPid(c, x.root)
              /\ op.root # None => op.root = x.root
  <2>1. RootIs(y, x, e)
    BY <1>4, <1>5, <1>7, <1>11 DEF EnteredAs
  <2> QED BY <1>5, <1>9, <1>10, <2>1 DEF RootIs
<1>12. ASSUME x.name \in Spread
       PROVE  /\ Len(x.buffers) = n
              /\ x.buffers[x.root + 1] # None => RankToPid(c, x.root) \in Entered(K, id, k)
  <2>1. x.name \in Rooted
    BY <1>12 DEF Spread, Rooted
  <2>2. PutAt(y, x, r + 1)
    BY <1>4, <1>5, <1>7, <1>9, <1>10, <1>12 DEF EnteredAs, Spread
  <2>3. op.name \in Spread \cup {"comm_split"} => Len(op.buffers) = n
    BY <1>1, <1>10 DEF Opened
  <2>4. Len(op.buffers) = n
    BY <1>7, <1>12, <2>3
  <2>5. PICK j : j = x.root + 1 /\ j \in 1 .. n
    BY <1>10, <1>11, <2>1
  <2>6. j \in DOMAIN op.buffers
    BY <1>3, <2>4, <2>5, OperationFields, LenProperties
  <2>7. ASSUME x.buffers[j] # None PROVE RankToPid(c, x.root) \in Entered(K, id, k)
    <3>1. op.buffers[j] # None \/ j = r + 1
      BY <1>5, <2>2, <2>6, <2>7 DEF PutAt
    <3>2. CASE op.buffers[j] # None
      <4>1. IF op.root = None THEN \A l \in DOMAIN op.buffers : op.buffers[l] = None
            ELSE op.buffers[op.root + 1] # None => RankToPid(c, op.root) \in Entered(L, id, k)
        BY <1>1, <1>7, <1>12 DEF Opened
      <4>2. op.root # None
        BY <2>6, <3>2, <4>1
      <4>3. op.root = x.root
        BY <1>11, <2>1, <4>2
      <4> QED BY <1>2, <2>5, <3>2, <4>1, <4>2, <4>3
    <3>3. CASE j = r + 1
      <4>1. x.root = r
        BY <1>10, <1>11, <2>1, <2>5, <3>3
      <4> QED BY <1>2, <1>10, <4>1
    <3> QED BY <3>1, <3>2, <3>3
  <2>8. Len(x.buffers) = n
    BY <1>5, <2>2, <2>4 DEF PutAt
  <2> QED BY <2>5, <2>7, <2>8
<1>13. ASSUME x.name = "comm_split", x.remaining_enter > 0
       PROVE  /\ Len(x.buffers) = n
              /\ \A j \in 1 .. n : j = r + 1 \/ op.buffers[j] \in Data => x.buffers[j] \in Data
  <2>1. PICK b, d : b = op.buffers /\ d = e.data
    OBVIOUS
  <2>2. x.remaining_enter # 0
    BY <1>3, <1>7, <1>13
  <2>3. x.buffers = [b EXCEPT ![r + 1] = d]
    BY <1>7, <1>9, <1>10, <1>13, <2>1, <2>2 DEF EnteredCall
  <2>4. Len(b) = n /\ b \in Seq(Data \cup {None}) /\ DOMAIN b = 1 .. n
    <3>1. Len(b) = n
      BY <1>1, <1>7, <1>10, <1>13, <2>1 DEF Opened
    <3>2. b \in Seq(Data \cup {None})
      BY <1>3, <2>1, OperationFields
    <3> QED BY <3>1, <3>2, LenProperties
  <2>5. Len([b EXCEPT ![r + 1] = d]) = n
    <3>1. PICK X : X = Data \cup {None} /\ b \in Seq(X) /\ d \in X
      BY <1>9, <2>1, <2>4
    <3> QED BY <2>4, <3>1, ReplacingOne
  <2>6. \A j \in 1 .. n : j = r + 1 \/ b[j] \in Data => [b EXCEPT ![r + 1] = d][j] \in Data
    BY <1>9, <2>1, <2>4
  <2> QED BY <2>1, <2>3, <2>5, <2>6
<1>14. x.name = "comm_dup" => x.final \in Nat
  BY <1>7 DEF EnteredCall
<1>15. /\ x.comm_id = id /\ x.cc_id = k /\ x.process_count = Size(entry.comm)
  BY <1>1, <1>7, <1>8
<1>16. x.name \in Rooted =>
         /\ x.root = entry.call.root /\ x.root \in 0 .. Size(entry.comm) - 1
         /\ x.root_pid = RankToPid(entry.comm, x.root)
         /\ op.root # None => op.root = x.root
  BY <1>1, <1>10, <1>11
<1>17. x.name \in Spread =>
         /\ Len(x.buffers) = Size(entry.comm)
         /\ x.buffers[x.root + 1] # None => RankToPid(entry.comm, x.root) \in Entered(K, id, k)
  BY <1>1, <1>10, <1>12
<1>18. x.name = "comm_split" /\ x.remaining_enter > 0 =>
         /\ Len(x.buffers) = Size(entry.comm)
         /\ \A j \in 1 .. Size(entry.comm) :
              j = PidToRank(entry.comm, p) + 1 \/ op.buffers[j] \in Data => x.buffers[j] \in Data
  BY <1>1, <1>10, <1>13
<1>19. x \in OperationRecords /\ x.name = op.name /\ x.blocking = op.blocking /\ op.remaining_enter \in Int
  BY <1>3, <1>7
<1>20. x.remaining_enter = op.remaining_enter - 1 /\ x.remaining_complete = op.remaining_complete
  BY <1>7
<1> QED BY <1>14, <1>15, <1>16, <1>17, <1>18, <1>19, <1>20, Zenon

\* The calls that are in the log before and after a call.
LEMMA CallingCalls ==
  ASSUME NEW G, NEW L, NEW D, NEW p, NEW entry, NEW K, NEW id, NEW k, Calling(G, L, D, p, entry, K, id, k)
  PROVE  /\ CallsAt(L, p, id, k) = {} /\ CallsAt(K, p, id, k) = {Len(L[p]) + 1} /\ K[p][Len(L[p]) + 1] = entry
         /\ \A q \in Procs : \A d : \A j \in Int :
              q # p \/ d # id \/ j # k => CallsAt(K, q, d, j) = CallsAt(L, q, d, j)
         /\ \A q \in Procs : \A t \in DOMAIN L[q] :
              K[q][t] = L[q][t] /\ PositionOf(K, q, t) = PositionOf(L, q, t)
         /\ \A q \in Procs : \A d : \A j : CallsAt(L, q, d, j) \subseteq DOMAIN L[q]
         /\ DOMAIN K[p] = DOMAIN L[p] \cup {Len(L[p]) + 1} /\ Len(L[p]) + 1 \notin DOMAIN L[p]
         /\ PositionOf(K, p, Len(L[p]) + 1) = k + 1
         /\ \A q \in Procs \ {p} : K[q] = L[q]
<1>1. /\ p \in Procs /\ entry \in Entries(p) /\ k \in Nat /\ entry.comm.comm_id = id /\ IsLog(L)
  BY CallingFacts
<1>2. Appended(L, K, p, entry) /\ k = Cardinality(CallsOn(L, p, id))
  BY DEF Calling
<1>a. CalledHere(L, K, p, id, k) /\ OthersAsBefore(L, K, p, id, k)
  BY <1>1, <1>2, AppendedCallsAt
<1>3. CallsAt(L, p, id, k) = {}
  BY <1>a DEF CalledHere
<1>4. CallsAt(K, p, id, k) = {Len(L[p]) + 1}
  BY <1>a DEF CalledHere
<1>5. \A q \in Procs : \A d : \A j \in Int :
        q # p \/ d # id \/ j # k => CallsAt(K, q, d, j) = CallsAt(L, q, d, j)
  BY <1>a DEF OthersAsBefore
<1>6. \A q \in Procs : \A t \in DOMAIN L[q] :
        K[q][t] = L[q][t] /\ PositionOf(K, q, t) = PositionOf(L, q, t)
  BY <1>1, <1>2, AppendedCalls
<1>7. K[p][Len(L[p]) + 1] = entry
  BY <1>1, <1>2, AppendingToLog
<1>8. \A q \in Procs : \A d : \A j : CallsAt(L, q, d, j) \subseteq DOMAIN L[q]
  BY DEF CallsAt, CallsOn
<1>9. DOMAIN K[p] = DOMAIN L[p] \cup {Len(L[p]) + 1} /\ Len(L[p]) + 1 \notin DOMAIN L[p]
  BY <1>1, <1>2, AppendingToLog
<1>10. PositionOf(K, p, Len(L[p]) + 1) = Cardinality(CallsOn(L, p, entry.comm.comm_id)) + 1
  BY <1>1, <1>2, AppendedCalls
<1>11. \A q \in Procs \ {p} : K[q] = L[q]
  BY <1>1, <1>2, AppendingToLog
<1>12. PositionOf(K, p, Len(L[p]) + 1) = k + 1
  BY <1>1, <1>2, <1>10
<1> QED BY <1>3, <1>4, <1>5, <1>6, <1>7, <1>8, <1>9, <1>11, <1>12, Zenon

\* The other operations do not notice.
LEMMA OtherOperation ==
  ASSUME NEW G, NEW L, NEW D, NEW p, NEW entry, NEW K, NEW id, NEW k, Calling(G, L, D, p, entry, K, id, k),
         NEW op \in OperationRecords, OperationOK(op, L, D),
         op.comm_id = CommSelf \/ op.comm_id # id \/ op.cc_id # k
  PROVE  OperationOK(op, K, D)
<1>1. CASE op.comm_id = CommSelf
  BY <1>1 DEF OperationOK
<1>2. CASE op.comm_id # CommSelf
  <2>1. PICK d, j \in Nat : d = op.comm_id /\ j = op.cc_id /\ (d # id \/ j # k)
    BY <1>2, OperationFields
  <2>2. /\ \A q \in Procs : CallsAt(K, q, d, j) = CallsAt(L, q, d, j)
        /\ \A q \in Procs : \A t \in CallsAt(L, q, d, j) : K[q][t] = L[q][t]
    <3>1. \A q \in Procs : CallsAt(K, q, d, j) = CallsAt(L, q, d, j)
      BY <2>1, CallingCalls
    <3>2. \A q \in Procs : \A t \in DOMAIN L[q] : K[q][t] = L[q][t]
      BY CallingCalls
    <3>3. \A q \in Procs : CallsAt(L, q, d, j) \subseteq DOMAIN L[q]
      BY CallingCalls
    <3> QED BY <3>1, <3>2, <3>3
  <2>3. Entered(K, d, j) = Entered(L, d, j) /\ Left(K, D, d, j) = Left(L, D, d, j)
    BY <2>2 DEF Entered, Left
  <2>4. OpenOK(op, L, D)
    BY <1>2 DEF OperationOK
  <2>5. ASSUME NEW q \in Procs, NEW t \in CallsAt(L, q, d, j) PROVE Agrees(op, K, q, K[q][t])
    <3>1. Agrees(op, L, q, L[q][t])
      BY <2>1, <2>4 DEF OpenOK
    <3>2. PICK c : c = L[q][t] /\ Agrees(op, L, q, c)
      BY <3>1
    <3>3. Agrees(op, K, q, c)
      BY <2>1, <2>3, <3>2 DEF Agrees
    <3> QED BY <2>2, <3>2, <3>3
  <2>6. \A q \in Procs : \A t \in CallsAt(K, q, d, j) : Agrees(op, K, q, K[q][t])
    BY <2>2, <2>5
  <2>7. OpenOK(op, K, D)
    BY <2>1, <2>3, <2>4, <2>6 DEF OpenOK
  <2> QED BY <1>2, <2>7 DEF OperationOK
<1> QED BY <1>1, <1>2

\* The operation that is entered counts the call.
LEMMA EnteredOperation ==
  ASSUME NEW G, NEW L, NEW D, NEW p, NEW entry, NEW K, NEW id, NEW k, Calling(G, L, D, p, entry, K, id, k),
         NEW op, Opened(op, L, D, entry, id, k), op.name = entry.call.name, op.blocking = entry.call.blocking,
         NEW e, Entering(p, entry, e), NEW x, EnteredCall(op, x, e)
  PROVE  OperationOK(x, K, D)
<1>1. /\ x \in OperationRecords /\ x.comm_id = id /\ x.cc_id = k /\ x.process_count = Size(entry.comm)
      /\ x.name = op.name /\ x.blocking = op.blocking
      /\ op.remaining_enter \in Int /\ x.remaining_enter = op.remaining_enter - 1
      /\ x.remaining_complete = op.remaining_complete
      /\ x.name = "comm_dup" => x.final \in Nat
  BY EnteredFacts
<1>2. CASE id = CommSelf
  <2>1. Size(entry.comm) = 1
    BY <1>2, CallingFacts
  <2>2. op.remaining_enter = 1 /\ op.remaining_complete = 1
    BY <1>2 DEF Opened
  <2> QED BY <1>1, <1>2, <2>1, <2>2 DEF OperationOK
<1>3. CASE id # CommSelf
  <2>1. PICK c : c = entry.comm /\ Finds(G, p, id, c)
    BY DEF Calling
  <2>2. PICK n : n = Size(c) /\ x.process_count = n
    BY <1>1, <2>1
  <2>3. /\ p \in Procs /\ k \in Nat /\ c \in Comms /\ p \in Members(c) /\ IsLog(L)
        /\ G \in GlobalStates /\ CommsOK(G, L)
        /\ p \notin Entered(L, id, k) /\ Entered(K, id, k) = Entered(L, id, k) \cup {p}
        /\ Left(K, D, id, k) = Left(L, D, id, k)
    BY <2>1, CallingFacts DEF NewPlace
  <2>4. /\ op.remaining_enter + Cardinality(Entered(L, id, k)) = n
        /\ op.remaining_complete + Cardinality(Left(L, D, id, k)) = n
        /\ op.remaining_complete > 0
        /\ \A q \in Procs : \A t \in CallsAt(L, q, id, k) : Agrees(op, L, q, L[q][t])
    BY <1>3, <2>1, <2>2 DEF Opened
  <2>5. x.remaining_enter + Cardinality(Entered(K, id, k)) = n
    <3>1. PICK E : E = Entered(L, id, k) /\ p \notin E
      BY <2>3
    <3>2. IsFiniteSet(E)
      BY <3>1, ProcsAreFinite, FS_Subset DEF Entered
    <3>3. Cardinality(E \cup {p}) = Cardinality(E) + 1 /\ Cardinality(E) \in Nat
      BY <3>1, <3>2, OneMore, FS_CardinalityType
    <3>4. Entered(K, id, k) = E \cup {p}
      BY <2>3, <3>1
    <3> QED BY <1>1, <2>4, <3>1, <3>3, <3>4
  <2>6. PICK r : r = PidToRank(c, p) + 1 /\ r \in 1 .. n
    <3>1. Size(c) \in Nat /\ PidToRank(c, p) \in 0 .. Size(c) - 1
      BY <2>3, MembersAreCounted
    <3> QED BY <2>2, <3>1
  <2>7. /\ x.name \in Rooted => /\ x.root = entry.call.root
                                /\ x.root_pid = RankToPid(c, x.root)
        /\ x.name \in Spread => /\ Len(x.buffers) = n
                                /\ x.buffers[x.root + 1] # None => RankToPid(c, x.root) \in Entered(K, id, k)
        /\ x.name = "comm_split" /\ x.remaining_enter > 0 =>
             /\ Len(x.buffers) = n
             /\ \A j \in 1 .. n : j = r \/ op.buffers[j] \in Data => x.buffers[j] \in Data
    <3>1. x.name \in Rooted => /\ x.root = entry.call.root
                               /\ x.root_pid = RankToPid(entry.comm, x.root)
      BY EnteredFacts
    <3>2. x.name \in Spread =>
            /\ Len(x.buffers) = Size(entry.comm)
            /\ x.buffers[x.root + 1] # None => RankToPid(entry.comm, x.root) \in Entered(K, id, k)
      BY EnteredFacts
    <3>3. x.name = "comm_split" /\ x.remaining_enter > 0 =>
            /\ Len(x.buffers) = Size(entry.comm)
            /\ \A j \in 1 .. Size(entry.comm) :
                 j = PidToRank(entry.comm, p) + 1 \/ op.buffers[j] \in Data => x.buffers[j] \in Data
      BY EnteredFacts
    <3> QED BY <2>1, <2>2, <2>6, <3>1, <3>2, <3>3
  <2>8. Agrees(x, K, p, entry)
    <3>1. x.buffers[r] \in Data \/ ~(x.name = "comm_split" /\ x.remaining_enter > 0)
      BY <2>6, <2>7
    <3> QED BY <1>1, <2>1, <2>2, <2>6, <2>7, <3>1 DEF Agrees, Spread
  <2>9. ASSUME NEW q \in Procs, NEW t \in CallsAt(L, q, id, k) PROVE Agrees(x, K, q, L[q][t])
    <3>1. \A s \in Procs : \A u \in CallsAt(L, s, id, k) : L[s][u].comm = c /\ s \in Members(c)
      <4>1. G \in GlobalStates /\ IsLog(L) /\ CommsOK(G, L) /\ p \in Procs /\ k \in Int /\ Finds(G, p, id, c)
        BY <2>1, <2>3
      <4> QED BY <1>3, <4>1, EnteredAreMembers
    <3>2. PICK other : other = L[q][t] /\ other.comm = c /\ Agrees(op, L, q, other)
      BY <2>4, <3>1
    <3>3. PICK j : j = PidToRank(c, q) + 1 /\ j \in 1 .. n
      <4>1. q \in Members(c)
        BY <3>1
      <4>2. Size(c) \in Nat /\ PidToRank(c, q) \in 0 .. Size(c) - 1
        BY <2>3, <4>1, MembersAreCounted
      <4> QED BY <2>2, <4>2
    <3>4. x.name \in Rooted => x.root = other.call.root
      <4>1. x.name \in Rooted => op.root = other.call.root
        BY <1>1, <3>2 DEF Agrees
      <4>2. x.name \in Rooted => other.call.root # None
        <5>1. t \in DOMAIN L[q]
          BY DEF CallsAt, CallsOn
        <5>2. L[q][t] \in Entries(q)
          BY <2>3, <5>1, LogDomain
        <5>3. other.call \in CollectiveCalls(q)
          BY <3>2, <5>2 DEF Entries
        <5>4. IsCollectiveCall(other.call)
          BY <5>3, ProgramsAssumption DEF CollectiveCalls
        <5> QED BY <5>4, CallFields, NoneAssumption
      <4>3. x.name \in Rooted => (op.root # None => op.root = x.root)
        BY EnteredFacts
      <4> QED BY <4>1, <4>2, <4>3
    <3>5. x.name = "comm_split" /\ x.remaining_enter > 0 => x.buffers[j] \in Data
      <4>1. x.remaining_enter > 0 => op.remaining_enter > 0
        BY <1>1
      <4>2. op.name = "comm_split" /\ op.remaining_enter > 0 => op.buffers[j] \in Data
        BY <3>2, <3>3 DEF Agrees
      <4> QED BY <1>1, <2>7, <3>3, <4>1, <4>2
    <3>6. other.call.name = x.name /\ other.call.blocking = x.blocking
      BY <1>1, <3>2 DEF Agrees
    <3>7. Agrees(x, K, q, other)
      BY <1>1, <2>2, <2>7, <3>2, <3>3, <3>4, <3>5, <3>6 DEF Agrees, Spread
    <3> QED BY <3>2, <3>7
  <2>10. ASSUME NEW q \in Procs, NEW t \in CallsAt(K, q, id, k) PROVE Agrees(x, K, q, K[q][t])
    <3>1. CASE q = p
      <4>1. CallsAt(K, p, id, k) = {Len(L[p]) + 1} /\ K[p][Len(L[p]) + 1] = entry
        BY CallingCalls
      <4> QED BY <2>8, <2>10, <3>1, <4>1
    <3>2. CASE q # p
      <4>1. \A s \in Procs : \A d : \A j \in Int :
              s # p \/ d # id \/ j # k => CallsAt(K, s, d, j) = CallsAt(L, s, d, j)
        BY CallingCalls
      <4>2. t \in CallsAt(L, q, id, k)
        BY <2>3, <3>2, <4>1
      <4>3. \A s \in Procs \ {p} : K[s] = L[s]
        BY CallingCalls
      <4> QED BY <2>9, <3>2, <4>2, <4>3
    <3> QED BY <3>1, <3>2
  <2>11. Entered(K, id, k) # {}
    BY <2>3
  <2>12. OpenOK(x, K, D)
    BY <1>1, <2>2, <2>3, <2>4, <2>5, <2>10, <2>11 DEF OpenOK
  <2> QED BY <1>1, <1>3, <2>12 DEF OperationOK
<1> QED BY <1>2, <1>3

\* The places of operations before and after a call.
Places(s, ops, i, id, k) ==
  /\ i \in DOMAIN ops /\ ops \in Seq(OperationRecords) /\ DOMAIN ops = DOMAIN s \cup {i}
  /\ id = CommSelf => i \notin DOMAIN s
  /\ i \in DOMAIN s => i \in OperationsAt(s, id, k)
  /\ \A j \in DOMAIN ops \ {i} : /\ j \in DOMAIN s /\ ops[j] = s[j]
                                 /\ id # CommSelf => j \notin OperationsAt(s, id, k)

LEMMA OpensPlaces ==
  ASSUME NEW G, NEW L, NEW D, NEW p, NEW entry, NEW K, NEW id, NEW k, Calling(G, L, D, p, entry, K, id, k),
         NEW ops, NEW i, Opens(G, entry, id, k, ops, i)
  PROVE  Places(G.operations, ops, i, id, k) /\ Opened(ops[i], L, D, entry, id, k)
<1>1. G.operations \in Seq(OperationRecords) /\ OperationsOK(G.operations, L, D)
  BY CallingFacts DEF Calling
<1>2. PICK s : s = G.operations /\ s \in Seq(OperationRecords)
  BY <1>1
<1>3. CASE id # CommSelf /\ i \in OperationsAt(s, id, k) /\ ops = s
  <2>1. i \in DOMAIN s /\ s[i].comm_id = id /\ s[i].cc_id = k
    BY <1>3 DEF OperationsAt
  <2>2. ASSUME NEW j \in DOMAIN s \ {i} PROVE j \notin OperationsAt(s, id, k)
    <3>1. s[j].comm_id # id \/ s[j].cc_id # k
      BY <1>1, <1>2, <1>3, <2>1 DEF OperationsOK
    <3> QED BY <3>1 DEF OperationsAt
  <2>3. Opened(s[i], L, D, entry, id, k)
    <3>1. PICK op : op = G.operations[i]
      OBVIOUS
    <3>2. i \in OperationsAt(G.operations, id, k)
      BY <1>2, <1>3
    <3>3. Opened(op, L, D, entry, id, k)
      BY <1>3, <3>1, <3>2, FoundOperationOpened
    <3> QED BY <1>2, <3>1, <3>3
  <2> QED BY <1>2, <1>3, <2>1, <2>2, <2>3 DEF Places
<1>4. CASE /\ id = CommSelf \/ OperationsAt(s, id, k) = {}
           /\ ops = Append(s, NewOperation(entry.comm, k, entry.call)) /\ i = Len(s) + 1
  <2>1. PICK x : x = NewOperation(entry.comm, k, entry.call)
    OBVIOUS
  <2>2. Opened(x, L, D, entry, id, k)
    <3>1. id = CommSelf \/ OperationsAt(G.operations, id, k) = {}
      BY <1>2, <1>4
    <3> QED BY <2>1, <3>1, NewOperationOpened
  <2>3. x \in OperationRecords
    BY <2>2 DEF Opened
  <2>4. PICK n \in Nat : n = Len(s) /\ DOMAIN s = 1 .. n /\ i = n + 1 /\ ops = Append(s, x)
    BY <1>2, <1>4, <2>1, LenProperties
  <2>5. /\ ops \in Seq(OperationRecords) /\ Len(ops) = n + 1 /\ ops[n + 1] = x
        /\ \A j \in 1 .. n : ops[j] = s[j]
    BY <1>2, <2>3, <2>4, AppendProperties
  <2>6. DOMAIN ops = 1 .. n + 1
    BY <2>4, <2>5, LenProperties
  <2>7. DOMAIN ops = DOMAIN s \cup {i} /\ i \notin DOMAIN s
    BY <2>4, <2>6
  <2>8. ASSUME NEW j \in DOMAIN ops \ {i}
        PROVE  j \in DOMAIN s /\ ops[j] = s[j] /\ (id # CommSelf => j \notin OperationsAt(s, id, k))
    BY <1>4, <2>4, <2>5, <2>7
  <2>9. Opened(ops[i], L, D, entry, id, k)
    BY <2>2, <2>4, <2>5
  <2> QED BY <1>2, <2>5, <2>7, <2>8, <2>9 DEF Places
<1> QED BY <1>2, <1>3, <1>4 DEF Opens

\* Entering keeps the operations in order.
LEMMA EnteredKeepsOperations ==
  ASSUME NEW G, NEW L, NEW D, NEW p, NEW entry, NEW K, NEW id, NEW k, Calling(G, L, D, p, entry, K, id, k),
         NEW ops, NEW i, Opens(G, entry, id, k, ops, i),
         NEW op, op = ops[i], op.name = entry.call.name, op.blocking = entry.call.blocking,
         NEW e, Entering(p, entry, e), NEW x, EnteredCall(op, x, e), NEW N, N = [ops EXCEPT ![i] = x]
  PROVE  N \in Seq(OperationRecords) /\ OperationsOK(N, K, D)
<1>1. PICK s : s = G.operations /\ s \in Seq(OperationRecords) /\ OperationsOK(s, L, D)
  BY CallingFacts DEF Calling
<1>2. /\ i \in DOMAIN ops /\ ops \in Seq(OperationRecords) /\ DOMAIN ops = DOMAIN s \cup {i}
      /\ id = CommSelf => i \notin DOMAIN s
      /\ i \in DOMAIN s => i \in OperationsAt(s, id, k)
      /\ \A j \in DOMAIN ops \ {i} : /\ j \in DOMAIN s /\ ops[j] = s[j]
                                     /\ id # CommSelf => j \notin OperationsAt(s, id, k)
      /\ Opened(op, L, D, entry, id, k)
  <2>1. Places(s, ops, i, id, k) /\ Opened(op, L, D, entry, id, k)
    BY <1>1, OpensPlaces
  <2> QED BY <2>1 DEF Places
<1>3. x \in OperationRecords /\ x.comm_id = id /\ x.cc_id = k
  BY <1>2, EnteredFacts
<1>4. N \in Seq(OperationRecords) /\ DOMAIN N = DOMAIN s \cup {i} /\ N[i] = x /\ \A j \in DOMAIN N \ {i} : N[j] = s[j]
  <2>1. [ops EXCEPT ![i] = x] \in Seq(OperationRecords)
    BY <1>2, <1>3, ReplacingOne
  <2>2. DOMAIN N = DOMAIN s \cup {i} /\ N[i] = x /\ \A j \in DOMAIN N \ {i} : N[j] = s[j]
    BY <1>2
  <2> QED BY <2>1, <2>2
<1>5. ASSUME NEW j \in DOMAIN N \ {i}
      PROVE  j \in DOMAIN s /\ N[j] = s[j] /\ N[j] \in OperationRecords
             /\ (N[j].comm_id = CommSelf \/ N[j].comm_id # id \/ N[j].cc_id # k)
  <2>1. j \in DOMAIN s /\ N[j] = s[j] /\ (id # CommSelf => j \notin OperationsAt(s, id, k))
    BY <1>2, <1>4, <1>5
  <2>2. s[j] \in OperationRecords
    BY <1>1, <2>1, LenProperties
  <2> QED BY <2>1, <2>2 DEF OperationsAt
<1>6. ASSUME NEW j \in DOMAIN N PROVE OperationOK(N[j], K, D)
  <2>1. CASE j = i
    <3>1. OperationOK(x, K, D)
      BY <1>2, EnteredOperation
    <3> QED BY <1>4, <2>1, <3>1
  <2>2. CASE j # i
    <3>1. PICK y \in OperationRecords : y = N[j] /\ y = s[j] /\ j \in DOMAIN s
                 /\ (y.comm_id = CommSelf \/ y.comm_id # id \/ y.cc_id # k)
      BY <1>5, <1>6, <2>2
    <3>2. OperationOK(y, L, D)
      BY <1>1, <3>1 DEF OperationsOK
    <3>3. OperationOK(y, K, D)
      BY <3>1, <3>2, OtherOperation
    <3> QED BY <3>1, <3>3
  <2> QED BY <2>1, <2>2
<1>7. ASSUME NEW a \in DOMAIN N, NEW b \in DOMAIN N,
             N[a].comm_id = N[b].comm_id, N[a].cc_id = N[b].cc_id, N[a].comm_id # CommSelf
      PROVE  a = b
  <2>1. CASE a # i /\ b # i
    <3>1. a \in DOMAIN s /\ N[a] = s[a] /\ b \in DOMAIN s /\ N[b] = s[b]
      BY <1>5, <2>1
    <3> QED BY <1>1, <1>7, <3>1 DEF OperationsOK
  <2>2. CASE a = i /\ b # i
    <3>1. N[b].comm_id = CommSelf \/ N[b].comm_id # id \/ N[b].cc_id # k
      BY <1>5, <2>2
    <3> QED BY <1>3, <1>4, <1>7, <2>2, <3>1
  <2>3. CASE a # i /\ b = i
    <3>1. N[a].comm_id = CommSelf \/ N[a].comm_id # id \/ N[a].cc_id # k
      BY <1>5, <2>3
    <3> QED BY <1>3, <1>4, <1>7, <2>3, <3>1
  <2> QED BY <2>1, <2>2, <2>3
<1>8. \A d, j : d # id \/ j # k => OperationsAt(N, d, j) = OperationsAt(s, d, j)
  <2>1. SUFFICES ASSUME NEW d, NEW j, d # id \/ j # k PROVE OperationsAt(N, d, j) = OperationsAt(s, d, j)
    OBVIOUS
  <2>2. ASSUME NEW l PROVE l \in OperationsAt(N, d, j) <=> l \in OperationsAt(s, d, j)
    <3>1. CASE l = i
      <4>1. l \notin OperationsAt(N, d, j)
        BY <1>3, <1>4, <2>1, <3>1 DEF OperationsAt
      <4>2. l \notin OperationsAt(s, d, j)
        BY <1>2, <2>1, <3>1 DEF OperationsAt
      <4> QED BY <4>1, <4>2
    <3>2. CASE l # i
      BY <1>4, <3>2 DEF OperationsAt
    <3> QED BY <3>1, <3>2
  <2> QED BY <2>2
<1>9. i \in OperationsAt(N, id, k)
  BY <1>3, <1>4 DEF OperationsAt
<1>10. ASSUME NEW q \in Procs, NEW t \in DOMAIN K[q], NEW d, NEW j,
              d = K[q][t].comm.comm_id, j = PositionOf(K, q, t) - 1, d # CommSelf, OperationsAt(N, d, j) = {}
       PROVE  ToSet(K[q][t].comm.group.table) \subseteq Left(K, D, d, j)
  <2>1. d # id \/ j # k
    BY <1>9, <1>10
  <2>2. OperationsAt(s, d, j) = {}
    BY <1>8, <1>10, <2>1
  <2>3. t \in DOMAIN L[q] /\ K[q][t] = L[q][t] /\ PositionOf(K, q, t) = PositionOf(L, q, t)
    <3>1. /\ DOMAIN K[p] = DOMAIN L[p] \cup {Len(L[p]) + 1} /\ K[p][Len(L[p]) + 1] = entry
          /\ PositionOf(K, p, Len(L[p]) + 1) = k + 1
          /\ \A r \in Procs \ {p} : K[r] = L[r]
      BY CallingCalls
    <3>2. \A r \in Procs : \A u \in DOMAIN L[r] : K[r][u] = L[r][u] /\ PositionOf(K, r, u) = PositionOf(L, r, u)
      BY CallingCalls
    <3>3. k \in Nat /\ entry.comm.comm_id = id
      BY CallingFacts
    <3>4. t \in DOMAIN L[q]
      <4>1. CASE q # p
        BY <1>10, <3>1, <4>1
      <4>2. CASE q = p
        <5>1. t # Len(L[p]) + 1
          <6>1. SUFFICES ASSUME t = Len(L[p]) + 1 PROVE FALSE
            OBVIOUS
          <6>2. d = id
            BY <1>10, <3>1, <3>3, <4>2, <6>1
          <6>3. j = k
            BY <1>10, <3>1, <3>3, <4>2, <6>1
          <6> QED BY <2>1, <6>2, <6>3
        <5> QED BY <1>10, <3>1, <4>2, <5>1
      <4> QED BY <4>1, <4>2
    <3> QED BY <3>2, <3>4
  <2>4. L[q][t].comm.comm_id = d /\ PositionOf(L, q, t) - 1 = j
    BY <1>10, <2>3
  <2>5. ToSet(L[q][t].comm.group.table) \subseteq Left(L, D, d, j)
    BY <1>1, <1>10, <2>2, <2>3, <2>4 DEF OperationsOK
  <2>6. Left(K, D, d, j) = Left(L, D, d, j)
    <3>1. j \in Int
      <4>1. IsLog(L)
        BY CallingFacts
      <4>2. PositionOf(L, q, t) \in 1 .. Cardinality(CallsOn(L, q, d)) /\ Cardinality(CallsOn(L, q, d)) \in Nat
        BY <2>3, <2>4, <4>1, PositionFacts, CallsAreFinite
      <4> QED BY <2>4, <4>2
    <3>2. \A c : \A l \in Int : Left(K, D, c, l) = Left(L, D, c, l)
      BY CallingFacts DEF NewPlace
    <3> QED BY <3>1, <3>2
  <2> QED BY <2>3, <2>5, <2>6
<1>11. ASSUME NEW j \in Nat
       PROVE  Cardinality(OperationsAt(N, CommSelf, j)) = Cardinality(Inside(K, D, CommSelf, j))
  <2>1. /\ p \notin Inside(L, D, id, k) /\ Inside(K, D, id, k) = Inside(L, D, id, k) \cup {p}
        /\ \A d : \A l \in Int : d # id \/ l # k => Inside(K, D, d, l) = Inside(L, D, d, l)
    BY CallingFacts DEF NewPlace
  <2>2. Cardinality(OperationsAt(s, CommSelf, j)) = Cardinality(Inside(L, D, CommSelf, j))
    BY <1>1 DEF OperationsOK
  <2>3. CASE id # CommSelf \/ j # k
    <3>1. Inside(K, D, CommSelf, j) = Inside(L, D, CommSelf, j)
      BY <2>1, <2>3
    <3>2. OperationsAt(N, CommSelf, j) = OperationsAt(s, CommSelf, j)
      BY <1>8, <2>3
    <3> QED BY <2>2, <3>1, <3>2
  <2>4. CASE id = CommSelf /\ j = k
    <3>1. PICK A : A = OperationsAt(s, CommSelf, j) /\ i \notin A
      BY <1>2, <2>4 DEF OperationsAt
    <3>2. OperationsAt(N, CommSelf, j) = A \cup {i}
      <4>1. ASSUME NEW l PROVE l \in OperationsAt(N, CommSelf, j) <=> l \in A \/ l = i
        <5>1. CASE l = i
          BY <1>9, <2>4, <5>1
        <5>2. CASE l # i
          BY <1>4, <3>1, <5>2 DEF OperationsAt
        <5> QED BY <5>1, <5>2
      <4> QED BY <4>1
    <3>3. IsFiniteSet(A)
      <4>1. PICK n \in Nat : DOMAIN s = 1 .. n
        BY <1>1, LenProperties
      <4>2. IsFiniteSet(1 .. n)
        BY FS_Interval
      <4> QED BY <3>1, <4>1, <4>2, FS_Subset DEF OperationsAt
    <3>4. PICK B : B = Inside(L, D, CommSelf, j) /\ p \notin B /\ Inside(K, D, CommSelf, j) = B \cup {p}
      BY <2>1, <2>4
    <3>5. IsFiniteSet(B)
      BY <3>4, ProcsAreFinite, FS_Subset DEF Inside
    <3>6. Cardinality(A \cup {i}) = Cardinality(A) + 1
      BY <3>1, <3>3, OneMore
    <3>7. Cardinality(B \cup {p}) = Cardinality(B) + 1
      BY <3>4, <3>5, OneMore
    <3> QED BY <2>2, <3>1, <3>2, <3>4, <3>6, <3>7
  <2> QED BY <2>3, <2>4
<1>12. \A q \in Procs : \A t \in DOMAIN K[q] :
         LET d == K[q][t].comm.comm_id
             j == PositionOf(K, q, t) - 1
         IN d # CommSelf /\ OperationsAt(N, d, j) = {} => ToSet(K[q][t].comm.group.table) \subseteq Left(K, D, d, j)
  BY <1>10
<1>13. \A a \in DOMAIN N, b \in DOMAIN N :
         N[a].comm_id = N[b].comm_id /\ N[a].cc_id = N[b].cc_id /\ N[a].comm_id # CommSelf => a = b
  BY <1>7
<1>14. /\ \A j \in DOMAIN N : OperationOK(N[j], K, D)
       /\ \A j \in Nat : Cardinality(OperationsAt(N, CommSelf, j)) = Cardinality(Inside(K, D, CommSelf, j))
  BY <1>6, <1>11
<1>15. OperationsOK(N, K, D)
  BY <1>12, <1>13, <1>14, Zenon DEF OperationsOK
<1> QED BY <1>4, <1>15

-----------------------------------------------------------------------------
(* Collective calls *)

\* Operation i of ops counts the call, and so does the state of p.
Counted(G, p, c, ops, i) == CountedCall(G, p, c, [ops EXCEPT ![i] = Decremented(ops[i])])

\* What the call of p that entry describes does to the global state: F is what enter_main finds,
\* it enters operation i of ops, which becomes x.
CalledAs(G, F, H, p, entry, id, k, ops, i, e, x) ==
  /\ Opens(G, entry, id, k, ops, i) /\ Entering(p, entry, e)
  /\ ops[i].name = entry.call.name /\ ops[i].blocking = entry.call.blocking
  /\ EnteredCall(ops[i], x, e)
  /\ F = Counted(G, p, entry.comm, ops, i)
  /\ Effect(F, H, i, x, e)

LEMMA OperationsReplaced ==
  ASSUME NEW s, NEW o, NEW n, NEW ops, NEW G, G = [states |-> s, operations |-> o, comm_id_counter |-> n]
  PROVE  WithOperations(G, ops) = [states |-> s, operations |-> ops, comm_id_counter |-> n]
<1>1. [G EXCEPT !.operations = ops] = [states |-> s, operations |-> ops, comm_id_counter |-> n]
  OBVIOUS
<1> QED BY <1>1 DEF WithOperations

LEMMA GlobalRecords ==
  ASSUME NEW s, NEW o, NEW n, NEW p, NEW T, NEW ops, NEW G,
         G = [states |-> s, operations |-> o, comm_id_counter |-> n]
  PROVE  Replaced(G, p, T, ops) = [states |-> [s EXCEPT ![p] = T], operations |-> ops, comm_id_counter |-> n]
<1>1. PICK H : H = [G EXCEPT !.operations = ops, !.states[p] = T]
  OBVIOUS
<1>2. H = [states |-> [s EXCEPT ![p] = T], operations |-> ops, comm_id_counter |-> n]
  BY <1>1
<1> QED BY <1>1, <1>2 DEF Replaced

LEMMA CountedOperations ==
  ASSUME NEW G \in GlobalStates, NEW p \in Procs, NEW c, NEW ops
  PROVE  CountedCall(G, p, c, ops).operations = ops
<1>1. PICK s, o, n : G = [states |-> s, operations |-> o, comm_id_counter |-> n]
  BY GlobalFields
<1>2. PICK T : T = IncCounter(G.states[p], c)
  OBVIOUS
<1>3. PICK F : F = Replaced(G, p, T, ops)
  OBVIOUS
<1>4. F = [states |-> [s EXCEPT ![p] = T], operations |-> ops, comm_id_counter |-> n]
  BY <1>1, <1>3, GlobalRecords
<1>5. F.operations = ops
  BY <1>4
<1> QED BY <1>2, <1>3, <1>5 DEF CountedCall

\* Enter counts the call down.
CountDown(F, i) == [F EXCEPT !.operations[i].remaining_enter = @ - 1]

LEMMA CountingDown ==
  ASSUME NEW F, NEW i
  PROVE  CountDown(F, i) = WithOperations(F, [F.operations EXCEPT ![i] = Decremented(F.operations[i])])
BY DEF CountDown, Decremented, WithOperations

LEMMA CountingCall ==
  ASSUME NEW G \in GlobalStates, NEW p \in Procs, NEW c, NEW ops, NEW i
  PROVE  CountDown(CountedCall(G, p, c, ops), i) = CountedCall(G, p, c, [ops EXCEPT ![i] = Decremented(ops[i])])
<1>1. PICK s, o, n : G = [states |-> s, operations |-> o, comm_id_counter |-> n]
  BY GlobalFields
<1>2. PICK T : T = IncCounter(G.states[p], c)
  OBVIOUS
<1>3. PICK z : z = [ops EXCEPT ![i] = Decremented(ops[i])]
  OBVIOUS
<1>4. PICK F : F = [states |-> [s EXCEPT ![p] = T], operations |-> ops, comm_id_counter |-> n]
  OBVIOUS
<1>5. Replaced(G, p, T, ops) = F /\ F.operations = ops
  BY <1>1, <1>4, GlobalRecords
<1>6. WithOperations(F, z) = [states |-> [s EXCEPT ![p] = T], operations |-> z, comm_id_counter |-> n]
  <2>1. PICK s2 : s2 = [s EXCEPT ![p] = T]
    OBVIOUS
  <2>2. F = [states |-> s2, operations |-> ops, comm_id_counter |-> n]
    BY <1>4, <2>1
  <2>3. WithOperations(F, z) = [states |-> s2, operations |-> z, comm_id_counter |-> n]
    BY <2>2, OperationsReplaced
  <2> QED BY <2>1, <2>3
<1>7. CountDown(F, i) = WithOperations(F, z)
  BY <1>3, <1>5, CountingDown
<1>8. Replaced(G, p, T, z) = [states |-> [s EXCEPT ![p] = T], operations |-> z, comm_id_counter |-> n]
  BY <1>1, GlobalRecords
<1>9. CountedCall(G, p, c, z) = Replaced(G, p, T, z) /\ CountedCall(G, p, c, ops) = Replaced(G, p, T, ops)
  BY <1>2 DEF CountedCall
<1> QED BY <1>3, <1>5, <1>6, <1>7, <1>8, <1>9

LEMMA PlaceFound ==
  ASSUME NEW G, G.operations \in Seq(OperationRecords), NEW id, NEW k
  PROVE  /\ OperationIndex(G, id, k) = 0 <=> OperationsAt(G.operations, id, k) = {}
         /\ OperationIndex(G, id, k) # 0 => OperationIndex(G, id, k) \in OperationsAt(G.operations, id, k)
<1>1. PICK i : i = OperationIndex(G, id, k)
  OBVIOUS
<1>2. i = 0 => OperationsAt(G.operations, id, k) = {}
  BY <1>1, FindingOperation
<1>3. i # 0 => i \in OperationsAt(G.operations, id, k)
  BY <1>1, FindingOperation
<1>4. ASSUME OperationsAt(G.operations, id, k) = {} PROVE i = 0
  BY <1>3, <1>4
<1> QED BY <1>1, <1>2, <1>3, <1>4

LEMMA OpeningOperation ==
  ASSUME NEW G, NEW L, NEW D, NEW p, NEW entry, NEW K, NEW id, NEW k, Calling(G, L, D, p, entry, K, id, k),
         NEW found, found = OperationIndex(G, id, k),
         NEW ops, ops = (IF found = 0 \/ id = CommSelf
                         THEN Append(G.operations, NewOperation(entry.comm, k, entry.call)) ELSE G.operations),
         NEW i, i = IF found = 0 \/ id = CommSelf THEN Len(ops) ELSE found
  PROVE  Opens(G, entry, id, k, ops, i)
<1>1. G.operations \in Seq(OperationRecords) /\ k \in Nat
  BY CallingFacts
<1>2. /\ found = 0 <=> OperationsAt(G.operations, id, k) = {}
      /\ found # 0 => found \in OperationsAt(G.operations, id, k)
  BY <1>1, PlaceFound
<1>3. CASE found = 0 \/ id = CommSelf
  <2>1. PICK x : x = NewOperation(entry.comm, k, entry.call)
    OBVIOUS
  <2>2. x \in OperationRecords
    <3>1. id = CommSelf \/ OperationsAt(G.operations, id, k) = {}
      BY <1>2, <1>3
    <3>2. Opened(x, L, D, entry, id, k)
      BY <2>1, <3>1, NewOperationOpened
    <3> QED BY <3>2 DEF Opened
  <2>3. Len(Append(G.operations, x)) = Len(G.operations) + 1
    BY <1>1, <2>2, AppendProperties
  <2> QED BY <1>2, <1>3, <2>1, <2>3 DEF Opens
<1>4. CASE ~(found = 0 \/ id = CommSelf)
  BY <1>2, <1>4 DEF Opens
<1> QED BY <1>3, <1>4

\* What enter_main finds.
CallReady(G, F, K, ops, i, e) ==
  /\ CommunicatorsOK(F, K) /\ i \in DOMAIN F.operations /\ i \in DOMAIN ops
  /\ F.operations = [ops EXCEPT ![i] = Decremented(ops[i])]
  /\ MayEnter(Decremented(ops[i]), e)
  /\ \A q \in Procs : SameWork(G.states[q], F.states[q])

LEMMA CountedIn ==
  ASSUME NEW G, NEW L, NEW D, NEW p, NEW entry, NEW K, NEW id, NEW k, Calling(G, L, D, p, entry, K, id, k),
         NEW ops, NEW i, Opens(G, entry, id, k, ops, i),
         ops[i].name = entry.call.name, ops[i].blocking = entry.call.blocking,
         NEW e, Entering(p, entry, e),
         NEW F, F = Counted(G, p, entry.comm, ops, i)
  PROVE  CallReady(G, F, K, ops, i, e)
<1>1. /\ p \in Procs /\ entry \in Entries(p) /\ k \in Nat /\ IsLog(L) /\ IsLog(K) /\ G \in GlobalStates
      /\ CommsOK(G, L) /\ CountersOK(G, L) /\ Appended(L, K, p, entry) /\ Finds(G, p, id, entry.comm)
  <2>1. p \in Procs /\ entry \in Entries(p) /\ k \in Nat /\ IsLog(L) /\ IsLog(K) /\ G \in GlobalStates
    BY CallingFacts
  <2> QED BY <2>1 DEF Calling, CommunicatorsOK
<1>2. PICK op : op = ops[i] /\ Opened(op, L, D, entry, id, k) /\ op.name = entry.call.name
                /\ op.blocking = entry.call.blocking
  BY OpensPlaces
<1>3. i \in DOMAIN ops /\ ops \in Seq(OperationRecords)
  BY OpensPlaces DEF Places
<1>4. PICK y : y = Decremented(op)
  OBVIOUS
<1>5. /\ y \in OperationRecords /\ y.remaining_enter = op.remaining_enter - 1
      /\ y.name = op.name /\ y.blocking = op.blocking /\ y.buffers = op.buffers
  <2>1. op \in OperationRecords
    BY <1>2 DEF Opened
  <2> QED BY <1>4, <2>1, DecrementedOperation
<1>6. PICK dops : dops = [ops EXCEPT ![i] = y]
  OBVIOUS
<1>7. dops \in Seq(OperationRecords) /\ i \in DOMAIN dops /\ dops[i] = y
  <2>1. [ops EXCEPT ![i] = y] \in Seq(OperationRecords)
    BY <1>3, <1>5, ReplacingOne
  <2> QED BY <1>3, <1>6, <2>1
<1>8. F = CountedCall(G, p, entry.comm, dops)
  BY <1>2, <1>4, <1>6 DEF Counted
<1>9. /\ F \in GlobalStates /\ F.operations = dops /\ CommsOK(F, K) /\ CountersOK(F, K)
      /\ \A q \in Procs : SameWork(G.states[q], F.states[q])
  <2>1. PICK E : E = CountedCall(G, p, entry.comm, dops)
    OBVIOUS
  <2>2. E \in GlobalStates
    BY <1>1, <1>7, <2>1, CallKeepsComms
  <2>5. E.operations = dops
    <3>1. CountedCall(G, p, entry.comm, dops).operations = dops
      BY <1>1, CountedOperations
    <3> QED BY <2>1, <3>1
  <2>3. CommsOK(E, K) /\ CountersOK(E, K)
    BY <1>1, <1>7, <2>1, CallKeepsComms
  <2>4. \A q \in Procs : SameWork(G.states[q], E.states[q])
    BY <1>1, <1>7, <2>1, CallKeepsComms
  <2> QED BY <1>8, <2>1, <2>2, <2>3, <2>4, <2>5
<1>10. CommunicatorsOK(F, K)
  BY <1>9 DEF CommunicatorsOK
<1>11. MayEnter(y, e)
  BY <1>2, <1>4, OpenedMayEnter
<1>12. i \in DOMAIN F.operations /\ y = F.operations[i]
  BY <1>7, <1>9
<1> QED BY <1>2, <1>3, <1>4, <1>6, <1>9, <1>10, <1>11, <1>12 DEF CallReady

LEMMA CallingOperation ==
  ASSUME NEW G, NEW L, NEW D, NEW p, NEW entry, NEW K, NEW id, NEW k, Calling(G, L, D, p, entry, K, id, k),
         NEW ops, NEW i, Opens(G, entry, id, k, ops, i),
         ops[i].name = entry.call.name, ops[i].blocking = entry.call.blocking,
         NEW e, Entering(p, entry, e),
         NEW F, F = Counted(G, p, entry.comm, ops, i),
         NEW H, H = EnterMain(F, i, e), ~Refused(H)
  PROVE  /\ CommunicatorsOK(F, K) /\ CommunicatorsOK(H, K) /\ RootsOK(K) /\ OperationsOK(H.operations, K, D)
         /\ \A q \in Procs : SameWork(G.states[q], H.states[q])
         /\ \E x : CalledAs(G, F, H, p, entry, id, k, ops, i, e, x)
<1>1. IsLog(K)
  BY CallingFacts
<1>2. PICK op : op = ops[i] /\ Opened(op, L, D, entry, id, k) /\ op.name = entry.call.name
                /\ op.blocking = entry.call.blocking
  BY OpensPlaces
<1>4. PICK y : y = Decremented(op)
  OBVIOUS
<1>5. /\ y \in OperationRecords /\ y.remaining_enter = op.remaining_enter - 1
      /\ y.name = op.name /\ y.blocking = op.blocking /\ y.buffers = op.buffers
  <2>1. op \in OperationRecords
    BY <1>2 DEF Opened
  <2> QED BY <1>4, <2>1, DecrementedOperation
<1>6. PICK dops : dops = [ops EXCEPT ![i] = y]
  OBVIOUS
<1>9. /\ CommunicatorsOK(F, K) /\ i \in DOMAIN F.operations /\ i \in DOMAIN ops
      /\ F.operations = [ops EXCEPT ![i] = Decremented(ops[i])] /\ MayEnter(Decremented(ops[i]), e)
      /\ \A q \in Procs : SameWork(G.states[q], F.states[q])
  BY CountedIn DEF CallReady
<1>10. F.operations = dops
  BY <1>2, <1>4, <1>6, <1>9
<1>11. MayEnter(y, e)
  BY <1>2, <1>4, <1>9
<1>12. y = F.operations[i]
  BY <1>6, <1>9, <1>10
<1>13. CommunicatorsOK(H, K) /\ \E x : Effect(F, H, i, x, e)
  BY <1>1, <1>9, <1>11, <1>12, EnteringMain
<1>14. PICK x : Effect(F, H, i, x, e)
  BY <1>13
<1>15. /\ EnteredAs(y, x, e) /\ H.operations = [dops EXCEPT ![i] = x]
       /\ \A q \in Procs : SameWork(F.states[q], H.states[q])
       /\ y.name = "comm_split" /\ y.remaining_enter # 0 => x.buffers = [y.buffers EXCEPT ![e.rank + 1] = e.data]
       /\ y.name = "comm_dup" => x.final \in Nat
  <2>1. /\ EnteredAs(y, x, e) /\ H.operations = [dops EXCEPT ![i] = x]
        /\ \A q \in Procs : SameWork(F.states[q], H.states[q])
    BY <1>9, <1>10, <1>12, <1>14 DEF Effect
  <2>2. y.name = "comm_split" /\ y.remaining_enter # 0 => x.buffers = [y.buffers EXCEPT ![e.rank + 1] = e.data]
    BY <1>12, <1>14 DEF Effect
  <2>3. y.name = "comm_dup" => x.final \in Nat
    BY <1>12, <1>14 DEF Effect, Duplicated
  <2> QED BY <2>1, <2>2, <2>3
<1>16. EnteredCall(op, x, e)
  <2>1. x.remaining_enter = y.remaining_enter
    BY <1>15 DEF EnteredAs, SameOperation
  <2> QED BY <1>4, <1>5, <1>15, <2>1 DEF EnteredCall
<1>17. H.operations = [ops EXCEPT ![i] = x]
  BY <1>6, <1>15
<1>18. OperationsOK(H.operations, K, D)
  <2>1. PICK N : N = [ops EXCEPT ![i] = x]
    OBVIOUS
  <2>2. OperationsOK(N, K, D)
    BY <1>2, <1>16, <2>1, EnteredKeepsOperations
  <2> QED BY <1>17, <2>1, <2>2
<1>19. RootsOK(K)
  <2>1. RootsOK(L)
    BY DEF Calling
  <2>2. entry.call.name \in Rooted => entry.call.root \in 0 .. Size(entry.comm) - 1
    <3>1. x.name \in Rooted => x.root = entry.call.root /\ x.root \in 0 .. Size(entry.comm) - 1
      BY <1>2, <1>16, EnteredFacts
    <3>2. x.name = op.name
      BY <1>5, <1>15 DEF EnteredAs, SameOperation
    <3> QED BY <1>2, <3>1, <3>2
  <2>3. SUFFICES ASSUME NEW q \in Procs, NEW t \in DOMAIN K[q], K[q][t].call.name \in Rooted
                 PROVE  K[q][t].call.root \in 0 .. Size(K[q][t].comm) - 1
    BY DEF RootsOK
  <2>4. CASE q = p /\ t = Len(L[p]) + 1
    <3>1. K[p][Len(L[p]) + 1] = entry
      BY CallingCalls
    <3> QED BY <2>2, <2>3, <2>4, <3>1
  <2>5. CASE ~(q = p /\ t = Len(L[p]) + 1)
    <3>1. DOMAIN K[p] = DOMAIN L[p] \cup {Len(L[p]) + 1}
      BY CallingCalls
    <3>2. \A r \in Procs \ {p} : K[r] = L[r]
      BY CallingCalls
    <3>3. t \in DOMAIN L[q]
      BY <2>3, <2>5, <3>1, <3>2
    <3>4. K[q][t] = L[q][t]
      <4>1. \A r \in Procs : \A u \in DOMAIN L[r] : K[r][u] = L[r][u] /\ PositionOf(K, r, u) = PositionOf(L, r, u)
        BY CallingCalls
      <4> QED BY <3>3, <4>1
    <3> QED BY <2>1, <2>3, <3>3, <3>4 DEF RootsOK
  <2> QED BY <2>4, <2>5
<1>20. \A q \in Procs : SameWork(G.states[q], H.states[q])
  <2>1. \A q \in Procs : SameWork(G.states[q], F.states[q]) /\ SameWork(F.states[q], H.states[q])
    BY <1>9, <1>15
  <2>2. \A a, b, c : SameWork(a, b) /\ SameWork(b, c) => SameWork(a, c)
    BY DEF SameWork
  <2> QED BY <2>1, <2>2
<1>21. CalledAs(G, F, H, p, entry, id, k, ops, i, e, x)
  BY <1>2, <1>14, <1>16 DEF CalledAs
<1> QED BY <1>9, <1>13, <1>18, <1>19, <1>20, <1>21

-----------------------------------------------------------------------------
(* Requests *)

LEMMA ElementsAreFinite ==
  ASSUME NEW X, NEW s \in Seq(X)
  PROVE  IsFiniteSet(ToSet(s))
<1>1. Len(s) \in Nat /\ DOMAIN s = 1 .. Len(s)
  BY LenProperties
<1>2. IsFiniteSet(DOMAIN s)
  BY <1>1, FS_Interval
<1>3. PICK f : f = [i \in DOMAIN s |-> s[i]]
  OBVIOUS
<1>4. f \in Surjection(DOMAIN s, ToSet(s))
  BY <1>3 DEF Surjection, ToSet
<1> QED BY <1>2, <1>4, FS_Surjection

\* The smallest number that is not in a finite set.
Free(U) == CHOOSE i \in 1 .. Cardinality(U) + 1 : i \notin U /\ \A j \in 1 .. i - 1 : j \in U

LEMMA FreeNumber ==
  ASSUME NEW U, IsFiniteSet(U)
  PROVE  Free(U) \in Nat \ {0} /\ Free(U) \notin U
<1>1. PICK c \in Nat : c = Cardinality(U)
  BY FS_CardinalityType
<1>2. PICK T : T = {i \in 1 .. c + 1 : i \notin U}
  OBVIOUS
<1>3. T # {}
  <2>1. SUFFICES ASSUME \A i \in 1 .. c + 1 : i \in U PROVE FALSE
    BY <1>2
  <2>2. (1 .. c + 1) \subseteq U
    BY <2>1
  <2>3. Cardinality(1 .. c + 1) = c + 1
    BY FS_Interval
  <2>4. Cardinality(1 .. c + 1) <= Cardinality(U)
    BY <2>2, FS_Subset
  <2> QED BY <1>1, <2>3, <2>4
<1>4. PICK i \in T : \A j \in T : i <= j
  <2>1. T \in SUBSET Nat
    BY <1>2
  <2> QED BY <1>3, <2>1, SmallestNumber
<1>5. i \in 1 .. c + 1 /\ i \notin U /\ \A j \in 1 .. i - 1 : j \in U
  <2>1. ASSUME NEW j \in 1 .. i - 1, j \notin U PROVE FALSE
    <3>1. j \in T /\ j < i
      BY <1>2, <1>4, <2>1
    <3> QED BY <1>2, <1>4, <3>1
  <2> QED BY <1>2, <1>4, <2>1
<1>6. \E n \in 1 .. Cardinality(U) + 1 : n \notin U /\ \A j \in 1 .. n - 1 : j \in U
  BY <1>1, <1>5
<1>7. Free(U) \in 1 .. Cardinality(U) + 1 /\ Free(U) \notin U
  BY <1>6 DEF Free
<1> QED BY <1>1, <1>7

LEMMA RequestFields ==
  ASSUME NEW r \in Requests
  PROVE  r.id \in Nat \ {0} /\ r.comm_id \in Nat /\ r.cc_id \in Nat /\ r.serial \in Nat
BY DEF Requests

\* The requests of a process are finitely many; a new one has an id of its own.
LEMMA NewIdIsFree ==
  ASSUME NEW S \in StateRecords, IsFiniteSet(S.finished)
  PROVE  /\ NewRequestId(S) \in Nat \ {0} /\ NewRequestId(S) \notin RequestIds(S)
         /\ LiveRequests(S) \subseteq Requests /\ RequestIds(S) \subseteq Nat \ {0} /\ IsFiniteSet(RequestIds(S))
<1>1. S.active \in Seq(Requests) /\ S.finished \in SUBSET Requests
  BY StateFields
<1>2. IsFiniteSet(LiveRequests(S))
  <2>1. IsFiniteSet(ToSet(S.active))
    BY <1>1, ElementsAreFinite
  <2> QED BY <2>1, FS_Union DEF LiveRequests
<1>3. LiveRequests(S) \subseteq Requests
  <2>1. ToSet(S.active) \subseteq Requests
    BY <1>1, LenProperties DEF ToSet
  <2> QED BY <1>1, <2>1 DEF LiveRequests
<1>4. RequestIds(S) \subseteq Nat \ {0}
  BY <1>3, RequestFields DEF RequestIds
<1>5. IsFiniteSet(RequestIds(S))
  <2>1. PICK f : f = [r \in LiveRequests(S) |-> r.id]
    OBVIOUS
  <2>2. f \in Surjection(LiveRequests(S), RequestIds(S))
    BY <2>1 DEF RequestIds, Surjection
  <2> QED BY <1>2, <2>2, FS_Surjection
<1>6. NewRequestId(S) = Free(RequestIds(S))
  BY DEF NewRequestId, Free
<1> QED BY <1>3, <1>4, <1>5, <1>6, FreeNumber

\* Requests and waiting depend on the work of a process only.
LEMMA WorkFrame ==
  ASSUME NEW S, NEW T, SameWork(S, T), NEW L, NEW p, NEW C, NEW variables
  PROVE  /\ RequestsOK(S, L, p, C) => RequestsOK(T, L, p, C)
         /\ WaitOK(S, L, p, variables) => WaitOK(T, L, p, variables)
<1>1. LiveRequests(T) = LiveRequests(S) /\ RequestIds(T) = RequestIds(S)
  BY DEF SameWork, LiveRequests, RequestIds
<1>2. RequestsOK(S, L, p, C) => RequestsOK(T, L, p, C)
  BY <1>1 DEF RequestsOK, SameWork
<1>3. WaitOK(S, L, p, variables) => WaitOK(T, L, p, variables)
  BY <1>1 DEF WaitOK, SameWork
<1> QED BY <1>2, <1>3

\* Who does not call keeps requests and waits as before.
LEMMA LogFrame ==
  ASSUME NEW L, IsLog(L), NEW K, NEW p \in Procs, NEW S, NEW C, NEW variables, K[p] = L[p]
  PROVE  /\ RequestsOK(S, L, p, C) => RequestsOK(S, K, p, C)
         /\ RequestsOK(S, L, p, C) /\ WaitOK(S, L, p, variables) => WaitOK(S, K, p, variables)
<1>1. \A t : PositionOf(K, p, t) = PositionOf(L, p, t)
  BY DEF PositionOf
<1>2. \A r : RequestOK(L, p, r) => RequestOK(K, p, r)
  BY <1>1 DEF RequestOK
<1>3. RequestsOK(S, L, p, C) => RequestsOK(S, K, p, C)
  BY <1>2 DEF RequestsOK
<1>4. WaitOK(S, L, p, variables) => WaitOK(S, K, p, variables)
  BY DEF WaitOK
<1> QED BY <1>3, <1>4

\* A running process waits for nothing.
LEMMA RunningWaitsNot ==
  ASSUME NEW S \in StateRecords, NEW L, NEW p, NEW variables, WaitOK(S, L, p, variables), S.status = "running"
  PROVE  S.tested = <<>> /\ \A r \in LiveRequests(S) : ~L[p][r.serial].call.blocking
BY DEF WaitOK

\* The request of a new call.
CallRequest(L, p, id, k, r) == r \in Requests /\ r.serial = Len(L[p]) + 1 /\ r.comm_id = id /\ r.cc_id = k

LEMMA CallKeepsRequests ==
  ASSUME NEW G, NEW L, NEW D, NEW p, NEW entry, NEW K, NEW id, NEW k, Calling(G, L, D, p, entry, K, id, k),
         NEW S \in StateRecords, NEW C, RequestsOK(S, L, p, C),
         NEW r, CallRequest(L, p, id, k, r), r.id \notin RequestIds(S),
         NEW T, T.active = Append(S.active, r), T.finished = S.finished
  PROVE  /\ RequestsOK(T, K, p, C) /\ LiveRequests(T) = LiveRequests(S) \cup {r}
         /\ \A q \in LiveRequests(S) : K[p][q.serial] = L[p][q.serial]
         /\ K[p][r.serial] = entry
<1>1. /\ DOMAIN K[p] = DOMAIN L[p] \cup {Len(L[p]) + 1} /\ Len(L[p]) + 1 \notin DOMAIN L[p]
      /\ K[p][Len(L[p]) + 1] = entry /\ PositionOf(K, p, Len(L[p]) + 1) = k + 1
  BY CallingCalls
<1>2. \A t \in DOMAIN L[p] : K[p][t] = L[p][t] /\ PositionOf(K, p, t) = PositionOf(L, p, t)
  <2>1. p \in Procs
    BY CallingFacts
  <2>2. \A q \in Procs : \A t \in DOMAIN L[q] : K[q][t] = L[q][t] /\ PositionOf(K, q, t) = PositionOf(L, q, t)
    BY CallingCalls
  <2> QED BY <2>1, <2>2
<1>3. PICK n : n = Len(L[p]) + 1
  OBVIOUS
<1>4. \A q \in LiveRequests(S) : q.serial \in DOMAIN L[p] /\ q.serial # n /\ q.id # r.id /\ RequestOK(K, p, q)
  <2>1. SUFFICES ASSUME NEW q \in LiveRequests(S)
                 PROVE  q.serial \in DOMAIN L[p] /\ q.serial # n /\ q.id # r.id /\ RequestOK(K, p, q)
    OBVIOUS
  <2>2. RequestOK(L, p, q)
    BY DEF RequestsOK
  <2>3. q.id # r.id
    BY DEF RequestIds
  <2> QED BY <1>1, <1>2, <1>3, <2>2, <2>3 DEF RequestOK
<1>5. PICK m \in Nat : m = Len(S.active) /\ DOMAIN S.active = 1 .. m
  BY StateFields, LenProperties
<1>6. /\ DOMAIN T.active = 1 .. m + 1 /\ T.active[m + 1] = r
      /\ \A i \in 1 .. m : T.active[i] = S.active[i]
  <2>1. r \in Requests /\ S.active \in Seq(Requests)
    BY StateFields DEF CallRequest
  <2>2. Append(S.active, r) \in Seq(Requests) /\ Len(Append(S.active, r)) = m + 1
    BY <1>5, <2>1, AppendProperties
  <2>3. Append(S.active, r)[m + 1] = r /\ \A i \in 1 .. m : Append(S.active, r)[i] = S.active[i]
    BY <1>5, <2>1, AppendProperties
  <2> QED BY <2>2, <2>3, LenProperties
<1>7. ToSet(T.active) = ToSet(S.active) \cup {r}
  <2>1. ASSUME NEW q \in ToSet(T.active) PROVE q \in ToSet(S.active) \cup {r}
    <3>1. PICK i \in 1 .. m + 1 : q = T.active[i]
      BY <1>6, <2>1 DEF ToSet
    <3> QED BY <1>5, <1>6, <3>1 DEF ToSet
  <2>2. ASSUME NEW q \in ToSet(S.active) PROVE q \in ToSet(T.active)
    <3>1. PICK i \in 1 .. m : q = S.active[i]
      BY <1>5, <2>2 DEF ToSet
    <3>2. i \in 1 .. m + 1
      OBVIOUS
    <3> QED BY <1>6, <3>1, <3>2 DEF ToSet
  <2>3. r \in ToSet(T.active)
    <3>1. m + 1 \in 1 .. m + 1
      OBVIOUS
    <3> QED BY <1>6, <3>1 DEF ToSet
  <2> QED BY <2>1, <2>2, <2>3
<1>8. LiveRequests(T) = LiveRequests(S) \cup {r}
  BY <1>7 DEF LiveRequests
<1>9. r.serial = n /\ RequestOK(K, p, r)
  <2>1. entry.comm.comm_id = id
    BY CallingFacts
  <2> QED BY <1>1, <1>3, <2>1 DEF RequestOK, CallRequest
<1>10. r \notin LiveRequests(S)
  BY <1>4
<1>11. ASSUME NEW i \in DOMAIN T.active, NEW j \in DOMAIN T.active,
              T.active[i].id = T.active[j].id \/ T.active[i].serial = T.active[j].serial
       PROVE  i = j
  <2>1. \A l \in 1 .. m : S.active[l] \in LiveRequests(S)
    BY <1>5 DEF LiveRequests, ToSet
  <2>2. CASE i \in 1 .. m /\ j \in 1 .. m
    BY <1>5, <1>6, <1>11, <2>2 DEF RequestsOK
  <2>3. CASE i = m + 1 /\ j \in 1 .. m
    BY <1>4, <1>6, <1>9, <1>11, <2>1, <2>3
  <2>4. CASE i \in 1 .. m /\ j = m + 1
    BY <1>4, <1>6, <1>9, <1>11, <2>1, <2>4
  <2> QED BY <1>6, <1>11, <2>2, <2>3, <2>4
<1>12. ASSUME NEW u \in T.finished, NEW q \in LiveRequests(T), u.id = q.id \/ u.serial = q.serial
       PROVE  u = q
  <2>1. u \in LiveRequests(S)
    BY <1>12 DEF LiveRequests
  <2>2. CASE q = r
    BY <1>4, <1>9, <1>12, <2>1, <2>2
  <2>3. CASE q # r
    BY <1>8, <1>12, <2>3 DEF RequestsOK
  <2> QED BY <2>2, <2>3
<1>13. ToSet(T.active) \cap T.finished = {}
  BY <1>7, <1>10 DEF RequestsOK, LiveRequests
<1>14. C \subseteq DOMAIN K[p] /\ \A q \in LiveRequests(T) : q.serial \notin C
  <2>1. C \subseteq DOMAIN L[p] /\ \A q \in LiveRequests(S) : q.serial \notin C
    BY DEF RequestsOK
  <2>2. n \notin C
    BY <1>1, <1>3, <2>1
  <2> QED BY <1>1, <1>8, <1>9, <2>1, <2>2
<1>15. \A t \in DOMAIN K[p] \ C : \E q \in LiveRequests(T) : q.serial = t
  <2>1. \A t \in DOMAIN L[p] \ C : \E q \in LiveRequests(S) : q.serial = t
    BY DEF RequestsOK
  <2> QED BY <1>1, <1>3, <1>8, <1>9, <2>1
<1>16. IsFiniteSet(T.finished)
  BY DEF RequestsOK
<1>17. RequestsOK(T, K, p, C)
  BY <1>4, <1>8, <1>9, <1>11, <1>12, <1>13, <1>14, <1>15, <1>16 DEF RequestsOK
<1> QED BY <1>1, <1>2, <1>3, <1>4, <1>8, <1>9, <1>17

\* A blocking call waits for its request.
LEMMA BlockingCallWaits ==
  ASSUME NEW S \in StateRecords, NEW L, NEW K, NEW p, NEW variables, WaitOK(S, L, p, variables),
         S.status = "running", IsFiniteSet(S.finished), NEW r \in Requests, r.id \notin RequestIds(S),
         \A q \in LiveRequests(S) : K[p][q.serial] = L[p][q.serial],
         NEW T, LiveRequests(T) = LiveRequests(S) \cup {r},
         T.status = "wait", T.tested = <<r.id>>, T.pointer = <<>>
  PROVE  WaitOK(T, K, p, variables)
<1>1. RequestIds(T) = RequestIds(S) \cup {r.id}
  BY DEF RequestIds
<1>2. PICK n \in Nat \ {0} : n = r.id
  BY RequestFields
<1>3. DOMAIN T.tested = {1} /\ T.tested[1] = n /\ ToSet(T.tested) = {n}
  BY <1>2 DEF ToSet
<1>4. \A v \in 1 .. RequestVars : variables[v] \in RequestIds(S) \cup {RequestNull}
  BY DEF WaitOK
<1>5. \A v \in 1 .. RequestVars : variables[v] # n
  BY <1>2, <1>4 DEF RequestNull
<1>6. \A q \in LiveRequests(S) : ~K[p][q.serial].call.blocking
  BY RunningWaitsNot
<1>7. \A v \in 1 .. RequestVars, w \in 1 .. RequestVars :
        variables[v] = variables[w] => v = w \/ variables[v] = RequestNull
  BY DEF WaitOK
<1> QED BY <1>1, <1>2, <1>3, <1>4, <1>5, <1>6, <1>7 DEF WaitOK

\* The request of a non-blocking call goes to a variable.
LEMMA RequestIsGiven ==
  ASSUME NEW S \in StateRecords, NEW L, NEW K, NEW p,
         NEW variables \in [1 .. RequestVars -> Nat], WaitOK(S, L, p, variables),
         S.status = "running", IsFiniteSet(S.finished), NEW r \in Requests, r.id \notin RequestIds(S),
         \A q \in LiveRequests(S) : K[p][q.serial] = L[p][q.serial], ~K[p][r.serial].call.blocking,
         NEW T, LiveRequests(T) = LiveRequests(S) \cup {r},
         T.status = "running", T.tested = S.tested, T.pointer = S.pointer,
         NEW x
  PROVE  WaitOK(T, K, p, [variables EXCEPT ![x] = r.id])
<1>1. RequestIds(T) = RequestIds(S) \cup {r.id}
  BY DEF RequestIds
<1>2. PICK n \in Nat \ {0} : n = r.id
  BY RequestFields
<1>3. PICK f : f = [variables EXCEPT ![x] = n]
  OBVIOUS
<1>4. \A v \in 1 .. RequestVars : f[v] = IF v = x THEN n ELSE variables[v]
  BY <1>3
<1>5. \A v \in 1 .. RequestVars : variables[v] \in RequestIds(S) \cup {RequestNull} /\ variables[v] # n
  <2>1. \A v \in 1 .. RequestVars : variables[v] \in RequestIds(S) \cup {RequestNull}
    BY DEF WaitOK
  <2> QED BY <1>2, <2>1 DEF RequestNull
<1>6. T.tested = <<>> /\ \A q \in LiveRequests(S) : ~K[p][q.serial].call.blocking
  BY RunningWaitsNot
<1>7. \A v \in 1 .. RequestVars, w \in 1 .. RequestVars :
        variables[v] = variables[w] => v = w \/ variables[v] = RequestNull
  BY DEF WaitOK
<1>8. \A v \in 1 .. RequestVars, w \in 1 .. RequestVars : f[v] = f[w] => v = w \/ f[v] = RequestNull
  BY <1>4, <1>5, <1>7
<1>9. \A v \in 1 .. RequestVars : f[v] \in RequestIds(T) \cup {RequestNull}
  BY <1>1, <1>2, <1>4, <1>5
<1>10. DOMAIN T.tested = {}
  BY <1>6
<1>11. \A q \in LiveRequests(T) : ~K[p][q.serial].call.blocking
  BY <1>6
<1>12. WaitOK(T, K, p, f)
  BY <1>6, <1>8, <1>9, <1>10, <1>11 DEF WaitOK
<1> QED BY <1>2, <1>3, <1>12

-----------------------------------------------------------------------------
(* Refusals are errors *)

LEMMA RootRefusals ==
  ASSUME NEW op, ~Refused(op), NEW e, NEW x, x = CheckRoot(op, e), Refused(x)
  PROVE  x.refused # "none"
BY DEF CheckRoot, Refuse, Refused

LEMMA CollectRefusals ==
  ASSUME NEW op, ~Refused(op), NEW e, NEW x, x \in {EnterGatherv(op, e), EnterGather(op, e)}, Refused(x)
  PROVE  x.refused # "none"
<1>1. PICK y : y = CheckRoot(op, e)
  OBVIOUS
<1>2. CASE Refused(y)
  <2>1. x = y
    BY <1>1, <1>2 DEF EnterGatherv, EnterGather
  <2> QED BY <1>1, <1>2, <2>1, RootRefusals
<1>3. CASE ~Refused(y)
  <2>1. \/ x = Refuse("InvalidInPlace") \/ x = PutIn(y, e)
        \/ x = [PutIn(y, e) EXCEPT !.recvbuf = e.call.recvbuf]
        \/ x = [y EXCEPT !.recvbuf = e.call.recvbuf]
    BY <1>1, <1>3 DEF EnterGatherv, EnterGather
  <2>2. /\ ~Refused(PutIn(y, e)) /\ ~Refused([PutIn(y, e) EXCEPT !.recvbuf = e.call.recvbuf])
        /\ ~Refused([y EXCEPT !.recvbuf = e.call.recvbuf])
    BY <1>3 DEF PutIn, Refused
  <2> QED BY <2>1, <2>2 DEF Refuse
<1> QED BY <1>2, <1>3

LEMMA SpreadRefusals ==
  ASSUME NEW op, ~Refused(op), NEW e,
         NEW x, x \in {EnterScatterv(op, e), EnterScatter(op, e), EnterBcast(op, e)}, Refused(x)
  PROVE  x.refused # "none"
<1>1. PICK y : y = CheckRoot(op, e)
  OBVIOUS
<1>2. CASE Refused(y)
  <2>1. x = y
    BY <1>1, <1>2 DEF EnterScatterv, EnterScatter, EnterBcast
  <2> QED BY <1>1, <1>2, <2>1, RootRefusals
<1>3. CASE ~Refused(y)
  <2>1. \/ x = Refuse("InvalidInPlace") \/ x = PutIn(y, e) \/ x = Receiving(y, e) \/ x = PutIn(Receiving(y, e), e)
    BY <1>1, <1>3 DEF EnterScatterv, EnterScatter, EnterBcast
  <2>2. ~Refused(PutIn(y, e)) /\ ~Refused(Receiving(y, e)) /\ ~Refused(PutIn(Receiving(y, e), e))
    BY <1>3 DEF PutIn, Receiving, Refused
  <2> QED BY <2>1, <2>2 DEF Refuse
<1> QED BY <1>2, <1>3

LEMMA ReduceRefusals ==
  ASSUME NEW op, ~Refused(op), NEW e, NEW x, x = EnterReduce(op, e), Refused(x)
  PROVE  x.refused # "none"
<1>1. PICK z : z = IF op.op = None THEN [op EXCEPT !.op = e.call.fn, !.count = e.call.count] ELSE op
  OBVIOUS
<1>2. ~Refused(z)
  BY <1>1 DEF Refused
<1>3. PICK y : y = CheckRoot(z, e)
  OBVIOUS
<1>4. CASE Refused(y)
  <2>1. x = y \/ x = Refuse("InvalidRank") \/ x = Refuse("AssertionError")
    BY <1>1, <1>3, <1>4 DEF EnterReduce
  <2>2. y.refused # "none"
    BY <1>2, <1>3, <1>4, RootRefusals
  <2> QED BY <2>1, <2>2 DEF Refuse
<1>5. CASE ~Refused(y)
  <2>1. \/ x = [PutIn(y, e) EXCEPT !.recvbuf = e.call.recvbuf]
        \/ x = Refuse("InvalidRank") \/ x = Refuse("AssertionError")
    BY <1>1, <1>3, <1>5 DEF EnterReduce
  <2>2. ~Refused([PutIn(y, e) EXCEPT !.recvbuf = e.call.recvbuf])
    BY <1>5 DEF PutIn, Refused
  <2> QED BY <2>1, <2>2 DEF Refuse
<1> QED BY <1>4, <1>5

LEMMA AllRefusals ==
  ASSUME NEW op, ~Refused(op), NEW e,
         NEW x, x \in {EnterAllgather(op, e), EnterAllgatherv(op, e), EnterAllReduce(op, e), EnterReduceScatter(op, e)},
         Refused(x)
  PROVE  x.refused # "none"
<1>1. ASSUME NEW y, ~Refused(y) PROVE ~Refused(PutIn(y, e)) /\ ~Refused(Receiving(y, e))
  BY <1>1 DEF PutIn, Receiving, Refused
<1>2. CASE x \in {EnterAllgather(op, e), EnterAllgatherv(op, e)}
  BY <1>1, <1>2 DEF EnterAllgather, EnterAllgatherv
<1>3. CASE x = EnterAllReduce(op, e)
  <2>1. PICK y : y = IF op.op = None THEN [op EXCEPT !.op = e.call.fn, !.count = e.call.count] ELSE op
    OBVIOUS
  <2>2. ~Refused(y)
    BY <2>1 DEF Refused
  <2>3. x = Refuse("AssertionError") \/ x = PutIn(Receiving(y, e), e)
    BY <1>3, <2>1 DEF EnterAllReduce
  <2> QED BY <1>1, <2>2, <2>3 DEF Refuse
<1>4. CASE x = EnterReduceScatter(op, e)
  <2>1. PICK y : y = IF op.count = None THEN [op EXCEPT !.op = e.call.fn, !.count = e.call.count] ELSE op
    OBVIOUS
  <2>2. ~Refused(y)
    BY <2>1 DEF Refused
  <2>3. PICK z : z = PutIn(Receiving(y, e), e)
    OBVIOUS
  <2>4. ~Refused(z) /\ ~Refused([z EXCEPT !.final = z.buffers, !.buffers = <<>>])
    <3>1. ~Refused(z)
      BY <1>1, <2>2, <2>3
    <3> QED BY <3>1 DEF Refused
  <2>5. x = Refuse("CountMismatch") \/ x = z \/ x = [z EXCEPT !.final = z.buffers, !.buffers = <<>>]
    BY <1>4, <2>1, <2>3 DEF EnterReduceScatter
  <2> QED BY <2>4, <2>5 DEF Refuse
<1> QED BY <1>2, <1>3, <1>4

LEMMA BufferRefusals ==
  ASSUME NEW op, op.name \in BlockingClasses \ OnComms, ~Refused(op), NEW e,
         NEW x, x = EnterWithBuffers(op, e), Refused(x)
  PROVE  x.refused # "none"
<1>1. \/ x = op
      \/ x \in {EnterGatherv(op, e), EnterGather(op, e)}
      \/ x \in {EnterScatterv(op, e), EnterScatter(op, e), EnterBcast(op, e)}
      \/ x = EnterReduce(op, e)
      \/ x \in {EnterAllgather(op, e), EnterAllgatherv(op, e), EnterAllReduce(op, e), EnterReduceScatter(op, e)}
  BY DEF EnterWithBuffers, BlockingClasses, OnComms
<1> QED BY <1>1, CollectRefusals, SpreadRefusals, ReduceRefusals, AllRefusals

LEMMA MainRefusals ==
  ASSUME NEW G, NEW L, IsLog(L), CommunicatorsOK(G, L), NEW i,
         NEW op, op = G.operations[i], NEW e, MayEnter(op, e),
         NEW H, H = EnterMain(G, i, e), Refused(H)
  PROVE  H.refused # "none"
<1>1. G \in GlobalStates /\ op \in OperationRecords /\ ~Refused(op) /\ op.name \in BlockingClasses
  <2>1. op \in OperationRecords
    BY DEF MayEnter, Enters
  <2> QED BY <2>1, NotRefused, OperationFields DEF CommunicatorsOK
<1>2. DOMAIN G = {"states", "operations", "comm_id_counter"}
  BY <1>1 DEF GlobalStates
<1>3. \A E : DOMAIN E = DOMAIN G => ~Refused(E)
  BY <1>2 DEF Refused
<1>4. CASE op.name = "comm_split"
  <2>1. PICK x : x = PutIn(Receiving(op, e), e)
    OBVIOUS
  <2>2. PICK split : split = SplitCommunicator(G, e.comm, x.buffers)
    OBVIOUS
  <2>3. H = EnterCommSplit(G, i, e)
    BY <1>4 DEF EnterMain
  <2>4. \/ H = Refuse("InvalidColor")
        \/ x.remaining_enter = 0 /\ H = [split.G EXCEPT !.operations[i] = [x EXCEPT !.final = split.ids, !.buffers = <<>>]]
        \/ H = [G EXCEPT !.operations[i] = x]
    BY <2>1, <2>2, <2>3 DEF EnterCommSplit
  <2>5. x.remaining_enter = 0 => DOMAIN split.G = DOMAIN G
    <3>1. SUFFICES ASSUME x.remaining_enter = 0 PROVE DOMAIN split.G = DOMAIN G
      OBVIOUS
    <3>2. e.data \in Data /\ e.call.recvbuf \in Nat /\ e.comm \in Comms
      BY CallFields DEF MayEnter, Enters
    <3>3. SameOperation(op, x) /\ x.buffers = [op.buffers EXCEPT ![e.rank + 1] = e.data]
      BY <1>1, <2>1, <3>2, PuttingAndReceiving
    <3>4. op.remaining_enter = 0
      BY <3>1, <3>3 DEF SameOperation
    <3>5. IsColors(e.comm, [op.buffers EXCEPT ![e.rank + 1] = e.data])
      BY <1>4, <3>4 DEF MayEnter
    <3>6. PICK b : b = x.buffers /\ IsColors(e.comm, b)
      BY <3>3, <3>5
    <3>7. PICK c : c = e.comm /\ c \in Comms
      BY <3>2
    <3>8. IsColors(c, b)
      BY <3>6, <3>7
    <3>9. SplitOK(G, L, b, SplitCommunicator(G, c, b))
      BY <3>7, <3>8, SplittingComm
    <3>10. SplitOK(G, L, b, split)
      BY <2>2, <3>6, <3>7, <3>9
    <3>11. split.G \in GlobalStates
      BY <3>10 DEF SplitOK, CommunicatorsOK
    <3> QED BY <1>2, <3>11 DEF GlobalStates
  <2>6. x.remaining_enter = 0 => ~Refused([split.G EXCEPT !.operations[i] = [x EXCEPT !.final = split.ids, !.buffers = <<>>]])
    BY <1>3, <2>5
  <2>7. ~Refused([G EXCEPT !.operations[i] = x])
    BY <1>3
  <2> QED BY <2>4, <2>6, <2>7 DEF Refuse
<1>5. CASE op.name \in {"comm_dup", "comm_create"}
  <2>1. \A group : DOMAIN CreateCommunicator(G, group) = DOMAIN G
    BY DEF CreateCommunicator
  <2>2. CASE op.name = "comm_dup"
    <3>1. H = EnterCommDup(G, i, e)
      BY <2>2 DEF EnterMain
    <3>2. DOMAIN H = DOMAIN G
      BY <2>1, <3>1 DEF EnterCommDup
    <3> QED BY <1>3, <3>2
  <2>3. CASE op.name = "comm_create"
    <3>1. H = EnterCommCreate(G, i, e)
      BY <2>3 DEF EnterMain
    <3>2. H = Refuse("GroupMismatch") \/ DOMAIN H = DOMAIN G
      BY <2>1, <3>1 DEF EnterCommCreate
    <3> QED BY <1>3, <3>2 DEF Refuse
  <2> QED BY <1>5, <2>2, <2>3
<1>6. CASE op.name \notin OnComms
  <2>1. PICK x : x = EnterWithBuffers(op, e)
    OBVIOUS
  <2>2. H = IF Refused(x) THEN x ELSE [G EXCEPT !.operations[i] = x]
    BY <1>6, <2>1 DEF EnterMain, OnComms
  <2>3. ~Refused([G EXCEPT !.operations[i] = x])
    BY <1>3
  <2>4. H = x /\ Refused(x)
    BY <2>2, <2>3
  <2> QED BY <1>1, <1>6, <2>1, <2>4, BufferRefusals
<1> QED BY <1>4, <1>5, <1>6 DEF OnComms

-----------------------------------------------------------------------------
(* The handler of collective calls *)

World(G, M, err, L) == [gstate |-> G, memory |-> M, error |-> err, log |-> L]

LEMMA WorldFields ==
  ASSUME NEW G, NEW M, NEW err, NEW L, NEW w, w = World(G, M, err, L)
  PROVE  /\ w.gstate = G /\ w.memory = M /\ w.error = err /\ w.log = L
         /\ \A f : Fail(w, f).error = f
BY DEF World, Fail

LEMMA GlobalOfWorld ==
  ASSUME NEW G, NEW M, NEW err, NEW L, NEW H
  PROVE  [World(G, M, err, L) EXCEPT !.gstate = H] = World(H, M, err, L)
BY DEF World

LEMMA MemoryOfWorld ==
  ASSUME NEW G, NEW M, NEW err, NEW L, NEW N
  PROVE  [World(G, M, err, L) EXCEPT !.memory = N] = World(G, N, err, L)
BY DEF World

LEMMA LogOfWorld ==
  ASSUME NEW G, NEW M, NEW err, NEW L, NEW K
  PROVE  [World(G, M, err, L) EXCEPT !.log = K] = World(G, M, err, K)
BY DEF World

LEMMA BothOfWorld ==
  ASSUME NEW G, NEW M, NEW err, NEW L, NEW H, NEW N
  PROVE  [World(G, M, err, L) EXCEPT !.gstate = H, !.memory = N] = World(H, N, err, L)
<1>1. [World(G, M, err, L) EXCEPT !.gstate = H] = World(H, M, err, L)
  BY GlobalOfWorld
<1>2. [World(H, M, err, L) EXCEPT !.memory = N] = World(H, N, err, L)
  BY MemoryOfWorld
<1> QED BY <1>1, <1>2

\* The group of a call of MPI_Comm_create.
AgreesOnGroup(entry, group) ==
  /\ group \in Groups \cup {None}
  /\ entry.call.name = "comm_create" => group \in Groups

LEMMA CallingRefusals ==
  ASSUME NEW G, NEW L, NEW D, NEW p, NEW entry, NEW K, NEW id, NEW k, Calling(G, L, D, p, entry, K, id, k),
         NEW ops, NEW i, Opens(G, entry, id, k, ops, i),
         ops[i].name = entry.call.name, ops[i].blocking = entry.call.blocking,
         NEW e, Entering(p, entry, e),
         NEW F, F = Counted(G, p, entry.comm, ops, i),
         NEW H, H = EnterMain(F, i, e), Refused(H)
  PROVE  H.refused # "none"
<1>1. IsLog(K)
  BY CallingFacts
<1>2. CallReady(G, F, K, ops, i, e)
  BY CountedIn
<1>3. PICK y : y = Decremented(ops[i]) /\ y = F.operations[i] /\ MayEnter(y, e)
  BY <1>2 DEF CallReady
<1>4. CommunicatorsOK(F, K)
  BY <1>2 DEF CallReady
<1> QED BY <1>1, <1>3, <1>4, MainRefusals

\* What such a call does, when no error is thrown.
CollectiveDone(G, D, M, p, entry, K, id, k, u) ==
  \E F, H, ops, i, e, x :
    /\ u = World(H, M, "none", K)
    /\ CommunicatorsOK(F, K) /\ CommunicatorsOK(H, K) /\ RootsOK(K) /\ OperationsOK(H.operations, K, D)
    /\ \A q \in Procs : SameWork(G.states[q], H.states[q])
    /\ CalledAs(G, F, H, p, entry, id, k, ops, i, e, x)

LEMMA CallingCollective ==
  ASSUME NEW G, NEW L, NEW D, NEW p, NEW entry, NEW K, NEW id, NEW k, Calling(G, L, D, p, entry, K, id, k),
         NEW M, NEW group, AgreesOnGroup(entry, group),
         NEW u, u = CallCollectiveOperation(World(G, M, "none", K), p, entry.comm, entry.call, group),
         u.error = "none"
  PROVE  CollectiveDone(G, D, M, p, entry, K, id, k, u)
<1>1. PICK w, c, call : w = World(G, M, "none", K) /\ c = entry.comm /\ call = entry.call
  OBVIOUS
<1>2. w.gstate = G /\ w.memory = M /\ w.log = K /\ \A f : Fail(w, f).error = f
  BY <1>1, WorldFields
<1>3. /\ p \in Procs /\ k \in Nat /\ IsLog(K) /\ G \in GlobalStates /\ entry.comm.comm_id = id
      /\ IsCollectiveCall(entry.call)
  BY CallingFacts
<1>4. GetCounter(G.states[p], c) = k
  <2>1. /\ IsLog(L) /\ G \in GlobalStates /\ CommsOK(G, L) /\ CountersOK(G, L) /\ Finds(G, p, id, c)
        /\ k = Cardinality(CallsOn(L, p, id))
    BY <1>1 DEF Calling, CommunicatorsOK
  <2>2. PICK x : x = CounterIndex(G.states[p], c)
    OBVIOUS
  <2>3. G.states[p].counters[x] = Cardinality(CallsOn(L, p, id))
    BY <1>3, <2>1, <2>2, CounterOfComm
  <2> QED BY <2>1, <2>2, <2>3 DEF GetCounter
<1>5. PICK found : found = OperationIndex(G, id, k)
  OBVIOUS
<1>6. PICK ops : ops = IF found = 0 \/ id = CommSelf
                       THEN Append(G.operations, NewOperation(c, k, call)) ELSE G.operations
  OBVIOUS
<1>7. PICK i : i = IF found = 0 \/ id = CommSelf THEN Len(ops) ELSE found
  OBVIOUS
<1>8. Opens(G, entry, id, k, ops, i)
  BY <1>1, <1>5, <1>6, <1>7, OpeningOperation
<1>9. PICK data : data = IF call.name = "comm_split" THEN <<call.color, call.key>> ELSE <<p, Len(K[p])>>
  OBVIOUS
<1>10. PICK e : e = [pid |-> p, rank |-> PidToRank(c, p), comm |-> c, call |-> call, data |-> data, group |-> group]
  OBVIOUS
<1>11. Entering(p, entry, e)
  <2>1. data \in Data
    <3>1. call.color \in Int /\ call.key \in Int
      BY <1>1, <1>3, CallFields
    <3>2. Len(K[p]) \in Int /\ p \in Int
      BY <1>3, LogDomain DEF Procs
    <3> QED BY <1>9, <3>1, <3>2 DEF Data
  <2> QED BY <1>1, <1>10, <2>1 DEF Entering, AgreesOnGroup
<1>12. PICK E : E = CountedCall(G, p, c, ops)
  OBVIOUS
<1>13. [w.gstate EXCEPT !.operations = ops, !.states[p] = IncCounter(w.gstate.states[p], c)] = E
  BY <1>2, <1>12 DEF CountedCall, Replaced
<1>14. PICK F : F = CountedCall(G, p, c, [ops EXCEPT ![i] = Decremented(ops[i])])
  OBVIOUS
<1>15. CountDown(E, i) = F
  BY <1>3, <1>12, <1>14, CountingCall
<1>16. PICK H : H = EnterMain(F, i, e)
  OBVIOUS
<1>17. Enter(E, i, e) = H
  BY <1>15, <1>16 DEF Enter, CountDown
<1>18. u = IF Incompatible(ops[i], call) # "none" THEN Fail(w, Incompatible(ops[i], call))
           ELSE IF Refused(H) THEN Fail(w, H.refused) ELSE [w EXCEPT !.gstate = H]
  <2>1. u = CallCollectiveOperation(w, p, c, call, group)
    BY <1>1
  <2>2. c.comm_id = id
    BY <1>1, <1>3
  <2>3. /\ OperationIndex(w.gstate, c.comm_id, GetCounter(w.gstate.states[p], c)) = found
        /\ GetCounter(w.gstate.states[p], c) = k
    BY <1>2, <1>4, <1>5, <2>2
  <2> QED BY <1>2, <1>6, <1>7, <1>9, <1>10, <1>13, <1>17, <2>1, <2>2, <2>3 DEF CallCollectiveOperation
<1>19. Incompatible(ops[i], call) = "none"
  BY <1>2, <1>18
<1>20. ops[i].name = entry.call.name /\ ops[i].blocking = entry.call.blocking
  BY <1>1, <1>19 DEF Incompatible
<1>23. F = Counted(G, p, entry.comm, ops, i)
  BY <1>1, <1>14 DEF Counted
<1>21. ~Refused(H)
  <2>1. SUFFICES ASSUME Refused(H) PROVE FALSE
    OBVIOUS
  <2>2. H.refused = "none"
    BY <1>2, <1>18, <1>19, <2>1
  <2>3. H.refused # "none"
    BY <1>1, <1>8, <1>11, <1>16, <1>20, <1>23, <2>1, CallingRefusals
  <2> QED BY <2>2, <2>3
<1>22. u = World(H, M, "none", K)
  <2>1. u = [w EXCEPT !.gstate = H]
    BY <1>18, <1>19, <1>21
  <2> QED BY <1>1, <2>1, GlobalOfWorld
<1>24. /\ CommunicatorsOK(F, K) /\ CommunicatorsOK(H, K) /\ RootsOK(K) /\ OperationsOK(H.operations, K, D)
       /\ \A q \in Procs : SameWork(G.states[q], H.states[q])
       /\ \E x : CalledAs(G, F, H, p, entry, id, k, ops, i, e, x)
  BY <1>8, <1>11, <1>16, <1>20, <1>21, <1>23, CallingOperation
<1> QED BY <1>22, <1>24 DEF CollectiveDone

LEMMA StateReplaced ==
  ASSUME NEW G \in GlobalStates, NEW p, NEW T
  PROVE  [G EXCEPT !.states[p] = T] = Replaced(G, p, T, G.operations)
<1>1. PICK s, o, n : G = [states |-> s, operations |-> o, comm_id_counter |-> n]
  BY GlobalFields
<1>2. PICK H : H = [G EXCEPT !.states[p] = T]
  OBVIOUS
<1>3. H = [states |-> [s EXCEPT ![p] = T], operations |-> o, comm_id_counter |-> n]
  BY <1>1, <1>2
<1>4. G.operations = o
  BY <1>1
<1>5. Replaced(G, p, T, o) = [states |-> [s EXCEPT ![p] = T], operations |-> o, comm_id_counter |-> n]
  BY <1>1, GlobalRecords
<1> QED BY <1>2, <1>3, <1>4, <1>5

\* The memory of p is replaced.
MemoryRecord(f, c, g, r) == [requests |-> f, comms |-> c, groups |-> g, results |-> r]

LEMMA MemoryFields ==
  ASSUME NEW M, IsMemory(M), NEW p \in Procs
  PROVE  /\ DOMAIN M = Procs /\ M[p].requests \in [1 .. RequestVars -> Nat]
         /\ M[p] = MemoryRecord(M[p].requests, M[p].comms, M[p].groups, M[p].results)
         /\ ClosedOf(M)[p] = {r.serial : r \in M[p].results}
BY DEF IsMemory, MemoryRecord, ClosedOf

MemoryChanged(M, N, p, f, c, g, r) ==
  /\ IsMemory(N) /\ N[p].requests = f /\ N[p].comms = c /\ N[p].groups = g /\ N[p].results = r
  /\ \A q \in Procs \ {p} : N[q] = M[q]
  /\ ClosedOf(N) = [ClosedOf(M) EXCEPT ![p] = {u.serial : u \in r}]

LEMMA MemoryReplaced ==
  ASSUME NEW M, IsMemory(M), NEW p \in Procs,
         NEW f \in [1 .. RequestVars -> Nat], NEW c, NEW g, NEW r,
         NEW N, N = [M EXCEPT ![p] = MemoryRecord(f, c, g, r)]
  PROVE  MemoryChanged(M, N, p, f, c, g, r)
<1>1. DOMAIN N = Procs /\ N[p] = MemoryRecord(f, c, g, r) /\ \A q \in Procs \ {p} : N[q] = M[q]
  BY DEF IsMemory
<1>2. /\ N[p].requests = f /\ N[p].comms = c /\ N[p].groups = g /\ N[p].results = r
      /\ N[p] = MemoryRecord(N[p].requests, N[p].comms, N[p].groups, N[p].results)
  BY <1>1 DEF MemoryRecord
<1>3. \A q \in Procs : /\ N[q] = MemoryRecord(N[q].requests, N[q].comms, N[q].groups, N[q].results)
                       /\ N[q].requests \in [1 .. RequestVars -> Nat]
  <2>1. ASSUME NEW q \in Procs \ {p}
        PROVE  /\ M[q] = MemoryRecord(M[q].requests, M[q].comms, M[q].groups, M[q].results)
               /\ M[q].requests \in [1 .. RequestVars -> Nat]
    BY MemoryFields
  <2> QED BY <1>1, <1>2, <2>1
<1>4. N = [q \in Procs |-> N[q]]
  <2>1. M = [q \in Procs |-> M[q]]
    BY DEF IsMemory
  <2> QED BY <2>1
<1>5. N = [q \in Procs |-> MemoryRecord(N[q].requests, N[q].comms, N[q].groups, N[q].results)]
  BY <1>3, <1>4
<1>6. IsMemory(N)
  BY <1>3, <1>5 DEF IsMemory, MemoryRecord
<1>7. ClosedOf(N) = [ClosedOf(M) EXCEPT ![p] = {u.serial : u \in r}]
  BY <1>1, <1>2 DEF ClosedOf
<1> QED BY <1>1, <1>2, <1>6, <1>7 DEF MemoryChanged

\* A request variable of p is given.
GivenRequest(M, p, x, n) == [M EXCEPT ![p].requests[x] = n]

RequestGiven(M, N, p, x, n) ==
  /\ IsMemory(N) /\ N[p].requests = [M[p].requests EXCEPT ![x] = n] /\ ClosedOf(N) = ClosedOf(M)
  /\ N[p].comms = M[p].comms /\ N[p].groups = M[p].groups /\ N[p].results = M[p].results
  /\ \A q \in Procs \ {p} : N[q] = M[q]

LEMMA GivingRequest ==
  ASSUME NEW M, IsMemory(M), NEW p \in Procs, NEW x, NEW n \in Nat, NEW N, N = GivenRequest(M, p, x, n)
  PROVE  RequestGiven(M, N, p, x, n)
<1>1. PICK f, c, g, r : f = M[p].requests /\ c = M[p].comms /\ g = M[p].groups /\ r = M[p].results
                        /\ f \in [1 .. RequestVars -> Nat] /\ M[p] = MemoryRecord(f, c, g, r)
  BY MemoryFields
<1>2. PICK h : h = [f EXCEPT ![x] = n]
  OBVIOUS
<1>a. h \in [1 .. RequestVars -> Nat]
  <2>1. f \in [1 .. RequestVars -> Nat]
    BY <1>1
  <2>2. \A v \in 1 .. RequestVars : h[v] \in Nat
    <3> TAKE v \in 1 .. RequestVars
    <3>1. CASE v = x
      BY <1>2, <2>1, <3>1
    <3>2. CASE v # x
      BY <1>2, <2>1, <3>2
    <3> QED BY <3>1, <3>2
  <2>3. DOMAIN h = 1 .. RequestVars /\ h = [v \in DOMAIN h |-> h[v]]
    BY <1>2, <2>1
  <2> QED BY <2>2, <2>3
<1>3. [M[p] EXCEPT !.requests[x] = n] = MemoryRecord(h, c, g, r)
  BY <1>1, <1>2 DEF MemoryRecord
<1>4. N = [M EXCEPT ![p] = MemoryRecord(h, c, g, r)]
  BY <1>3 DEF GivenRequest
<1>5. PICK E : E = [M EXCEPT ![p] = MemoryRecord(h, c, g, r)]
  OBVIOUS
<1>b. MemoryChanged(M, E, p, h, c, g, r)
  BY <1>a, <1>5, MemoryReplaced
<1>6. /\ IsMemory(E) /\ E[p].requests = h /\ E[p].comms = c /\ E[p].groups = g /\ E[p].results = r
      /\ \A q \in Procs \ {p} : E[q] = M[q]
      /\ ClosedOf(E) = [ClosedOf(M) EXCEPT ![p] = {u.serial : u \in r}]
  BY <1>b DEF MemoryChanged
<1>7. ClosedOf(E) = ClosedOf(M)
  <2>1. ClosedOf(M)[p] = {u.serial : u \in r}
    BY <1>1 DEF ClosedOf
  <2> QED BY <1>6, <2>1 DEF ClosedOf
<1> QED BY <1>1, <1>2, <1>4, <1>5, <1>6, <1>7 DEF RequestGiven

\* The state of a process after its request was made.
Posted(S, r, blocking) ==
  LET T == [S EXCEPT !.active = Append(@, r)] IN IF blocking THEN SetWait(T, <<r.id>>) ELSE T

LEMMA Posting ==
  ASSUME NEW S \in StateRecords, NEW r \in Requests, NEW blocking \in BOOLEAN, NEW T, T = Posted(S, r, blocking)
  PROVE  /\ T \in StateRecords /\ T.active = Append(S.active, r) /\ T.finished = S.finished
         /\ SameComms(S, T) /\ SameAttributes(S, T) /\ T.groups = S.groups
         /\ IF blocking THEN T.status = "wait" /\ T.tested = <<r.id>> /\ T.pointer = <<>>
            ELSE T.status = S.status /\ T.tested = S.tested /\ T.pointer = S.pointer
<1>1. /\ S.comms \in Seq(Comms) /\ S.counters \in Seq(Nat) /\ S.groups \in GroupTables
      /\ S.keyvals \in Seq(Keyvals) /\ S.attrs \in SUBSET Attributes
      /\ S.made \in SUBSET Attributes /\ S.deleted \in SUBSET Attributes
      /\ S.status \in Statuses /\ S.tested \in Seq(Nat) /\ S.pointer \in Seq(1 .. RequestVars)
      /\ S.active \in Seq(Requests) /\ S.finished \in SUBSET Requests
  BY StateFields
<1>2. PICK a : a = Append(S.active, r) /\ a \in Seq(Requests)
  BY <1>1, AppendProperties
<1>3. r.id \in Nat
  BY RequestFields
<1>4. CASE blocking
  <2>a. PICK n : n = r.id /\ n \in Nat
    BY <1>3
  <2>1. PICK t : t = <<r.id>>
    OBVIOUS
  <2>b. t \in Seq(Nat)
    BY <2>a, <2>1
  <2>2. <<>> \in Seq(1 .. RequestVars)
    OBVIOUS
  <2>3. T = [S EXCEPT !.active = a, !.status = "wait", !.tested = t, !.pointer = <<>>]
    BY <1>2, <1>4, <2>1 DEF Posted, SetWait
  <2>4. T \in StateRecords
    BY <1>2, <2>b, <2>2, <2>3 DEF StateRecords, Statuses
  <2>5. /\ T.active = a /\ T.finished = S.finished /\ T.groups = S.groups
        /\ T.status = "wait" /\ T.tested = t /\ T.pointer = <<>>
    BY <2>3 DEF StateRecords
  <2>6. SameComms(S, T) /\ SameAttributes(S, T)
    BY <2>3 DEF StateRecords, SameComms, SameAttributes
  <2> QED BY <1>2, <1>4, <2>1, <2>4, <2>5, <2>6
<1>5. CASE ~blocking
  <2>1. T = [S EXCEPT !.active = a]
    BY <1>2, <1>5 DEF Posted
  <2>2. T \in StateRecords
    BY <1>2, <2>1 DEF StateRecords
  <2>3. /\ T.active = a /\ T.finished = S.finished /\ T.groups = S.groups
        /\ T.status = S.status /\ T.tested = S.tested /\ T.pointer = S.pointer
    BY <2>1 DEF StateRecords
  <2>4. SameComms(S, T) /\ SameAttributes(S, T)
    BY <2>1 DEF StateRecords, SameComms, SameAttributes
  <2> QED BY <1>2, <1>5, <2>2, <2>3, <2>4
<1> QED BY <1>4, <1>5

\* What a collective call leaves behind, when the operation is in H and the request is r.
PostedGlobal(H, p, call, r) == Replaced(H, p, Posted(H.states[p], r, call.blocking), H.operations)
PostedMemory(M, p, call, r) == IF call.blocking THEN M ELSE GivenRequest(M, p, call.request, r.id)

PostFirst(u, p, r) == [u EXCEPT !.gstate.states[p].active = Append(@, r)]
PostFinally(u, p, call, r) ==
  IF call.blocking THEN [u EXCEPT !.gstate.states[p] = SetWait(u.gstate.states[p], <<r.id>>)]
  ELSE [u EXCEPT !.memory[p].requests[call.request] = r.id]

LEMMA PostingFirst ==
  ASSUME NEW H \in GlobalStates, NEW p \in Procs, NEW M, NEW K, NEW r,
         NEW A, A = [H.states[p] EXCEPT !.active = Append(@, r)]
  PROVE  PostFirst(World(H, M, "none", K), p, r) = World(Replaced(H, p, A, H.operations), M, "none", K)
<1>1. PICK W : W = World(H, M, "none", K)
  OBVIOUS
<1>2. W.gstate = H
  BY <1>1, WorldFields
<1>3. PICK J : J = [H EXCEPT !.states[p] = A]
  OBVIOUS
<1>4. PostFirst(W, p, r) = [W EXCEPT !.gstate = J]
  BY <1>2, <1>3 DEF PostFirst
<1>5. [W EXCEPT !.gstate = J] = World(J, M, "none", K)
  BY <1>1, GlobalOfWorld
<1>6. J = Replaced(H, p, A, H.operations)
  BY <1>3, StateReplaced
<1> QED BY <1>1, <1>4, <1>5, <1>6

LEMMA PostingFinally ==
  ASSUME NEW H \in GlobalStates, NEW p \in Procs, NEW M, NEW K, NEW call, NEW r, NEW A
  PROVE  PostFinally(World(Replaced(H, p, A, H.operations), M, "none", K), p, call, r) =
           IF call.blocking THEN World(Replaced(H, p, SetWait(A, <<r.id>>), H.operations), M, "none", K)
           ELSE World(Replaced(H, p, A, H.operations), GivenRequest(M, p, call.request, r.id), "none", K)
<1>1. PICK J : J = Replaced(H, p, A, H.operations)
  OBVIOUS
<1>2. PICK W : W = World(J, M, "none", K)
  OBVIOUS
<1>3. W.gstate = J /\ W.memory = M
  BY <1>2, WorldFields
<1>4. J = [H EXCEPT !.states[p] = A]
  BY <1>1, StateReplaced
<1>5. J.states[p] = A
  BY <1>4, GlobalFields
<1>6. CASE call.blocking
  <2>1. PICK T : T = SetWait(A, <<r.id>>)
    OBVIOUS
  <2>2. PICK I : I = [J EXCEPT !.states[p] = T]
    OBVIOUS
  <2>3. PostFinally(W, p, call, r) = [W EXCEPT !.gstate = I]
    BY <1>3, <1>5, <1>6, <2>1, <2>2 DEF PostFinally
  <2>4. [W EXCEPT !.gstate = I] = World(I, M, "none", K)
    BY <1>2, GlobalOfWorld
  <2>5. I = [H EXCEPT !.states[p] = T]
    BY <1>4, <2>2
  <2>6. I = Replaced(H, p, T, H.operations)
    BY <2>5, StateReplaced
  <2> QED BY <1>1, <1>2, <1>6, <2>1, <2>3, <2>4, <2>6
<1>7. CASE ~call.blocking
  <2>1. PICK N : N = GivenRequest(M, p, call.request, r.id)
    OBVIOUS
  <2>2. PostFinally(W, p, call, r) = [W EXCEPT !.memory = N]
    BY <1>3, <1>7, <2>1 DEF PostFinally, GivenRequest
  <2>3. [W EXCEPT !.memory = N] = World(J, N, "none", K)
    BY <1>2, MemoryOfWorld
  <2> QED BY <1>1, <1>2, <1>7, <2>1, <2>2, <2>3
<1> QED BY <1>6, <1>7

LEMMA PostingWorld ==
  ASSUME NEW H \in GlobalStates, NEW p \in Procs, NEW M, NEW K, NEW call, call.blocking \in BOOLEAN, NEW r
  PROVE  PostFinally(PostFirst(World(H, M, "none", K), p, r), p, call, r) =
           World(PostedGlobal(H, p, call, r), PostedMemory(M, p, call, r), "none", K)
<1>1. PICK A : A = [H.states[p] EXCEPT !.active = Append(@, r)]
  OBVIOUS
<1>2. PostFirst(World(H, M, "none", K), p, r) = World(Replaced(H, p, A, H.operations), M, "none", K)
  BY <1>1, PostingFirst
<1>3. PostFinally(World(Replaced(H, p, A, H.operations), M, "none", K), p, call, r) =
        IF call.blocking THEN World(Replaced(H, p, SetWait(A, <<r.id>>), H.operations), M, "none", K)
        ELSE World(Replaced(H, p, A, H.operations), GivenRequest(M, p, call.request, r.id), "none", K)
  BY PostingFinally
<1>4. Posted(H.states[p], r, call.blocking) = IF call.blocking THEN SetWait(A, <<r.id>>) ELSE A
  BY <1>1 DEF Posted
<1> QED BY <1>2, <1>3, <1>4 DEF PostedGlobal, PostedMemory

\* The parts of CollectiveCall.
Logged(w, p, entry) == [w EXCEPT !.log[p] = Append(@, entry)]
CallEntry(comm, call, group) ==
  [comm |-> comm, call |-> call, group |-> IF group = None THEN None ELSE group.table]
CallGroup(w, p, call) ==
  IF call.name = "comm_create" THEN GetGroup(w.gstate.states[p], w.memory[p].groups[call.group]) ELSE None
NewRequest(w, p, comm) ==
  [id |-> NewRequestId(w.gstate.states[p]), comm_id |-> comm.comm_id,
   cc_id |-> GetCounter(w.gstate.states[p], comm), serial |-> Len(w.log[p]) + 1]
CallResult(w, p, call, comm, group) ==
  CallCollectiveOperation(Logged(w, p, CallEntry(comm, call, group)), p, comm, call, group)

LEMMA PartsOfCall ==
  ASSUME NEW w, NEW p, NEW call
  PROVE  CollectiveCall(w, p, call) =
           IF CommOf(w, p, call.comm) = None THEN Fail(w, "InvalidCommunicator")
           ELSE IF call.name = "comm_create" /\ CallGroup(w, p, call) = None THEN Fail(w, "InvalidGroup")
           ELSE IF CallResult(w, p, call, CommOf(w, p, call.comm), CallGroup(w, p, call)).error = "none"
           THEN PostFinally(PostFirst(CallResult(w, p, call, CommOf(w, p, call.comm), CallGroup(w, p, call)),
                                      p, NewRequest(w, p, CommOf(w, p, call.comm))),
                            p, call, NewRequest(w, p, CommOf(w, p, call.comm)))
           ELSE CallResult(w, p, call, CommOf(w, p, call.comm), CallGroup(w, p, call))
BY DEF CollectiveCall, Then, CallResult, Logged, CallEntry, CallGroup, NewRequest, PostFirst, PostFinally

\* The parts of the invariant between two handlers.
LEMMA WorldParts ==
  ASSUME NEW G, NEW M, NEW L, CoreOK(G, M, L)
  PROVE  /\ G \in GlobalStates /\ IsMemory(M) /\ IsLog(L) /\ CommunicatorsOK(G, L) /\ CommsOK(G, L) /\ CountersOK(G, L)
         /\ RootsOK(L) /\ OperationsOK(G.operations, L, ClosedOf(M))
         /\ \A p \in Procs : /\ G.states[p] \in StateRecords /\ IsFiniteSet(G.states[p].finished)
                             /\ RequestsOK(G.states[p], L, p, ClosedOf(M)[p])
                             /\ ClosedOf(M)[p] \subseteq DOMAIN L[p]
BY GlobalFields DEF CoreOK, IsTyped, CommunicatorsOK, RequestsOK

\* What is known of a collective call of p, made in the world of G, M and L.
CallMade(G, M, L, p, call, entry, K, id, k, F, H, ops, i, e, x, r) ==
  /\ Calling(G, L, ClosedOf(M), p, entry, K, id, k) /\ entry.call = call
  /\ CommunicatorsOK(F, K) /\ CommunicatorsOK(H, K) /\ RootsOK(K) /\ OperationsOK(H.operations, K, ClosedOf(M))
  /\ \A q \in Procs : SameWork(G.states[q], H.states[q])
  /\ CalledAs(G, F, H, p, entry, id, k, ops, i, e, x)
  /\ CallRequest(L, p, id, k, r) /\ r.id = NewRequestId(G.states[p])

\* How mpicalls.call_collective_operation2 ends when it throws nothing.
LEMMA CollectiveCallMade ==
  ASSUME NEW G, NEW M, NEW L, CoreOK(G, M, L), NEW p \in Procs,
         NEW call \in MayCall(p), call.op = "Collective",
         NEW v, v = CollectiveCall(World(G, M, "none", L), p, call), v.error = "none"
  PROVE  \E entry, K, id, k, F, H, ops, i, e, x, r :
           /\ CallMade(G, M, L, p, call, entry, K, id, k, F, H, ops, i, e, x, r)
           /\ v = World(PostedGlobal(H, p, call, r), PostedMemory(M, p, call, r), "none", K)
<1>0. PICK w : w = World(G, M, "none", L)
  OBVIOUS
<1>3. w.gstate = G /\ w.memory = M /\ w.error = "none" /\ w.log = L
  BY <1>0, WorldFields
<1>1. PICK S : S = w.gstate.states[p] /\ S = G.states[p] /\ S \in StateRecords /\ IsFiniteSet(S.finished)
  BY <1>3, WorldParts
<1>2. PICK id : id = M[p].comms[call.comm]
  OBVIOUS
<1>4. PICK comm : comm = CommOf(w, p, call.comm)
  OBVIOUS
<1>5. comm = GetComm(G.states[p], p, id)
  BY <1>2, <1>3, <1>4 DEF CommOf
<1>6. PICK k : k = GetCounter(S, comm)
  OBVIOUS
<1>7. PICK r : r = NewRequest(w, p, comm)
  OBVIOUS
<1>8. PICK group : group = CallGroup(w, p, call)
  OBVIOUS
<1>9. PICK entry : entry = CallEntry(comm, call, group)
  OBVIOUS
<1>10. PICK K : K = [L EXCEPT ![p] = Append(@, entry)]
  OBVIOUS
<1>11. Logged(w, p, entry) = World(G, M, "none", K)
  <2>1. [w EXCEPT !.log = K] = World(G, M, "none", K)
    BY <1>0, LogOfWorld
  <2> QED BY <1>3, <1>10, <2>1 DEF Logged
<1>12. PICK u : u = CallResult(w, p, call, comm, group)
  OBVIOUS
<1>14. v = IF comm = None THEN Fail(w, "InvalidCommunicator")
           ELSE IF call.name = "comm_create" /\ group = None THEN Fail(w, "InvalidGroup")
           ELSE IF u.error = "none" THEN PostFinally(PostFirst(u, p, r), p, call, r) ELSE u
  BY <1>0, <1>4, <1>7, <1>8, <1>12, PartsOfCall
<1>15. Fail(w, "InvalidCommunicator").error # "none" /\ Fail(w, "InvalidGroup").error # "none"
  BY <1>0, WorldFields
<1>16. comm # None
  BY <1>14, <1>15
<1>17. ~(call.name = "comm_create" /\ group = None) /\ u.error = "none"
  BY <1>14, <1>15
<1>18. v = PostFinally(PostFirst(u, p, r), p, call, r)
  BY <1>14, <1>16, <1>17
<1>19. Finds(G, p, id, comm)
  BY <1>5, <1>16 DEF Finds
<1>20. comm \in Comms /\ comm.comm_id = id
  BY <1>19, GettingComm, WorldParts
<1>21. k = Cardinality(CallsOn(L, p, id)) /\ k \in Nat
  <2>1. k = S.counters[CounterIndex(S, comm)]
    BY <1>6 DEF GetCounter
  <2>2. S.counters[CounterIndex(S, comm)] = Cardinality(CallsOn(L, p, id))
    BY <1>1, <1>19, CounterOfComm, WorldParts
  <2>3. Cardinality(CallsOn(L, p, id)) \in Nat
    BY CallsAreFinite, WorldParts
  <2> QED BY <2>1, <2>2, <2>3
<1>22. group \in Groups \cup {None}
  <2>1. S.groups \in GroupTables
    BY <1>1, StateFields
  <2>2. \A g : g \in DOMAIN S.groups => S.groups[g] \in Groups
    BY <2>1 DEF GroupTables
  <2> QED BY <1>1, <1>8, <2>2 DEF GetGroup, CallGroup
<1>23. entry \in Entries(p) /\ entry.comm = comm /\ entry.call = call
  <2>1. call \in CollectiveCalls(p)
    BY DEF CollectiveCalls
  <2>2. PICK t : t = (IF group = None THEN None ELSE group.table) /\ t \in Seq(Procs) \cup {None}
    BY <1>22 DEF Groups
  <2>3. entry = [comm |-> comm, call |-> call, group |-> t]
    BY <1>9, <2>2 DEF CallEntry
  <2> QED BY <1>20, <2>1, <2>2, <2>3 DEF Entries
<1>24. Appended(L, K, p, entry)
  BY <1>10 DEF Appended
<1>25. Calling(G, L, ClosedOf(M), p, entry, K, id, k)
  BY <1>19, <1>21, <1>23, <1>24, WorldParts DEF Calling
<1>26. AgreesOnGroup(entry, group)
  BY <1>17, <1>22, <1>23 DEF AgreesOnGroup
<1>27. PICK F, H, ops, i, e, x :
           /\ u = World(H, M, "none", K)
           /\ CommunicatorsOK(F, K) /\ CommunicatorsOK(H, K) /\ RootsOK(K) /\ OperationsOK(H.operations, K, ClosedOf(M))
           /\ \A q \in Procs : SameWork(G.states[q], H.states[q])
           /\ CalledAs(G, F, H, p, entry, id, k, ops, i, e, x)
  <2>1. u = CallCollectiveOperation(World(G, M, "none", K), p, entry.comm, entry.call, group) /\ u.error = "none"
    BY <1>9, <1>11, <1>12, <1>17, <1>23 DEF CallResult
  <2>2. CollectiveDone(G, ClosedOf(M), M, p, entry, K, id, k, u)
    BY <1>25, <1>26, <2>1, CallingCollective
  <2> QED BY <2>2 DEF CollectiveDone
<1>28. H \in GlobalStates
  BY <1>27 DEF CommunicatorsOK
<1>29. call.blocking \in BOOLEAN
  BY ProgramsAssumption DEF IsCollectiveCall
<1>30. v = World(PostedGlobal(H, p, call, r), PostedMemory(M, p, call, r), "none", K)
  BY <1>18, <1>27, <1>28, <1>29, PostingWorld
<1>31. r.id = NewRequestId(G.states[p]) /\ CallRequest(L, p, id, k, r)
  <2>1. PICK n : n = NewRequestId(S) /\ n \in Nat \ {0}
    BY <1>1, NewIdIsFree
  <2>2. PICK m : m = Len(w.log[p]) + 1 /\ m = Len(L[p]) + 1 /\ m \in Nat
    BY <1>3, LogDomain, WorldParts
  <2>3. r = [id |-> n, comm_id |-> id, cc_id |-> k, serial |-> m] /\ id \in Nat
    BY <1>1, <1>6, <1>7, <1>20, <2>1, <2>2, CommFields DEF NewRequest
  <2> QED BY <1>1, <1>21, <2>1, <2>2, <2>3 DEF CallRequest, Requests
<1>32. CallMade(G, M, L, p, call, entry, K, id, k, F, H, ops, i, e, x, r)
  BY <1>23, <1>25, <1>27, <1>31 DEF CallMade
<1> QED BY <1>30, <1>32

PostedTo(H, M, p, call, r, J, N) == J = PostedGlobal(H, p, call, r) /\ N = PostedMemory(M, p, call, r)

\* A call leaves the invariant, and nothing is completed.
LEMMA CollectiveKeeps ==
  ASSUME NEW G, NEW M, NEW L, WorldOK(G, M, L), NEW p \in Procs, G.states[p].status = "running",
         NEW call, NEW entry, NEW K, NEW id, NEW k, NEW F, NEW H, NEW ops, NEW i, NEW e, NEW x, NEW r,
         CallMade(G, M, L, p, call, entry, K, id, k, F, H, ops, i, e, x, r),
         NEW J, NEW N, PostedTo(H, M, p, call, r, J, N)
  PROVE  /\ WorldOK(J, N, K) /\ ClosedOf(N) = ClosedOf(M)
         /\ \A q \in Procs : J.states[q].finished = G.states[q].finished
<1>1. /\ G \in GlobalStates /\ IsMemory(M) /\ IsLog(L)
      /\ \A q \in Procs : /\ G.states[q] \in StateRecords /\ IsFiniteSet(G.states[q].finished)
                          /\ RequestsOK(G.states[q], L, q, ClosedOf(M)[q])
                          /\ WaitOK(G.states[q], L, q, M[q].requests)
  BY WorldParts DEF WorldOK
<1>2. /\ Calling(G, L, ClosedOf(M), p, entry, K, id, k) /\ entry.call = call
      /\ CommunicatorsOK(H, K) /\ RootsOK(K) /\ OperationsOK(H.operations, K, ClosedOf(M))
      /\ \A q \in Procs : SameWork(G.states[q], H.states[q])
      /\ CallRequest(L, p, id, k, r) /\ r.id = NewRequestId(G.states[p])
  BY DEF CallMade
<1>3. IsLog(K) /\ IsCollectiveCall(entry.call)
  BY <1>2, CallingFacts
<1>4. call.blocking \in BOOLEAN
  BY <1>2, <1>3, CallFields
<1>5. r \in Requests /\ r.id \notin RequestIds(G.states[p]) /\ r.id \in Nat
  <2>1. r \in Requests
    BY <1>2 DEF CallRequest
  <2>2. NewRequestId(G.states[p]) \notin RequestIds(G.states[p])
    BY <1>1, NewIdIsFree
  <2> QED BY <1>2, <2>1, <2>2, RequestFields
<1>6. PICK S : S = G.states[p] /\ S \in StateRecords
  BY <1>1
<1>7. PICK T : T = Posted(H.states[p], r, call.blocking)
  OBVIOUS
<1>8. H.states[p] \in StateRecords
  BY <1>2, GlobalFields DEF CommunicatorsOK
<1>9. /\ T \in StateRecords /\ T.active = Append(H.states[p].active, r) /\ T.finished = H.states[p].finished
      /\ SameComms(H.states[p], T)
  <2>1. PICK U \in StateRecords : U = H.states[p]
    BY <1>8
  <2>2. PICK b \in BOOLEAN : b = call.blocking
    BY <1>4
  <2>3. T = Posted(U, r, b)
    BY <1>7, <2>1, <2>2
  <2>4. /\ T \in StateRecords /\ T.active = Append(U.active, r) /\ T.finished = U.finished
        /\ SameComms(U, T)
    BY <1>5, <2>3, Posting
  <2> QED BY <2>1, <2>4
<1>10. IF call.blocking THEN T.status = "wait" /\ T.tested = <<r.id>> /\ T.pointer = <<>>
       ELSE /\ T.status = H.states[p].status /\ T.tested = H.states[p].tested
            /\ T.pointer = H.states[p].pointer
  BY <1>4, <1>5, <1>7, <1>8, Posting
<1>11. /\ CommunicatorsOK(J, K) /\ J.operations = H.operations
       /\ J.states[p] = T /\ \A q \in Procs \ {p} : J.states[q] = H.states[q]
  <2>1. J = Replaced(H, p, T, H.operations)
    BY <1>7 DEF PostedGlobal, PostedTo
  <2>2. H.operations \in Seq(OperationRecords)
    BY <1>2, GlobalFields DEF CommunicatorsOK
  <2> QED BY <1>2, <1>9, <2>1, <2>2, ReplacingWork
<1>12. SameWork(S, H.states[p])
  BY <1>2, <1>6
<1>13. /\ T.active = Append(S.active, r) /\ T.finished = S.finished
       /\ IF call.blocking THEN T.status = "wait" /\ T.tested = <<r.id>> /\ T.pointer = <<>>
          ELSE T.status = S.status /\ T.tested = S.tested /\ T.pointer = S.pointer
  BY <1>9, <1>10, <1>12 DEF SameWork
<1>14. /\ RequestsOK(T, K, p, ClosedOf(M)[p]) /\ LiveRequests(T) = LiveRequests(S) \cup {r}
       /\ \A q \in LiveRequests(S) : K[p][q.serial] = L[p][q.serial]
       /\ K[p][r.serial] = entry
  <2>1. RequestsOK(S, L, p, ClosedOf(M)[p]) /\ r.id \notin RequestIds(S)
    BY <1>1, <1>5, <1>6
  <2>2. /\ Calling(G, L, ClosedOf(M), p, entry, K, id, k) /\ CallRequest(L, p, id, k, r)
        /\ S \in StateRecords /\ T.active = Append(S.active, r) /\ T.finished = S.finished
    BY <1>2, <1>6, <1>13
  <2> QED BY <2>1, <2>2, CallKeepsRequests
<1>15. IsMemory(N) /\ ClosedOf(N) = ClosedOf(M) /\ \A q \in Procs \ {p} : N[q] = M[q]
  <2>1. CASE call.blocking
    BY <1>1, <2>1 DEF PostedMemory, PostedTo
  <2>2. CASE ~call.blocking
    <3>1. N = GivenRequest(M, p, call.request, r.id)
      BY <2>2 DEF PostedMemory, PostedTo
    <3>2. RequestGiven(M, N, p, call.request, r.id)
      BY <1>1, <1>5, <3>1, GivingRequest
    <3> QED BY <3>2 DEF RequestGiven
  <2> QED BY <2>1, <2>2
<1>16. WaitOK(T, K, p, N[p].requests)
  <2>1. /\ WaitOK(S, L, p, M[p].requests) /\ S.status = "running" /\ IsFiniteSet(S.finished)
        /\ r.id \notin RequestIds(S) /\ M[p].requests \in [1 .. RequestVars -> Nat]
    BY <1>1, <1>5, <1>6 DEF IsMemory
  <2>2. CASE call.blocking
    <3>1. N[p].requests = M[p].requests
      BY <2>2 DEF PostedMemory, PostedTo
    <3>2. T.status = "wait" /\ T.tested = <<r.id>> /\ T.pointer = <<>>
      BY <1>13, <2>2
    <3>3. WaitOK(T, K, p, M[p].requests)
      BY <1>5, <1>6, <1>14, <2>1, <3>2, BlockingCallWaits
    <3> QED BY <3>1, <3>3
  <2>3. CASE ~call.blocking
    <3>1. N = GivenRequest(M, p, call.request, r.id)
      BY <2>3 DEF PostedMemory, PostedTo
    <3>2. N[p].requests = [M[p].requests EXCEPT ![call.request] = r.id]
      <4>1. RequestGiven(M, N, p, call.request, r.id)
        BY <1>1, <1>5, <3>1, GivingRequest
      <4> QED BY <4>1 DEF RequestGiven
    <3>3. T.status = "running" /\ T.tested = S.tested /\ T.pointer = S.pointer
      BY <1>13, <2>1, <2>3
    <3>4. ~K[p][r.serial].call.blocking
      BY <1>2, <1>14, <2>3
    <3>5. WaitOK(T, K, p, [M[p].requests EXCEPT ![call.request] = r.id])
      BY <1>5, <1>6, <1>14, <2>1, <3>3, <3>4, RequestIsGiven
    <3> QED BY <3>2, <3>5
  <2> QED BY <2>2, <2>3
<1>17. ASSUME NEW q \in Procs \ {p}
       PROVE  /\ RequestsOK(J.states[q], K, q, ClosedOf(M)[q]) /\ WaitOK(J.states[q], K, q, M[q].requests)
              /\ J.states[q].finished = G.states[q].finished
  <2>1. /\ RequestsOK(G.states[q], L, q, ClosedOf(M)[q]) /\ WaitOK(G.states[q], L, q, M[q].requests)
        /\ SameWork(G.states[q], H.states[q]) /\ J.states[q] = H.states[q]
    BY <1>1, <1>2, <1>11
  <2>2. K[q] = L[q]
    BY <1>2, CallingCalls
  <2>3. RequestsOK(G.states[q], K, q, ClosedOf(M)[q]) /\ WaitOK(G.states[q], K, q, M[q].requests)
    BY <1>1, <2>1, <2>2, LogFrame
  <2>4. RequestsOK(H.states[q], K, q, ClosedOf(M)[q]) /\ WaitOK(H.states[q], K, q, M[q].requests)
    BY <2>1, <2>3, WorkFrame
  <2> QED BY <2>1, <2>4 DEF SameWork
<1>18. \A q \in Procs : RequestsOK(J.states[q], K, q, ClosedOf(N)[q]) /\ WaitOK(J.states[q], K, q, N[q].requests)
  BY <1>11, <1>14, <1>15, <1>16, <1>17
<1>19. \A q \in Procs : J.states[q].finished = G.states[q].finished
  BY <1>6, <1>11, <1>13, <1>17
<1>20. IsTyped(J, N, K) /\ CommsOK(J, K) /\ CountersOK(J, K)
  BY <1>3, <1>11, <1>15 DEF IsTyped, CommunicatorsOK
<1>21. OperationsOK(J.operations, K, ClosedOf(N))
  BY <1>2, <1>11, <1>15
<1> QED BY <1>2, <1>15, <1>18, <1>19, <1>20, <1>21 DEF WorldOK, CoreOK

=============================================================================
