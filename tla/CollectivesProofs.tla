------------------------- MODULE CollectivesProofs -------------------------
(***************************************************************************)
(* Proofs about Collectives: completing operations and the steps of the    *)
(* worker keep the invariant, objects and counters match the calls, and    *)
(* the verifier's operations implement CollectiveService.                  *)
(***************************************************************************)
EXTENDS CollectivesInvariant

-----------------------------------------------------------------------------
(* Closing a request: its call, number k on communicator id, is call t of p *)

Completes(G, L, D, p, t, id, k, C) ==
  /\ IsLog(L) /\ G \in GlobalStates /\ CommsOK(G, L) /\ OperationsOK(G.operations, L, D)
  /\ p \in Procs /\ t \in DOMAIN L[p] \ D[p] /\ id = L[p][t].comm.comm_id
  /\ k \in Nat /\ PositionOf(L, p, t) = k + 1
  /\ DOMAIN D = Procs /\ C = [D EXCEPT ![p] = @ \cup {t}]

LEMMA CompletesCall ==
  ASSUME NEW G, NEW L, NEW D, NEW p, NEW t, NEW id, NEW k, NEW C, Completes(G, L, D, p, t, id, k, C)
  PROVE  /\ IsLog(L) /\ p \in Procs /\ t \in DOMAIN L[p] /\ t \notin D[p] /\ k \in Nat
         /\ CallsAt(L, p, id, k) = {t}
         /\ \A d, j : t \in CallsAt(L, p, d, j) <=> d = id /\ j + 1 = k + 1
         /\ C[p] = D[p] \cup {t} /\ \A q \in Procs \ {p} : C[q] = D[q]
         /\ L[p][t].comm \in Comms /\ p \in Members(L[p][t].comm) /\ L[p][t].comm.comm_id = id
<1>1. /\ IsLog(L) /\ p \in Procs /\ t \in DOMAIN L[p] /\ t \notin D[p] /\ id = L[p][t].comm.comm_id
      /\ k \in Nat /\ PositionOf(L, p, t) = k + 1 /\ CommsOK(G, L)
      /\ DOMAIN D = Procs /\ C = [D EXCEPT ![p] = @ \cup {t}]
  BY DEF Completes
<1>2. \A d, j : t \in CallsAt(L, p, d, j) <=> d = id /\ j + 1 = k + 1
  <2>1. SUFFICES ASSUME NEW d, NEW j PROVE t \in CallsAt(L, p, d, j) <=> d = id /\ j + 1 = k + 1
    OBVIOUS
  <2>2. t \in CallsOn(L, p, d) <=> d = id
    BY <1>1 DEF CallsOn
  <2>3. t \in CallsAt(L, p, d, j) <=> t \in CallsOn(L, p, d) /\ PositionOf(L, p, t) = j + 1
    BY DEF CallsAt
  <2> QED BY <1>1, <2>2, <2>3
<1>3. t \in CallsAt(L, p, id, k)
  BY <1>2
<1>4. CallsAt(L, p, id, k) = {t}
  <2>1. k \in Int
    BY <1>1
  <2> QED BY <1>1, <1>3, <2>1, OneCallAt
<1>5. L[p][t].comm \in Comms
  BY <1>1, LogDomain
<1>6. p \in Members(L[p][t].comm)
  <2>1. L[p][t].comm \in Known(G, L, p)
    BY <1>1 DEF Known
  <2>2. IsMember(p, L[p][t].comm, G.comm_id_counter)
    BY <1>1, <2>1 DEF CommsOK
  <2> QED BY <2>2 DEF IsMember, Members
<1> QED BY <1>1, <1>2, <1>4, <1>5, <1>6

LEMMA CompletesFacts ==
  ASSUME NEW G, NEW L, NEW D, NEW p, NEW t, NEW id, NEW k, NEW C, Completes(G, L, D, p, t, id, k, C)
  PROVE  /\ p \in Entered(L, id, k)
         /\ p \notin Left(L, D, id, k) /\ Left(L, C, id, k) = Left(L, D, id, k) \cup {p}
         /\ p \in Inside(L, D, id, k) /\ Inside(L, C, id, k) = Inside(L, D, id, k) \ {p}
         /\ \A d : \A j \in Int : d # id \/ j # k =>
              Left(L, C, d, j) = Left(L, D, d, j) /\ Inside(L, C, d, j) = Inside(L, D, d, j)
<1>1. /\ p \in Procs /\ t \notin D[p] /\ k \in Nat /\ CallsAt(L, p, id, k) = {t}
      /\ C[p] = D[p] \cup {t} /\ \A q \in Procs \ {p} : C[q] = D[q]
  <2>1. p \in Procs /\ t \notin D[p] /\ k \in Nat /\ CallsAt(L, p, id, k) = {t}
    BY CompletesCall
  <2>2. C[p] = D[p] \cup {t} /\ \A q \in Procs \ {p} : C[q] = D[q]
    BY CompletesCall
  <2> QED BY <2>1, <2>2
<1>2. \A d, j : t \in CallsAt(L, p, d, j) <=> d = id /\ j + 1 = k + 1
  BY CompletesCall
<1>3. p \in Entered(L, id, k) /\ p \notin Left(L, D, id, k) /\ p \in Inside(L, D, id, k)
  BY <1>1 DEF Entered, Left, Inside
<1>4. p \in Left(L, C, id, k) /\ p \notin Inside(L, C, id, k)
  BY <1>1 DEF Left, Inside
<1>5. \A d, j : \A q \in Procs \ {p} : /\ q \in Left(L, C, d, j) <=> q \in Left(L, D, d, j)
                                       /\ q \in Inside(L, C, d, j) <=> q \in Inside(L, D, d, j)
  BY <1>1 DEF Left, Inside
<1>6. ASSUME NEW d, NEW j \in Int, d # id \/ j # k
      PROVE  /\ p \in Left(L, C, d, j) <=> p \in Left(L, D, d, j)
             /\ p \in Inside(L, C, d, j) <=> p \in Inside(L, D, d, j)
  <2>1. t \notin CallsAt(L, p, d, j)
    BY <1>1, <1>2, <1>6
  <2> QED BY <1>1, <2>1 DEF Left, Inside
<1>7. \A d, j, E : Left(L, E, d, j) \subseteq Procs /\ Inside(L, E, d, j) \subseteq Procs
  BY DEF Left, Inside
<1>8. Left(L, C, id, k) = Left(L, D, id, k) \cup {p}
  BY <1>1, <1>4, <1>5, <1>7
<1>9. Inside(L, C, id, k) = Inside(L, D, id, k) \ {p}
  BY <1>1, <1>4, <1>5, <1>7
<1>10. ASSUME NEW d, NEW j \in Int, d # id \/ j # k
       PROVE  Left(L, C, d, j) = Left(L, D, d, j) /\ Inside(L, C, d, j) = Inside(L, D, d, j)
  BY <1>5, <1>6, <1>7, <1>10
<1> QED BY <1>3, <1>8, <1>9, <1>10

\* There is an operation for a call that is not completed.
LEMMA OperationExists ==
  ASSUME NEW G, NEW L, NEW D, NEW p, NEW t, NEW id, NEW k, NEW C, Completes(G, L, D, p, t, id, k, C)
  PROVE  OperationIndex(G, id, k) \in OperationsAt(G.operations, id, k)
<1>1. /\ OperationsOK(G.operations, L, D) /\ G \in GlobalStates
      /\ PositionOf(L, p, t) = k + 1 /\ id = L[p][t].comm.comm_id
  BY DEF Completes
<1>2. /\ p \in Procs /\ t \in DOMAIN L[p] /\ k \in Nat /\ p \in Members(L[p][t].comm)
  BY CompletesCall
<1>3. p \notin Left(L, D, id, k) /\ p \in Inside(L, D, id, k)
  BY CompletesFacts
<1>4. OperationsAt(G.operations, id, k) # {}
  <2>1. SUFFICES ASSUME OperationsAt(G.operations, id, k) = {} PROVE FALSE
    OBVIOUS
  <2>2. CASE id = CommSelf
    <3>1. Cardinality(OperationsAt(G.operations, id, k)) = Cardinality(Inside(L, D, id, k))
      BY <1>1, <1>2, <2>2 DEF OperationsOK
    <3>2. Cardinality(OperationsAt(G.operations, id, k)) = 0
      BY <2>1, FS_EmptySet
    <3>3. IsFiniteSet(Inside(L, D, id, k))
      BY ProcsAreFinite, FS_Subset DEF Inside
    <3>4. Inside(L, D, id, k) = {}
      BY <3>1, <3>2, <3>3, FS_EmptySet
    <3> QED BY <1>3, <3>4
  <2>3. CASE id # CommSelf
    <3>1. PositionOf(L, p, t) - 1 = k
      BY <1>1, <1>2
    <3>2. ToSet(L[p][t].comm.group.table) \subseteq Left(L, D, id, k)
      BY <1>1, <1>2, <2>1, <2>3, <3>1 DEF OperationsOK
    <3> QED BY <1>2, <1>3, <3>2 DEF Members
  <2> QED BY <2>2, <2>3
<1>5. G.operations \in Seq(OperationRecords)
  BY <1>1, GlobalFields
<1> QED BY <1>4, <1>5, PlaceFound

LEMMA OtherCompleted ==
  ASSUME NEW G, NEW L, NEW D, NEW p, NEW t, NEW id, NEW k, NEW C, Completes(G, L, D, p, t, id, k, C),
         NEW op \in OperationRecords, OperationOK(op, L, D),
         op.comm_id = CommSelf \/ op.comm_id # id \/ op.cc_id # k
  PROVE  OperationOK(op, L, C)
<1>1. CASE op.comm_id = CommSelf
  BY <1>1 DEF OperationOK
<1>2. CASE op.comm_id # CommSelf
  <2>1. OpenOK(op, L, D)
    BY <1>2 DEF OperationOK
  <2>2. op.cc_id \in Int
    BY OperationFields
  <2>3. Left(L, C, op.comm_id, op.cc_id) = Left(L, D, op.comm_id, op.cc_id)
    BY <1>2, <2>2, CompletesFacts
  <2>4. OpenOK(op, L, C)
    BY <2>1, <2>3 DEF OpenOK
  <2> QED BY <1>2, <2>4 DEF OperationOK
<1> QED BY <1>1, <1>2

Completed(op) == [op EXCEPT !.remaining_complete = @ - 1]

LEMMA CompletedFields ==
  ASSUME NEW op \in OperationRecords, NEW x, x = Completed(op)
  PROVE  /\ x \in OperationRecords /\ x.remaining_complete = op.remaining_complete - 1
         /\ x.name = op.name /\ x.blocking = op.blocking /\ x.comm_id = op.comm_id /\ x.cc_id = op.cc_id
         /\ x.process_count = op.process_count /\ x.remaining_enter = op.remaining_enter
         /\ x.root = op.root /\ x.root_pid = op.root_pid /\ x.buffers = op.buffers /\ x.final = op.final
<1>1. PICK n \in Int : n = op.remaining_complete - 1
  BY OperationFields
<1>2. x = [op EXCEPT !.remaining_complete = n]
  BY <1>1 DEF Completed
<1>3. x \in OperationRecords
  BY <1>1, <1>2 DEF OperationRecords
<1>4. /\ x.remaining_complete = n
      /\ x.name = op.name /\ x.blocking = op.blocking /\ x.comm_id = op.comm_id /\ x.cc_id = op.cc_id
      /\ x.process_count = op.process_count /\ x.remaining_enter = op.remaining_enter
  BY <1>2 DEF OperationRecords
<1>5. x.root = op.root /\ x.root_pid = op.root_pid /\ x.buffers = op.buffers /\ x.final = op.final
  BY <1>2 DEF OperationRecords
<1> QED BY <1>1, <1>3, <1>4, <1>5

LEMMA CompletedOperation ==
  ASSUME NEW G, NEW L, NEW D, NEW p, NEW t, NEW id, NEW k, NEW C, Completes(G, L, D, p, t, id, k, C),
         NEW op \in OperationRecords, OperationOK(op, L, D), op.comm_id = id, op.cc_id = k, op.remaining_complete # 1,
         NEW x, x = Completed(op)
  PROVE  OperationOK(x, L, C)
<1>1. /\ x.remaining_complete = op.remaining_complete - 1 /\ op.remaining_complete \in Int
      /\ x.name = op.name /\ x.blocking = op.blocking /\ x.comm_id = op.comm_id /\ x.cc_id = op.cc_id
      /\ x.process_count = op.process_count /\ x.remaining_enter = op.remaining_enter
      /\ x.root = op.root /\ x.root_pid = op.root_pid /\ x.buffers = op.buffers /\ x.final = op.final
  <2>1. op.remaining_complete \in Int
    BY OperationFields
  <2> QED BY <2>1, CompletedFields
<1>2. id # CommSelf
  BY DEF OperationOK
<1>3. OpenOK(op, L, D)
  BY <1>2 DEF OperationOK
<1>4. p \notin Left(L, D, id, k) /\ Left(L, C, id, k) = Left(L, D, id, k) \cup {p}
  BY CompletesFacts
<1>5. IsFiniteSet(Left(L, D, id, k))
  BY ProcsAreFinite, FS_Subset DEF Left
<1>6. Cardinality(Left(L, C, id, k)) = Cardinality(Left(L, D, id, k)) + 1 /\ Cardinality(Left(L, D, id, k)) \in Nat
  BY <1>4, <1>5, OneMore, FS_CardinalityType
<1>7. x.remaining_complete + Cardinality(Left(L, C, id, k)) = x.process_count /\ x.remaining_complete > 0
  BY <1>1, <1>3, <1>6 DEF OpenOK
<1>8. \A q \in Procs : \A s \in CallsAt(L, q, id, k) : Agrees(x, L, q, L[q][s])
  <2>1. SUFFICES ASSUME NEW q \in Procs, NEW s \in CallsAt(L, q, id, k) PROVE Agrees(x, L, q, L[q][s])
    OBVIOUS
  <2>2. Agrees(op, L, q, L[q][s])
    BY <1>3 DEF OpenOK
  <2> QED BY <1>1, <2>2 DEF Agrees
<1>9. /\ Entered(L, id, k) # {}
      /\ x.remaining_enter + Cardinality(Entered(L, id, k)) = x.process_count
  BY <1>1, <1>3 DEF OpenOK
<1>10. OpenOK(x, L, C)
  BY <1>1, <1>7, <1>8, <1>9 DEF OpenOK
<1> QED BY <1>1, <1>2, <1>10 DEF OperationOK

\* When the last process has completed an operation, every member has.
LEMMA LastHasLeft ==
  ASSUME NEW G, NEW L, NEW D, NEW p, NEW t, NEW id, NEW k, NEW C, Completes(G, L, D, p, t, id, k, C),
         NEW op \in OperationRecords, OperationOK(op, L, D), op.comm_id = id, op.cc_id = k, op.remaining_complete = 1,
         id # CommSelf, NEW q \in Procs, NEW s \in CallsAt(L, q, id, k)
  PROVE  Members(L[q][s].comm) \subseteq Left(L, C, id, k)
<1>1. PICK c : c = L[q][s].comm
  OBVIOUS
<1>2. OpenOK(op, L, D)
  BY DEF OperationOK
<1>3. op.process_count = Size(c)
  BY <1>1, <1>2 DEF OpenOK, Agrees
<1>4. p \notin Left(L, D, id, k) /\ Left(L, C, id, k) = Left(L, D, id, k) \cup {p}
  BY CompletesFacts
<1>5. IsFiniteSet(Left(L, D, id, k))
  BY ProcsAreFinite, FS_Subset DEF Left
<1>6. Cardinality(Left(L, C, id, k)) = Cardinality(Left(L, D, id, k)) + 1 /\ Cardinality(Left(L, D, id, k)) \in Nat
  BY <1>4, <1>5, OneMore, FS_CardinalityType
<1>7. Cardinality(Left(L, C, id, k)) = Size(c)
  BY <1>2, <1>3, <1>6 DEF OpenOK
<1>8. c \in Comms /\ k \in Nat /\ IsLog(L) /\ c.comm_id = id /\ s \in DOMAIN L[q]
  <2>1. IsLog(L) /\ k \in Nat
    BY CompletesCall
  <2>2. s \in DOMAIN L[q] /\ L[q][s].comm.comm_id = id
    BY DEF CallsAt, CallsOn
  <2> QED BY <1>1, <2>1, <2>2, LogDomain
<1>9. Left(L, C, id, k) \subseteq Members(c)
  <2>1. SUFFICES ASSUME NEW u \in Left(L, C, id, k) PROVE u \in Members(c)
    OBVIOUS
  <2>2. PICK v : u \in Procs /\ v \in CallsAt(L, u, id, k)
    BY DEF Left
  <2>3. v \in DOMAIN L[u] /\ L[u][v].comm.comm_id = id
    BY <2>2 DEF CallsAt, CallsOn
  <2>4. L[u][v].comm \in Known(G, L, u) /\ c \in Known(G, L, q)
    BY <1>1, <1>8, <2>3 DEF Known
  <2>5. CommsOK(G, L)
    BY DEF Completes
  <2>6. L[u][v].comm = c
    BY <1>8, <2>2, <2>3, <2>4, <2>5 DEF CommsOK
  <2>7. IsMember(u, L[u][v].comm, G.comm_id_counter)
    BY <2>2, <2>4, <2>5 DEF CommsOK
  <2> QED BY <2>6, <2>7 DEF IsMember, Members
<1>10. IsFiniteSet(Members(c)) /\ Cardinality(Members(c)) = Size(c)
  BY <1>8, MembersAreCounted
<1>11. Left(L, C, id, k) = Members(c)
  BY <1>7, <1>9, <1>10, FS_Subset
<1> QED BY <1>1, <1>11

\* RemoveAt takes one place away.
Shift(i, j) == IF j < i THEN j ELSE j + 1

PlacesLeft(n, i, A) == {j \in 1 .. n - 1 : Shift(i, j) \in A}

LEMMA PlacesAfterRemoval ==
  ASSUME NEW n \in Nat, NEW i \in 1 .. n, NEW A \in SUBSET (1 .. n)
  PROVE  Cardinality(PlacesLeft(n, i, A)) = Cardinality(A \ {i})
<1>0. PICK B : B = PlacesLeft(n, i, A) /\ B = {j \in 1 .. n - 1 : Shift(i, j) \in A}
  BY DEF PlacesLeft
<1>1. PICK f : f = [j \in B |-> Shift(i, j)]
  OBVIOUS
<1>2. f \in [B -> A \ {i}]
  <2>1. \A j \in B : Shift(i, j) \in A \ {i}
    BY <1>0 DEF Shift
  <2> QED BY <1>1, <2>1
<1>3. \A j \in B, l \in B : f[j] = f[l] => j = l
  <2>1. SUFFICES ASSUME NEW j \in B, NEW l \in B, Shift(i, j) = Shift(i, l) PROVE j = l
    BY <1>1
  <2>2. j \in Int /\ l \in Int
    BY <1>0
  <2> QED BY <2>1, <2>2 DEF Shift
<1>4. \A a \in A \ {i} : \E j \in B : f[j] = a
  <2>1. SUFFICES ASSUME NEW a \in A \ {i} PROVE \E j \in B : f[j] = a
    OBVIOUS
  <2>2. CASE a < i
    <3>1. a \in 1 .. n - 1 /\ Shift(i, a) = a
      BY <2>2 DEF Shift
    <3> QED BY <1>0, <1>1, <3>1
  <2>3. CASE a >= i
    <3>1. a - 1 \in 1 .. n - 1 /\ Shift(i, a - 1) = a
      BY <2>3 DEF Shift
    <3> QED BY <1>0, <1>1, <3>1
  <2> QED BY <2>2, <2>3
<1>5. f \in Bijection(B, A \ {i})
  BY <1>2, <1>3, <1>4 DEF Bijection, Injection, Surjection, IsInjective
<1>6. IsFiniteSet(B) /\ IsFiniteSet(A \ {i})
  <2>1. IsFiniteSet(1 .. n) /\ IsFiniteSet(1 .. n - 1)
    BY FS_Interval
  <2> QED BY <1>0, <2>1, FS_Subset
<1>7. ExistsBijection(B, A \ {i})
  BY <1>5 DEF ExistsBijection
<1> QED BY <1>0, <1>6, <1>7, FS_Bijection

\* The operations after p has completed the one at place i.
Closes(G, L, D, p, t, id, k, C, s, n, i, op, x) ==
  /\ Completes(G, L, D, p, t, id, k, C)
  /\ s = G.operations /\ s \in Seq(OperationRecords) /\ n \in Nat /\ n = Len(s) /\ DOMAIN s = 1 .. n
  /\ i \in OperationsAt(s, id, k) /\ op = s[i] /\ x = Completed(op)

LEMMA ClosesFacts ==
  ASSUME NEW G, NEW L, NEW D, NEW p, NEW t, NEW id, NEW k, NEW C, NEW s, NEW n, NEW i, NEW op, NEW x,
         Closes(G, L, D, p, t, id, k, C, s, n, i, op, x)
  PROVE  /\ i \in 1 .. n /\ n \in Nat /\ DOMAIN s = 1 .. n /\ op = s[i]
         /\ op \in OperationRecords /\ OperationOK(op, L, D) /\ op.comm_id = id /\ op.cc_id = k
         /\ x \in OperationRecords /\ x.comm_id = id /\ x.cc_id = k
         /\ \A j \in 1 .. n \ {i} : /\ s[j] \in OperationRecords /\ OperationOK(s[j], L, C)
                                    /\ s[j].comm_id = CommSelf \/ s[j].comm_id # id \/ s[j].cc_id # k
<1>1. /\ s = G.operations /\ s \in Seq(OperationRecords) /\ n \in Nat /\ n = Len(s) /\ DOMAIN s = 1 .. n
      /\ i \in OperationsAt(s, id, k) /\ op = s[i] /\ x = Completed(op)
  BY DEF Closes
<1>2. OperationsOK(s, L, D)
  BY <1>1 DEF Closes, Completes
<1>3. i \in 1 .. n /\ op.comm_id = id /\ op.cc_id = k
  BY <1>1 DEF OperationsAt
<1>4. \A j \in 1 .. n : s[j] \in OperationRecords /\ OperationOK(s[j], L, D)
  BY <1>1, <1>2, ElementOfSeq DEF OperationsOK
<1>5. op \in OperationRecords /\ OperationOK(op, L, D)
  BY <1>1, <1>3, <1>4
<1>6. x \in OperationRecords /\ x.comm_id = id /\ x.cc_id = k
  <2>1. x \in OperationRecords
    BY <1>1, <1>5, CompletedFields
  <2>2. x.comm_id = op.comm_id /\ x.cc_id = op.cc_id
    BY <1>1, <1>5, CompletedFields
  <2> QED BY <1>3, <2>1, <2>2
<1>7. ASSUME NEW j \in 1 .. n \ {i}
      PROVE  /\ s[j] \in OperationRecords /\ OperationOK(s[j], L, C)
             /\ s[j].comm_id = CommSelf \/ s[j].comm_id # id \/ s[j].cc_id # k
  <2>1. s[j].comm_id = CommSelf \/ s[j].comm_id # id \/ s[j].cc_id # k
    BY <1>1, <1>2, <1>3 DEF OperationsOK
  <2>2. PICK y \in OperationRecords : y = s[j] /\ OperationOK(y, L, D)
    BY <1>4
  <2>3. y.comm_id = CommSelf \/ y.comm_id # id \/ y.cc_id # k
    BY <2>1, <2>2
  <2>4. Completes(G, L, D, p, t, id, k, C)
    BY DEF Closes
  <2>5. OperationOK(y, L, C)
    BY <2>2, <2>3, <2>4, OtherCompleted
  <2> QED BY <2>1, <2>2, <2>5
<1> QED BY <1>1, <1>3, <1>5, <1>6, <1>7

LEMMA CountedDown ==
  ASSUME NEW G, NEW L, NEW D, NEW p, NEW t, NEW id, NEW k, NEW C, NEW s, NEW n, NEW i, NEW op, NEW x,
         Closes(G, L, D, p, t, id, k, C, s, n, i, op, x), op.remaining_complete # 1,
         NEW N, N = [s EXCEPT ![i] = x]
  PROVE  N \in Seq(OperationRecords) /\ OperationsOK(N, L, C)
<1>1. /\ i \in 1 .. n /\ n \in Nat /\ DOMAIN s = 1 .. n /\ op = s[i]
      /\ op \in OperationRecords /\ OperationOK(op, L, D) /\ op.comm_id = id /\ op.cc_id = k
      /\ x \in OperationRecords /\ x.comm_id = id /\ x.cc_id = k
  BY ClosesFacts
<1>2. \A j \in 1 .. n \ {i} : /\ s[j] \in OperationRecords /\ OperationOK(s[j], L, C)
                              /\ s[j].comm_id = CommSelf \/ s[j].comm_id # id \/ s[j].cc_id # k
  BY ClosesFacts
<1>3. /\ Completes(G, L, D, p, t, id, k, C) /\ x = Completed(op) /\ s \in Seq(OperationRecords)
      /\ OperationsOK(s, L, D)
  BY DEF Closes, Completes
<1>4. N \in Seq(OperationRecords)
  <2>1. [s EXCEPT ![i] = x] \in Seq(OperationRecords)
    BY <1>1, <1>3, ReplacingOne
  <2> QED BY <2>1
<1>5. DOMAIN N = 1 .. n /\ N[i] = x /\ \A j \in 1 .. n \ {i} : N[j] = s[j]
  BY <1>1
<1>6. id # CommSelf
  BY <1>1 DEF OperationOK
<1>7. ASSUME NEW j \in 1 .. n PROVE OperationOK(N[j], L, C)
  <2>1. CASE j = i
    <3>1. OperationOK(x, L, C)
      BY <1>1, <1>3, CompletedOperation
    <3> QED BY <1>5, <2>1, <3>1
  <2>2. CASE j # i
    BY <1>2, <1>5, <2>2
  <2> QED BY <2>1, <2>2
<1>8. \A j \in 1 .. n : N[j].comm_id = s[j].comm_id /\ N[j].cc_id = s[j].cc_id
  BY <1>1, <1>5
<1>9. \A d, j : OperationsAt(N, d, j) = OperationsAt(s, d, j)
  BY <1>1, <1>5, <1>8 DEF OperationsAt
<1>10. ASSUME NEW q \in Procs, NEW u \in DOMAIN L[q], NEW d, NEW j,
              d = L[q][u].comm.comm_id, j = PositionOf(L, q, u) - 1, d # CommSelf, OperationsAt(N, d, j) = {}
       PROVE  ToSet(L[q][u].comm.group.table) \subseteq Left(L, C, d, j)
  <2>1. d # id \/ j # k
    BY <1>1, <1>9, <1>10 DEF OperationsAt
  <2>2. j \in Int
    <3>1. PositionOf(L, q, u) \in 1 .. Cardinality(CallsOn(L, q, d))
      BY <1>3, <1>10, PositionFacts DEF Completes
    <3> QED BY <1>10, <3>1
  <2>3. ToSet(L[q][u].comm.group.table) \subseteq Left(L, D, d, j)
    BY <1>3, <1>9, <1>10 DEF OperationsOK
  <2>4. Left(L, C, d, j) = Left(L, D, d, j)
    BY <1>3, <2>1, <2>2, CompletesFacts
  <2> QED BY <2>3, <2>4
<1>11. ASSUME NEW j \in Nat
       PROVE  Cardinality(OperationsAt(N, CommSelf, j)) = Cardinality(Inside(L, C, CommSelf, j))
  <2>1. Inside(L, C, CommSelf, j) = Inside(L, D, CommSelf, j)
    BY <1>3, <1>6, CompletesFacts
  <2> QED BY <1>3, <1>9, <2>1 DEF OperationsOK
<1>12. \A q \in Procs : \A u \in DOMAIN L[q] :
         LET d == L[q][u].comm.comm_id
             j == PositionOf(L, q, u) - 1
         IN d # CommSelf /\ OperationsAt(N, d, j) = {} => ToSet(L[q][u].comm.group.table) \subseteq Left(L, C, d, j)
  BY <1>10
<1>13. \A a \in DOMAIN N, b \in DOMAIN N :
         N[a].comm_id = N[b].comm_id /\ N[a].cc_id = N[b].cc_id /\ N[a].comm_id # CommSelf => a = b
  BY <1>1, <1>3, <1>5, <1>8 DEF OperationsOK
<1> QED BY <1>4, <1>5, <1>7, <1>11, <1>12, <1>13 DEF OperationsOK

Without(s, i, x) == RemoveAt([s EXCEPT ![i] = x], i)

Shortened(N, s, n, i) ==
  /\ N \in Seq(OperationRecords) /\ DOMAIN N = 1 .. n - 1
  /\ \A j \in 1 .. n - 1 : Shift(i, j) \in 1 .. n \ {i} /\ N[j] = s[Shift(i, j)]

LEMMA RemovedPlaces ==
  ASSUME NEW s \in Seq(OperationRecords), NEW n \in Nat, n = Len(s), NEW i \in 1 .. n, NEW x \in OperationRecords,
         NEW N, N = Without(s, i, x)
  PROVE  Shortened(N, s, n, i)
<1>1. PICK u : u = [s EXCEPT ![i] = x]
  OBVIOUS
<1>2. u \in Seq(OperationRecords) /\ Len(u) = n
  BY <1>1, ReplacingOne
<1>3. DOMAIN s = 1 .. n
  BY LenProperties
<1>4. \A j \in 1 .. n : j # i => u[j] = s[j]
  BY <1>1, <1>3
<1>5. i \in 1 .. Len(u)
  BY <1>2
<1>6. PICK R : R = RemoveAt(u, i)
  OBVIOUS
<1>7. /\ R \in Seq(OperationRecords) /\ Len(R) = Len(u) - 1
      /\ \A j \in 1 .. Len(u) - 1 : R[j] = u[IF j < i THEN j ELSE j + 1]
  BY <1>2, <1>5, <1>6, RemovingOne
<1>8. DOMAIN R = 1 .. n - 1
  BY <1>2, <1>7, LenProperties
<1>9. ASSUME NEW j \in 1 .. n - 1
      PROVE  Shift(i, j) \in 1 .. n \ {i} /\ R[j] = s[Shift(i, j)]
  <2>1. Shift(i, j) \in 1 .. n \ {i}
    BY DEF Shift
  <2>2. R[j] = u[Shift(i, j)]
    BY <1>2, <1>7 DEF Shift
  <2> QED BY <1>4, <2>1, <2>2
<1>10. N = R
  BY <1>1, <1>6 DEF Without
<1> QED BY <1>7, <1>8, <1>9, <1>10 DEF Shortened

LEMMA ShiftedPlaces ==
  ASSUME NEW n \in Nat, NEW i \in 1 .. n, NEW a \in 1 .. n, a # i
  PROVE  \E j \in 1 .. n - 1 : Shift(i, j) = a
<1>1. CASE a < i
  <2>1. a \in 1 .. n - 1 /\ Shift(i, a) = a
    BY <1>1 DEF Shift
  <2> QED BY <2>1
<1>2. CASE a > i
  <2>1. a - 1 \in 1 .. n - 1 /\ Shift(i, a - 1) = a
    BY <1>2 DEF Shift
  <2> QED BY <2>1
<1> QED BY <1>1, <1>2

LEMMA TakenAway ==
  ASSUME NEW G, NEW L, NEW D, NEW p, NEW t, NEW id, NEW k, NEW C, NEW s, NEW n, NEW i, NEW op, NEW x,
         Closes(G, L, D, p, t, id, k, C, s, n, i, op, x), op.remaining_complete = 1,
         NEW N, N = Without(s, i, x)
  PROVE  N \in Seq(OperationRecords) /\ OperationsOK(N, L, C)
<1>1. /\ i \in 1 .. n /\ n \in Nat /\ DOMAIN s = 1 .. n /\ op = s[i]
      /\ op \in OperationRecords /\ OperationOK(op, L, D) /\ op.comm_id = id /\ op.cc_id = k
      /\ x \in OperationRecords
  BY ClosesFacts
<1>2. \A j \in 1 .. n \ {i} : /\ OperationOK(s[j], L, C)
                              /\ s[j].comm_id = CommSelf \/ s[j].comm_id # id \/ s[j].cc_id # k
  BY ClosesFacts
<1>3. /\ Completes(G, L, D, p, t, id, k, C) /\ s \in Seq(OperationRecords) /\ n = Len(s)
      /\ OperationsOK(s, L, D) /\ IsLog(L)
  BY DEF Closes, Completes
<1>4. /\ N \in Seq(OperationRecords) /\ DOMAIN N = 1 .. n - 1
      /\ \A j \in 1 .. n - 1 : Shift(i, j) \in 1 .. n \ {i} /\ N[j] = s[Shift(i, j)]
  <2>1. Shortened(N, s, n, i)
    BY <1>1, <1>3, RemovedPlaces
  <2> QED BY <2>1 DEF Shortened
<1>5. \A j \in 1 .. n - 1 : OperationOK(N[j], L, C)
  BY <1>2, <1>4
<1>6. ASSUME NEW a \in 1 .. n - 1, NEW b \in 1 .. n - 1,
             N[a].comm_id = N[b].comm_id, N[a].cc_id = N[b].cc_id, N[a].comm_id # CommSelf
      PROVE  a = b
  <2>1. PICK c, d : c = Shift(i, a) /\ d = Shift(i, b) /\ c \in 1 .. n /\ d \in 1 .. n /\ N[a] = s[c] /\ N[b] = s[d]
    BY <1>4
  <2>2. c = d
    BY <1>1, <1>3, <1>6, <2>1 DEF OperationsOK
  <2> QED BY <1>1, <2>1, <2>2 DEF Shift
<1>7. \A d, j : OperationsAt(N, d, j) = PlacesLeft(n, i, OperationsAt(s, d, j))
  <2>1. SUFFICES ASSUME NEW d, NEW j PROVE OperationsAt(N, d, j) = PlacesLeft(n, i, OperationsAt(s, d, j))
    OBVIOUS
  <2>2. \A l \in 1 .. n - 1 : l \in OperationsAt(N, d, j) <=> Shift(i, l) \in OperationsAt(s, d, j)
    BY <1>1, <1>4 DEF OperationsAt
  <2>3. OperationsAt(N, d, j) \subseteq 1 .. n - 1
    BY <1>4 DEF OperationsAt
  <2> QED BY <2>2, <2>3 DEF PlacesLeft
<1>8. ASSUME NEW q \in Procs, NEW u \in DOMAIN L[q], NEW d, NEW j,
             d = L[q][u].comm.comm_id, j = PositionOf(L, q, u) - 1, d # CommSelf, OperationsAt(N, d, j) = {}
      PROVE  ToSet(L[q][u].comm.group.table) \subseteq Left(L, C, d, j)
  <2>1. PositionOf(L, q, u) \in Nat /\ j \in Int
    <3>1. PositionOf(L, q, u) \in 1 .. Cardinality(CallsOn(L, q, d)) /\ Cardinality(CallsOn(L, q, d)) \in Nat
      BY <1>3, <1>8, PositionFacts, CallsAreFinite
    <3> QED BY <1>8, <3>1
  <2>2. CASE d = id /\ j = k
    <3>1. u \in CallsAt(L, q, id, k)
      <4>1. PositionOf(L, q, u) = k + 1
        BY <1>8, <2>1, <2>2
      <4>2. L[q][u].comm.comm_id = id
        BY <1>8, <2>2
      <4> QED BY <1>8, <4>1, <4>2 DEF CallsAt, CallsOn
    <3>2. id # CommSelf
      BY <1>8, <2>2
    <3>3. Members(L[q][u].comm) \subseteq Left(L, C, id, k)
      BY <1>1, <1>3, <3>1, <3>2, LastHasLeft
    <3> QED BY <2>2, <3>3 DEF Members
  <2>3. CASE d # id \/ j # k
    <3>1. OperationsAt(s, d, j) = {}
      <4>1. SUFFICES ASSUME NEW a \in OperationsAt(s, d, j) PROVE FALSE
        OBVIOUS
      <4>2. a \in 1 .. n /\ a # i
        BY <1>1, <2>3, <4>1 DEF OperationsAt
      <4>3. PICK l \in 1 .. n - 1 : Shift(i, l) = a
        BY <1>1, <4>2, ShiftedPlaces
      <4>4. l \in OperationsAt(N, d, j)
        BY <1>7, <4>1, <4>3 DEF PlacesLeft
      <4> QED BY <1>8, <4>4
    <3>2. ToSet(L[q][u].comm.group.table) \subseteq Left(L, D, d, j)
      BY <1>3, <1>8, <3>1 DEF OperationsOK
    <3>3. Left(L, C, d, j) = Left(L, D, d, j)
      BY <1>3, <2>1, <2>3, CompletesFacts
    <3> QED BY <3>2, <3>3
  <2> QED BY <2>2, <2>3
<1>9. ASSUME NEW j \in Nat
      PROVE  Cardinality(OperationsAt(N, CommSelf, j)) = Cardinality(Inside(L, C, CommSelf, j))
  <2>1. PICK A : A = OperationsAt(s, CommSelf, j) /\ A \in SUBSET (1 .. n)
    BY <1>1 DEF OperationsAt
  <2>2. PICK B : B = OperationsAt(N, CommSelf, j) /\ B = PlacesLeft(n, i, A)
    BY <1>7, <2>1
  <2>3. Cardinality(B) = Cardinality(A \ {i})
    BY <1>1, <2>1, <2>2, PlacesAfterRemoval
  <2>4. Cardinality(A) = Cardinality(Inside(L, D, CommSelf, j))
    BY <1>3, <2>1 DEF OperationsOK
  <2>5. IsFiniteSet(A)
    <3>1. IsFiniteSet(1 .. n)
      BY <1>1, FS_Interval
    <3> QED BY <2>1, <3>1, FS_Subset
  <2>6. PICK I : I = Inside(L, D, CommSelf, j) /\ IsFiniteSet(I)
    BY ProcsAreFinite, FS_Subset DEF Inside
  <2>7. CASE id = CommSelf /\ j = k
    <3>1. i \in A
      BY <1>1, <2>1, <2>7 DEF OperationsAt
    <3>2. p \in I /\ Inside(L, C, CommSelf, j) = I \ {p}
      BY <1>3, <2>6, <2>7, CompletesFacts
    <3>3. Cardinality(A \ {i}) = Cardinality(A) - 1
      BY <2>5, <3>1, OneLess
    <3>4. Cardinality(I \ {p}) = Cardinality(I) - 1
      BY <2>6, <3>2, OneLess
    <3> QED BY <2>2, <2>3, <2>4, <2>6, <3>2, <3>3, <3>4
  <2>8. CASE id # CommSelf \/ j # k
    <3>1. i \notin A
      BY <1>1, <2>1, <2>8 DEF OperationsAt
    <3>2. A \ {i} = A
      BY <3>1
    <3>3. Inside(L, C, CommSelf, j) = Inside(L, D, CommSelf, j)
      BY <1>3, <2>8, CompletesFacts
    <3> QED BY <2>2, <2>3, <2>4, <3>2, <3>3
  <2> QED BY <2>7, <2>8
<1>10. \A q \in Procs : \A u \in DOMAIN L[q] :
         LET d == L[q][u].comm.comm_id
             j == PositionOf(L, q, u) - 1
         IN d # CommSelf /\ OperationsAt(N, d, j) = {} => ToSet(L[q][u].comm.group.table) \subseteq Left(L, C, d, j)
  BY <1>8
<1> QED BY <1>4, <1>5, <1>6, <1>9, <1>10 DEF OperationsOK

\* The parts of Complete.
OutcomeFor(w, p, i) ==
  CompleteMain(w.gstate.operations[i], p,
               IF GetComm(w.gstate.states[p], p, w.gstate.operations[i].comm_id) = None THEN None
               ELSE PidToRank(GetComm(w.gstate.states[p], p, w.gstate.operations[i].comm_id), p))
CountCompletion(G, i) == [G EXCEPT !.operations[i].remaining_complete = @ - 1]
CompletedGlobal(G, i) ==
  IF G.operations[i].remaining_complete = 1 THEN FinishCollectiveOperation(CountCompletion(G, i), i)
  ELSE CountCompletion(G, i)
CompletedWorld(w, p, i, serial) ==
  [w EXCEPT !.memory[p] = Write(w.memory[p], w.gstate.operations[i], serial, OutcomeFor(w, p, i)),
            !.gstate = CompletedGlobal(w.gstate, i)]

LEMMA PartsOfComplete ==
  ASSUME NEW w, NEW p, NEW i, NEW serial
  PROVE  \/ Complete(w, p, i, serial) = Fail(w, "AttributeError")
         \/ Complete(w, p, i, serial) = CompletedWorld(w, p, i, serial)
<1>1. Complete(w, p, i, serial) =
        IF /\ GetComm(w.gstate.states[p], p, w.gstate.operations[i].comm_id) = None
           /\ AsksForRank(w.gstate.operations[i], p)
        THEN Fail(w, "AttributeError") ELSE CompletedWorld(w, p, i, serial)
  BY DEF Complete, CompletedWorld, OutcomeFor, CompletedGlobal, CountCompletion
<1> QED BY <1>1

\* The operations after a completion.
CompletedList(s, i) ==
  IF s[i].remaining_complete = 1 THEN Without(s, i, Completed(s[i])) ELSE [s EXCEPT ![i] = Completed(s[i])]

LEMMA CompletingGlobal ==
  ASSUME NEW G \in GlobalStates, NEW i
  PROVE  CompletedGlobal(G, i) = WithOperations(G, CompletedList(G.operations, i))
<1>1. PICK s, o, n : G = [states |-> s, operations |-> o, comm_id_counter |-> n] /\ o = G.operations
  BY GlobalFields
<1>2. PICK z : z = [o EXCEPT ![i] = Completed(o[i])]
  OBVIOUS
<1>3. CountCompletion(G, i) = WithOperations(G, [G.operations EXCEPT ![i] = Completed(G.operations[i])])
  BY DEF CountCompletion, WithOperations, Completed
<1>4. CountCompletion(G, i) = WithOperations(G, z)
  BY <1>1, <1>2, <1>3
<1>5. CASE o[i].remaining_complete = 1
  <2>1. PICK F : F = [states |-> s, operations |-> z, comm_id_counter |-> n]
    OBVIOUS
  <2>2. WithOperations(G, z) = F
    BY <1>1, <2>1, OperationsReplaced
  <2>3. FinishCollectiveOperation(F, i) = WithOperations(F, RemoveAt(F.operations, i))
    BY DEF FinishCollectiveOperation, WithOperations
  <2>4. F.operations = z
    BY <2>1
  <2>5. PICK y : y = RemoveAt(z, i)
    OBVIOUS
  <2>6. WithOperations(F, y) = [states |-> s, operations |-> y, comm_id_counter |-> n]
    BY <2>1, OperationsReplaced
  <2>7. WithOperations(G, y) = [states |-> s, operations |-> y, comm_id_counter |-> n]
    BY <1>1, OperationsReplaced
  <2>8. CompletedGlobal(G, i) = WithOperations(G, y)
    BY <1>1, <1>4, <1>5, <2>2, <2>3, <2>4, <2>5, <2>6, <2>7 DEF CompletedGlobal
  <2>9. y = CompletedList(o, i)
    BY <1>2, <1>5, <2>5 DEF CompletedList, Without
  <2> QED BY <1>1, <2>8, <2>9
<1>6. CASE o[i].remaining_complete # 1
  <2>1. z = CompletedList(o, i)
    BY <1>2, <1>6 DEF CompletedList
  <2> QED BY <1>1, <1>4, <1>6, <2>1 DEF CompletedGlobal
<1> QED BY <1>5, <1>6

\* The memory after p has completed the call with this number.
WrittenFor(M, p, op, serial, outcome) == [M EXCEPT ![p] = Write(M[p], op, serial, outcome)]

Written(M, N, p, serial) ==
  /\ IsMemory(N) /\ N[p].requests = M[p].requests /\ N[p].groups = M[p].groups
  /\ \A q \in Procs \ {p} : N[q] = M[q]
  /\ ClosedOf(N) = [ClosedOf(M) EXCEPT ![p] = @ \cup {serial}]

LEMMA WrittenMemory ==
  ASSUME NEW M, IsMemory(M), NEW p \in Procs, NEW op, NEW serial, NEW outcome,
         NEW N, N = WrittenFor(M, p, op, serial, outcome)
  PROVE  Written(M, N, p, serial)
<1>1. PICK f, c, g, r : f = M[p].requests /\ c = M[p].comms /\ g = M[p].groups /\ r = M[p].results
                        /\ f \in [1 .. RequestVars -> Nat] /\ M[p] = MemoryRecord(f, c, g, r)
  BY MemoryFields
<1>2. PICK d : d = IF op.name \in OnComms THEN [c EXCEPT ![outcome.buffer] = outcome.value] ELSE c
  OBVIOUS
<1>3. PICK x : x = [serial |-> serial, outcome |-> outcome]
  OBVIOUS
<1>4. PICK R : R = r \cup {x}
  OBVIOUS
<1>5. Write(M[p], op, serial, outcome) = MemoryRecord(f, d, g, R)
  <2>1. PICK A : A = MemoryRecord(f, c, g, R)
    OBVIOUS
  <2>a. PICK B : B = MemoryRecord(f, c, g, r)
    OBVIOUS
  <2>b. [B EXCEPT !.results = @ \cup {x}] = A
    BY <1>4, <2>1, <2>a DEF MemoryRecord
  <2>2. [M[p] EXCEPT !.results = @ \cup {x}] = A
    BY <1>1, <2>a, <2>b
  <2>3. Write(M[p], op, serial, outcome) =
          IF op.name \in OnComms THEN [A EXCEPT !.comms[outcome.buffer] = outcome.value] ELSE A
    BY <1>3, <2>2 DEF Write
  <2>4. CASE op.name \in OnComms
    <3>1. [A EXCEPT !.comms[outcome.buffer] = outcome.value] = MemoryRecord(f, d, g, R)
      BY <1>2, <2>1, <2>4 DEF MemoryRecord
    <3> QED BY <2>3, <2>4, <3>1
  <2>5. CASE op.name \notin OnComms
    BY <1>2, <2>1, <2>3, <2>5
  <2> QED BY <2>4, <2>5
<1>6. PICK E : E = [M EXCEPT ![p] = MemoryRecord(f, d, g, R)]
  OBVIOUS
<1>7. N = E
  BY <1>5, <1>6 DEF WrittenFor
<1>8. MemoryChanged(M, E, p, f, d, g, R)
  BY <1>1, <1>6, MemoryReplaced
<1>9. /\ IsMemory(E) /\ E[p].requests = f /\ E[p].groups = g
      /\ \A q \in Procs \ {p} : E[q] = M[q]
      /\ ClosedOf(E) = [ClosedOf(M) EXCEPT ![p] = {u.serial : u \in R}]
  BY <1>8 DEF MemoryChanged
<1>10. {u.serial : u \in R} = ClosedOf(M)[p] \cup {serial}
  <2>1. ClosedOf(M)[p] = {u.serial : u \in r}
    BY <1>1 DEF ClosedOf
  <2>2. x.serial = serial
    BY <1>3
  <2> QED BY <1>4, <2>1, <2>2
<1> QED BY <1>1, <1>7, <1>9, <1>10 DEF Written

LEMMA RequestsWithout ==
  ASSUME NEW S, NEW L, NEW p, NEW C, RequestsOK(S, L, p, C), NEW r \in S.finished,
         NEW T, T.active = S.active, T.finished = S.finished \ {r}
  PROVE  RequestsOK(T, L, p, C \cup {r.serial}) /\ LiveRequests(T) = LiveRequests(S) \ {r}
<1>1. LiveRequests(T) = LiveRequests(S) \ {r} /\ r \in LiveRequests(S)
  <2>1. r \notin ToSet(S.active)
    BY DEF RequestsOK
  <2> QED BY <2>1 DEF LiveRequests
<1>2. IsFiniteSet(T.finished)
  BY FS_Subset DEF RequestsOK
<1>3. \A q \in LiveRequests(T) : q.serial # r.serial /\ q.serial \notin C /\ RequestOK(L, p, q)
  BY <1>1 DEF RequestsOK
<1>4. r.serial \in DOMAIN L[p] /\ C \subseteq DOMAIN L[p]
  BY <1>1 DEF RequestsOK, RequestOK
<1>5. \A t \in DOMAIN L[p] \ (C \cup {r.serial}) : \E q \in LiveRequests(T) : q.serial = t
  BY <1>1 DEF RequestsOK
<1>6. /\ \A i \in DOMAIN T.active, j \in DOMAIN T.active :
           T.active[i].id = T.active[j].id \/ T.active[i].serial = T.active[j].serial => i = j
      /\ ToSet(T.active) \cap T.finished = {}
      /\ \A a \in T.finished, q \in LiveRequests(T) : a.id = q.id \/ a.serial = q.serial => a = q
  BY <1>1 DEF RequestsOK
<1> QED BY <1>1, <1>2, <1>3, <1>4, <1>5, <1>6 DEF RequestsOK

\* p has closed the requests R, between the global state and memory G, M and H, N.
TakenFrom(G, M, H, N, p, R) ==
  /\ \A q \in Procs \ {p} : H.states[q] = G.states[q] /\ N[q] = M[q]
  /\ H.states[p] = [G.states[p] EXCEPT !.finished = @ \ R]
  /\ H.comm_id_counter = G.comm_id_counter
  /\ N[p].requests = M[p].requests
  /\ ClosedOf(N) = [ClosedOf(M) EXCEPT ![p] = @ \cup {r.serial : r \in R}]

\* The parts of CloseRequest.
DoneWith(v, p, r) == [v EXCEPT !.gstate.states[p].finished = @ \ {r}]
FinishedOf(S, id) == CHOOSE r \in S.finished : r.id = id
CloseFinished(w, p, r) == Complete(w, p, OperationIndex(w.gstate, r.comm_id, r.cc_id), r.serial)

LEMMA PartsOfClose ==
  ASSUME NEW w, NEW p, NEW id
  PROVE  CloseRequest(w, p, id) =
           IF CloseFinished(w, p, FinishedOf(w.gstate.states[p], id)).error = "none"
           THEN DoneWith(CloseFinished(w, p, FinishedOf(w.gstate.states[p], id)), p, FinishedOf(w.gstate.states[p], id))
           ELSE CloseFinished(w, p, FinishedOf(w.gstate.states[p], id))
BY DEF CloseRequest, Then, DoneWith, FinishedOf, CloseFinished

LEMMA DoneWithRequest ==
  ASSUME NEW G \in GlobalStates, NEW p \in Procs, NEW M, NEW L, NEW r, NEW ops
  PROVE  DoneWith(World(WithOperations(G, ops), M, "none", L), p, r) =
           World(Replaced(G, p, [G.states[p] EXCEPT !.finished = @ \ {r}], ops), M, "none", L)
<1>1. PICK s, o, n : G = [states |-> s, operations |-> o, comm_id_counter |-> n] /\ s = G.states /\ DOMAIN s = Procs
  BY GlobalFields
<1>2. PICK F : F = [states |-> s, operations |-> ops, comm_id_counter |-> n]
  OBVIOUS
<1>3. WithOperations(G, ops) = F
  BY <1>1, <1>2, OperationsReplaced
<1>4. PICK T : T = [s[p] EXCEPT !.finished = @ \ {r}]
  OBVIOUS
<1>5. PICK H : H = [F EXCEPT !.states[p] = T]
  OBVIOUS
<1>6. H = [states |-> [s EXCEPT ![p] = T], operations |-> ops, comm_id_counter |-> n]
  BY <1>2, <1>5
<1>7. Replaced(G, p, T, ops) = [states |-> [s EXCEPT ![p] = T], operations |-> ops, comm_id_counter |-> n]
  BY <1>1, GlobalRecords
<1>8. PICK W : W = World(F, M, "none", L) /\ W.gstate = F
  BY WorldFields
<1>9. F.states[p] = s[p]
  BY <1>2
<1>10. DoneWith(W, p, r) = [W EXCEPT !.gstate = H]
  BY <1>4, <1>5, <1>8, <1>9 DEF DoneWith
<1>11. [W EXCEPT !.gstate = H] = World(H, M, "none", L)
  BY <1>8, GlobalOfWorld
<1>12. H = Replaced(G, p, T, ops)
  BY <1>6, <1>7
<1> QED BY <1>1, <1>3, <1>4, <1>8, <1>10, <1>11, <1>12

ClosedAs(G, M, L, p, r, u) ==
  \/ u = World(G, M, "AttributeError", L)
  \/ \E H, N : u = World(H, N, "none", L) /\ CoreOK(H, N, L) /\ TakenFrom(G, M, H, N, p, {r})

LEMMA CompletingOperation ==
  ASSUME NEW G, NEW L, NEW D, NEW p, NEW t, NEW id, NEW k, NEW C, Completes(G, L, D, p, t, id, k, C),
         NEW i \in OperationsAt(G.operations, id, k), NEW ops, ops = CompletedList(G.operations, i)
  PROVE  ops \in Seq(OperationRecords) /\ OperationsOK(ops, L, C)
<1>1. G.operations \in Seq(OperationRecords)
  BY GlobalFields DEF Completes
<1>2. PICK s, n, op, x : /\ s = G.operations /\ n = Len(s) /\ n \in Nat /\ DOMAIN s = 1 .. n
                         /\ op = s[i] /\ x = Completed(op)
  BY <1>1, LenProperties
<1>3. Closes(G, L, D, p, t, id, k, C, s, n, i, op, x)
  BY <1>1, <1>2 DEF Closes
<1>4. PICK N : N = CompletedList(s, i)
  OBVIOUS
<1>5. N \in Seq(OperationRecords) /\ OperationsOK(N, L, C)
  <2>1. CASE op.remaining_complete = 1
    <3>1. N = Without(s, i, x)
      BY <1>2, <1>4, <2>1 DEF CompletedList
    <3> QED BY <1>3, <2>1, <3>1, TakenAway
  <2>2. CASE op.remaining_complete # 1
    <3>1. PICK E : E = [s EXCEPT ![i] = x]
      OBVIOUS
    <3>2. N = E
      BY <1>2, <1>4, <2>2, <3>1 DEF CompletedList
    <3>3. E \in Seq(OperationRecords) /\ OperationsOK(E, L, C)
      BY <1>3, <2>2, <3>1, CountedDown
    <3> QED BY <3>2, <3>3
  <2> QED BY <2>1, <2>2
<1> QED BY <1>2, <1>4, <1>5

LEMMA CompletedInWorld ==
  ASSUME NEW G \in GlobalStates, NEW M, NEW L, NEW p, NEW i, NEW serial
  PROVE  CompletedWorld(World(G, M, "none", L), p, i, serial) =
           World(WithOperations(G, CompletedList(G.operations, i)),
                 WrittenFor(M, p, G.operations[i], serial, OutcomeFor(World(G, M, "none", L), p, i)), "none", L)
<1>1. PICK w : w = World(G, M, "none", L)
  OBVIOUS
<1>2. w.gstate = G /\ w.memory = M
  BY <1>1, WorldFields
<1>3. PICK N : N = WrittenFor(M, p, G.operations[i], serial, OutcomeFor(w, p, i))
  OBVIOUS
<1>4. PICK H : H = CompletedGlobal(G, i)
  OBVIOUS
<1>5. CompletedWorld(w, p, i, serial) = [[w EXCEPT !.memory = N] EXCEPT !.gstate = H]
  BY <1>2, <1>3, <1>4 DEF CompletedWorld, WrittenFor
<1>6. [w EXCEPT !.memory = N] = World(G, N, "none", L)
  BY <1>1, MemoryOfWorld
<1>7. [World(G, N, "none", L) EXCEPT !.gstate = H] = World(H, N, "none", L)
  BY GlobalOfWorld
<1>8. CompletedWorld(w, p, i, serial) = World(H, N, "none", L)
  BY <1>5, <1>6, <1>7
<1>9. H = WithOperations(G, CompletedList(G.operations, i))
  BY <1>4, CompletingGlobal
<1> QED BY <1>1, <1>3, <1>8, <1>9

LEMMA FailedWorld ==
  ASSUME NEW G, NEW M, NEW L, NEW err, NEW f
  PROVE  Fail(World(G, M, err, L), f) = World(G, M, f, L)
BY DEF Fail, World

\* The state of p without a finished request.
FinishedLess(S, R) == [S EXCEPT !.finished = @ \ R]

LEMMA LessFinished ==
  ASSUME NEW S \in StateRecords, NEW R, NEW T, T = FinishedLess(S, R)
  PROVE  /\ T \in StateRecords /\ T.active = S.active /\ T.finished = S.finished \ R
         /\ SameComms(S, T) /\ SameAttributes(S, T) /\ T.groups = S.groups
         /\ T.status = S.status /\ T.tested = S.tested /\ T.pointer = S.pointer
BY DEF FinishedLess, StateRecords, SameComms, SameAttributes

LEMMA FinishedOne ==
  ASSUME NEW S, NEW L, NEW p, NEW C, RequestsOK(S, L, p, C), NEW r \in S.finished
  PROVE  FinishedOf(S, r.id) = r
<1>1. \A q \in S.finished : q.id = r.id => q = r
  BY DEF RequestsOK, LiveRequests
<1> QED BY <1>1 DEF FinishedOf

\* Request r of p is closed: its operation is at place i.
ClosingAt(G, M, L, p, r, i, ops, N) ==
  /\ i \in OperationsAt(G.operations, r.comm_id, r.cc_id) /\ ops = CompletedList(G.operations, i)
  /\ \E outcome : N = WrittenFor(M, p, G.operations[i], r.serial, outcome)

LEMMA RequestCompletes ==
  ASSUME NEW G, NEW M, NEW L, CoreOK(G, M, L), NEW p \in Procs, NEW r \in G.states[p].finished
  PROVE  Completes(G, L, ClosedOf(M), p, r.serial, r.comm_id, r.cc_id, [ClosedOf(M) EXCEPT ![p] = @ \cup {r.serial}])
<1>1. /\ G \in GlobalStates /\ IsLog(L) /\ CommsOK(G, L) /\ OperationsOK(G.operations, L, ClosedOf(M))
      /\ G.states[p] \in StateRecords /\ RequestsOK(G.states[p], L, p, ClosedOf(M)[p])
  BY WorldParts
<1>2. r \in Requests
  BY <1>1, StateFields
<1>3. r \in LiveRequests(G.states[p])
  BY DEF LiveRequests
<1>4. RequestOK(L, p, r) /\ r.serial \notin ClosedOf(M)[p]
  BY <1>1, <1>3 DEF RequestsOK
<1>5. r.cc_id \in Nat
  BY <1>2, RequestFields
<1>6. DOMAIN ClosedOf(M) = Procs
  BY DEF ClosedOf
<1> QED BY <1>1, <1>4, <1>5, <1>6 DEF Completes, RequestOK

LEMMA ClosingParts ==
  ASSUME NEW G, NEW M, NEW L, CoreOK(G, M, L), NEW p \in Procs, NEW r \in G.states[p].finished,
         NEW u, u = CloseRequest(World(G, M, "none", L), p, r.id)
  PROVE  \/ u = World(G, M, "AttributeError", L)
         \/ \E i, ops, N : /\ ClosingAt(G, M, L, p, r, i, ops, N)
                           /\ u = World(Replaced(G, p, FinishedLess(G.states[p], {r}), ops), N, "none", L)
<1>1. /\ G \in GlobalStates /\ G.states[p] \in StateRecords /\ RequestsOK(G.states[p], L, p, ClosedOf(M)[p])
  BY WorldParts
<1>2. PICK w : w = World(G, M, "none", L)
  OBVIOUS
<1>3. w.gstate = G /\ w.memory = M
  BY <1>2, WorldFields
<1>4. FinishedOf(G.states[p], r.id) = r
  BY <1>1, FinishedOne
<1>5. PICK i : i = OperationIndex(G, r.comm_id, r.cc_id)
  OBVIOUS
<1>6. i \in OperationsAt(G.operations, r.comm_id, r.cc_id)
  BY <1>5, RequestCompletes, OperationExists
<1>7. CloseFinished(w, p, r) = Complete(w, p, i, r.serial)
  BY <1>3, <1>5 DEF CloseFinished
<1>8. PICK v : v = Complete(w, p, i, r.serial)
  OBVIOUS
<1>9. u = IF v.error = "none" THEN DoneWith(v, p, r) ELSE v
  BY <1>2, <1>3, <1>4, <1>7, <1>8, PartsOfClose
<1>10. CASE v = Fail(w, "AttributeError")
  <2>1. v = World(G, M, "AttributeError", L)
    BY <1>2, <1>10, FailedWorld
  <2>2. v.error = "AttributeError"
    BY <2>1, WorldFields
  <2> QED BY <1>9, <2>1, <2>2
<1>11. CASE v = CompletedWorld(w, p, i, r.serial)
  <2>1. PICK N : N = WrittenFor(M, p, G.operations[i], r.serial, OutcomeFor(w, p, i))
    OBVIOUS
  <2>2. PICK ops : ops = CompletedList(G.operations, i)
    OBVIOUS
  <2>3. v = World(WithOperations(G, ops), N, "none", L)
    BY <1>1, <1>2, <1>11, <2>1, <2>2, CompletedInWorld
  <2>4. v.error = "none"
    BY <2>3, WorldFields
  <2>5. DoneWith(World(WithOperations(G, ops), N, "none", L), p, r) =
          World(Replaced(G, p, FinishedLess(G.states[p], {r}), ops), N, "none", L)
    BY <1>1, DoneWithRequest DEF FinishedLess
  <2>6. ClosingAt(G, M, L, p, r, i, ops, N)
    BY <1>6, <2>1, <2>2 DEF ClosingAt
  <2> QED BY <1>9, <2>3, <2>4, <2>5, <2>6
<1>12. v = Fail(w, "AttributeError") \/ v = CompletedWorld(w, p, i, r.serial)
  BY <1>8, PartsOfComplete
<1> QED BY <1>10, <1>11, <1>12

LEMMA ClosingRequest ==
  ASSUME NEW G, NEW M, NEW L, CoreOK(G, M, L), NEW p \in Procs, NEW r \in G.states[p].finished,
         NEW u, u = CloseRequest(World(G, M, "none", L), p, r.id)
  PROVE  ClosedAs(G, M, L, p, r, u)
<1>1. /\ G \in GlobalStates /\ IsMemory(M) /\ IsLog(L) /\ CommunicatorsOK(G, L) /\ RootsOK(L)
      /\ \A q \in Procs : /\ G.states[q] \in StateRecords
                          /\ RequestsOK(G.states[q], L, q, ClosedOf(M)[q])
  BY WorldParts
<1>2. CASE u = World(G, M, "AttributeError", L)
  BY <1>2 DEF ClosedAs
<1>3. ASSUME NEW i, NEW ops, NEW N, ClosingAt(G, M, L, p, r, i, ops, N),
             u = World(Replaced(G, p, FinishedLess(G.states[p], {r}), ops), N, "none", L)
      PROVE  ClosedAs(G, M, L, p, r, u)
  <2>1. PICK T : T = FinishedLess(G.states[p], {r})
    OBVIOUS
  <2>2. PICK H : H = Replaced(G, p, T, ops)
    OBVIOUS
  <2>3. PICK C : C = [ClosedOf(M) EXCEPT ![p] = @ \cup {r.serial}]
    OBVIOUS
  <2>4. Completes(G, L, ClosedOf(M), p, r.serial, r.comm_id, r.cc_id, C)
    BY <2>3, RequestCompletes
  <2>5. i \in OperationsAt(G.operations, r.comm_id, r.cc_id) /\ ops = CompletedList(G.operations, i)
    BY <1>3 DEF ClosingAt
  <2>6. ops \in Seq(OperationRecords) /\ OperationsOK(ops, L, C)
    BY <2>4, <2>5, CompletingOperation
  <2>7. PICK outcome : N = WrittenFor(M, p, G.operations[i], r.serial, outcome)
    BY <1>3 DEF ClosingAt
  <2>8. Written(M, N, p, r.serial)
    BY <1>1, <2>7, WrittenMemory
  <2>9. /\ IsMemory(N) /\ N[p].requests = M[p].requests
        /\ \A q \in Procs \ {p} : N[q] = M[q]
        /\ ClosedOf(N) = C
    BY <2>3, <2>8 DEF Written
  <2>10. /\ T \in StateRecords /\ T.active = G.states[p].active /\ T.finished = G.states[p].finished \ {r}
         /\ SameComms(G.states[p], T)
    BY <1>1, <2>1, LessFinished
  <2>11. /\ CommunicatorsOK(H, L) /\ H.operations = ops /\ H.comm_id_counter = G.comm_id_counter
         /\ H.states[p] = T /\ \A q \in Procs \ {p} : H.states[q] = G.states[q]
    BY <1>1, <2>2, <2>6, <2>10, ReplacingWork
  <2>12. RequestsOK(T, L, p, C[p])
    <3>1. RequestsOK(T, L, p, ClosedOf(M)[p] \cup {r.serial})
      BY <1>1, <2>10, RequestsWithout
    <3>2. DOMAIN ClosedOf(M) = Procs
      BY DEF ClosedOf
    <3> QED BY <2>3, <3>1, <3>2
  <2>13. \A q \in Procs \ {p} : C[q] = ClosedOf(M)[q]
    BY <2>3
  <2>14. \A q \in Procs : RequestsOK(H.states[q], L, q, ClosedOf(N)[q])
    BY <1>1, <2>9, <2>11, <2>12, <2>13
  <2>15. CoreOK(H, N, L)
    BY <1>1, <2>6, <2>9, <2>11, <2>14 DEF CoreOK, IsTyped, CommunicatorsOK
  <2>16. ClosedOf(N) = [ClosedOf(M) EXCEPT ![p] = @ \cup {s.serial : s \in {r}}]
    <3>1. {s.serial : s \in {r}} = {r.serial}
      OBVIOUS
    <3> QED BY <2>3, <2>9, <3>1
  <2>17. TakenFrom(G, M, H, N, p, {r})
    BY <2>1, <2>9, <2>11, <2>16 DEF TakenFrom, FinishedLess
  <2>18. u = World(H, N, "none", L)
    BY <1>3, <2>1, <2>2
  <2> QED BY <2>15, <2>17, <2>18 DEF ClosedAs
<1> QED BY <1>2, <1>3, ClosingParts

LEMMA TakenNothing ==
  ASSUME NEW G \in GlobalStates, NEW M, NEW p \in Procs
  PROVE  TakenFrom(G, M, G, M, p, {})
<1>1. G.states[p] \in StateRecords
  BY GlobalFields
<1>2. PICK S : S = G.states[p] /\ S \in StateRecords
  BY <1>1
<1>3. [S EXCEPT !.finished = @ \ {}] = S
  BY <1>2 DEF StateRecords
<1>4. ClosedOf(M) = [ClosedOf(M) EXCEPT ![p] = @ \cup {}]
  BY DEF ClosedOf
<1>5. {r.serial : r \in {}} = {}
  OBVIOUS
<1> QED BY <1>2, <1>3, <1>4, <1>5 DEF TakenFrom

LEMMA TakenMore ==
  ASSUME NEW G, NEW M, NEW p \in Procs, NEW H, NEW N, NEW R, TakenFrom(G, M, H, N, p, R),
         NEW J, NEW P, NEW r, TakenFrom(H, N, J, P, p, {r}), G.states[p] \in StateRecords
  PROVE  TakenFrom(G, M, J, P, p, R \cup {r})
<1>1. PICK S : S = G.states[p] /\ S \in StateRecords
  OBVIOUS
<1>2. PICK T : T = FinishedLess(S, R)
  OBVIOUS
<1>3. PICK U : U = FinishedLess(T, {r})
  OBVIOUS
<1>4. H.states[p] = T /\ J.states[p] = U
  BY <1>1, <1>2, <1>3 DEF TakenFrom, FinishedLess
<1>5. U = FinishedLess(S, R \cup {r})
  BY <1>1, <1>2, <1>3 DEF FinishedLess, StateRecords
<1>6. PICK A : A = {s.serial : s \in R}
  OBVIOUS
<1>7. {s.serial : s \in R \cup {r}} = A \cup {r.serial} /\ {s.serial : s \in {r}} = {r.serial}
  BY <1>6
<1>8. ClosedOf(N) = [ClosedOf(M) EXCEPT ![p] = @ \cup A]
  BY <1>6 DEF TakenFrom
<1>9. ClosedOf(P) = [ClosedOf(N) EXCEPT ![p] = @ \cup {r.serial}]
  BY <1>7 DEF TakenFrom
<1>10. ClosedOf(P) = [ClosedOf(M) EXCEPT ![p] = @ \cup (A \cup {r.serial})]
  <2>1. PICK C : C = ClosedOf(M) /\ C = [q \in Procs |-> C[q]]
    BY DEF ClosedOf
  <2>2. PICK E : E = ClosedOf(N)
    OBVIOUS
  <2>3. E = [C EXCEPT ![p] = @ \cup A] /\ ClosedOf(P) = [E EXCEPT ![p] = @ \cup {r.serial}]
    BY <1>8, <1>9, <2>1, <2>2
  <2>4. [E EXCEPT ![p] = @ \cup {r.serial}] = [C EXCEPT ![p] = @ \cup (A \cup {r.serial})]
    BY <2>1, <2>3
  <2> QED BY <2>1, <2>3, <2>4
<1>11. J.states[p] = [G.states[p] EXCEPT !.finished = @ \ (R \cup {r})]
  BY <1>1, <1>4, <1>5 DEF FinishedLess
<1>12. /\ \A q \in Procs \ {p} : J.states[q] = G.states[q] /\ P[q] = M[q]
       /\ J.comm_id_counter = G.comm_id_counter /\ P[p].requests = M[p].requests
  BY DEF TakenFrom
<1> QED BY <1>7, <1>10, <1>11, <1>12 DEF TakenFrom

\* The worlds in the loop of close_all_requests.
CloseSteps(w, p, tested, n, f) ==
  f = [k \in 0 .. n |-> IF k = 0 THEN w ELSE CloseTested(f[k - 1], p, tested[k])]

LEMMA CloseStepsExist ==
  ASSUME NEW n \in Nat, NEW w, NEW p, NEW tested
  PROVE  \E f : CloseSteps(w, p, tested, n, f)
<1> DEFINE Step(x, k) == CloseTested(x, p, tested[k])
           Is(f, m) == f = [k \in 0 .. m |-> IF k = 0 THEN w ELSE Step(f[k - 1], k)]
           Bad == {m \in Nat : ~\E f : Is(f, m)}
<1>1. ASSUME NEW m \in Nat, NEW g, Is(g, m) PROVE \E f : Is(f, m + 1)
  <2>1. PICK f : f = [k \in 0 .. m + 1 |-> IF k = m + 1 THEN Step(g[m], m + 1) ELSE g[k]]
    OBVIOUS
  <2> HIDE DEF Step
  <2>2. \A k \in 0 .. m : g[k] = IF k = 0 THEN w ELSE Step(g[k - 1], k)
    <3>1. g = [k \in 0 .. m |-> IF k = 0 THEN w ELSE Step(g[k - 1], k)]
      BY <1>1
    <3> HIDE <1>1
    <3> QED BY <3>1
  <2>3. (\A k \in 0 .. m : f[k] = g[k]) /\ f[m + 1] = Step(g[m], m + 1)
    <3>1. (\A k \in 0 .. m : k \in 0 .. m + 1 /\ k # m + 1) /\ m + 1 \in 0 .. m + 1
      OBVIOUS
    <3> QED BY <2>1, <3>1
  <2>4. ASSUME NEW k \in 0 .. m + 1
        PROVE  f[k] = IF k = 0 THEN w ELSE Step(f[k - 1], k)
    <3>1. CASE k = m + 1
      <4>1. k # 0 /\ k - 1 = m /\ m \in 0 .. m
        BY <3>1
      <4> QED BY <2>3, <3>1, <4>1
    <3>2. CASE k = 0
      <4>1. k \in 0 .. m
        BY <3>2
      <4> QED BY <2>2, <2>3, <3>2, <4>1
    <3>3. CASE k # 0 /\ k # m + 1
      <4>1. k \in 0 .. m /\ k - 1 \in 0 .. m
        BY <3>3
      <4> QED BY <2>2, <2>3, <3>3, <4>1
    <3> QED BY <3>1, <3>2, <3>3
  <2>5. f = [k \in 0 .. m + 1 |-> f[k]]
    BY <2>1
  <2> QED BY <2>4, <2>5
<1>2. \E f : Is(f, 0)
  <2> HIDE DEF Step
  <2>1. PICK f : f = [k \in 0 .. 0 |-> w]
    OBVIOUS
  <2>2. \A k \in 0 .. 0 : k = 0
    OBVIOUS
  <2> QED BY <2>1, <2>2
<1> HIDE DEF Is
<1>3. Bad = {}
  <2> SUFFICES ASSUME Bad # {} PROVE FALSE
    OBVIOUS
  <2>1. PICK m \in Bad : \A k \in Bad : m <= k
    <3>1. Bad \in SUBSET Nat
      OBVIOUS
    <3> HIDE DEF Bad
    <3> QED BY <3>1, SmallestNumber
  <2>2. m # 0
    BY <1>2, <2>1
  <2>3. PICK l \in Nat : m = l + 1
    <3>1. m \in Nat
      BY <2>1
    <3>2. m - 1 \in Nat /\ m = (m - 1) + 1
      BY <2>2, <3>1
    <3> QED BY <3>2
  <2>4. l \notin Bad
    <3> HIDE DEF Bad
    <3> QED BY <2>1, <2>3
  <2>5. PICK g : Is(g, l)
    BY <2>4
  <2> QED BY <1>1, <2>1, <2>3, <2>5
<1>4. \E f : Is(f, n)
  BY <1>3
<1> QED BY <1>4 DEF Is, CloseSteps

\* What p waits for has finished.
MayClose(G, M, L, p) ==
  /\ CoreOK(G, M, L) /\ p \in Procs /\ TestedFinished(G.states[p])
  /\ \A i \in DOMAIN G.states[p].tested, j \in DOMAIN G.states[p].tested :
       G.states[p].tested[i] = G.states[p].tested[j] => i = j \/ G.states[p].tested[i] = RequestNull

\* The first n requests that p waits for are closed.
ClosedUpTo(G, M, L, p, n, u) ==
  \E H, N, R, err :
    /\ u = World(H, N, err, L) /\ R \subseteq G.states[p].finished /\ TakenFrom(G, M, H, N, p, R)
    /\ err = "none" => /\ CoreOK(H, N, L)
                       /\ \A r \in R : \E i \in 1 .. n : G.states[p].tested[i] = r.id
                       /\ \A i \in 1 .. n : G.states[p].tested[i] = RequestNull \/ \E r \in R : G.states[p].tested[i] = r.id

LEMMA ClosingTested ==
  ASSUME NEW G, NEW M, NEW L, NEW p, MayClose(G, M, L, p), NEW n \in Nat, n + 1 \in DOMAIN G.states[p].tested,
         NEW u, ClosedUpTo(G, M, L, p, n, u)
  PROVE  ClosedUpTo(G, M, L, p, n + 1, CloseTested(u, p, G.states[p].tested[n + 1]))
<1>1. /\ G \in GlobalStates /\ p \in Procs /\ G.states[p] \in StateRecords
  <2>1. CoreOK(G, M, L) /\ p \in Procs
    BY DEF MayClose
  <2> QED BY <2>1, WorldParts
<1>2. PICK T, id : T = G.states[p].tested /\ id = T[n + 1]
  OBVIOUS
<1>3. T \in Seq(Nat) /\ id \in Nat /\ DOMAIN T = 1 .. Len(T) /\ Len(T) \in Nat
  <2>1. T \in Seq(Nat)
    BY <1>1, <1>2, StateFields
  <2> QED BY <1>2, <2>1, LenProperties, ElementOfSeq
<1>4. /\ \A i \in 1 .. n : i \in DOMAIN T /\ i # n + 1
      /\ \A i : i \in 1 .. n + 1 <=> i \in 1 .. n \/ i = n + 1
  BY <1>2, <1>3
<1>5. PICK H, N, R, err :
        /\ u = World(H, N, err, L) /\ R \subseteq G.states[p].finished /\ TakenFrom(G, M, H, N, p, R)
        /\ err = "none" => /\ CoreOK(H, N, L)
                           /\ \A r \in R : \E i \in 1 .. n : T[i] = r.id
                           /\ \A i \in 1 .. n : T[i] = RequestNull \/ \E r \in R : T[i] = r.id
  BY <1>2 DEF ClosedUpTo
<1>6. u.error = err
  BY <1>5, WorldFields
<1>7. CASE err # "none"
  <2>1. CloseTested(u, p, id) = u
    BY <1>6, <1>7 DEF CloseTested
  <2> QED BY <1>2, <1>5, <1>7, <2>1 DEF ClosedUpTo
<1>8. CASE err = "none" /\ id = RequestNull
  <2>1. CloseTested(u, p, id) = u
    BY <1>8 DEF CloseTested
  <2>2. \A r \in R : \E i \in 1 .. n + 1 : T[i] = r.id
    BY <1>4, <1>5, <1>8
  <2>3. \A i \in 1 .. n + 1 : T[i] = RequestNull \/ \E r \in R : T[i] = r.id
    BY <1>2, <1>4, <1>5, <1>8
  <2> QED BY <1>2, <1>5, <1>8, <2>1, <2>2, <2>3 DEF ClosedUpTo
<1>9. CASE err = "none" /\ id # RequestNull
  <2>1. CloseTested(u, p, id) = CloseRequest(u, p, id)
    BY <1>6, <1>9 DEF CloseTested
  <2>2. PICK r \in G.states[p].finished : r.id = id
    <3>1. id \in ToSet(T)
      BY <1>2 DEF ToSet
    <3>2. TestedFinished(G.states[p])
      BY DEF MayClose
    <3> QED BY <1>2, <1>9, <3>1, <3>2 DEF TestedFinished
  <2>3. r \notin R
    <3>1. SUFFICES ASSUME r \in R PROVE FALSE
      OBVIOUS
    <3>2. PICK i \in 1 .. n : T[i] = r.id
      BY <1>5, <1>9, <3>1
    <3>3. i \in DOMAIN T /\ i # n + 1 /\ T[i] = T[n + 1] /\ T[i] # RequestNull
      BY <1>2, <1>4, <1>9, <2>2, <3>2
    <3> QED BY <1>2, <3>3 DEF MayClose
  <2>4. H.states[p].finished = G.states[p].finished \ R
    <3>1. PICK S : S = G.states[p] /\ S \in StateRecords
      BY <1>1
    <3>2. PICK U : U = FinishedLess(S, R) /\ H.states[p] = U
      BY <1>5, <3>1 DEF TakenFrom, FinishedLess
    <3>3. U.finished = S.finished \ R
      BY <3>1, <3>2, LessFinished
    <3> QED BY <3>1, <3>2, <3>3
  <2>5. CoreOK(H, N, L) /\ r \in H.states[p].finished
    BY <1>5, <1>9, <2>2, <2>3, <2>4
  <2>6. PICK v : v = CloseRequest(World(H, N, "none", L), p, r.id)
    OBVIOUS
  <2>7. ClosedAs(H, N, L, p, r, v)
    BY <1>1, <2>5, <2>6, ClosingRequest
  <2>8. v = CloseTested(u, p, id)
    BY <1>5, <1>9, <2>1, <2>2, <2>6
  <2>9. CASE v = World(H, N, "AttributeError", L)
    <3>1. "AttributeError" # "none"
      OBVIOUS
    <3> QED BY <1>2, <1>5, <2>8, <2>9, <3>1 DEF ClosedUpTo
  <2>10. ASSUME NEW J, NEW P, v = World(J, P, "none", L), CoreOK(J, P, L), TakenFrom(H, N, J, P, p, {r})
         PROVE  ClosedUpTo(G, M, L, p, n + 1, v)
    <3>1. TakenFrom(G, M, J, P, p, R \cup {r})
      BY <1>1, <1>5, <2>10, TakenMore
    <3>2. PICK Q : Q = R \cup {r}
      OBVIOUS
    <3>3. Q \subseteq G.states[p].finished /\ TakenFrom(G, M, J, P, p, Q)
      BY <1>5, <2>2, <3>1, <3>2
    <3>4. \A q \in Q : \E i \in 1 .. n + 1 : T[i] = q.id
      BY <1>2, <1>4, <1>5, <1>9, <2>2, <3>2
    <3>5. \A i \in 1 .. n + 1 : T[i] = RequestNull \/ \E q \in Q : T[i] = q.id
      BY <1>2, <1>4, <1>5, <1>9, <2>2, <3>2
    <3> QED BY <1>2, <2>10, <3>3, <3>4, <3>5 DEF ClosedUpTo
  <2> QED BY <1>2, <2>7, <2>8, <2>9, <2>10 DEF ClosedAs
<1> QED BY <1>2, <1>7, <1>8, <1>9

\* The parts of CloseAllRequests.
AllClosed(w, p, tested, n) == (CHOOSE f : CloseSteps(w, p, tested, n, f))[n]
Nullified(M, p, pointer) ==
  [M EXCEPT ![p].requests = [x \in DOMAIN @ |-> IF x \in ToSet(pointer) THEN RequestNull ELSE @[x]]]
NullifiedWorld(v, p, pointer) ==
  [v EXCEPT !.memory[p].requests = [x \in DOMAIN @ |-> IF x \in ToSet(pointer) THEN RequestNull ELSE @[x]]]

TestedOf(w, p) == w.gstate.states[p].tested
LEMMA PartsOfCloseAll ==
  ASSUME NEW w, NEW p
  PROVE  CloseAllRequests(w, p) =
           IF AllClosed(w, p, TestedOf(w, p), Len(TestedOf(w, p))).error = "none"
           THEN NullifiedWorld(AllClosed(w, p, TestedOf(w, p), Len(TestedOf(w, p))), p, w.gstate.states[p].pointer)
           ELSE AllClosed(w, p, TestedOf(w, p), Len(TestedOf(w, p)))
BY DEF CloseAllRequests, AllClosed, CloseSteps, NullifiedWorld, Then, TestedOf

LEMMA ClosingAll ==
  ASSUME NEW G, NEW M, NEW L, NEW p, MayClose(G, M, L, p), NEW T, T = G.states[p].tested,
         NEW v, v = AllClosed(World(G, M, "none", L), p, T, Len(T))
  PROVE  ClosedUpTo(G, M, L, p, Len(T), v)
<1>1. /\ G \in GlobalStates /\ p \in Procs /\ G.states[p] \in StateRecords /\ CoreOK(G, M, L)
  <2>1. CoreOK(G, M, L) /\ p \in Procs
    BY DEF MayClose
  <2> QED BY <2>1, WorldParts
<1>2. T \in Seq(Nat)
  BY <1>1, StateFields
<1>3. PICK n \in Nat : n = Len(T) /\ DOMAIN T = 1 .. n
  BY <1>2, LenProperties
<1>4. PICK w : w = World(G, M, "none", L)
  OBVIOUS
<1>5. PICK f : CloseSteps(w, p, T, n, f) /\ v = f[n]
  <2>1. \E f : CloseSteps(w, p, T, n, f)
    BY CloseStepsExist
  <2>2. v = (CHOOSE f : CloseSteps(w, p, T, n, f))[n]
    BY <1>3, <1>4 DEF AllClosed
  <2> QED BY <2>1, <2>2
<1>6. f[0] = w /\ \A k \in 1 .. n : f[k] = CloseTested(f[k - 1], p, T[k])
  <2>1. f = [k \in 0 .. n |-> IF k = 0 THEN w ELSE CloseTested(f[k - 1], p, T[k])]
    BY <1>5 DEF CloseSteps
  <2>2. 0 \in 0 .. n /\ \A k \in 1 .. n : k \in 0 .. n /\ k # 0
    OBVIOUS
  <2> HIDE <1>5
  <2> QED BY <2>1, <2>2
<1>7. ClosedUpTo(G, M, L, p, 0, f[0])
  <2>1. TakenFrom(G, M, G, M, p, {})
    BY <1>1, TakenNothing
  <2>2. \A i \in 1 .. 0 : FALSE
    OBVIOUS
  <2> QED BY <1>1, <1>4, <1>6, <2>1, <2>2 DEF ClosedUpTo
<1>8. \A k \in 0 .. n : ClosedUpTo(G, M, L, p, k, f[k])
  <2>1. SUFFICES ASSUME NEW B, B = {k \in 0 .. n : ~ClosedUpTo(G, M, L, p, k, f[k])}, B # {} PROVE FALSE
    OBVIOUS
  <2>2. B \in SUBSET Nat
    BY <2>1
  <2>3. PICK k \in B : \A j \in B : k <= j
    BY <2>1, <2>2, SmallestNumber
  <2>4. k \in 1 .. n
    BY <1>7, <2>1, <2>3
  <2>5. PICK l \in Nat : k = l + 1 /\ l = k - 1 /\ l \in 0 .. n /\ ~(k <= l)
    <3>1. k - 1 \in Nat /\ k = (k - 1) + 1 /\ k - 1 \in 0 .. n /\ ~(k <= k - 1)
      BY <2>4
    <3> QED BY <3>1
  <2>6. ClosedUpTo(G, M, L, p, l, f[l])
    BY <2>1, <2>3, <2>5
  <2>7. l + 1 \in DOMAIN G.states[p].tested
    BY <1>3, <2>4, <2>5
  <2>8. ClosedUpTo(G, M, L, p, l + 1, CloseTested(f[l], p, T[l + 1]))
    BY <2>6, <2>7, ClosingTested
  <2>9. f[k] = CloseTested(f[l], p, T[l + 1])
    BY <1>6, <2>4, <2>5
  <2> QED BY <2>1, <2>3, <2>5, <2>8, <2>9
<1>9. n \in 0 .. n
  OBVIOUS
<1> QED BY <1>3, <1>5, <1>8, <1>9

LEMMA NullifyingWorld ==
  ASSUME NEW H, NEW N, NEW L, NEW p, NEW pointer
  PROVE  NullifiedWorld(World(H, N, "none", L), p, pointer) = World(H, Nullified(N, p, pointer), "none", L)
<1>1. PICK w : w = World(H, N, "none", L)
  OBVIOUS
<1>2. w.memory = N
  BY <1>1, WorldFields
<1>3. PICK P : P = Nullified(N, p, pointer)
  OBVIOUS
<1>4. NullifiedWorld(w, p, pointer) = [w EXCEPT !.memory = P]
  BY <1>2, <1>3 DEF NullifiedWorld, Nullified
<1>5. [w EXCEPT !.memory = P] = World(H, P, "none", L)
  BY <1>1, MemoryOfWorld
<1> QED BY <1>1, <1>3, <1>4, <1>5

NullifiedVariables(f, pointer) == [x \in DOMAIN f |-> IF x \in ToSet(pointer) THEN RequestNull ELSE f[x]]

LEMMA NullifyingMemory ==
  ASSUME NEW M, IsMemory(M), NEW p \in Procs, NEW pointer, NEW N, N = Nullified(M, p, pointer)
  PROVE  MemoryChanged(M, N, p, NullifiedVariables(M[p].requests, pointer), M[p].comms, M[p].groups, M[p].results)
<1>1. PICK f, c, g, r : f = M[p].requests /\ c = M[p].comms /\ g = M[p].groups /\ r = M[p].results
                        /\ f \in [1 .. RequestVars -> Nat] /\ M[p] = MemoryRecord(f, c, g, r)
  BY MemoryFields
<1>2. PICK h : h = NullifiedVariables(f, pointer)
  OBVIOUS
<1>3. h \in [1 .. RequestVars -> Nat]
  BY <1>1, <1>2 DEF NullifiedVariables, RequestNull
<1>4. PICK B : B = MemoryRecord(f, c, g, r)
  OBVIOUS
<1>5. [B EXCEPT !.requests = h] = MemoryRecord(h, c, g, r)
  BY <1>4 DEF MemoryRecord
<1>6. PICK A : A = MemoryRecord(h, c, g, r)
  OBVIOUS
<1>7. N = [M EXCEPT ![p] = [M[p] EXCEPT !.requests = h]]
  BY <1>1, <1>2 DEF Nullified, NullifiedVariables
<1>8. [M[p] EXCEPT !.requests = h] = A
  BY <1>1, <1>4, <1>5, <1>6
<1>9. N = [M EXCEPT ![p] = A]
  BY <1>7, <1>8
<1>10. PICK E : E = [M EXCEPT ![p] = MemoryRecord(h, c, g, r)]
  OBVIOUS
<1>11. MemoryChanged(M, E, p, h, c, g, r)
  BY <1>1, <1>3, <1>10, MemoryReplaced
<1>12. N = E
  BY <1>6, <1>9, <1>10
<1> QED BY <1>1, <1>2, <1>11, <1>12

\* p waits for nothing after the requests R that it waited for were closed.
LEMMA NothingToWaitFor ==
  ASSUME NEW S \in StateRecords, NEW L, NEW p, NEW C, RequestsOK(S, L, p, C), NEW f \in [1 .. RequestVars -> Nat],
         WaitOK(S, L, p, f), S.status \in {"wait", "test"},
         NEW R, R \subseteq S.finished,
         \A r \in R : \E i \in DOMAIN S.tested : S.tested[i] = r.id,
         \A i \in DOMAIN S.tested : S.tested[i] = RequestNull \/ \E r \in R : S.tested[i] = r.id,
         NEW T, T.active = S.active, T.finished = S.finished \ R, T.tested = <<>>, T.pointer = <<>>,
         T.status \in {"ready", "running"},
         NEW h, h = NullifiedVariables(f, S.pointer)
  PROVE  WaitOK(T, L, p, h)
<1>1. LiveRequests(T) = LiveRequests(S) \ R
  BY DEF LiveRequests, RequestsOK
<1>2. LiveRequests(S) \subseteq Requests /\ \A r \in LiveRequests(S) : r.id # RequestNull
  <2>1. LiveRequests(S) \subseteq Requests
    BY NewIdIsFree DEF RequestsOK
  <2> QED BY <2>1, RequestFields DEF RequestNull
<1>3. R \subseteq LiveRequests(S)
  BY DEF LiveRequests
<1>4. \A a \in R, q \in LiveRequests(S) : a.id = q.id => a = q
  BY DEF RequestsOK
<1>5. DOMAIN T.tested = {} /\ DOMAIN T.pointer = {} /\ T.status # "wait" /\ T.status # "test"
  OBVIOUS
<1>6. DOMAIN h = 1 .. RequestVars
      /\ \A v \in 1 .. RequestVars : h[v] = IF v \in ToSet(S.pointer) THEN RequestNull ELSE f[v]
  BY DEF NullifiedVariables
<1>7. ASSUME NEW v \in 1 .. RequestVars, h[v] # RequestNull
      PROVE  h[v] = f[v] /\ f[v] \in RequestIds(T)
  <2>1. h[v] = f[v] /\ v \notin ToSet(S.pointer) /\ f[v] # RequestNull
    BY <1>6, <1>7
  <2>2. PICK q \in LiveRequests(S) : f[v] = q.id
    <3>1. f[v] \in RequestIds(S)
      BY <2>1 DEF WaitOK
    <3> QED BY <3>1 DEF RequestIds
  <2>3. q \notin R
    <3>1. SUFFICES ASSUME q \in R PROVE FALSE
      OBVIOUS
    <3>2. PICK i \in DOMAIN S.tested : S.tested[i] = q.id
      BY <3>1
    <3>3. CASE S.status = "wait"
      BY <2>1, <2>2, <3>2, <3>3 DEF WaitOK
    <3>4. CASE S.status = "test"
      <4>1. i \in DOMAIN S.pointer /\ S.tested[i] = f[S.pointer[i]]
        BY <3>2, <3>4 DEF WaitOK
      <4>2. S.pointer[i] \in 1 .. RequestVars
        <5>1. S.pointer \in Seq(1 .. RequestVars)
          BY StateFields
        <5>2. DOMAIN S.pointer = 1 .. Len(S.pointer)
          BY <5>1, LenProperties
        <5> QED BY <4>1, <5>1, <5>2, ElementOfSeq
      <4>3. S.pointer[i] = v
        BY <2>1, <2>2, <3>2, <4>1, <4>2 DEF WaitOK
      <4> QED BY <2>1, <4>1, <4>3 DEF ToSet
    <3> QED BY <3>3, <3>4
  <2>4. q \in LiveRequests(T)
    BY <1>1, <2>2, <2>3
  <2> QED BY <2>1, <2>2, <2>4 DEF RequestIds
<1>8. \A v \in 1 .. RequestVars : h[v] \in RequestIds(T) \cup {RequestNull}
  BY <1>7
<1>9. \A v \in 1 .. RequestVars, w \in 1 .. RequestVars : h[v] = h[w] => v = w \/ h[v] = RequestNull
  BY <1>7 DEF WaitOK
<1>10. \A r \in LiveRequests(T) : ~L[p][r.serial].call.blocking
  <2>1. SUFFICES ASSUME NEW r \in LiveRequests(T), L[p][r.serial].call.blocking PROVE FALSE
    OBVIOUS
  <2>2. r \in LiveRequests(S) /\ r \notin R
    BY <1>1
  <2>3. r.id \in ToSet(S.tested)
    BY <2>1, <2>2 DEF WaitOK
  <2>4. PICK i \in DOMAIN S.tested : S.tested[i] = r.id
    BY <2>3 DEF ToSet
  <2>5. PICK q \in R : q.id = r.id
    BY <1>2, <2>2, <2>4
  <2> QED BY <1>4, <2>2, <2>5
<1> QED BY <1>5, <1>8, <1>9, <1>10 DEF WaitOK

\* No call changes between open, done and closed, but from done to closed.
DoneAt(G, M, q) == {r.serial : r \in G.states[q].finished} \cup ClosedOf(M)[q]
DoneKept(G, M, H, N) == \A q \in Procs : DoneAt(H, N, q) = DoneAt(G, M, q)

\* p may go on.
ReadyState(S, status) == [S EXCEPT !.status = status, !.tested = <<>>, !.pointer = <<>>]
Continued(H, p, status) == Replaced(H, p, ReadyState(H.states[p], status), H.operations)

AllClosedAs(G, M, L, p, v) ==
  \E H, N, err :
    /\ v = World(H, N, err, L) /\ DoneKept(G, M, H, N)
    /\ err = "none" => /\ H \in GlobalStates
                       /\ \A status \in {"ready", "running"} : /\ WorldOK(Continued(H, p, status), N, L)
                                                               /\ DoneKept(G, M, Continued(H, p, status), N)

LEMMA ReadyFields ==
  ASSUME NEW S \in StateRecords, NEW status \in Statuses, NEW T, T = ReadyState(S, status)
  PROVE  /\ T \in StateRecords /\ T.active = S.active /\ T.finished = S.finished
         /\ SameComms(S, T) /\ SameAttributes(S, T) /\ T.groups = S.groups
         /\ T.status = status /\ T.tested = <<>> /\ T.pointer = <<>>
<1>1. <<>> \in Seq(Nat) /\ <<>> \in Seq(1 .. RequestVars)
  OBVIOUS
<1> QED BY <1>1 DEF ReadyState, StateRecords, SameComms, SameAttributes

LEMMA TakingKeepsDone ==
  ASSUME NEW G \in GlobalStates, NEW M, NEW p \in Procs, NEW H, NEW N, NEW R, TakenFrom(G, M, H, N, p, R),
         R \subseteq G.states[p].finished
  PROVE  DoneKept(G, M, H, N)
<1>1. PICK S, T : S = G.states[p] /\ S \in StateRecords /\ T = FinishedLess(S, R)
  BY GlobalFields
<1>2. H.states[p] = T /\ T.finished = S.finished \ R
  <2>1. H.states[p] = T
    BY <1>1 DEF TakenFrom, FinishedLess
  <2> QED BY <1>1, <2>1, LessFinished
<1>3. DOMAIN ClosedOf(M) = Procs
  BY DEF ClosedOf
<1>4. ClosedOf(N)[p] = ClosedOf(M)[p] \cup {r.serial : r \in R}
  BY <1>3 DEF TakenFrom
<1>5. DoneAt(H, N, p) = DoneAt(G, M, p)
  BY <1>1, <1>2, <1>4 DEF DoneAt
<1>6. ASSUME NEW q \in Procs \ {p} PROVE DoneAt(H, N, q) = DoneAt(G, M, q)
  <2>1. H.states[q] = G.states[q]
    BY DEF TakenFrom
  <2>2. ClosedOf(N)[q] = ClosedOf(M)[q]
    BY <1>3 DEF TakenFrom
  <2> QED BY <2>1, <2>2 DEF DoneAt
<1> QED BY <1>5, <1>6 DEF DoneKept

\* The end of closing: p reads its variables, and goes on.
ReadyToGoOn(G, M, L, p, H, N, R, P) ==
  /\ WorldOK(G, M, L) /\ p \in Procs /\ G.states[p].status \in {"wait", "test"}
  /\ TakenFrom(G, M, H, N, p, R) /\ R \subseteq G.states[p].finished /\ CoreOK(H, N, L)
  /\ \A r \in R : \E i \in DOMAIN G.states[p].tested : G.states[p].tested[i] = r.id
  /\ \A i \in DOMAIN G.states[p].tested :
       G.states[p].tested[i] = RequestNull \/ \E r \in R : G.states[p].tested[i] = r.id
  /\ P = Nullified(N, p, G.states[p].pointer)

LEMMA GoingOn ==
  ASSUME NEW G, NEW M, NEW L, NEW p, NEW H, NEW N, NEW R, NEW P, ReadyToGoOn(G, M, L, p, H, N, R, P),
         NEW status \in {"ready", "running"}, NEW J, J = Continued(H, p, status)
  PROVE  WorldOK(J, P, L) /\ ClosedOf(P) = ClosedOf(N) /\ \A q \in Procs : J.states[q].finished = H.states[q].finished
<1>0. PICK S : /\ S = G.states[p] /\ WorldOK(G, M, L) /\ p \in Procs /\ S.status \in {"wait", "test"}
               /\ TakenFrom(G, M, H, N, p, R) /\ R \subseteq S.finished /\ CoreOK(H, N, L)
               /\ \A r \in R : \E i \in DOMAIN S.tested : S.tested[i] = r.id
               /\ \A i \in DOMAIN S.tested : S.tested[i] = RequestNull \/ \E r \in R : S.tested[i] = r.id
               /\ P = Nullified(N, p, S.pointer)
  BY DEF ReadyToGoOn
<1>1. CoreOK(G, M, L) /\ \A q \in Procs : WaitOK(G.states[q], L, q, M[q].requests)
  BY <1>0 DEF WorldOK
<1>2. /\ G \in GlobalStates /\ IsMemory(M) /\ S \in StateRecords /\ RequestsOK(S, L, p, ClosedOf(M)[p])
  BY <1>0, <1>1, WorldParts
<1>3. /\ H \in GlobalStates /\ IsMemory(N) /\ CommunicatorsOK(H, L) /\ RootsOK(L) /\ IsLog(L)
      /\ OperationsOK(H.operations, L, ClosedOf(N))
      /\ \A q \in Procs : H.states[q] \in StateRecords /\ RequestsOK(H.states[q], L, q, ClosedOf(N)[q])
  BY <1>0, WorldParts
<1>4. PICK U : U = H.states[p] /\ U \in StateRecords
  BY <1>0, <1>3
<1>5. U.active = S.active /\ U.finished = S.finished \ R
  <2>1. U = FinishedLess(S, R)
    BY <1>0, <1>4 DEF TakenFrom, FinishedLess
  <2> QED BY <1>0, <1>2, <2>1, LessFinished
<1>6. PICK T : T = ReadyState(U, status)
  OBVIOUS
<1>7. /\ T \in StateRecords /\ T.active = U.active /\ T.finished = U.finished
      /\ SameComms(U, T) /\ T.status = status /\ T.tested = <<>> /\ T.pointer = <<>>
  <2>1. status \in Statuses
    BY DEF Statuses
  <2> QED BY <1>4, <1>6, <2>1, ReadyFields
<1>8. J = Replaced(H, p, T, H.operations)
  BY <1>4, <1>6 DEF Continued
<1>9. H.operations \in Seq(OperationRecords)
  BY <1>3, GlobalFields
<1>10. /\ CommunicatorsOK(J, L) /\ J.operations = H.operations
       /\ J.states[p] = T /\ \A q \in Procs \ {p} : J.states[q] = H.states[q]
  BY <1>0, <1>3, <1>4, <1>7, <1>8, <1>9, ReplacingWork
<1>11. MemoryChanged(N, P, p, NullifiedVariables(N[p].requests, S.pointer), N[p].comms, N[p].groups, N[p].results)
  BY <1>0, <1>3, NullifyingMemory
<1>12. /\ IsMemory(P) /\ P[p].requests = NullifiedVariables(N[p].requests, S.pointer)
       /\ \A q \in Procs \ {p} : P[q] = N[q]
       /\ ClosedOf(P) = [ClosedOf(N) EXCEPT ![p] = {u.serial : u \in N[p].results}]
  BY <1>11 DEF MemoryChanged
<1>13. ClosedOf(P) = ClosedOf(N)
  <2>1. ClosedOf(N)[p] = {u.serial : u \in N[p].results} /\ ClosedOf(N) = [q \in Procs |-> ClosedOf(N)[q]]
    BY <1>0 DEF ClosedOf
  <2> QED BY <1>0, <1>12, <2>1
<1>14. RequestsOK(T, L, p, ClosedOf(N)[p])
  <2>1. RequestsOK(U, L, p, ClosedOf(N)[p])
    BY <1>0, <1>3, <1>4
  <2>2. LiveRequests(T) = LiveRequests(U)
    BY <1>7 DEF LiveRequests
  <2> QED BY <1>7, <2>1, <2>2 DEF RequestsOK
<1>15. WaitOK(T, L, p, P[p].requests)
  <2>1. N[p].requests = M[p].requests
    BY <1>0 DEF TakenFrom
  <2>2. M[p].requests \in [1 .. RequestVars -> Nat]
    BY <1>0, <1>2 DEF IsMemory
  <2>3. T.active = S.active /\ T.finished = S.finished \ R
    BY <1>5, <1>7
  <2>4. WaitOK(S, L, p, M[p].requests)
    BY <1>0, <1>1
  <2>5. PICK f : f = M[p].requests
    OBVIOUS
  <2>6. T.status \in {"ready", "running"} /\ T.tested = <<>> /\ T.pointer = <<>>
    BY <1>7
  <2>7. PICK h : h = NullifiedVariables(f, S.pointer)
    OBVIOUS
  <2>8. WaitOK(T, L, p, h)
    BY <1>0, <1>2, <2>2, <2>3, <2>4, <2>5, <2>6, <2>7, NothingToWaitFor
  <2> QED BY <1>12, <2>1, <2>5, <2>7, <2>8
<1>16. ASSUME NEW q \in Procs \ {p}
       PROVE  RequestsOK(J.states[q], L, q, ClosedOf(P)[q]) /\ WaitOK(J.states[q], L, q, P[q].requests)
  <2>1. J.states[q] = H.states[q] /\ H.states[q] = G.states[q] /\ N[q] = M[q]
    BY <1>0, <1>10 DEF TakenFrom
  <2> QED BY <1>0, <1>1, <1>3, <1>12, <1>13, <2>1
<1>17. \A q \in Procs : RequestsOK(J.states[q], L, q, ClosedOf(P)[q]) /\ WaitOK(J.states[q], L, q, P[q].requests)
  BY <1>0, <1>10, <1>13, <1>14, <1>15, <1>16
<1>18. CoreOK(J, P, L)
  BY <1>3, <1>10, <1>12, <1>13, <1>17 DEF CoreOK, IsTyped, CommunicatorsOK
<1>19. \A q \in Procs : J.states[q].finished = H.states[q].finished
  BY <1>0, <1>4, <1>7, <1>10
<1> QED BY <1>13, <1>17, <1>18, <1>19 DEF WorldOK

LEMMA ClosingAllRequests ==
  ASSUME NEW G, NEW M, NEW L, WorldOK(G, M, L), NEW p \in Procs, G.states[p].status \in {"wait", "test"},
         TestedFinished(G.states[p]), NEW v, v = CloseAllRequests(World(G, M, "none", L), p)
  PROVE  AllClosedAs(G, M, L, p, v)
<1>1. PICK S : S = G.states[p]
  OBVIOUS
<1>2. CoreOK(G, M, L) /\ WaitOK(S, L, p, M[p].requests)
  BY <1>1 DEF WorldOK
<1>3. MayClose(G, M, L, p)
  BY <1>1, <1>2 DEF MayClose, WaitOK
<1>4. G \in GlobalStates /\ S \in StateRecords
  BY <1>1, <1>2, WorldParts
<1>5. PICK w : w = World(G, M, "none", L) /\ w.gstate = G
  BY WorldFields
<1>6. PICK u : u = AllClosed(w, p, S.tested, Len(S.tested))
  OBVIOUS
<1>7. v = IF u.error = "none" THEN NullifiedWorld(u, p, S.pointer) ELSE u
  BY <1>1, <1>5, <1>6, PartsOfCloseAll DEF TestedOf
<1>8. ClosedUpTo(G, M, L, p, Len(S.tested), u)
  BY <1>1, <1>3, <1>5, <1>6, ClosingAll
<1>9. PICK H, N, R, err :
        /\ u = World(H, N, err, L) /\ R \subseteq S.finished /\ TakenFrom(G, M, H, N, p, R)
        /\ err = "none" => /\ CoreOK(H, N, L)
                           /\ \A r \in R : \E i \in 1 .. Len(S.tested) : S.tested[i] = r.id
                           /\ \A i \in 1 .. Len(S.tested) : S.tested[i] = RequestNull \/ \E r \in R : S.tested[i] = r.id
  BY <1>1, <1>8 DEF ClosedUpTo
<1>10. u.error = err
  BY <1>9, WorldFields
<1>11. DoneKept(G, M, H, N)
  BY <1>1, <1>4, <1>9, TakingKeepsDone
<1>12. CASE err # "none"
  BY <1>7, <1>9, <1>10, <1>11, <1>12 DEF AllClosedAs
<1>13. CASE err = "none"
  <2>1. DOMAIN S.tested = 1 .. Len(S.tested)
    BY <1>4, StateFields, LenProperties
  <2>2. PICK P : P = Nullified(N, p, S.pointer)
    OBVIOUS
  <2>3. v = World(H, P, "none", L)
    BY <1>7, <1>9, <1>10, <1>13, <2>2, NullifyingWorld
  <2>4. CoreOK(H, N, L)
    BY <1>9, <1>13
  <2>5. H \in GlobalStates
    BY <2>4, WorldParts
  <2>a. ReadyToGoOn(G, M, L, p, H, N, R, P)
    BY <1>1, <1>9, <1>13, <2>1, <2>2, <2>4 DEF ReadyToGoOn
  <2>6. ASSUME NEW status \in {"ready", "running"}
        PROVE  WorldOK(Continued(H, p, status), P, L) /\ DoneKept(G, M, Continued(H, p, status), P)
    <3>1. PICK J : J = Continued(H, p, status)
      OBVIOUS
    <3>2. WorldOK(J, P, L) /\ ClosedOf(P) = ClosedOf(N) /\ \A q \in Procs : J.states[q].finished = H.states[q].finished
      BY <2>a, <3>1, GoingOn
    <3>3. DoneKept(G, M, J, P)
      BY <1>11, <3>2 DEF DoneKept, DoneAt
    <3> QED BY <3>1, <3>2, <3>3
  <2>7. DoneKept(G, M, H, P)
    <3>1. PICK J : WorldOK(J, P, L) /\ ClosedOf(P) = ClosedOf(N)
      BY <2>a, GoingOn
    <3> QED BY <1>11, <3>1 DEF DoneKept, DoneAt
  <2> QED BY <2>3, <2>5, <2>6, <2>7 DEF AllClosedAs
<1> QED BY <1>12, <1>13

-----------------------------------------------------------------------------
(* What a call of p does. *)

LogGrows(L, K, p, entry) ==
  entry \in Entries(p) /\ Appended(L, K, p, entry) /\ entry.comm \in Comms /\ p \in Members(entry.comm)

Executed(G, M, L, p, w) ==
  \E H, N, err, K :
    /\ w = World(H, N, err, K) /\ DoneKept(G, M, H, N)
    /\ K = L \/ \E entry : LogGrows(L, K, p, entry)
    /\ err = "none" => WorldOK(H, N, K)

LEMMA OperationFails ==
  ASSUME NEW G, NEW M, NEW K, NEW p, NEW comm, NEW call, NEW group,
         NEW u, u = CallCollectiveOperation(World(G, M, "none", K), p, comm, call, group)
  PROVE  (\E f : u = World(G, M, f, K)) \/ \E H : u = World(H, M, "none", K)
<1>1. PICK w : w = World(G, M, "none", K)
  OBVIOUS
<1>2. (\E f : u = Fail(w, f)) \/ \E H : u = [w EXCEPT !.gstate = H]
  BY <1>1 DEF CallCollectiveOperation
<1>3. \A f : Fail(w, f) = World(G, M, f, K)
  BY <1>1, FailedWorld
<1>4. \A H : [w EXCEPT !.gstate = H] = World(H, M, "none", K)
  BY <1>1, GlobalOfWorld
<1> QED BY <1>2, <1>3, <1>4

LEMMA PostFails ==
  ASSUME NEW H, NEW M, NEW K, NEW p, NEW call, NEW r
  PROVE  PostFinally(PostFirst(World(H, M, "none", K), p, r), p, call, r).error = "none"
<1>1. PICK w : w = World(H, M, "none", K) /\ w.gstate = H
  BY WorldFields
<1>2. PICK X : X = [H EXCEPT !.states[p].active = Append(@, r)]
  OBVIOUS
<1>3. PICK u : u = World(X, M, "none", K) /\ u.gstate = X /\ u.memory = M /\ u.error = "none"
  BY WorldFields
<1>4. PostFirst(w, p, r) = u
  <2>1. PostFirst(w, p, r) = [w EXCEPT !.gstate = X]
    BY <1>1, <1>2 DEF PostFirst
  <2> QED BY <1>1, <1>3, <2>1, GlobalOfWorld
<1>5. PICK Y : Y = [X EXCEPT !.states[p] = SetWait(X.states[p], <<r.id>>)]
  OBVIOUS
<1>6. PICK N : N = [M EXCEPT ![p].requests[call.request] = r.id]
  OBVIOUS
<1>7. PostFinally(u, p, call, r) = IF call.blocking THEN [u EXCEPT !.gstate = Y] ELSE [u EXCEPT !.memory = N]
  BY <1>3, <1>5, <1>6 DEF PostFinally
<1>8. [u EXCEPT !.gstate = Y] = World(Y, M, "none", K) /\ [u EXCEPT !.memory = N] = World(X, N, "none", K)
  BY <1>3, GlobalOfWorld, MemoryOfWorld
<1>9. World(Y, M, "none", K).error = "none" /\ World(X, N, "none", K).error = "none"
  BY WorldFields
<1> QED BY <1>1, <1>4, <1>7, <1>8, <1>9

LEMMA CollectiveCallFails ==
  ASSUME NEW G, NEW M, NEW L, CoreOK(G, M, L), NEW p \in Procs,
         NEW call \in MayCall(p), call.op = "Collective",
         NEW v, v = CollectiveCall(World(G, M, "none", L), p, call), v.error # "none"
  PROVE  \E err, K : v = World(G, M, err, K) /\ (K = L \/ \E entry : LogGrows(L, K, p, entry))
<1>0. PICK w : w = World(G, M, "none", L)
  OBVIOUS
<1>3. w.gstate = G /\ w.memory = M /\ w.error = "none" /\ w.log = L
  BY <1>0, WorldFields
<1>1. PICK S : S = w.gstate.states[p] /\ S = G.states[p] /\ S \in StateRecords
  BY <1>3, WorldParts
<1>2. PICK id : id = M[p].comms[call.comm]
  OBVIOUS
<1>4. PICK comm : comm = CommOf(w, p, call.comm)
  OBVIOUS
<1>5. comm = GetComm(G.states[p], p, id)
  BY <1>2, <1>3, <1>4 DEF CommOf
<1>7. PICK r : r = NewRequest(w, p, comm)
  OBVIOUS
<1>8. PICK group : group = CallGroup(w, p, call)
  OBVIOUS
<1>9. PICK entry : entry = CallEntry(comm, call, group)
  OBVIOUS
<1>10. PICK K : K = [L EXCEPT ![p] = Append(@, entry)]
  OBVIOUS
<1>11. Logged(w, p, entry) = World(G, M, "none", K)
  <2>1. [w EXCEPT !.log = K] = World(G, M, "none", K)
    BY <1>0, LogOfWorld
  <2> QED BY <1>3, <1>10, <2>1 DEF Logged
<1>12. PICK u : u = CallResult(w, p, call, comm, group)
  OBVIOUS
<1>14. v = IF comm = None THEN Fail(w, "InvalidCommunicator")
           ELSE IF call.name = "comm_create" /\ group = None THEN Fail(w, "InvalidGroup")
           ELSE IF u.error = "none" THEN PostFinally(PostFirst(u, p, r), p, call, r) ELSE u
  BY <1>0, <1>4, <1>7, <1>8, <1>12, PartsOfCall
<1>15. \A f : Fail(w, f) = World(G, M, f, L)
  BY <1>0, FailedWorld
<1>16. CASE comm = None \/ (call.name = "comm_create" /\ group = None)
  <2>1. \E f : v = World(G, M, f, L)
    BY <1>14, <1>15, <1>16
  <2> QED BY <2>1
<1>17. CASE ~(comm = None \/ (call.name = "comm_create" /\ group = None))
  <2>1. v = IF u.error = "none" THEN PostFinally(PostFirst(u, p, r), p, call, r) ELSE u
    BY <1>14, <1>17
  <2>2. (\E f : u = World(G, M, f, K)) \/ \E H : u = World(H, M, "none", K)
    BY <1>9, <1>11, <1>12, OperationFails DEF CallResult
  <2>3. u.error # "none" /\ v = u
    <3>1. CASE u.error = "none"
      <4>1. \E H : u = World(H, M, "none", K)
        BY <2>2, <3>1, WorldFields
      <4>2. v.error = "none"
        BY <2>1, <3>1, <4>1, PostFails
      <4> QED BY <4>2
    <3> QED BY <2>1, <3>1
  <2>4. \E f : v = World(G, M, f, K)
    BY <2>2, <2>3, WorldFields
  <2>5. Finds(G, p, id, comm)
    BY <1>5, <1>17 DEF Finds
  <2>6. comm \in Comms /\ p \in Members(comm)
    BY <2>5, GettingComm, WorldParts DEF IsMember, Members
  <2>7. group \in Groups \cup {None}
    <3>1. S.groups \in GroupTables
      BY <1>1, StateFields
    <3>2. \A g : g \in DOMAIN S.groups => S.groups[g] \in Groups
      BY <3>1 DEF GroupTables
    <3> QED BY <1>1, <1>8, <3>2 DEF GetGroup, CallGroup
  <2>8. entry \in Entries(p) /\ entry.comm = comm
    <3>1. call \in CollectiveCalls(p)
      BY DEF CollectiveCalls
    <3>2. PICK t : t = (IF group = None THEN None ELSE group.table) /\ t \in Seq(Procs) \cup {None}
      BY <2>7 DEF Groups
    <3>3. entry = [comm |-> comm, call |-> call, group |-> t]
      BY <1>9, <3>2 DEF CallEntry
    <3> QED BY <2>6, <3>1, <3>2, <3>3 DEF Entries
  <2>9. LogGrows(L, K, p, entry)
    BY <1>10, <2>6, <2>8 DEF LogGrows, Appended
  <2> QED BY <2>4, <2>9
<1> QED BY <1>16, <1>17

LEMMA DoneIsKept ==
  ASSUME NEW G, NEW M, NEW H, NEW N, ClosedOf(N) = ClosedOf(M),
         \A q \in Procs : H.states[q].finished = G.states[q].finished
  PROVE  DoneKept(G, M, H, N)
BY DEF DoneKept, DoneAt

LEMMA ExecutingCollective ==
  ASSUME NEW G, NEW M, NEW L, WorldOK(G, M, L), NEW p \in Procs, G.states[p].status = "running",
         NEW call \in MayCall(p), call.op = "Collective",
         NEW v, v = CollectiveCall(World(G, M, "none", L), p, call)
  PROVE  Executed(G, M, L, p, v)
<1>1. CoreOK(G, M, L)
  BY DEF WorldOK
<1>2. CASE v.error # "none"
  <2>1. PICK err, K : v = World(G, M, err, K) /\ (K = L \/ \E entry : LogGrows(L, K, p, entry))
    BY <1>1, <1>2, CollectiveCallFails
  <2>2. err # "none"
    BY <1>2, <2>1, WorldFields
  <2>3. DoneKept(G, M, G, M)
    BY DEF DoneKept
  <2> QED BY <2>1, <2>2, <2>3 DEF Executed
<1>3. CASE v.error = "none"
  <2>1. PICK entry, K, id, k, F, H, ops, i, e, x, r :
           /\ CallMade(G, M, L, p, call, entry, K, id, k, F, H, ops, i, e, x, r)
           /\ v = World(PostedGlobal(H, p, call, r), PostedMemory(M, p, call, r), "none", K)
    BY <1>1, <1>3, CollectiveCallMade
  <2>2. PICK J, N : J = PostedGlobal(H, p, call, r) /\ N = PostedMemory(M, p, call, r)
    OBVIOUS
  <2>3. PostedTo(H, M, p, call, r, J, N)
    BY <2>2 DEF PostedTo
  <2>4. WorldOK(J, N, K) /\ ClosedOf(N) = ClosedOf(M) /\ \A q \in Procs : J.states[q].finished = G.states[q].finished
    <3>1. CallMade(G, M, L, p, call, entry, K, id, k, F, H, ops, i, e, x, r)
      BY <2>1
    <3> QED BY <2>3, <3>1, CollectiveKeeps
  <2>5. DoneKept(G, M, J, N)
    BY <2>4, DoneIsKept
  <2>6. Calling(G, L, ClosedOf(M), p, entry, K, id, k)
    BY <2>1 DEF CallMade
  <2>7. entry \in Entries(p) /\ entry.comm \in Comms /\ p \in Members(entry.comm)
    BY <2>6, CallingFacts
  <2>8. LogGrows(L, K, p, entry)
    BY <2>6, <2>7 DEF LogGrows, Calling
  <2>9. v = World(J, N, "none", K)
    BY <2>1, <2>2
  <2> QED BY <2>4, <2>5, <2>8, <2>9 DEF Executed
<1> QED BY <1>2, <1>3

\* p changes its state and its memory, but no request and no operation.
Changed(G, M, L, p, J, N) ==
  /\ WorldOK(G, M, L) /\ p \in Procs
  /\ CommunicatorsOK(J, L) /\ J.operations = G.operations
  /\ J.states[p].active = G.states[p].active /\ J.states[p].finished = G.states[p].finished
  /\ \A q \in Procs \ {p} : J.states[q] = G.states[q]
  /\ IsMemory(N) /\ ClosedOf(N) = ClosedOf(M) /\ \A q \in Procs \ {p} : N[q] = M[q]
  /\ WaitOK(J.states[p], L, p, N[p].requests)

LEMMA ChangingWorld ==
  ASSUME NEW G, NEW M, NEW L, NEW p, NEW J, NEW N, Changed(G, M, L, p, J, N)
  PROVE  WorldOK(J, N, L) /\ DoneKept(G, M, J, N)
<1>1. /\ WorldOK(G, M, L) /\ p \in Procs
      /\ CommunicatorsOK(J, L) /\ J.operations = G.operations
      /\ J.states[p].active = G.states[p].active /\ J.states[p].finished = G.states[p].finished
      /\ \A q \in Procs \ {p} : J.states[q] = G.states[q]
      /\ IsMemory(N) /\ ClosedOf(N) = ClosedOf(M) /\ \A q \in Procs \ {p} : N[q] = M[q]
      /\ WaitOK(J.states[p], L, p, N[p].requests)
  BY DEF Changed
<1>2. CoreOK(G, M, L) /\ \A q \in Procs : WaitOK(G.states[q], L, q, M[q].requests)
  BY <1>1 DEF WorldOK
<1>3. /\ IsLog(L) /\ RootsOK(L) /\ OperationsOK(G.operations, L, ClosedOf(M))
      /\ \A q \in Procs : RequestsOK(G.states[q], L, q, ClosedOf(M)[q])
  BY <1>2, WorldParts
<1>4. RequestsOK(J.states[p], L, p, ClosedOf(M)[p])
  <2>1. LiveRequests(J.states[p]) = LiveRequests(G.states[p])
    BY <1>1 DEF LiveRequests
  <2>2. RequestsOK(G.states[p], L, p, ClosedOf(M)[p])
    BY <1>1, <1>3
  <2> QED BY <1>1, <2>1, <2>2 DEF RequestsOK
<1>5. \A q \in Procs : RequestsOK(J.states[q], L, q, ClosedOf(N)[q]) /\ WaitOK(J.states[q], L, q, N[q].requests)
  BY <1>1, <1>2, <1>3, <1>4
<1>6. CoreOK(J, N, L)
  BY <1>1, <1>3, <1>5 DEF CoreOK, IsTyped, CommunicatorsOK
<1>7. \A q \in Procs : J.states[q].finished = G.states[q].finished
  BY <1>1
<1> QED BY <1>1, <1>5, <1>6, <1>7, DoneIsKept DEF WorldOK

\* Worlds that p leaves with an error, and worlds it changes.
LEMMA FailedIsExecuted ==
  ASSUME NEW G, NEW M, NEW L, NEW p, NEW err, err # "none"
  PROVE  Executed(G, M, L, p, World(G, M, err, L))
<1>1. DoneKept(G, M, G, M)
  BY DEF DoneKept
<1> QED BY <1>1 DEF Executed

LEMMA ChangedIsExecuted ==
  ASSUME NEW G, NEW M, NEW L, NEW p, NEW J, NEW N, Changed(G, M, L, p, J, N)
  PROVE  Executed(G, M, L, p, World(J, N, "none", L))
<1>1. WorldOK(J, N, L) /\ DoneKept(G, M, J, N)
  BY ChangingWorld
<1> QED BY <1>1 DEF Executed

\* Nothing that p waits for, and none of its variables, changes.
LEMMA WaitFrame ==
  ASSUME NEW S, NEW T, NEW L, NEW p, NEW f, WaitOK(S, L, p, f),
         T.active = S.active, T.finished = S.finished,
         T.status = S.status, T.tested = S.tested, T.pointer = S.pointer
  PROVE  WaitOK(T, L, p, f)
<1>1. LiveRequests(T) = LiveRequests(S)
  BY DEF LiveRequests
<1>2. RequestIds(T) = RequestIds(S)
  BY <1>1 DEF RequestIds
<1> QED BY <1>1, <1>2 DEF WaitOK

\* The ids of the requests in some variables.
IdsIn(f, requests) == [i \in DOMAIN requests |-> f[requests[i]]]

LEMMA IdsAreNumbers ==
  ASSUME NEW f \in [1 .. RequestVars -> Nat], NEW requests \in Seq(1 .. RequestVars)
  PROVE  IdsIn(f, requests) \in Seq(Nat) /\ DOMAIN IdsIn(f, requests) = DOMAIN requests
         /\ \A i \in DOMAIN requests : requests[i] \in 1 .. RequestVars /\ IdsIn(f, requests)[i] = f[requests[i]]
<1>1. PICK n \in Nat : n = Len(requests) /\ DOMAIN requests = 1 .. n
  BY LenProperties
<1>2. \A i \in 1 .. n : requests[i] \in 1 .. RequestVars
  BY <1>1, ElementOfSeq
<1>3. PICK g : g = IdsIn(f, requests)
  OBVIOUS
<1>4. g = [i \in 1 .. n |-> f[requests[i]]]
  BY <1>1, <1>3 DEF IdsIn
<1>5. g \in [1 .. n -> Nat]
  BY <1>2, <1>4
<1>6. g \in Seq(Nat)
  BY <1>5, FunctionIsSequence
<1> QED BY <1>1, <1>2, <1>3, <1>4, <1>6

LEMMA SettingWait ==
  ASSUME NEW S \in StateRecords, NEW L, NEW p, NEW f \in [1 .. RequestVars -> Nat], WaitOK(S, L, p, f),
         S.status = "running",
         NEW requests \in Seq(1 .. RequestVars), IsInjective(requests),
         NEW ids, ids = IdsIn(f, requests), ToSet(ids) \subseteq RequestIds(S) \cup {RequestNull},
         NEW T, T = SetWait(S, ids)
  PROVE  /\ T \in StateRecords /\ T.active = S.active /\ T.finished = S.finished /\ SameComms(S, T)
         /\ WaitOK(T, L, p, NullifiedVariables(f, requests))
<1>1. /\ ids \in Seq(Nat) /\ DOMAIN ids = DOMAIN requests
      /\ \A i \in DOMAIN requests : requests[i] \in 1 .. RequestVars /\ ids[i] = f[requests[i]]
  BY IdsAreNumbers
<1>2. /\ T \in StateRecords /\ T.active = S.active /\ T.finished = S.finished /\ SameComms(S, T)
      /\ T.status = "wait" /\ T.tested = ids /\ T.pointer = <<>>
  <2>1. <<>> \in Seq(1 .. RequestVars) /\ "wait" \in Statuses
    BY DEF Statuses
  <2> QED BY <1>1, <2>1 DEF SetWait, StateRecords, SameComms
<1>3. LiveRequests(T) = LiveRequests(S) /\ RequestIds(T) = RequestIds(S)
  <2>1. LiveRequests(T) = LiveRequests(S)
    BY <1>2 DEF LiveRequests
  <2> QED BY <2>1 DEF RequestIds
<1>4. \A r \in LiveRequests(T) : ~L[p][r.serial].call.blocking
  BY <1>3, RunningWaitsNot
<1>5. PICK h : h = NullifiedVariables(f, requests)
  OBVIOUS
<1>6. \A v \in 1 .. RequestVars : h[v] = IF v \in ToSet(requests) THEN RequestNull ELSE f[v]
  BY <1>5 DEF NullifiedVariables
<1>7. \A i \in DOMAIN ids : ids[i] \in RequestIds(T) \cup {RequestNull}
  BY <1>3 DEF ToSet
<1>8. \A i \in DOMAIN ids, j \in DOMAIN ids : ids[i] = ids[j] => i = j \/ ids[i] = RequestNull
  BY <1>1 DEF WaitOK, IsInjective
<1>9. \A v \in 1 .. RequestVars : h[v] \in RequestIds(T) \cup {RequestNull}
  BY <1>3, <1>6 DEF WaitOK
<1>10. \A v \in 1 .. RequestVars, w \in 1 .. RequestVars : h[v] = h[w] => v = w \/ h[v] = RequestNull
  BY <1>6 DEF WaitOK
<1>11. \A v \in 1 .. RequestVars, i \in DOMAIN ids : h[v] = ids[i] => h[v] = RequestNull
  BY <1>1, <1>6 DEF WaitOK, ToSet
<1>12. WaitOK(T, L, p, h)
  BY <1>2, <1>4, <1>7, <1>8, <1>9, <1>10, <1>11 DEF WaitOK
<1> QED BY <1>2, <1>5, <1>12

LEMMA SettingTest ==
  ASSUME NEW S \in StateRecords, NEW L, NEW p, NEW f \in [1 .. RequestVars -> Nat], WaitOK(S, L, p, f),
         S.status = "running",
         NEW requests \in Seq(1 .. RequestVars), IsInjective(requests),
         NEW ids, ids = IdsIn(f, requests), ToSet(ids) \subseteq RequestIds(S) \cup {RequestNull},
         NEW T, T = SetTest(S, ids, requests)
  PROVE  /\ T \in StateRecords /\ T.active = S.active /\ T.finished = S.finished /\ SameComms(S, T)
         /\ WaitOK(T, L, p, f)
<1>1. /\ ids \in Seq(Nat) /\ DOMAIN ids = DOMAIN requests
      /\ \A i \in DOMAIN requests : requests[i] \in 1 .. RequestVars /\ ids[i] = f[requests[i]]
  BY IdsAreNumbers
<1>2. /\ T \in StateRecords /\ T.active = S.active /\ T.finished = S.finished /\ SameComms(S, T)
      /\ T.status = "test" /\ T.tested = ids /\ T.pointer = requests
  <2>1. "test" \in Statuses
    BY DEF Statuses
  <2> QED BY <1>1, <2>1 DEF SetTest, StateRecords, SameComms
<1>3. LiveRequests(T) = LiveRequests(S) /\ RequestIds(T) = RequestIds(S)
  <2>1. LiveRequests(T) = LiveRequests(S)
    BY <1>2 DEF LiveRequests
  <2> QED BY <2>1 DEF RequestIds
<1>4. \A r \in LiveRequests(T) : ~L[p][r.serial].call.blocking
  BY <1>3, RunningWaitsNot
<1>7. \A i \in DOMAIN ids : ids[i] \in RequestIds(T) \cup {RequestNull}
  BY <1>3 DEF ToSet
<1>8. \A i \in DOMAIN ids, j \in DOMAIN ids : ids[i] = ids[j] => i = j \/ ids[i] = RequestNull
  BY <1>1 DEF WaitOK, IsInjective
<1>9. \A v \in 1 .. RequestVars : f[v] \in RequestIds(T) \cup {RequestNull}
  BY <1>3 DEF WaitOK
<1>10. \A v \in 1 .. RequestVars, w \in 1 .. RequestVars : f[v] = f[w] => v = w \/ f[v] = RequestNull
  BY DEF WaitOK
<1>12. WaitOK(T, L, p, f)
  BY <1>1, <1>2, <1>4, <1>7, <1>8, <1>9, <1>10 DEF WaitOK
<1> QED BY <1>2, <1>12

\* A call that gives p the state T and that changes its memory to N.
StateSet(w, p, T) == [w EXCEPT !.gstate.states[p] = T]
BothSet(w, p, T, N) == [w EXCEPT !.gstate.states[p] = T, !.memory = N]

LEMMA StateOfWorld ==
  ASSUME NEW G \in GlobalStates, NEW M, NEW L, NEW p, NEW w, w = World(G, M, "none", L), NEW T, NEW N
  PROVE  /\ BothSet(w, p, T, N) = World(Replaced(G, p, T, G.operations), N, "none", L)
         /\ StateSet(w, p, T) = World(Replaced(G, p, T, G.operations), M, "none", L)
<1>1. PICK H : H = [G EXCEPT !.states[p] = T]
  OBVIOUS
<1>2. H = Replaced(G, p, T, G.operations)
  BY <1>1, StateReplaced
<1>3. w.gstate = G
  BY WorldFields
<1>4. BothSet(w, p, T, N) = World(H, N, "none", L)
  <2>1. PICK u : u = [w EXCEPT !.gstate = H]
    OBVIOUS
  <2>2. u = World(H, M, "none", L)
    BY <2>1, GlobalOfWorld
  <2>3. BothSet(w, p, T, N) = [u EXCEPT !.memory = N]
    BY <1>1, <1>3, <2>1 DEF BothSet
  <2>4. [u EXCEPT !.memory = N] = World(H, N, "none", L)
    BY <2>2, MemoryOfWorld
  <2> QED BY <2>3, <2>4
<1>5. StateSet(w, p, T) = World(H, M, "none", L)
  <2>1. StateSet(w, p, T) = [w EXCEPT !.gstate = H]
    BY <1>1, <1>3 DEF StateSet
  <2> QED BY <2>1, GlobalOfWorld
<1> QED BY <1>2, <1>4, <1>5

\* A state that p gets in a call.
Gets(G, M, L, p, T, N) ==
  /\ WorldOK(G, M, L) /\ p \in Procs /\ T \in StateRecords /\ SameComms(G.states[p], T)
  /\ T.active = G.states[p].active /\ T.finished = G.states[p].finished
  /\ IsMemory(N) /\ ClosedOf(N) = ClosedOf(M) /\ \A q \in Procs \ {p} : N[q] = M[q]
  /\ WaitOK(T, L, p, N[p].requests)

LEMMA GettingState ==
  ASSUME NEW G, NEW M, NEW L, NEW p, NEW T, NEW N, Gets(G, M, L, p, T, N)
  PROVE  Changed(G, M, L, p, Replaced(G, p, T, G.operations), N)
<1>1. /\ WorldOK(G, M, L) /\ p \in Procs /\ T \in StateRecords /\ SameComms(G.states[p], T)
      /\ T.active = G.states[p].active /\ T.finished = G.states[p].finished
      /\ IsMemory(N) /\ ClosedOf(N) = ClosedOf(M) /\ \A q \in Procs \ {p} : N[q] = M[q]
      /\ WaitOK(T, L, p, N[p].requests)
  BY DEF Gets
<1>2. CommunicatorsOK(G, L) /\ G.operations \in Seq(OperationRecords)
  <2>1. CoreOK(G, M, L)
    BY <1>1 DEF WorldOK
  <2>2. CommunicatorsOK(G, L) /\ G \in GlobalStates
    BY <2>1, WorldParts
  <2> QED BY <2>2, GlobalFields
<1>3. PICK J : J = Replaced(G, p, T, G.operations)
  OBVIOUS
<1>4. /\ CommunicatorsOK(J, L) /\ J.operations = G.operations
      /\ J.states[p] = T /\ \A q \in Procs \ {p} : J.states[q] = G.states[q]
  BY <1>1, <1>2, <1>3, ReplacingWork
<1>5. Changed(G, M, L, p, J, N)
  BY <1>1, <1>4 DEF Changed
<1> QED BY <1>3, <1>5

\* Where a call of p starts.
Starts(G, M, L, p, w) == WorldOK(G, M, L) /\ p \in Procs /\ G.states[p].status = "running" /\ w = World(G, M, "none", L)

LEMMA StartsFacts ==
  ASSUME NEW G, NEW M, NEW L, NEW p, NEW w, Starts(G, M, L, p, w)
  PROVE  /\ p \in Procs /\ G \in GlobalStates /\ IsMemory(M) /\ IsLog(L) /\ CommunicatorsOK(G, L) /\ CommsOK(G, L)
         /\ G.states[p] \in StateRecords /\ G.states[p].status = "running" /\ IsFiniteSet(G.states[p].finished)
         /\ M[p].requests \in [1 .. RequestVars -> Nat]
         /\ WaitOK(G.states[p], L, p, M[p].requests)
         /\ w = World(G, M, "none", L) /\ w.gstate = G /\ w.memory = M /\ w.error = "none" /\ w.log = L
         /\ WorldOK(G, M, L)
<1>1. WorldOK(G, M, L) /\ p \in Procs /\ G.states[p].status = "running" /\ w = World(G, M, "none", L)
  BY DEF Starts
<1>2. CoreOK(G, M, L) /\ WaitOK(G.states[p], L, p, M[p].requests)
  BY <1>1 DEF WorldOK
<1>3. /\ G \in GlobalStates /\ IsMemory(M) /\ IsLog(L) /\ CommunicatorsOK(G, L) /\ CommsOK(G, L)
      /\ G.states[p] \in StateRecords /\ IsFiniteSet(G.states[p].finished)
  BY <1>1, <1>2, WorldParts
<1>4. M[p].requests \in [1 .. RequestVars -> Nat]
  BY <1>1, <1>3 DEF IsMemory
<1>5. w.gstate = G /\ w.memory = M /\ w.error = "none" /\ w.log = L
  BY <1>1, WorldFields
<1> QED BY <1>1, <1>2, <1>3, <1>4, <1>5

LEMMA CallFailed ==
  ASSUME NEW G, NEW M, NEW L, NEW p, NEW w, Starts(G, M, L, p, w), NEW err, err # "none"
  PROVE  Executed(G, M, L, p, Fail(w, err))
<1>1. w = World(G, M, "none", L)
  BY DEF Starts
<1>2. Fail(w, err) = World(G, M, err, L)
  BY <1>1, FailedWorld
<1> QED BY <1>2, FailedIsExecuted

LEMMA ExecutingWait ==
  ASSUME NEW G, NEW M, NEW L, NEW p, NEW w, Starts(G, M, L, p, w), NEW call \in MayCall(p), call.op = "Wait"
  PROVE  Executed(G, M, L, p, WaitCall(w, p, call))
<1>1. /\ p \in Procs /\ G \in GlobalStates /\ IsMemory(M)
      /\ G.states[p] \in StateRecords /\ G.states[p].status = "running"
      /\ M[p].requests \in [1 .. RequestVars -> Nat]
      /\ WaitOK(G.states[p], L, p, M[p].requests)
      /\ w = World(G, M, "none", L) /\ w.gstate = G /\ w.memory = M
      /\ WorldOK(G, M, L)
  BY StartsFacts
<1>2. call.requests \in Seq(1 .. RequestVars) /\ IsInjective(call.requests)
  BY <1>1, ProgramsAssumption
<1>3. PICK S, f, ids : S = G.states[p] /\ f = M[p].requests /\ ids = IdsIn(f, call.requests)
  OBVIOUS
<1>4. PICK T : T = SetWait(S, ids)
  OBVIOUS
<1>5. PICK N : N = Nullified(M, p, call.requests)
  OBVIOUS
<1>6. WaitCall(w, p, call) =
        IF ~ (ToSet(ids) \subseteq RequestIds(S) \cup {RequestNull}) THEN Fail(w, "InvalidRequest")
        ELSE BothSet(w, p, T, N)
  BY <1>1, <1>3, <1>4, <1>5 DEF WaitCall, IdsIn, Nullified, BothSet
<1>7. CASE ~ (ToSet(ids) \subseteq RequestIds(S) \cup {RequestNull})
  <2>1. "InvalidRequest" # "none"
    OBVIOUS
  <2> QED BY <1>6, <1>7, <2>1, CallFailed
<1>8. CASE ToSet(ids) \subseteq RequestIds(S) \cup {RequestNull}
  <2>1. /\ T \in StateRecords /\ T.active = S.active /\ T.finished = S.finished /\ SameComms(S, T)
        /\ WaitOK(T, L, p, NullifiedVariables(f, call.requests))
    BY <1>1, <1>2, <1>3, <1>4, <1>8, SettingWait
  <2>2. MemoryChanged(M, N, p, NullifiedVariables(f, call.requests), M[p].comms, M[p].groups, M[p].results)
    BY <1>1, <1>3, <1>5, NullifyingMemory
  <2>3. /\ IsMemory(N) /\ N[p].requests = NullifiedVariables(f, call.requests)
        /\ \A q \in Procs \ {p} : N[q] = M[q]
        /\ ClosedOf(N) = [ClosedOf(M) EXCEPT ![p] = {u.serial : u \in M[p].results}]
    BY <2>2 DEF MemoryChanged
  <2>4. ClosedOf(N) = ClosedOf(M)
    <3>1. ClosedOf(M)[p] = {u.serial : u \in M[p].results} /\ ClosedOf(M) = [q \in Procs |-> ClosedOf(M)[q]]
      BY <1>1 DEF ClosedOf
    <3> QED BY <2>3, <3>1
  <2>5. Gets(G, M, L, p, T, N)
    BY <1>1, <1>3, <2>1, <2>3, <2>4 DEF Gets
  <2>6. Executed(G, M, L, p, World(Replaced(G, p, T, G.operations), N, "none", L))
    BY <2>5, GettingState, ChangedIsExecuted
  <2>7. BothSet(w, p, T, N) = World(Replaced(G, p, T, G.operations), N, "none", L)
    BY <1>1, StateOfWorld
  <2> QED BY <1>6, <1>8, <2>6, <2>7
<1> QED BY <1>7, <1>8

LEMMA ExecutingTest ==
  ASSUME NEW G, NEW M, NEW L, NEW p, NEW w, Starts(G, M, L, p, w), NEW call \in MayCall(p), call.op = "Test"
  PROVE  Executed(G, M, L, p, TestCall(w, p, call))
<1>1. /\ p \in Procs /\ G \in GlobalStates /\ IsMemory(M)
      /\ G.states[p] \in StateRecords /\ G.states[p].status = "running"
      /\ M[p].requests \in [1 .. RequestVars -> Nat]
      /\ WaitOK(G.states[p], L, p, M[p].requests)
      /\ w = World(G, M, "none", L) /\ w.gstate = G /\ w.memory = M
      /\ WorldOK(G, M, L)
  BY StartsFacts
<1>2. call.requests \in Seq(1 .. RequestVars) /\ IsInjective(call.requests)
  BY <1>1, ProgramsAssumption
<1>3. PICK S, f, ids : S = G.states[p] /\ f = M[p].requests /\ ids = IdsIn(f, call.requests)
  OBVIOUS
<1>4. PICK T : T = SetTest(S, ids, call.requests)
  OBVIOUS
<1>6. TestCall(w, p, call) =
        IF ~ (ToSet(ids) \subseteq RequestIds(S) \cup {RequestNull}) THEN Fail(w, "InvalidRequest")
        ELSE StateSet(w, p, T)
  BY <1>1, <1>3, <1>4 DEF TestCall, IdsIn, StateSet
<1>7. CASE ~ (ToSet(ids) \subseteq RequestIds(S) \cup {RequestNull})
  <2>1. "InvalidRequest" # "none"
    OBVIOUS
  <2> QED BY <1>6, <1>7, <2>1, CallFailed
<1>8. CASE ToSet(ids) \subseteq RequestIds(S) \cup {RequestNull}
  <2>1. /\ T \in StateRecords /\ T.active = S.active /\ T.finished = S.finished /\ SameComms(S, T)
        /\ WaitOK(T, L, p, f)
    BY <1>1, <1>2, <1>3, <1>4, <1>8, SettingTest
  <2>5. Gets(G, M, L, p, T, M)
    BY <1>1, <1>3, <2>1 DEF Gets
  <2>6. Executed(G, M, L, p, World(Replaced(G, p, T, G.operations), M, "none", L))
    BY <2>5, GettingState, ChangedIsExecuted
  <2>7. StateSet(w, p, T) = World(Replaced(G, p, T, G.operations), M, "none", L)
    BY <1>1, StateOfWorld
  <2> QED BY <1>6, <1>8, <2>6, <2>7
<1> QED BY <1>7, <1>8

\* Handles that p writes to its variables.
CommGiven(M, p, x, n) == [M EXCEPT ![p].comms[x] = n]
GroupIsGiven(M, p, x, n) == [M EXCEPT ![p].groups[x] = n]

HandleGiven(M, N, p) ==
  /\ IsMemory(N) /\ ClosedOf(N) = ClosedOf(M) /\ N[p].requests = M[p].requests
  /\ \A q \in Procs \ {p} : N[q] = M[q]

LEMMA GivingHandle ==
  ASSUME NEW M, IsMemory(M), NEW p \in Procs, NEW x, NEW n,
         NEW N, N \in {CommGiven(M, p, x, n), GroupIsGiven(M, p, x, n)}
  PROVE  HandleGiven(M, N, p)
<1>1. PICK f, c, g, r : f = M[p].requests /\ c = M[p].comms /\ g = M[p].groups /\ r = M[p].results
                        /\ f \in [1 .. RequestVars -> Nat] /\ M[p] = MemoryRecord(f, c, g, r)
  BY MemoryFields
<1>2. PICK B : B = MemoryRecord(f, c, g, r)
  OBVIOUS
<1>3. PICK d, h : /\ N = CommGiven(M, p, x, n) => d = [c EXCEPT ![x] = n] /\ h = g
                  /\ N # CommGiven(M, p, x, n) => d = c /\ h = [g EXCEPT ![x] = n]
  OBVIOUS
<1>4. N = [M EXCEPT ![p] = MemoryRecord(f, d, h, r)]
  <2>1. CASE N = CommGiven(M, p, x, n)
    <3>1. [B EXCEPT !.comms[x] = n] = MemoryRecord(f, d, h, r)
      BY <1>2, <1>3, <2>1 DEF MemoryRecord
    <3>2. [M[p] EXCEPT !.comms[x] = n] = MemoryRecord(f, d, h, r)
      BY <1>1, <1>2, <3>1
    <3> QED BY <2>1, <3>2 DEF CommGiven
  <2>2. CASE N # CommGiven(M, p, x, n)
    <3>1. [B EXCEPT !.groups[x] = n] = MemoryRecord(f, d, h, r)
      BY <1>2, <1>3, <2>2 DEF MemoryRecord
    <3>2. [M[p] EXCEPT !.groups[x] = n] = MemoryRecord(f, d, h, r)
      BY <1>1, <1>2, <3>1
    <3>3. N = GroupIsGiven(M, p, x, n)
      BY <2>2
    <3> QED BY <3>2, <3>3 DEF GroupIsGiven
  <2> QED BY <2>1, <2>2
<1>5. PICK E : E = [M EXCEPT ![p] = MemoryRecord(f, d, h, r)]
  OBVIOUS
<1>6. MemoryChanged(M, E, p, f, d, h, r)
  BY <1>1, <1>5, MemoryReplaced
<1>7. /\ IsMemory(E) /\ E[p].requests = f /\ \A q \in Procs \ {p} : E[q] = M[q]
      /\ ClosedOf(E) = [ClosedOf(M) EXCEPT ![p] = {u.serial : u \in r}]
  BY <1>6 DEF MemoryChanged
<1>8. ClosedOf(E) = ClosedOf(M)
  <2>1. ClosedOf(M)[p] = {u.serial : u \in r}
    BY <1>1 DEF ClosedOf
  <2> QED BY <1>7, <2>1 DEF ClosedOf
<1> QED BY <1>1, <1>4, <1>5, <1>7, <1>8 DEF HandleGiven

\* A communicator of p that it may free, and what is left of the state without it.
Removes(G, L, p, id, c, S, T, H) ==
  /\ IsLog(L) /\ CommunicatorsOK(G, L) /\ p \in Procs /\ id \notin {CommWorld, CommSelf}
  /\ Finds(G, p, id, c) /\ S = G.states[p] /\ T = RemoveComm(S, c)
  /\ H = Replaced(G, p, T, G.operations)

LEMMA RemovedAs ==
  ASSUME NEW G, NEW L, NEW p, NEW id, NEW c, NEW S, NEW T, NEW H, Removes(G, L, p, id, c, S, T, H)
  PROVE  RemovedComm(G, L, p, id, c, S, T, H)
<1>1. /\ IsLog(L) /\ CommunicatorsOK(G, L) /\ p \in Procs
      /\ Finds(G, p, id, c) /\ S = G.states[p] /\ T = RemoveComm(S, c)
      /\ H = Replaced(G, p, T, G.operations)
  BY DEF Removes
<1>2. id \notin {CommWorld, CommSelf}
  BY DEF Removes
<1> QED BY <1>1, <1>2, RemovingComm

LEMMA ExecutingCommFree ==
  ASSUME NEW G, NEW M, NEW L, NEW p, NEW w, Starts(G, M, L, p, w), NEW call
  PROVE  Executed(G, M, L, p, CommFreeCall(w, p, call))
<1>1. /\ p \in Procs /\ G \in GlobalStates /\ IsMemory(M) /\ IsLog(L) /\ CommunicatorsOK(G, L)
      /\ G.states[p] \in StateRecords
      /\ WaitOK(G.states[p], L, p, M[p].requests)
      /\ w = World(G, M, "none", L) /\ w.gstate = G /\ w.memory = M
      /\ WorldOK(G, M, L)
  BY StartsFacts
<1>2. PICK S, id, c : S = G.states[p] /\ id = M[p].comms[call.comm] /\ c = GetComm(S, p, id)
  OBVIOUS
<1>3. CommOf(w, p, call.comm) = c
  BY <1>1, <1>2 DEF CommOf
<1>4. PICK T : T = RemoveComm(S, c)
  OBVIOUS
<1>5. PICK N : N = CommGiven(M, p, call.comm, CommNull)
  OBVIOUS
<1>6. CommFreeCall(w, p, call) =
        IF id \in {CommWorld, CommSelf} THEN Fail(w, "FreeingPermanentComm")
        ELSE IF c = None THEN Fail(w, "InvalidCommunicator") ELSE BothSet(w, p, T, N)
  BY <1>1, <1>2, <1>3, <1>4, <1>5 DEF CommFreeCall, BothSet, CommGiven
<1>7. CASE id \in {CommWorld, CommSelf} \/ c = None
  <2>1. "FreeingPermanentComm" # "none" /\ "InvalidCommunicator" # "none"
    OBVIOUS
  <2> QED BY <1>6, <1>7, <2>1, CallFailed
<1>8. CASE ~(id \in {CommWorld, CommSelf} \/ c = None)
  <2>1. PICK H : H = Replaced(G, p, T, G.operations)
    OBVIOUS
  <2>2. Finds(G, p, id, c)
    BY <1>2, <1>8 DEF Finds
  <2>3. Removes(G, L, p, id, c, S, T, H)
    BY <1>1, <1>2, <1>4, <1>8, <2>1, <2>2 DEF Removes
  <2>4. RemovedComm(G, L, p, id, c, S, T, H)
    BY <2>3, RemovedAs
  <2>5. HandleGiven(M, N, p)
    BY <1>1, <1>5, GivingHandle
  <2>6. WaitOK(T, L, p, M[p].requests)
    BY <1>1, <1>2, <2>4, WaitFrame DEF SameWork, RemovedComm
  <2>7. Changed(G, M, L, p, H, N)
    BY <1>1, <1>2, <2>4, <2>5, <2>6 DEF Changed, HandleGiven, SameWork, RemovedComm
  <2>8. Executed(G, M, L, p, World(H, N, "none", L))
    BY <2>7, ChangedIsExecuted
  <2>9. BothSet(w, p, T, N) = World(H, N, "none", L)
    BY <1>1, <2>1, StateOfWorld
  <2> QED BY <1>6, <1>8, <2>8, <2>9
<1> QED BY <1>7, <1>8

\* States that differ in groups and attributes only.
LEMMA GettingGroups ==
  ASSUME NEW G, NEW M, NEW L, NEW p, NEW w, Starts(G, M, L, p, w),
         NEW T \in StateRecords, SameComms(G.states[p], T), SameWork(G.states[p], T),
         NEW N, HandleGiven(M, N, p)
  PROVE  Executed(G, M, L, p, BothSet(w, p, T, N))
<1>1. /\ p \in Procs /\ G \in GlobalStates
      /\ WaitOK(G.states[p], L, p, M[p].requests)
      /\ w = World(G, M, "none", L)
      /\ WorldOK(G, M, L)
  BY StartsFacts
<1>2. WaitOK(T, L, p, N[p].requests)
  BY <1>1, WaitFrame DEF SameWork, HandleGiven
<1>3. Gets(G, M, L, p, T, N)
  BY <1>1, <1>2 DEF Gets, SameWork, HandleGiven
<1>4. Executed(G, M, L, p, World(Replaced(G, p, T, G.operations), N, "none", L))
  BY <1>3, GettingState, ChangedIsExecuted
<1>5. BothSet(w, p, T, N) = World(Replaced(G, p, T, G.operations), N, "none", L)
  BY <1>1, StateOfWorld
<1> QED BY <1>4, <1>5

LEMMA GettingAttributes ==
  ASSUME NEW G, NEW M, NEW L, NEW p, NEW w, Starts(G, M, L, p, w),
         NEW T \in StateRecords, SameComms(G.states[p], T), SameWork(G.states[p], T)
  PROVE  Executed(G, M, L, p, StateSet(w, p, T))
<1>1. /\ p \in Procs /\ G \in GlobalStates /\ IsMemory(M)
      /\ WaitOK(G.states[p], L, p, M[p].requests)
      /\ w = World(G, M, "none", L)
      /\ WorldOK(G, M, L)
  BY StartsFacts
<1>2. WaitOK(T, L, p, M[p].requests)
  BY <1>1, WaitFrame DEF SameWork
<1>3. Gets(G, M, L, p, T, M)
  BY <1>1, <1>2 DEF Gets, SameWork
<1>4. Executed(G, M, L, p, World(Replaced(G, p, T, G.operations), M, "none", L))
  BY <1>3, GettingState, ChangedIsExecuted
<1>5. StateSet(w, p, T) = World(Replaced(G, p, T, G.operations), M, "none", L)
  BY <1>1, StateOfWorld
<1> QED BY <1>4, <1>5

\* Calls on groups.
GroupGiven(w, p, x, group) ==
  BothSet(w, p, AddGroup(w.gstate.states[p], group),
          GroupIsGiven(w.memory, p, x, FreeGroupId(w.gstate.states[p])))

LEMMA AddingGroup ==
  ASSUME NEW S \in StateRecords, NEW group \in Groups, NEW T, T = AddGroup(S, group)
  PROVE  T \in StateRecords /\ SameComms(S, T) /\ SameWork(S, T)
<1>1. PICK ids : /\ ids \in SUBSET Nat /\ IsFiniteSet(ids) /\ S.groups \in [ids -> Groups]
  BY StateFields DEF GroupTables
<1>2. PICK id : id = FreeGroupId(S)
  OBVIOUS
<1>3. id = Free(DOMAIN S.groups)
  BY <1>2 DEF FreeGroupId, Free
<1>4. id \in Nat
  BY <1>1, <1>3, FreeNumber
<1>5. PICK more : more = ids \cup {id}
  OBVIOUS
<1>6. more \in SUBSET Nat /\ IsFiniteSet(more)
  BY <1>1, <1>4, <1>5, FS_AddElement
<1>7. PICK table : table = [i \in more |-> IF i = id THEN group ELSE S.groups[i]]
  OBVIOUS
<1>8. table \in [more -> Groups]
  BY <1>1, <1>5, <1>7
<1>9. table \in GroupTables
  BY <1>6, <1>8 DEF GroupTables
<1>10. T = [S EXCEPT !.groups = table]
  BY <1>1, <1>2, <1>5, <1>7 DEF AddGroup
<1> QED BY <1>9, <1>10 DEF StateRecords, SameComms, SameWork

LEMMA GivingGroup ==
  ASSUME NEW G, NEW M, NEW L, NEW p, NEW w, Starts(G, M, L, p, w), NEW x, NEW group \in Groups
  PROVE  Executed(G, M, L, p, GroupGiven(w, p, x, group))
<1>1. G.states[p] \in StateRecords /\ IsMemory(M) /\ p \in Procs /\ w.gstate = G /\ w.memory = M
  BY StartsFacts
<1>2. PICK S : S = G.states[p]
  OBVIOUS
<1>3. PICK T : T = AddGroup(S, group)
  OBVIOUS
<1>4. T \in StateRecords /\ SameComms(S, T) /\ SameWork(S, T)
  BY <1>1, <1>2, <1>3, AddingGroup
<1>5. PICK N : N = GroupIsGiven(M, p, x, FreeGroupId(S))
  OBVIOUS
<1>6. HandleGiven(M, N, p)
  BY <1>1, <1>5, GivingHandle
<1>7. Executed(G, M, L, p, BothSet(w, p, T, N))
  BY <1>2, <1>4, <1>6, GettingGroups
<1> QED BY <1>1, <1>2, <1>3, <1>5, <1>7 DEF GroupGiven

GroupOutcomes(w, p, call, old, v) ==
  \/ \E e \in {"InvalidCommunicator", "InvalidGroup", "InvalidRank", "NonUniqueValues"} : v = Fail(w, e)
  \/ CommOf(w, p, call.comm) # None /\ v = GroupGiven(w, p, call.group, CommOf(w, p, call.comm).group)
  \/ /\ old # None /\ call.op = "Group_incl"
     /\ \A i \in DOMAIN call.ranks : call.ranks[i] \in 0 .. Len(old.table) - 1
     /\ v = GroupGiven(w, p, call.group, NewGroup(<<"made", p, Len(todo[p])>>, Including(old, call.ranks)))
  \/ /\ old # None /\ call.op = "Group_excl"
     /\ \A i \in DOMAIN call.ranks : call.ranks[i] \in 0 .. Len(old.table) - 1
     /\ v = GroupGiven(w, p, call.group, NewGroup(<<"made", p, Len(todo[p])>>, Excluding(old, call.ranks)))

LEMMA PartsOfGroupCall ==
  ASSUME NEW w, NEW p, NEW call, call.op \in {"Comm_group", "Group_incl", "Group_excl"},
         NEW old, old = GetGroup(w.gstate.states[p], w.memory[p].groups[call.from]),
         NEW v, v = GroupCall(w, p, call)
  PROVE  GroupOutcomes(w, p, call, old, v)
<1>1. CASE call.op = "Comm_group"
  BY <1>1 DEF GroupCall, GroupGiven, BothSet, GroupIsGiven, GroupOutcomes
<1>2. CASE call.op # "Comm_group" /\ old = None
  BY <1>2 DEF GroupCall, GroupOutcomes
<1>3. CASE /\ call.op # "Comm_group" /\ old # None
           /\ \E i \in DOMAIN call.ranks : call.ranks[i] \notin 0 .. Len(old.table) - 1
  BY <1>3 DEF GroupCall, GroupOutcomes
<1>4. CASE /\ call.op = "Group_incl" /\ old # None
           /\ ~ \E i \in DOMAIN call.ranks : call.ranks[i] \notin 0 .. Len(old.table) - 1
  BY <1>4 DEF GroupCall, GroupGiven, BothSet, GroupIsGiven, GroupOutcomes
<1>5. CASE /\ call.op = "Group_excl" /\ old # None
           /\ ~ \E i \in DOMAIN call.ranks : call.ranks[i] \notin 0 .. Len(old.table) - 1
  BY <1>5 DEF GroupCall, GroupGiven, BothSet, GroupIsGiven, GroupOutcomes
<1> QED BY <1>1, <1>2, <1>3, <1>4, <1>5

LEMMA IncludedTable ==
  ASSUME NEW old \in Groups, NEW ranks \in Seq(Int), IsInjective(ranks),
         \A i \in DOMAIN ranks : ranks[i] \in 0 .. Len(old.table) - 1
  PROVE  Including(old, ranks) \in Seq(Procs) /\ IsInjective(Including(old, ranks))
<1>0. PICK t : t = old.table
  OBVIOUS
<1>1. PICK m \in Nat : t = old.table /\ t \in [1 .. m -> Procs] /\ Len(t) = m /\ IsInjective(t)
  <2>1. old.table \in Seq(Procs) /\ IsInjective(old.table)
    BY DEF Groups
  <2>2. Len(old.table) \in Nat /\ old.table \in [1 .. Len(old.table) -> Procs]
    BY <2>1, LenProperties
  <2> QED BY <1>0, <2>1, <2>2
<1>2. PICK n \in Nat : DOMAIN ranks = 1 .. n
  BY LenProperties
<1>3. PICK s : s = Including(old, ranks)
  OBVIOUS
<1>4. s = [i \in 1 .. n |-> t[ranks[i] + 1]]
  BY <1>1, <1>2, <1>3 DEF Including
<1>5. \A i \in 1 .. n : ranks[i] \in Int /\ ranks[i] + 1 \in 1 .. m
  BY <1>1, <1>2
<1>6. s \in [1 .. n -> Procs]
  BY <1>1, <1>4, <1>5
<1>7. s \in Seq(Procs)
  BY <1>6, FunctionIsSequence
<1>8. IsInjective(s)
  <2>1. SUFFICES ASSUME NEW i \in 1 .. n, NEW j \in 1 .. n, s[i] = s[j] PROVE i = j
    BY <1>6 DEF IsInjective
  <2>2. ranks[i] + 1 = ranks[j] + 1
    BY <1>1, <1>4, <1>5, <2>1 DEF IsInjective
  <2>3. ranks[i] = ranks[j]
    <3>1. ranks[i] \in Int /\ ranks[j] \in Int
      BY <1>5
    <3>2. PICK a \in Int, b \in Int : a = ranks[i] /\ b = ranks[j]
      BY <3>1
    <3>3. a + 1 = b + 1
      BY <2>2, <3>2
    <3>4. a = b
      BY <3>3
    <3> QED BY <3>2, <3>4
  <2> QED BY <1>2, <2>3 DEF IsInjective
<1> QED BY <1>3, <1>7, <1>8

LEMMA ExcludedTable ==
  ASSUME NEW old \in Groups, NEW ranks
  PROVE  Excluding(old, ranks) \in Seq(Procs) /\ IsInjective(Excluding(old, ranks))
<1>0. PICK t : t = old.table
  OBVIOUS
<1>1. PICK m \in Nat : t = old.table /\ t \in [1 .. m -> Procs] /\ Len(t) = m /\ IsInjective(t)
  <2>1. old.table \in Seq(Procs) /\ IsInjective(old.table)
    BY DEF Groups
  <2>2. Len(old.table) \in Nat /\ old.table \in [1 .. Len(old.table) -> Procs]
    BY <2>1, LenProperties
  <2> QED BY <1>0, <2>1, <2>2
<1>2. PICK rest : rest = {r \in 0 .. Len(t) - 1 : r \notin ToSet(ranks)}
  OBVIOUS
<1>3. rest \in SUBSET Int /\ IsFiniteSet(rest) /\ \A r \in rest : r + 1 \in 1 .. m
  <2>1. IsFiniteSet(0 .. m - 1)
    BY FS_Interval
  <2> QED BY <1>1, <1>2, <2>1, FS_Subset
<1>4. PICK n \in Nat : n = Cardinality(rest)
  BY <1>3, FS_CardinalityType
<1>5. PICK order : order = InOrder(rest, <)
  OBVIOUS
<1>6. order \in [1 .. n -> rest] /\ \A i \in 1 .. n, j \in 1 .. n : i # j => order[i] # order[j]
  <2>1. /\ InOrder(rest, <) \in [1 .. n -> rest]
        /\ \A i \in 1 .. n, j \in 1 .. n : i # j => InOrder(rest, <)[i] # InOrder(rest, <)[j]
    BY <1>3, <1>4, NumbersInOrder
  <2> QED BY <1>5, <2>1
<1>7. PICK s : s = Excluding(old, ranks)
  OBVIOUS
<1>8. s = [i \in 1 .. n |-> t[order[i] + 1]]
  BY <1>1, <1>2, <1>5, <1>6, <1>7 DEF Excluding
<1>9. \A i \in 1 .. n : order[i] \in Int /\ order[i] + 1 \in 1 .. m
  BY <1>3, <1>6
<1>10. s \in [1 .. n -> Procs]
  BY <1>1, <1>8, <1>9
<1>11. s \in Seq(Procs)
  BY <1>10, FunctionIsSequence
<1>12. IsInjective(s)
  <2>1. SUFFICES ASSUME NEW i \in 1 .. n, NEW j \in 1 .. n, s[i] = s[j] PROVE i = j
    BY <1>10 DEF IsInjective
  <2>2. order[i] + 1 = order[j] + 1
    BY <1>1, <1>8, <1>9, <2>1 DEF IsInjective
  <2>3. order[i] = order[j]
    <3>1. PICK a \in Int, b \in Int : a = order[i] /\ b = order[j]
      BY <1>9
    <3>2. a + 1 = b + 1
      BY <2>2, <3>1
    <3>3. a = b
      BY <3>2
    <3> QED BY <3>1, <3>3
  <2> QED BY <1>6, <2>3
<1> QED BY <1>7, <1>11, <1>12

\* The group under a handle.
LEMMA GettingGroup ==
  ASSUME NEW S \in StateRecords, NEW id, NEW group, group = GetGroup(S, id), group # None
  PROVE  group \in Groups /\ id \in DOMAIN S.groups /\ group = S.groups[id]
<1>1. PICK ids : /\ ids \in SUBSET Nat /\ IsFiniteSet(ids) /\ S.groups \in [ids -> Groups]
  BY StateFields DEF GroupTables
<1> QED BY <1>1 DEF GetGroup

LEMMA ExecutingGroupCall ==
  ASSUME NEW G, NEW M, NEW L, NEW p, NEW w, Starts(G, M, L, p, w), Len(todo[p]) \in Nat,
         NEW call \in MayCall(p), call.op \in {"Comm_group", "Group_incl", "Group_excl"}
  PROVE  Executed(G, M, L, p, GroupCall(w, p, call))
<1>1. /\ p \in Procs /\ G \in GlobalStates /\ IsLog(L) /\ CommsOK(G, L) /\ G.states[p] \in StateRecords
      /\ w.gstate = G /\ w.memory = M
  BY StartsFacts
<1>2. PICK old : old = GetGroup(w.gstate.states[p], w.memory[p].groups[call.from])
  OBVIOUS
<1>3. PICK v : v = GroupCall(w, p, call)
  OBVIOUS
<1>4. PICK object : object = <<"made", p, Len(todo[p])>>
  OBVIOUS
<1>5. object \in {"world", "self", "comm", "made"} \X Nat \X Nat
  BY <1>1, <1>4, CommunicatorsAssumption DEF Procs
<1>6. ASSUME NEW group \in Groups PROVE Executed(G, M, L, p, GroupGiven(w, p, call.group, group))
  BY <1>6, GivingGroup
<1>7. CASE \E e \in {"InvalidCommunicator", "InvalidGroup", "InvalidRank", "NonUniqueValues"} : v = Fail(w, e)
  <2>1. PICK e \in {"InvalidCommunicator", "InvalidGroup", "InvalidRank", "NonUniqueValues"} : v = Fail(w, e)
    BY <1>7
  <2>2. e # "none"
    OBVIOUS
  <2> QED BY <1>3, <2>1, <2>2, CallFailed
<1>8. CASE CommOf(w, p, call.comm) # None /\ v = GroupGiven(w, p, call.group, CommOf(w, p, call.comm).group)
  <2>1. PICK c : c = CommOf(w, p, call.comm)
    OBVIOUS
  <2>2. Finds(G, p, M[p].comms[call.comm], c)
    BY <1>1, <1>8, <2>1 DEF Finds, CommOf
  <2>3. c \in Comms
    BY <1>1, <2>2, GettingComm
  <2>4. c.group \in Groups
    BY <2>3 DEF Comms
  <2> QED BY <1>3, <1>6, <1>8, <2>1, <2>4
<1>9. CASE /\ old # None /\ call.op = "Group_incl"
           /\ \A i \in DOMAIN call.ranks : call.ranks[i] \in 0 .. Len(old.table) - 1
           /\ v = GroupGiven(w, p, call.group, NewGroup(<<"made", p, Len(todo[p])>>, Including(old, call.ranks)))
  <2>1. old \in Groups
    BY <1>1, <1>2, <1>9, GettingGroup
  <2>2. call.ranks \in Seq(Int) /\ IsInjective(call.ranks)
    BY <1>1, <1>9, ProgramsAssumption
  <2>3. Including(old, call.ranks) \in Seq(Procs) /\ IsInjective(Including(old, call.ranks))
    BY <1>9, <2>1, <2>2, IncludedTable
  <2>4. NewGroup(object, Including(old, call.ranks)) \in Groups
    BY <1>5, <2>3 DEF NewGroup, Groups
  <2> QED BY <1>3, <1>4, <1>6, <1>9, <2>4
<1>10. CASE /\ old # None /\ call.op = "Group_excl"
            /\ \A i \in DOMAIN call.ranks : call.ranks[i] \in 0 .. Len(old.table) - 1
            /\ v = GroupGiven(w, p, call.group, NewGroup(<<"made", p, Len(todo[p])>>, Excluding(old, call.ranks)))
  <2>1. old \in Groups
    BY <1>1, <1>2, <1>10, GettingGroup
  <2>2. Excluding(old, call.ranks) \in Seq(Procs) /\ IsInjective(Excluding(old, call.ranks))
    BY <2>1, ExcludedTable
  <2>3. NewGroup(object, Excluding(old, call.ranks)) \in Groups
    BY <1>5, <2>2 DEF NewGroup, Groups
  <2> QED BY <1>3, <1>4, <1>6, <1>10, <2>3
<1>11. \/ \E e \in {"InvalidCommunicator", "InvalidGroup", "InvalidRank", "NonUniqueValues"} : v = Fail(w, e)
       \/ CommOf(w, p, call.comm) # None /\ v = GroupGiven(w, p, call.group, CommOf(w, p, call.comm).group)
       \/ /\ old # None /\ call.op = "Group_incl"
          /\ \A i \in DOMAIN call.ranks : call.ranks[i] \in 0 .. Len(old.table) - 1
          /\ v = GroupGiven(w, p, call.group, NewGroup(<<"made", p, Len(todo[p])>>, Including(old, call.ranks)))
       \/ /\ old # None /\ call.op = "Group_excl"
          /\ \A i \in DOMAIN call.ranks : call.ranks[i] \in 0 .. Len(old.table) - 1
          /\ v = GroupGiven(w, p, call.group, NewGroup(<<"made", p, Len(todo[p])>>, Excluding(old, call.ranks)))
  <2>1. GroupOutcomes(w, p, call, old, v)
    BY <1>2, <1>3, PartsOfGroupCall
  <2> QED BY <2>1 DEF GroupOutcomes
<1> QED BY <1>7, <1>8, <1>9, <1>10, <1>11

LEMMA RemovingGroup ==
  ASSUME NEW S \in StateRecords, NEW group, NEW T, T = RemoveGroup(S, group)
  PROVE  T \in StateRecords /\ SameComms(S, T) /\ SameWork(S, T)
<1>1. PICK ids : /\ ids \in SUBSET Nat /\ IsFiniteSet(ids) /\ S.groups \in [ids -> Groups]
  BY StateFields DEF GroupTables
<1>2. PICK first : T = [S EXCEPT !.groups = Restrict(@, DOMAIN @ \ {first})]
  BY DEF RemoveGroup
<1>3. PICK less : less = ids \ {first}
  OBVIOUS
<1>4. less \in SUBSET Nat /\ IsFiniteSet(less)
  BY <1>1, <1>3, FS_Subset
<1>5. PICK table : table = Restrict(S.groups, DOMAIN S.groups \ {first})
  OBVIOUS
<1>6. table \in [less -> Groups]
  BY <1>1, <1>3, <1>5 DEF Restrict
<1>7. table \in GroupTables
  BY <1>4, <1>6 DEF GroupTables
<1>8. T = [S EXCEPT !.groups = table]
  BY <1>2, <1>5
<1> QED BY <1>7, <1>8 DEF StateRecords, SameComms, SameWork

LEMMA ExecutingGroupFree ==
  ASSUME NEW G, NEW M, NEW L, NEW p, NEW w, Starts(G, M, L, p, w), NEW call
  PROVE  Executed(G, M, L, p, GroupFreeCall(w, p, call))
<1>1. /\ p \in Procs /\ G.states[p] \in StateRecords /\ IsMemory(M)
      /\ w.gstate = G /\ w.memory = M
  BY StartsFacts
<1>2. PICK S, group : S = G.states[p] /\ group = GetGroup(S, M[p].groups[call.group])
  OBVIOUS
<1>3. PICK T : T = RemoveGroup(S, group)
  OBVIOUS
<1>4. PICK N : N = GroupIsGiven(M, p, call.group, GroupNull)
  OBVIOUS
<1>5. GroupFreeCall(w, p, call) = IF group = None THEN Fail(w, "InvalidGroup") ELSE BothSet(w, p, T, N)
  BY <1>1, <1>2, <1>3, <1>4 DEF GroupFreeCall, BothSet, GroupIsGiven
<1>6. "InvalidGroup" # "none"
  OBVIOUS
<1>7. T \in StateRecords /\ SameComms(S, T) /\ SameWork(S, T)
  BY <1>1, <1>2, <1>3, RemovingGroup
<1>8. HandleGiven(M, N, p)
  BY <1>1, <1>4, GivingHandle
<1>9. Executed(G, M, L, p, BothSet(w, p, T, N))
  BY <1>2, <1>7, <1>8, GettingGroups
<1>10. Executed(G, M, L, p, Fail(w, "InvalidGroup"))
  BY <1>6, CallFailed
<1> QED BY <1>5, <1>9, <1>10

\* Calls on attributes.
SameRest(S, T) == T \in StateRecords /\ SameComms(S, T) /\ SameWork(S, T)

LEMMA AddingKeyval ==
  ASSUME NEW S \in StateRecords, NEW copy \in BOOLEAN, NEW delete \in BOOLEAN
  PROVE  SameRest(S, AddKeyval(S, copy, delete))
<1>1. PICK k : k = Append(S.keyvals, [copy |-> copy, delete |-> delete, freed |-> FALSE])
  OBVIOUS
<1>2. k \in Seq(Keyvals)
  <2>1. [copy |-> copy, delete |-> delete, freed |-> FALSE] \in Keyvals
    BY DEF Keyvals
  <2> QED BY <1>1, <2>1, StateFields, AppendProperties
<1>3. AddKeyval(S, copy, delete) = [S EXCEPT !.keyvals = k]
  BY <1>1 DEF AddKeyval
<1> QED BY <1>2, <1>3 DEF StateRecords, SameComms, SameWork, SameRest

LEMMA RemovingKeyval ==
  ASSUME NEW S \in StateRecords, NEW i \in DOMAIN S.keyvals
  PROVE  SameRest(S, RemoveKeyval(S, i))
<1>1. PICK k : k = [S.keyvals EXCEPT ![i].freed = TRUE]
  OBVIOUS
<1>2. PICK n \in Nat : S.keyvals \in [1 .. n -> Keyvals]
  BY StateFields, LenProperties
<1>3. PICK x : x = [S.keyvals[i] EXCEPT !.freed = TRUE]
  OBVIOUS
<1>4. x \in Keyvals
  <2>1. S.keyvals[i] \in Keyvals
    BY <1>2
  <2> QED BY <1>3, <2>1 DEF Keyvals
<1>5. k \in [1 .. n -> Keyvals]
  BY <1>1, <1>2, <1>3, <1>4
<1>6. k \in Seq(Keyvals)
  BY <1>5, FunctionIsSequence
<1>7. RemoveKeyval(S, i) = [S EXCEPT !.keyvals = k]
  BY <1>1 DEF RemoveKeyval
<1> QED BY <1>6, <1>7 DEF StateRecords, SameComms, SameWork, SameRest

LEMMA DeletingAttrs ==
  ASSUME NEW S \in StateRecords, NEW attrs \in SUBSET S.attrs
  PROVE  /\ SameRest(S, DeleteAttrs(S, attrs))
         /\ DeleteAttrs(S, attrs).attrs = S.attrs \ attrs
         /\ DeleteAttrs(S, attrs).deleted = S.deleted \cup {a \in attrs : S.keyvals[a.keyval].delete}
         /\ DeleteAttrs(S, attrs).made = S.made /\ DeleteAttrs(S, attrs).keyvals = S.keyvals
<1>1. PICK d : d = S.deleted \cup {a \in attrs : S.keyvals[a.keyval].delete}
  OBVIOUS
<1>2. d \in SUBSET Attributes /\ S.attrs \ attrs \in SUBSET Attributes
  BY <1>1, StateFields
<1>3. DeleteAttrs(S, attrs) = [S EXCEPT !.attrs = S.attrs \ attrs, !.deleted = d]
  BY <1>1 DEF DeleteAttrs
<1> QED BY <1>1, <1>2, <1>3 DEF StateRecords, SameComms, SameWork, SameRest

LEMMA Attaching ==
  ASSUME NEW S \in StateRecords, NEW attrs \in SUBSET Attributes
  PROVE  /\ SameRest(S, Attach(S, attrs))
         /\ Attach(S, attrs).attrs = S.attrs \cup attrs /\ Attach(S, attrs).made = S.made \cup attrs
         /\ Attach(S, attrs).deleted = S.deleted /\ Attach(S, attrs).keyvals = S.keyvals
<1>1. S.attrs \cup attrs \in SUBSET Attributes /\ S.made \cup attrs \in SUBSET Attributes
  BY StateFields
<1>2. Attach(S, attrs) = [S EXCEPT !.attrs = S.attrs \cup attrs, !.made = S.made \cup attrs]
  BY DEF Attach
<1> QED BY <1>1, <1>2 DEF StateRecords, SameComms, SameWork, SameRest

LEMMA SettingAttr ==
  ASSUME NEW S \in StateRecords, NEW id \in Nat, NEW k \in Nat, NEW value \in Procs \X Nat
  PROVE  SameRest(S, SetAttr(S, id, k, value))
<1>1. PICK attrs, D, one : /\ attrs = GetAttr(S, id, k) /\ D = DeleteAttrs(S, attrs)
                           /\ one = {[comm |-> id, keyval |-> k, value |-> value]}
  OBVIOUS
<1>2. attrs \in SUBSET S.attrs
  BY <1>1 DEF GetAttr
<1>3. SameRest(S, D)
  BY <1>1, <1>2, DeletingAttrs
<1>4. one \in SUBSET Attributes
  BY <1>1 DEF Attributes
<1>5. D \in StateRecords
  BY <1>3 DEF SameRest
<1>6. SameRest(D, Attach(D, one))
  BY <1>4, <1>5, Attaching
<1>7. SetAttr(S, id, k, value) = Attach(D, one)
  BY <1>1 DEF SetAttr
<1> QED BY <1>3, <1>6, <1>7 DEF SameRest, SameComms, SameWork

LEMMA PartsOfAttributeCall ==
  ASSUME NEW w, NEW p, NEW call, NEW S, S = w.gstate.states[p], NEW comm, comm = CommOf(w, p, call.comm),
         NEW v, v = AttributeCall(w, p, call)
  PROVE  \/ \E e \in {"InvalidCommunicator", "InvalidKeyval", "AttributeNotFound"} : v = Fail(w, e)
         \/ call.op = "Keyval_create" /\ v = StateSet(w, p, AddKeyval(S, call.copy, call.delete))
         \/ /\ call.keyval \in DOMAIN S.keyvals
            /\ \/ v = StateSet(w, p, RemoveKeyval(S, call.keyval))
               \/ comm # None /\ v = StateSet(w, p, SetAttr(S, comm.comm_id, call.keyval, <<p, Len(todo[p])>>))
               \/ v = StateSet(w, p, DeleteAttrs(S, GetAttr(S, comm.comm_id, call.keyval)))
BY DEF AttributeCall, StateSet

LEMMA ExecutingAttributeCall ==
  ASSUME NEW G, NEW M, NEW L, NEW p, NEW w, Starts(G, M, L, p, w), Len(todo[p]) \in Nat,
         NEW call \in MayCall(p)
  PROVE  Executed(G, M, L, p, AttributeCall(w, p, call))
<1>1. /\ p \in Procs /\ G \in GlobalStates /\ IsLog(L) /\ CommsOK(G, L) /\ G.states[p] \in StateRecords
      /\ w.gstate = G /\ w.memory = M
  BY StartsFacts
<1>2. PICK S, comm, v : S = G.states[p] /\ comm = CommOf(w, p, call.comm) /\ v = AttributeCall(w, p, call)
  OBVIOUS
<1>3. S \in StateRecords
  BY <1>1, <1>2
<1>4. ASSUME NEW T, SameRest(S, T) PROVE Executed(G, M, L, p, StateSet(w, p, T))
  <2>1. T \in StateRecords /\ SameComms(G.states[p], T) /\ SameWork(G.states[p], T)
    BY <1>2, <1>4 DEF SameRest
  <2> QED BY <2>1, GettingAttributes
<1>5. CASE \E e \in {"InvalidCommunicator", "InvalidKeyval", "AttributeNotFound"} : v = Fail(w, e)
  <2>1. PICK e \in {"InvalidCommunicator", "InvalidKeyval", "AttributeNotFound"} : v = Fail(w, e)
    BY <1>5
  <2>2. e # "none"
    OBVIOUS
  <2> QED BY <1>2, <2>1, <2>2, CallFailed
<1>6. CASE call.op = "Keyval_create" /\ v = StateSet(w, p, AddKeyval(S, call.copy, call.delete))
  <2>1. call.copy \in BOOLEAN /\ call.delete \in BOOLEAN
    BY <1>1, <1>6, ProgramsAssumption
  <2>2. SameRest(S, AddKeyval(S, call.copy, call.delete))
    BY <1>3, <2>1, AddingKeyval
  <2> QED BY <1>2, <1>4, <1>6, <2>2
<1>7. CASE call.keyval \in DOMAIN S.keyvals /\ v = StateSet(w, p, RemoveKeyval(S, call.keyval))
  <2>1. SameRest(S, RemoveKeyval(S, call.keyval))
    BY <1>3, <1>7, RemovingKeyval
  <2> QED BY <1>2, <1>4, <1>7, <2>1
<1>8. CASE /\ call.keyval \in DOMAIN S.keyvals /\ comm # None
           /\ v = StateSet(w, p, SetAttr(S, comm.comm_id, call.keyval, <<p, Len(todo[p])>>))
  <2>1. Finds(G, p, M[p].comms[call.comm], comm)
    BY <1>1, <1>2, <1>8 DEF Finds, CommOf
  <2>2. comm \in Comms
    BY <1>1, <2>1, GettingComm
  <2>3. comm.comm_id \in Nat
    BY <2>2 DEF Comms
  <2>4. call.keyval \in Nat
    <3>1. PICK n \in Nat : DOMAIN S.keyvals = 1 .. n
      BY <1>3, StateFields, LenProperties
    <3> QED BY <1>8, <3>1
  <2>5. <<p, Len(todo[p])>> \in Procs \X Nat
    BY <1>1
  <2>6. SameRest(S, SetAttr(S, comm.comm_id, call.keyval, <<p, Len(todo[p])>>))
    BY <1>3, <2>3, <2>4, <2>5, SettingAttr
  <2> QED BY <1>2, <1>4, <1>8, <2>6
<1>9. CASE v = StateSet(w, p, DeleteAttrs(S, GetAttr(S, comm.comm_id, call.keyval)))
  <2>1. GetAttr(S, comm.comm_id, call.keyval) \in SUBSET S.attrs
    BY DEF GetAttr
  <2>2. SameRest(S, DeleteAttrs(S, GetAttr(S, comm.comm_id, call.keyval)))
    BY <1>3, <2>1, DeletingAttrs
  <2> QED BY <1>2, <1>4, <1>9, <2>2
<1>10. S = w.gstate.states[p]
  BY <1>1, <1>2
<1>11. \/ \E e \in {"InvalidCommunicator", "InvalidKeyval", "AttributeNotFound"} : v = Fail(w, e)
       \/ call.op = "Keyval_create" /\ v = StateSet(w, p, AddKeyval(S, call.copy, call.delete))
       \/ /\ call.keyval \in DOMAIN S.keyvals
          /\ \/ v = StateSet(w, p, RemoveKeyval(S, call.keyval))
             \/ comm # None /\ v = StateSet(w, p, SetAttr(S, comm.comm_id, call.keyval, <<p, Len(todo[p])>>))
             \/ v = StateSet(w, p, DeleteAttrs(S, GetAttr(S, comm.comm_id, call.keyval)))
  BY <1>2, <1>10, PartsOfAttributeCall
<1> QED BY <1>5, <1>6, <1>7, <1>8, <1>9, <1>11

\* Every call keeps the invariant or ends in an error.
LEMMA Executing ==
  ASSUME NEW G, NEW M, NEW L, NEW p, NEW w, Starts(G, M, L, p, w), Len(todo[p]) \in Nat,
         NEW call \in MayCall(p)
  PROVE  Executed(G, M, L, p, Execute(w, p, call))
<1>1. WorldOK(G, M, L) /\ p \in Procs /\ G.states[p].status = "running" /\ w = World(G, M, "none", L)
  BY DEF Starts
<1>2. CASE call.op = "Collective"
  <2>1. Executed(G, M, L, p, CollectiveCall(w, p, call))
    BY <1>1, <1>2, ExecutingCollective
  <2> QED BY <1>2, <2>1 DEF Execute
<1>3. CASE call.op = "Wait"
  BY <1>3, ExecutingWait DEF Execute
<1>4. CASE call.op = "Test"
  BY <1>4, ExecutingTest DEF Execute
<1>5. CASE call.op = "Comm_free"
  BY <1>5, ExecutingCommFree DEF Execute
<1>6. CASE call.op \in {"Comm_group", "Group_incl", "Group_excl"}
  <2>1. Executed(G, M, L, p, GroupCall(w, p, call))
    BY <1>6, ExecutingGroupCall
  <2> QED BY <1>6, <2>1 DEF Execute
<1>7. CASE call.op = "Group_free"
  BY <1>7, ExecutingGroupFree DEF Execute
<1>8. CASE call.op \notin {"Collective", "Wait", "Test", "Comm_free", "Comm_group", "Group_incl", "Group_excl", "Group_free"}
  <2>1. Executed(G, M, L, p, AttributeCall(w, p, call))
    BY ExecutingAttributeCall
  <2> QED BY <1>8, <2>1 DEF Execute
<1> QED BY <1>2, <1>3, <1>4, <1>5, <1>6, <1>7, <1>8

-----------------------------------------------------------------------------
(* The actions *)

\* What an action does to the calls that are done and to the log.
KeepsDone == Done' = Done

LEMMA DoneIs ==
  /\ \A p \in Procs : Done[p] = DoneAt(gstate, memory, p)
  /\ Done = [p \in Procs |-> DoneAt(gstate, memory, p)]
BY DEF Done, DoneAt, Closed, ClosedOf

LEMMA KeepingDone ==
  ASSUME DoneKept(gstate, memory, gstate', memory')
  PROVE  KeepsDone
<1>1. Done' = [p \in Procs |-> DoneAt(gstate', memory', p)]
  BY DEF Done, DoneAt, Closed, ClosedOf
<1>2. Done = [p \in Procs |-> DoneAt(gstate, memory, p)]
  BY DoneIs
<1> QED BY <1>1, <1>2 DEF DoneKept, KeepsDone

\* Where an action starts.
LEMMA Starting ==
  ASSUME IInv, phase # "end"
  PROVE  error = "none" /\ WorldOK(gstate, memory, log) /\ Here = World(gstate, memory, "none", log)
<1>1. error = "none"
  BY DEF IInv
<1> QED BY <1>1 DEF IInv, Here, World

LEMMA CallStep ==
  ASSUME IInv, NEW p \in Procs, Call(p)
  PROVE  IInv' /\ KeepsDone /\ (log' = log \/ \E entry : LogGrows(log, log', p, entry))
<1>1. error = "none" /\ WorldOK(gstate, memory, log) /\ Here = World(gstate, memory, "none", log)
  BY Starting DEF Call
<1>2. Starts(gstate, memory, log, p, Here)
  BY <1>1 DEF Starts, Call, Running
<1>3. /\ todo[p] \in Seq(SUBSET MayCall(p)) /\ Head(todo[p]) \in SUBSET MayCall(p)
      /\ Tail(todo[p]) \in Seq(SUBSET MayCall(p)) /\ Len(todo[p]) \in Nat
  <2>1. todo[p] \in Seq(SUBSET MayCall(p)) /\ todo[p] # <<>>
    BY DEF IInv, Call
  <2> QED BY <2>1
<1>4. PICK call \in Head(todo[p]) : Become(Execute(Here, p, call))
  BY DEF Call
<1>5. Executed(gstate, memory, log, p, Execute(Here, p, call))
  BY <1>2, <1>3, <1>4, Executing
<1>6. PICK H, N, err, K :
        /\ Execute(Here, p, call) = World(H, N, err, K) /\ DoneKept(gstate, memory, H, N)
        /\ K = log \/ \E entry : LogGrows(log, K, p, entry)
        /\ err = "none" => WorldOK(H, N, K)
  BY <1>5 DEF Executed
<1>7. gstate' = H /\ memory' = N /\ error' = err /\ log' = K
  BY <1>4, <1>6, WorldFields DEF Become
<1>8. phase' = (IF err = "none" THEN "expand" ELSE "end") /\ cursor' = cursor
  BY <1>7 DEF Call, Proceed
<1>9. todo' = [todo EXCEPT ![p] = Tail(@)]
  BY DEF Call
<1>10. DOMAIN todo' = Procs /\ \A q \in Procs : todo'[q] \in Seq(SUBSET MayCall(q))
  BY <1>3, <1>9 DEF IInv
<1>11. IInv'
  BY <1>6, <1>7, <1>8, <1>10 DEF IInv
<1> QED BY <1>6, <1>7, <1>11, KeepingDone

\* An action that changes the world of one process, and one that only goes to another phase.
LEMMA WorldStep ==
  ASSUME IInv, phase # "end", NEW G, NEW M, NEW err,
         gstate' = G, memory' = M, error' = err, UNCHANGED <<todo, log>>,
         DoneKept(gstate, memory, G, M), err = "none" => WorldOK(G, M, log),
         phase' \in {"poll", "expand", "sweep", "node", "end"}, cursor' \in 0 .. ProcessCount,
         err # "none" => phase' = "end"
  PROVE  IInv' /\ KeepsDone
<1>1. IInv'
  BY DEF IInv
<1>2. DoneKept(gstate, memory, gstate', memory')
  OBVIOUS
<1> QED BY <1>1, <1>2, KeepingDone

LEMMA PhaseStep ==
  ASSUME IInv, phase # "end", UNCHANGED <<gstate, memory, todo, log>>,
         phase' \in {"poll", "expand", "sweep", "node", "end"}, cursor' \in 0 .. ProcessCount,
         error' # "none" => phase' = "end"
  PROVE  IInv' /\ KeepsDone
<1>1. WorldOK(gstate, memory, log)
  BY Starting
<1>2. DoneKept(gstate, memory, gstate', memory')
  BY DEF DoneKept
<1>3. IInv'
  BY <1>1 DEF IInv
<1> QED BY <1>2, <1>3, KeepingDone

LEMMA PhaseSteps ==
  ASSUME IInv, NothingToFinish \/ EndSweep \/ FinalNode
  PROVE  IInv' /\ KeepsDone
<1>1. 0 \in 0 .. ProcessCount /\ cursor \in 0 .. ProcessCount
  BY CommunicatorsAssumption DEF IInv
<1>2. phase # "end" /\ error = "none"
  BY Starting DEF NothingToFinish, EndSweep, FinalNode
<1>3. UNCHANGED <<gstate, memory, todo, log>>
  BY DEF NothingToFinish, EndSweep, FinalNode
<1>4. /\ phase' \in {"poll", "expand", "sweep", "node", "end"} /\ cursor' \in 0 .. ProcessCount
      /\ error' # "none" => phase' = "end"
  BY <1>1, <1>2 DEF NothingToFinish, EndSweep, FinalNode
<1> QED BY <1>2, <1>3, <1>4, PhaseStep

\* p gets a state without operations and requests being changed.
LEMMA StateStep ==
  ASSUME IInv, phase # "end", NEW p \in Procs, NEW T, T \in StateRecords,
         SameComms(gstate.states[p], T), T.active = gstate.states[p].active,
         T.finished = gstate.states[p].finished, WaitOK(T, log, p, memory[p].requests)
  PROVE  /\ WorldOK(Replaced(gstate, p, T, gstate.operations), memory, log)
         /\ DoneKept(gstate, memory, Replaced(gstate, p, T, gstate.operations), memory)
<1>1. WorldOK(gstate, memory, log)
  BY Starting
<1>2. IsMemory(memory)
  BY <1>1 DEF WorldOK, CoreOK, IsTyped
<1>3. Gets(gstate, memory, log, p, T, memory)
  BY <1>1, <1>2 DEF Gets
<1> QED BY <1>3, GettingState, ChangingWorld

\* A process that waits for nothing.
LEMMA WaitsForNothing ==
  ASSUME NEW S, NEW T, NEW L, NEW p, NEW f, WaitOK(S, L, p, f), S.status # "wait",
         T.active = S.active, T.finished = S.finished,
         T.status \notin {"wait", "test"}, T.tested = <<>>
  PROVE  WaitOK(T, L, p, f)
<1>1. LiveRequests(T) = LiveRequests(S)
  BY DEF LiveRequests
<1>2. RequestIds(T) = RequestIds(S)
  BY <1>1 DEF RequestIds
<1>3. DOMAIN T.tested = {}
  OBVIOUS
<1> QED BY <1>1, <1>2, <1>3 DEF WaitOK

LEMMA StateOf ==
  ASSUME IInv, phase # "end", NEW p \in Procs
  PROVE  /\ gstate \in GlobalStates /\ gstate.states[p] \in StateRecords
         /\ WaitOK(gstate.states[p], log, p, memory[p].requests)
<1>1. WorldOK(gstate, memory, log)
  BY Starting
<1>2. gstate \in GlobalStates
  BY <1>1 DEF WorldOK, CoreOK, IsTyped
<1> QED BY <1>1, <1>2, GlobalFields DEF WorldOK

LEMMA ExitStep ==
  ASSUME IInv, NEW p \in Procs, Exit(p)
  PROVE  IInv' /\ KeepsDone
<1>1. phase = "poll" /\ gstate.states[p].status = "running"
  BY DEF Exit, Running
<1>2. PICK S : S = gstate.states[p] /\ S \in StateRecords /\ WaitOK(S, log, p, memory[p].requests)
  BY <1>1, StateOf
<1>3. PICK T : T = [S EXCEPT !.status = "finished"]
  OBVIOUS
<1>4. /\ T \in StateRecords /\ T.active = S.active /\ T.finished = S.finished /\ SameComms(S, T)
      /\ T.status = "finished" /\ T.tested = S.tested
  <2>1. "finished" \in Statuses
    BY DEF Statuses
  <2> QED BY <1>2, <1>3, <2>1 DEF StateRecords, SameComms
<1>5. T.tested = <<>>
  BY <1>1, <1>2, <1>4 DEF WaitOK
<1>6. WaitOK(T, log, p, memory[p].requests)
  BY <1>1, <1>2, <1>4, <1>5, WaitsForNothing
<1>7. PICK J : J = Replaced(gstate, p, T, gstate.operations)
  OBVIOUS
<1>8. WorldOK(J, memory, log) /\ DoneKept(gstate, memory, J, memory)
  BY <1>1, <1>2, <1>4, <1>6, <1>7, StateStep
<1>9. gstate' = J
  <2>1. gstate' = [gstate EXCEPT !.states[p] = T]
    BY <1>2, <1>3 DEF Exit
  <2> QED BY <1>1, <1>7, <2>1, StateOf, StateReplaced
<1>10. memory' = memory /\ error' = "none" /\ UNCHANGED <<todo, log>> /\ phase' = "expand" /\ cursor' \in 0 .. ProcessCount
  BY <1>1, Starting DEF Exit, IInv
<1> QED BY <1>1, <1>8, <1>9, <1>10, WorldStep

LEMMA Flag0Step ==
  ASSUME IInv, NEW p \in Procs, Flag0(p)
  PROVE  IInv' /\ KeepsDone
<1>1. phase = "node" /\ gstate.states[p].status = "test"
  BY DEF Flag0
<1>2. PICK S : S = gstate.states[p] /\ S \in StateRecords /\ WaitOK(S, log, p, memory[p].requests)
  BY <1>1, StateOf
<1>3. PICK T : T = ReadyState(S, "ready")
  OBVIOUS
<1>4. /\ T \in StateRecords /\ T.active = S.active /\ T.finished = S.finished /\ SameComms(S, T)
      /\ T.status = "ready" /\ T.tested = <<>>
  <2>1. "ready" \in Statuses
    BY DEF Statuses
  <2> QED BY <1>2, <1>3, <2>1, ReadyFields
<1>6. WaitOK(T, log, p, memory[p].requests)
  BY <1>1, <1>2, <1>4, WaitsForNothing
<1>7. PICK J : J = Replaced(gstate, p, T, gstate.operations)
  OBVIOUS
<1>8. WorldOK(J, memory, log) /\ DoneKept(gstate, memory, J, memory)
  BY <1>1, <1>2, <1>4, <1>6, <1>7, StateStep
<1>9. gstate' = J
  <2>1. gstate' = [gstate EXCEPT !.states[p] = T]
    BY <1>2, <1>3 DEF Flag0, SetReady, ReadyState
  <2> QED BY <1>1, <1>7, <2>1, StateOf, StateReplaced
<1>10. memory' = memory /\ error' = "none" /\ UNCHANGED <<todo, log>> /\ phase' = "expand" /\ cursor' \in 0 .. ProcessCount
  BY <1>1, Starting DEF Flag0, IInv
<1> QED BY <1>1, <1>8, <1>9, <1>10, WorldStep

\* What goes on once all requests of p are closed.
GoesOn(w, p, status) ==
  IF CloseAllRequests(w, p).error = "none"
  THEN StateSet(CloseAllRequests(w, p), p, ReadyState(CloseAllRequests(w, p).gstate.states[p], status))
  ELSE CloseAllRequests(w, p)

LEMMA GoesOnAs ==
  ASSUME IInv, phase # "end", NEW p \in Procs, gstate.states[p].status \in {"wait", "test"},
         TestedFinished(gstate.states[p]), NEW status \in {"ready", "running"}
  PROVE  \E H, N, err : /\ GoesOn(Here, p, status) = World(H, N, err, log) /\ DoneKept(gstate, memory, H, N)
                        /\ err = "none" => WorldOK(H, N, log)
<1>1. WorldOK(gstate, memory, log) /\ Here = World(gstate, memory, "none", log)
  BY Starting
<1>2. PICK v : v = CloseAllRequests(Here, p)
  OBVIOUS
<1>3. AllClosedAs(gstate, memory, log, p, v)
  BY <1>1, <1>2, ClosingAllRequests
<1>4. PICK H, N, err :
        /\ v = World(H, N, err, log) /\ DoneKept(gstate, memory, H, N)
        /\ err = "none" => /\ H \in GlobalStates
                           /\ WorldOK(Continued(H, p, status), N, log)
                           /\ DoneKept(gstate, memory, Continued(H, p, status), N)
  BY <1>3 DEF AllClosedAs
<1>5. v.error = err /\ v.gstate = H
  BY <1>4, WorldFields
<1>6. CASE err # "none"
  <2>1. GoesOn(Here, p, status) = v
    BY <1>2, <1>5, <1>6 DEF GoesOn
  <2> QED BY <1>4, <1>6, <2>1
<1>7. CASE err = "none"
  <2>1. PICK T : T = ReadyState(H.states[p], status)
    OBVIOUS
  <2>2. GoesOn(Here, p, status) = StateSet(v, p, T)
    BY <1>2, <1>5, <1>7, <2>1 DEF GoesOn
  <2>3. PICK J : J = Continued(H, p, status)
    OBVIOUS
  <2>4. StateSet(v, p, T) = World(J, N, "none", log)
    <3>1. v = World(H, N, "none", log) /\ H \in GlobalStates
      BY <1>4, <1>7
    <3>2. StateSet(v, p, T) = World(Replaced(H, p, T, H.operations), N, "none", log)
      BY <3>1, StateOfWorld
    <3> QED BY <2>1, <2>3, <3>2 DEF Continued
  <2> QED BY <1>4, <1>7, <2>2, <2>3, <2>4
<1> QED BY <1>6, <1>7

\* A handler that ends in a world.
LEMMA WorldReached ==
  ASSUME IInv, phase # "end", NEW w, Become(w), UNCHANGED todo, NEW next, next \in {"expand", "sweep"}, Proceed(next),
         cursor' \in 0 .. ProcessCount,
         \E H, N, err : /\ w = World(H, N, err, log) /\ DoneKept(gstate, memory, H, N)
                        /\ err = "none" => WorldOK(H, N, log)
  PROVE  IInv' /\ KeepsDone /\ log' = log
<1>1. PICK H, N, err : /\ w = World(H, N, err, log) /\ DoneKept(gstate, memory, H, N)
                       /\ err = "none" => WorldOK(H, N, log)
  OBVIOUS
<1>2. gstate' = H /\ memory' = N /\ error' = err /\ log' = log
  BY <1>1, WorldFields DEF Become
<1>3. /\ phase' \in {"poll", "expand", "sweep", "node", "end"}
      /\ err # "none" => phase' = "end"
  BY <1>2 DEF Proceed
<1> QED BY <1>1, <1>2, <1>3, WorldStep

LEMMA TestAllStep ==
  ASSUME IInv, NEW p \in Procs, TestAll(p)
  PROVE  IInv' /\ KeepsDone /\ log' = log
<1>1. phase = "node" /\ gstate.states[p].status = "test" /\ TestedFinished(gstate.states[p])
  BY DEF TestAll
<1>2. PICK w : w = GoesOn(Here, p, "ready")
  OBVIOUS
<1>3. Become(w)
  BY <1>2 DEF TestAll, Then, GoesOn, StateSet, SetReady, ReadyState
<1>4. \E H, N, err : /\ w = World(H, N, err, log) /\ DoneKept(gstate, memory, H, N)
                     /\ err = "none" => WorldOK(H, N, log)
  BY <1>1, <1>2, GoesOnAs
<1>5. UNCHANGED todo /\ Proceed("expand") /\ cursor' \in 0 .. ProcessCount
  BY DEF TestAll, IInv
<1> QED BY <1>1, <1>3, <1>4, <1>5, WorldReached

LEMMA SweepParts ==
  ASSUME NEW w, NEW p
  PROVE  /\ w.gstate.states[p].status = "wait" /\ TestedFinished(w.gstate.states[p])
              => SweepState(w, p) = GoesOn(w, p, "running")
         /\ w.gstate.states[p].status = "ready"
              => SweepState(w, p) = StateSet(w, p, ReadyState(w.gstate.states[p], "running"))
         /\ ~(w.gstate.states[p].status = "wait" /\ TestedFinished(w.gstate.states[p])) /\ w.gstate.states[p].status # "ready"
              => SweepState(w, p) = w
<1>1. ASSUME NEW S PROVE [SetReady(S) EXCEPT !.status = "running"] = ReadyState(S, "running")
  BY DEF SetReady, ReadyState
<1>2. \A v : [v EXCEPT !.gstate.states[p] = [SetReady(v.gstate.states[p]) EXCEPT !.status = "running"]]
                = StateSet(v, p, ReadyState(v.gstate.states[p], "running"))
  BY <1>1 DEF StateSet
<1>3. CASE w.gstate.states[p].status = "wait" /\ TestedFinished(w.gstate.states[p])
  <2>1. PICK v : v = CloseAllRequests(w, p)
    OBVIOUS
  <2>2. [v EXCEPT !.gstate.states[p] = [SetReady(v.gstate.states[p]) EXCEPT !.status = "running"]]
          = StateSet(v, p, ReadyState(v.gstate.states[p], "running"))
    BY <1>2
  <2>5. PICK x : x = [v EXCEPT !.gstate.states[p] = [SetReady(v.gstate.states[p]) EXCEPT !.status = "running"]]
    OBVIOUS
  <2>3. SweepState(w, p) = IF v.error = "none" THEN x ELSE v
    BY <1>3, <2>1, <2>5 DEF SweepState, Then
  <2>4. GoesOn(w, p, "running") =
          IF v.error = "none" THEN StateSet(v, p, ReadyState(v.gstate.states[p], "running")) ELSE v
    BY <2>1 DEF GoesOn
  <2>6. SweepState(w, p) = GoesOn(w, p, "running")
    BY <2>2, <2>3, <2>4, <2>5
  <2> QED BY <1>3, <2>6
<1>4. CASE w.gstate.states[p].status = "ready"
  BY <1>2, <1>4 DEF SweepState
<1>5. CASE ~(w.gstate.states[p].status = "wait" /\ TestedFinished(w.gstate.states[p])) /\ w.gstate.states[p].status # "ready"
  BY <1>5 DEF SweepState
<1> QED BY <1>3, <1>4, <1>5

LEMMA SweepStep ==
  ASSUME IInv, Sweep
  PROVE  IInv' /\ KeepsDone /\ log' = log
<1>1. /\ phase = "sweep" /\ cursor \in Procs /\ Become(SweepState(Here, cursor))
      /\ cursor' = cursor + 1 /\ Proceed("sweep") /\ UNCHANGED todo
  BY DEF Sweep
<1>2. cursor' \in 0 .. ProcessCount
  BY <1>1, CommunicatorsAssumption DEF Procs
<1>3. /\ WorldOK(gstate, memory, log) /\ Here = World(gstate, memory, "none", log)
      /\ Here.gstate = gstate
  BY <1>1, Starting DEF Here
<1>4. PICK p \in Procs : p = cursor
  BY <1>1
<1>5. PICK S : S = gstate.states[p] /\ S \in StateRecords /\ WaitOK(S, log, p, memory[p].requests)
  BY <1>1, StateOf
<1>6. PICK w : w = SweepState(Here, p)
  OBVIOUS
<1>7. /\ S.status = "wait" /\ TestedFinished(S) => w = GoesOn(Here, p, "running")
      /\ S.status = "ready" => w = StateSet(Here, p, ReadyState(S, "running"))
      /\ ~(S.status = "wait" /\ TestedFinished(S)) /\ S.status # "ready" => w = Here
  BY <1>3, <1>5, <1>6, SweepParts
<1>8. \E H, N, err : /\ w = World(H, N, err, log) /\ DoneKept(gstate, memory, H, N)
                     /\ err = "none" => WorldOK(H, N, log)
  <2>1. CASE S.status = "wait" /\ TestedFinished(S)
    BY <1>1, <1>5, <1>7, <2>1, GoesOnAs
  <2>2. CASE S.status = "ready"
    <3>1. PICK T : T = ReadyState(S, "running")
      OBVIOUS
    <3>2. /\ T \in StateRecords /\ T.active = S.active /\ T.finished = S.finished /\ SameComms(S, T)
          /\ T.status = "running" /\ T.tested = <<>>
      <4>1. "running" \in Statuses
        BY DEF Statuses
      <4> QED BY <1>5, <3>1, <4>1, ReadyFields
    <3>3. WaitOK(T, log, p, memory[p].requests)
      BY <1>5, <2>2, <3>2, WaitsForNothing
    <3>4. PICK J : J = Replaced(gstate, p, T, gstate.operations)
      OBVIOUS
    <3>5. WorldOK(J, memory, log) /\ DoneKept(gstate, memory, J, memory)
      BY <1>1, <1>5, <3>2, <3>3, <3>4, StateStep
    <3>6. gstate \in GlobalStates
      BY <1>1, StateOf
    <3>7. StateSet(Here, p, T) = World(J, memory, "none", log)
      BY <1>3, <3>4, <3>6, StateOfWorld
    <3> QED BY <1>7, <2>2, <3>1, <3>5, <3>7
  <2>3. CASE ~(S.status = "wait" /\ TestedFinished(S)) /\ S.status # "ready"
    <3>1. DoneKept(gstate, memory, gstate, memory)
      BY DEF DoneKept
    <3> QED BY <1>3, <1>7, <2>3, <3>1
  <2> QED BY <2>1, <2>2, <2>3
<1>9. Become(w)
  BY <1>1, <1>4, <1>6
<1> QED BY <1>1, <1>2, <1>8, <1>9, WorldReached

-----------------------------------------------------------------------------
(* Finishing a request *)

MadeFinished(S, k) == [S EXCEPT !.active = RemoveAt(@, k), !.finished = @ \cup {S.active[k]}]

MadeFinishedAs(S, L, p, C, k, T) ==
  /\ T \in StateRecords /\ SameComms(S, T)
  /\ T.status = S.status /\ T.tested = S.tested /\ T.pointer = S.pointer
  /\ T.finished = S.finished \cup {S.active[k]} /\ LiveRequests(T) = LiveRequests(S)
  /\ S.active[k] \in LiveRequests(S) /\ \A u \in S.finished : u.serial # S.active[k].serial
  /\ RequestsOK(T, L, p, C)

LEMMA FinishingRequest ==
  ASSUME NEW S \in StateRecords, NEW L, NEW p, NEW C, RequestsOK(S, L, p, C), NEW k \in DOMAIN S.active
  PROVE  MadeFinishedAs(S, L, p, C, k, MadeFinished(S, k))
<1>0. PICK n, s, r : n = Len(S.active) /\ s = S.active /\ r = s[k]
  OBVIOUS
<1>1. n \in Nat /\ s \in Seq(Requests) /\ DOMAIN s = 1 .. n /\ k \in 1 .. n
  BY <1>0, StateFields, LenProperties
<1>2. r \in Requests /\ r \in ToSet(s) /\ \A i \in 1 .. n : s[i] \in ToSet(s)
  BY <1>0, <1>1, ElementOfSeq DEF ToSet
<1>3. PICK R : R = RemoveAt(s, k)
  OBVIOUS
<1>4. R \in Seq(Requests) /\ DOMAIN R = 1 .. n - 1 /\ \A j \in 1 .. n - 1 : R[j] = s[Shift(k, j)]
  <2>1. /\ R \in Seq(Requests) /\ Len(R) = n - 1
        /\ \A j \in 1 .. n - 1 : R[j] = s[IF j < k THEN j ELSE j + 1]
    <3>1. k \in 1 .. Len(s) /\ Len(s) = n
      BY <1>0, <1>1
    <3> QED BY <1>1, <1>3, <3>1, RemovingOne
  <2>2. DOMAIN R = 1 .. n - 1
    BY <2>1, LenProperties
  <2> QED BY <2>1, <2>2 DEF Shift
<1>5. \A j \in 1 .. n - 1 : Shift(k, j) \in 1 .. n /\ Shift(k, j) # k
  BY <1>1 DEF Shift
<1>6. \A i \in 1 .. n : i # k => \E j \in 1 .. n - 1 : Shift(k, j) = i
  BY <1>1, ShiftedPlaces
<1>7. \A i \in 1 .. n, j \in 1 .. n : s[i].id = s[j].id \/ s[i].serial = s[j].serial => i = j
  BY <1>0, <1>1 DEF RequestsOK
<1>8. ToSet(R) = ToSet(s) \ {r}
  <2>1. ASSUME NEW x \in ToSet(R) PROVE x \in ToSet(s) /\ x # r
    <3>1. PICK j \in 1 .. n - 1 : x = R[j]
      BY <1>4 DEF ToSet
    <3>2. x = s[Shift(k, j)]
      BY <1>4, <3>1
    <3> QED BY <1>0, <1>1, <1>2, <1>5, <1>7, <3>2
  <2>2. ASSUME NEW x \in ToSet(s), x # r PROVE x \in ToSet(R)
    <3>1. PICK i \in 1 .. n : x = s[i]
      BY <1>1 DEF ToSet
    <3>2. i # k
      BY <1>0, <2>2, <3>1
    <3>3. PICK j \in 1 .. n - 1 : Shift(k, j) = i
      BY <1>6, <3>2
    <3>4. x = R[j]
      BY <1>4, <3>1, <3>3
    <3> QED BY <1>4, <3>4 DEF ToSet
  <2> QED BY <2>1, <2>2
<1>9. PICK F : F = S.finished \cup {r}
  OBVIOUS
<1>10. F \in SUBSET Requests /\ IsFiniteSet(F)
  <2>1. S.finished \in SUBSET Requests /\ IsFiniteSet(S.finished)
    BY StateFields DEF RequestsOK
  <2> QED BY <1>2, <1>9, <2>1, FS_AddElement
<1>11. PICK T : T = MadeFinished(S, k)
  OBVIOUS
<1>12. T = [S EXCEPT !.active = R, !.finished = F]
  BY <1>0, <1>3, <1>9, <1>11 DEF MadeFinished
<1>13. /\ T \in StateRecords /\ SameComms(S, T) /\ T.status = S.status /\ T.tested = S.tested /\ T.pointer = S.pointer
       /\ T.active = R /\ T.finished = F
  BY <1>4, <1>10, <1>12 DEF StateRecords, SameComms
<1>14. r \in LiveRequests(S) /\ r \notin S.finished
  <2>1. ToSet(S.active) \cap S.finished = {}
    BY DEF RequestsOK
  <2> QED BY <1>0, <1>2, <2>1 DEF LiveRequests
<1>15. LiveRequests(T) = LiveRequests(S)
  BY <1>0, <1>2, <1>8, <1>9, <1>13 DEF LiveRequests
<1>16. \A u \in S.finished : u.serial # r.serial /\ u.id # r.id
  BY <1>14 DEF RequestsOK
<1>17. RequestsOK(T, L, p, C)
  <2>1. \A u \in LiveRequests(T) : RequestOK(L, p, u)
    BY <1>15 DEF RequestsOK
  <2>2. ASSUME NEW i \in DOMAIN R, NEW j \in DOMAIN R, R[i].id = R[j].id \/ R[i].serial = R[j].serial
        PROVE  i = j
    <3>1. i \in 1 .. n - 1 /\ j \in 1 .. n - 1
      BY <1>4
    <3>2. Shift(k, i) = Shift(k, j)
      BY <1>4, <1>5, <1>7, <2>2, <3>1
    <3> QED BY <1>1, <3>1, <3>2 DEF Shift
  <2>3. ASSUME NEW u \in F, NEW q \in LiveRequests(S), u.id = q.id \/ u.serial = q.serial
        PROVE  u = q
    <3>1. CASE u \in S.finished
      BY <2>3, <3>1 DEF RequestsOK
    <3>2. CASE u = r /\ q \in S.finished
      BY <1>16, <2>3, <3>2
    <3>3. CASE u = r /\ q \in ToSet(s)
      <4>1. PICK i \in 1 .. n : q = s[i]
        BY <1>1, <3>3 DEF ToSet
      <4> QED BY <1>0, <1>1, <1>7, <2>3, <3>3, <4>1
    <3> QED BY <1>0, <1>9, <3>1, <3>2, <3>3 DEF LiveRequests
  <2>4. ToSet(R) \cap F = {}
    <3>1. ToSet(S.active) \cap S.finished = {}
      BY DEF RequestsOK
    <3> QED BY <1>0, <1>8, <1>9, <3>1
  <2>5. /\ C \subseteq DOMAIN L[p]
        /\ \A u \in LiveRequests(T) : u.serial \notin C
        /\ \A t \in DOMAIN L[p] \ C : \E u \in LiveRequests(T) : u.serial = t
    BY <1>15 DEF RequestsOK
  <2> QED BY <1>10, <1>13, <1>15, <2>1, <2>2, <2>3, <2>4, <2>5 DEF RequestsOK
<1> QED BY <1>0, <1>9, <1>11, <1>13, <1>14, <1>15, <1>16, <1>17 DEF MadeFinishedAs

\* The request k of p is finished.
FinishesAt(p, k) ==
  /\ p \in Procs /\ k \in DOMAIN gstate.states[p].active
  /\ CanBeCompleted(gstate.operations[OperationIndex(gstate, gstate.states[p].active[k].comm_id,
                                                     gstate.states[p].active[k].cc_id)], p)

LEMMA FinishParts ==
  ASSUME FinishCollectiveRequest
  PROVE  \E p, k : /\ FinishesAt(p, k)
                   /\ gstate' = [gstate EXCEPT !.states[p] = MadeFinished(gstate.states[p], k)]
<1>1. PICK f \in Finishable :
        gstate' = [gstate EXCEPT !.states[f[1]].active = RemoveAt(@, f[2]),
                                 !.states[f[1]].finished = @ \cup {gstate.states[f[1]].active[f[2]]}]
  BY DEF FinishCollectiveRequest
<1>2. PICK p, k : f = <<p, k>> /\ FinishesAt(p, k)
  BY DEF Finishable, FinishesAt
<1>3. f[1] = p /\ f[2] = k
  BY <1>2
<1>4. gstate' = [gstate EXCEPT !.states[p] = MadeFinished(gstate.states[p], k)]
  BY <1>1, <1>3 DEF MadeFinished
<1> QED BY <1>2, <1>4

FinishedCall(p, t) ==
  /\ t \in DOMAIN log[p] /\ t \notin Done[p] /\ Done' = [Done EXCEPT ![p] = @ \cup {t}]

LEMMA FinishStep ==
  ASSUME IInv, FinishCollectiveRequest
  PROVE  IInv' /\ \E p, k : FinishesAt(p, k) /\ FinishedCall(p, gstate.states[p].active[k].serial)
<1>1. PICK p, k : FinishesAt(p, k) /\ gstate' = [gstate EXCEPT !.states[p] = MadeFinished(gstate.states[p], k)]
  BY FinishParts
<1>2. phase = "expand" /\ UNCHANGED <<memory, todo, phase, cursor, error, log>>
  BY DEF FinishCollectiveRequest
<1>3. p \in Procs /\ k \in DOMAIN gstate.states[p].active
  BY <1>1 DEF FinishesAt
<1>4. WorldOK(gstate, memory, log) /\ error = "none"
  BY <1>2, Starting
<1>5. CoreOK(gstate, memory, log) /\ \A q \in Procs : WaitOK(gstate.states[q], log, q, memory[q].requests)
  BY <1>4 DEF WorldOK
<1>6. /\ gstate \in GlobalStates /\ IsMemory(memory) /\ IsLog(log) /\ CommunicatorsOK(gstate, log) /\ RootsOK(log)
      /\ OperationsOK(gstate.operations, log, ClosedOf(memory))
      /\ \A q \in Procs : /\ gstate.states[q] \in StateRecords
                          /\ RequestsOK(gstate.states[q], log, q, ClosedOf(memory)[q])
                          /\ ClosedOf(memory)[q] \subseteq DOMAIN log[q]
  BY <1>5, WorldParts
<1>7. PICK S, T : S = gstate.states[p] /\ T = MadeFinished(S, k)
  OBVIOUS
<1>8. MadeFinishedAs(S, log, p, ClosedOf(memory)[p], k, T)
  BY <1>3, <1>6, <1>7, FinishingRequest
<1>9. /\ T \in StateRecords /\ SameComms(S, T)
      /\ T.status = S.status /\ T.tested = S.tested /\ T.pointer = S.pointer
      /\ T.finished = S.finished \cup {S.active[k]} /\ LiveRequests(T) = LiveRequests(S)
      /\ S.active[k] \in LiveRequests(S) /\ \A u \in S.finished : u.serial # S.active[k].serial
      /\ RequestsOK(T, log, p, ClosedOf(memory)[p])
  BY <1>8 DEF MadeFinishedAs
<1>10. WaitOK(T, log, p, memory[p].requests)
  <2>1. RequestIds(T) = RequestIds(S)
    BY <1>9 DEF RequestIds
  <2>2. WaitOK(S, log, p, memory[p].requests)
    BY <1>3, <1>5, <1>7
  <2> QED BY <1>9, <2>1, <2>2 DEF WaitOK
<1>11. PICK J : J = Replaced(gstate, p, T, gstate.operations)
  OBVIOUS
<1>12. gstate.operations \in Seq(OperationRecords)
  BY <1>6, GlobalFields
<1>13. /\ CommunicatorsOK(J, log) /\ J.operations = gstate.operations
       /\ J.states[p] = T /\ \A q \in Procs \ {p} : J.states[q] = gstate.states[q]
  BY <1>3, <1>6, <1>7, <1>9, <1>11, <1>12, ReplacingWork
<1>14. gstate' = J
  BY <1>1, <1>6, <1>7, <1>11, StateReplaced
<1>15. \A q \in Procs : /\ RequestsOK(J.states[q], log, q, ClosedOf(memory)[q])
                        /\ WaitOK(J.states[q], log, q, memory[q].requests)
  BY <1>5, <1>6, <1>9, <1>10, <1>13
<1>16. WorldOK(J, memory, log)
  BY <1>6, <1>13, <1>15 DEF WorldOK, CoreOK, IsTyped, CommunicatorsOK
<1>17. IInv'
  <2>1. WorldOK(gstate', memory', log')
    BY <1>2, <1>14, <1>16
  <2>2. error' = "none"
    BY <1>2, <1>4
  <2> QED BY <1>2, <2>1, <2>2 DEF IInv
<1>18. PICK t : t = S.active[k].serial
  OBVIOUS
<1>19. t \in DOMAIN log[p] /\ t \notin ClosedOf(memory)[p]
  <2>1. RequestsOK(S, log, p, ClosedOf(memory)[p])
    BY <1>3, <1>6, <1>7
  <2> QED BY <1>9, <1>18, <2>1 DEF RequestsOK, RequestOK
<1>20. DoneAt(gstate, memory, p) = {u.serial : u \in S.finished} \cup ClosedOf(memory)[p]
  BY <1>7 DEF DoneAt
<1>21. t \notin Done[p]
  BY <1>3, <1>9, <1>18, <1>19, <1>20, DoneIs
<1>22. Done' = [Done EXCEPT ![p] = @ \cup {t}]
  <2>1. Done' = [q \in Procs |-> DoneAt(gstate', memory', q)]
    BY DEF Done, DoneAt, Closed, ClosedOf
  <2>2. DoneAt(J, memory, p) = DoneAt(gstate, memory, p) \cup {t}
    BY <1>9, <1>13, <1>18, <1>20 DEF DoneAt
  <2>3. \A q \in Procs \ {p} : DoneAt(J, memory, q) = DoneAt(gstate, memory, q)
    BY <1>13 DEF DoneAt
  <2>4. Done = [q \in Procs |-> DoneAt(gstate, memory, q)]
    BY DoneIs
  <2> QED BY <1>2, <1>3, <1>14, <2>1, <2>2, <2>3, <2>4
<1>23. FinishedCall(p, t)
  BY <1>19, <1>21, <1>22 DEF FinishedCall
<1> QED BY <1>1, <1>7, <1>17, <1>18, <1>23

-----------------------------------------------------------------------------
(* The inductive invariant *)

LEMMA InitialStateOK ==
  /\ InitialState \in StateRecords
  /\ InitialMemory.requests \in [1 .. RequestVars -> Nat]
  /\ InitialMemory.results = {}
<1>1. /\ <<>> \in Seq(Comms) /\ <<0, 0>> \in Seq(Nat) /\ <<>> \in Seq(Keyvals) /\ <<>> \in Seq(Nat)
      /\ <<>> \in Seq(1 .. RequestVars) /\ <<>> \in Seq(Requests) /\ {} \in SUBSET Attributes
  OBVIOUS
<1>2. <<>> \in GroupTables
  <2>1. <<>> \in [{} -> Groups]
    OBVIOUS
  <2>2. {} \in SUBSET Nat /\ IsFiniteSet({})
    BY FS_EmptySet
  <2> QED BY <2>1, <2>2 DEF GroupTables
<1>3. "running" \in Statuses
  BY DEF Statuses
<1>4. InitialState \in StateRecords
  BY <1>1, <1>2, <1>3 DEF InitialState, StateRecords
<1>5. InitialMemory.requests = [v \in 1 .. RequestVars |-> RequestNull] /\ InitialMemory.results = {}
  BY DEF InitialMemory
<1>6. RequestNull \in Nat
  BY DEF RequestNull
<1> QED BY <1>4, <1>5, <1>6

LEMMA InitialInvariant ==
  ASSUME Init
  PROVE  IInv
<1>1. /\ todo \in Programs /\ phase = "poll" /\ cursor = 0 /\ error = "none"
      /\ memory = [p \in Procs |-> InitialMemory] /\ log = [p \in Procs |-> <<>>]
      /\ gstate = [states |-> [p \in Procs |-> InitialState], operations |-> <<>>, comm_id_counter |-> CommUserdef]
  BY DEF Init
<1>2. PICK S : /\ S = InitialState /\ S \in StateRecords
               /\ S.comms = <<>> /\ S.counters = <<0, 0>> /\ S.status = "running" /\ S.tested = <<>>
               /\ S.pointer = <<>> /\ S.active = <<>> /\ S.finished = {}
  BY InitialStateOK DEF InitialState
<1>3. /\ \A p \in Procs : gstate.states[p] = S /\ log[p] = <<>> /\ memory[p] = InitialMemory
      /\ gstate.operations = <<>> /\ gstate.comm_id_counter = CommUserdef
  BY <1>1, <1>2
<1>4. gstate \in GlobalStates
  <2>1. <<>> \in Seq(OperationRecords) /\ CommUserdef \in Nat
    BY DEF CommUserdef
  <2> QED BY <1>1, <1>2, <2>1 DEF GlobalStates
<1>5. IsMemory(memory)
  <2>1. \A p \in Procs : memory[p].requests \in [1 .. RequestVars -> Nat]
    BY <1>3, InitialStateOK
  <2>2. InitialMemory = [requests |-> InitialMemory.requests, comms |-> InitialMemory.comms,
                         groups |-> InitialMemory.groups, results |-> InitialMemory.results]
    BY DEF InitialMemory
  <2>3. memory = [p \in Procs |-> [requests |-> memory[p].requests, comms |-> memory[p].comms,
                                   groups |-> memory[p].groups, results |-> memory[p].results]]
    BY <1>1, <2>2
  <2> QED BY <2>1, <2>3 DEF IsMemory
<1>6. IsLog(log) /\ \A p \in Procs : DOMAIN log[p] = {}
  <2>1. ASSUME NEW p \in Procs PROVE log[p] \in Seq(Entries(p))
    <3>1. PICK E : E = Entries(p)
      OBVIOUS
    <3>2. <<>> \in Seq(E)
      OBVIOUS
    <3> QED BY <1>3, <3>1, <3>2
  <2> QED BY <1>1, <1>3, <2>1 DEF IsLog
<1>7. \A p \in Procs : ClosedOf(memory)[p] = {}
  BY <1>3, InitialStateOK DEF ClosedOf
<1>8. \A p \in Procs : Known(gstate, log, p) = {}
  BY <1>2, <1>3, <1>6 DEF Known, ToSet
<1>9. CommsOK(gstate, log)
  <2>1. gstate.comm_id_counter >= CommUserdef
    BY <1>3 DEF CommUserdef
  <2>2. \A p \in Procs : DOMAIN gstate.states[p].comms = {}
    BY <1>2, <1>3
  <2> QED BY <1>8, <2>1, <2>2 DEF CommsOK
<1>10. CountersOK(gstate, log)
  <2>1. \A p \in Procs : \A id : CallsOn(log, p, id) = {}
    BY <1>6 DEF CallsOn
  <2>2. Cardinality({}) = 0
    BY FS_EmptySet
  <2>3. Len(S.counters) = 2 /\ Len(S.comms) = 0 /\ S.counters[1] = 0 /\ S.counters[2] = 0 /\ DOMAIN S.comms = {}
    BY <1>2
  <2> SUFFICES ASSUME NEW p \in Procs
               PROVE  /\ Len(gstate.states[p].counters) = Len(gstate.states[p].comms) + 2
                      /\ gstate.states[p].counters[1] = Cardinality(CallsOn(log, p, CommWorld))
                      /\ gstate.states[p].counters[2] = Cardinality(CallsOn(log, p, CommSelf))
                      /\ \A i \in DOMAIN gstate.states[p].comms :
                           gstate.states[p].counters[i + 2]
                             = Cardinality(CallsOn(log, p, gstate.states[p].comms[i].comm_id))
    BY DEF CountersOK
  <2>4. gstate.states[p] = S
    BY <1>3
  <2>5. Cardinality(CallsOn(log, p, CommWorld)) = 0 /\ Cardinality(CallsOn(log, p, CommSelf)) = 0
    BY <2>1, <2>2
  <2>6. Len(gstate.states[p].counters) = Len(gstate.states[p].comms) + 2
    <3>1. PICK m, n : m = Len(S.counters) /\ n = Len(S.comms)
      OBVIOUS
    <3>2. m = n + 2
      BY <2>3, <3>1
    <3> QED BY <2>4, <3>1, <3>2
  <2>7. /\ gstate.states[p].counters[1] = Cardinality(CallsOn(log, p, CommWorld))
        /\ gstate.states[p].counters[2] = Cardinality(CallsOn(log, p, CommSelf))
    BY <2>3, <2>4, <2>5
  <2>8. DOMAIN gstate.states[p].comms = {}
    BY <2>3, <2>4
  <2> QED BY <2>6, <2>7, <2>8
<1>11. RootsOK(log)
  BY <1>6 DEF RootsOK
<1>12. LiveRequests(S) = {} /\ RequestIds(S) = {} /\ DOMAIN S.active = {} /\ DOMAIN S.tested = {}
  BY <1>2 DEF LiveRequests, RequestIds, ToSet
<1>13. ASSUME NEW p \in Procs PROVE RequestsOK(S, log, p, ClosedOf(memory)[p])
  BY <1>2, <1>6, <1>7, <1>12, FS_EmptySet DEF RequestsOK, ToSet
<1>14. ASSUME NEW p \in Procs PROVE WaitOK(S, log, p, memory[p].requests)
  <2>1. \A v \in 1 .. RequestVars : memory[p].requests[v] = RequestNull
    <3>1. InitialMemory.requests = [v \in 1 .. RequestVars |-> RequestNull]
      BY DEF InitialMemory
    <3>2. memory[p].requests = [v \in 1 .. RequestVars |-> RequestNull]
      BY <1>3, <3>1
    <3> QED BY <3>2
  <2> QED BY <1>2, <1>12, <2>1 DEF WaitOK
<1>15. OperationsOK(gstate.operations, log, ClosedOf(memory))
  <2>1. DOMAIN gstate.operations = {}
    BY <1>3
  <2>2. \A k \in Nat : OperationsAt(gstate.operations, CommSelf, k) = {}
    BY <2>1 DEF OperationsAt
  <2>3. \A k \in Nat : Inside(log, ClosedOf(memory), CommSelf, k) = {}
    BY <1>6 DEF Inside, CallsAt, CallsOn
  <2> QED BY <1>6, <2>1, <2>2, <2>3 DEF OperationsOK
<1>16. WorldOK(gstate, memory, log)
  BY <1>3, <1>4, <1>5, <1>6, <1>9, <1>10, <1>11, <1>13, <1>14, <1>15 DEF WorldOK, CoreOK, IsTyped
<1>17. DOMAIN todo = Procs /\ \A p \in Procs : todo[p] \in Seq(SUBSET MayCall(p))
  BY <1>1, ProgramsAssumption
<1>18. cursor \in 0 .. ProcessCount
  BY <1>1, CommunicatorsAssumption
<1> QED BY <1>1, <1>16, <1>17, <1>18 DEF IInv

\* What a step does to the log and to the calls that are done.
StepAs ==
  \/ KeepsDone /\ log' = log
  \/ KeepsDone /\ \E p \in Procs : \E entry : Call(p) /\ LogGrows(log, log', p, entry)
  \/ log' = log /\ \E p, k : FinishesAt(p, k) /\ FinishedCall(p, gstate.states[p].active[k].serial)

LEMMA EveryStep ==
  ASSUME IInv, [Next]_vars
  PROVE  IInv' /\ StepAs
<1>1. ASSUME NEW p \in Procs, Call(p) PROVE IInv' /\ StepAs
  BY <1>1, CallStep DEF StepAs
<1>2. ASSUME NEW p \in Procs, Exit(p) PROVE IInv' /\ StepAs
  <2>1. log' = log
    BY <1>2 DEF Exit
  <2> QED BY <1>2, <2>1, ExitStep DEF StepAs
<1>3. ASSUME NEW p \in Procs, Flag0(p) PROVE IInv' /\ StepAs
  <2>1. log' = log
    BY <1>3 DEF Flag0
  <2> QED BY <1>3, <2>1, Flag0Step DEF StepAs
<1>4. ASSUME NEW p \in Procs, TestAll(p) PROVE IInv' /\ StepAs
  BY <1>4, TestAllStep DEF StepAs
<1>5. CASE FinishCollectiveRequest
  <2>1. log' = log
    BY <1>5 DEF FinishCollectiveRequest
  <2> QED BY <1>5, <2>1, FinishStep DEF StepAs
<1>6. CASE NothingToFinish \/ EndSweep \/ FinalNode
  <2>1. log' = log
    BY <1>6 DEF NothingToFinish, EndSweep, FinalNode
  <2> QED BY <1>6, <2>1, PhaseSteps DEF StepAs
<1>7. CASE Sweep
  BY <1>7, SweepStep DEF StepAs
<1>8. CASE Ended \/ UNCHANGED vars
  <2>1. UNCHANGED vars
    BY <1>8 DEF Ended
  <2>2. UNCHANGED <<gstate, memory, todo, phase, cursor, error, log>>
    BY <2>1 DEF vars
  <2>3. IInv'
    BY <2>2 DEF IInv
  <2>4. KeepsDone
    BY <2>2 DEF KeepsDone, Done, Closed
  <2> QED BY <2>2, <2>3, <2>4 DEF StepAs
<1> QED BY <1>1, <1>2, <1>3, <1>4, <1>5, <1>6, <1>7, <1>8 DEF Next

\* IInv holds in every state that the worker (mpi/worker.py, mpi/collectives.py) comes to: it
\* holds at the start and every action keeps it.
THEOREM InductiveInvariant == Spec => []IInv
<1>1. Init => IInv
  BY InitialInvariant
<1>2. IInv /\ [Next]_vars => IInv'
  BY EveryStep
<1> QED BY <1>1, <1>2, PTL DEF Spec

-----------------------------------------------------------------------------
(* Operations and calls *)

\* The instance has definitions of its own of the operators of the standard modules.
LEMMA SameOperators ==
  /\ \A S : Service!Cardinality(S) = Cardinality(S)
  /\ \A s : Service!ToSet(s) = ToSet(s) /\ Service!Last(s) = Last(s)
<1>1. ASSUME NEW S PROVE Service!Cardinality(S) = Cardinality(S)
  BY DEF Service!Cardinality, Cardinality
<1>2. ASSUME NEW s PROVE Service!ToSet(s) = ToSet(s)
  BY DEF Service!ToSet, ToSet
<1>3. ASSUME NEW s PROVE Service!Last(s) = Last(s)
  BY DEF Service!Last, Last
<1> QED BY <1>1, <1>2, <1>3

\* Positions are those of module CollectiveService: a process has one MPI_COMM_SELF.
LEMMA ServicePosition ==
  ASSUME IsLog(log), NEW p \in Procs, NEW t \in DOMAIN log[p]
  PROVE  Service!Position(p, t) = PositionOf(log, p, t)
<1>1. PICK n \in Nat : DOMAIN log[p] = 1 .. n /\ t \in 1 .. n
  BY LogDomain
<1>2. ASSUME NEW s \in 1 .. t
      PROVE  Service!Key(p, s) = Service!Key(p, t) <=> log[p][s].comm.comm_id = log[p][t].comm.comm_id
  <2>1. PICK a, b : a = log[p][s].comm.comm_id /\ b = log[p][t].comm.comm_id
    OBVIOUS
  <2>2. /\ Service!Key(p, s) = IF a = CommSelf THEN <<CommSelf, p>> ELSE <<a>>
        /\ Service!Key(p, t) = IF b = CommSelf THEN <<CommSelf, p>> ELSE <<b>>
    BY <2>1 DEF Service!Key
  <2>3. \A x : <<x>> # <<CommSelf, p>>
    <3>1. \A x : Len(<<x>>) = 1
      OBVIOUS
    <3>2. Len(<<CommSelf, p>>) = 2
      OBVIOUS
    <3> QED BY <3>1, <3>2
  <2>4. <<a>> = <<b>> => a = b
    OBVIOUS
  <2>5. CASE a = CommSelf /\ b = CommSelf
    BY <2>1, <2>2, <2>5
  <2>6. CASE a = CommSelf /\ b # CommSelf
    BY <2>1, <2>2, <2>3, <2>6
  <2>7. CASE a # CommSelf /\ b = CommSelf
    BY <2>1, <2>2, <2>3, <2>7
  <2>8. CASE a # CommSelf /\ b # CommSelf
    BY <2>1, <2>2, <2>4, <2>8
  <2> QED BY <2>5, <2>6, <2>7, <2>8
<1>3. PICK U : U = {s \in 1 .. t : log[p][s].comm.comm_id = log[p][t].comm.comm_id}
  OBVIOUS
<1>4. {s \in 1 .. t : Service!Key(p, s) = Service!Key(p, t)} = U
  BY <1>2, <1>3
<1>5. Service!Position(p, t) = Cardinality({s \in 1 .. t : Service!Key(p, s) = Service!Key(p, t)})
  BY SameOperators DEF Service!Position
<1>6. PositionOf(log, p, t) = Cardinality(U)
  BY <1>3 DEF PositionOf
<1> QED BY <1>4, <1>5, <1>6

\* The parts of the invariant that are used here.
LEMMA InvariantFacts ==
  ASSUME IInv, error = "none"
  PROVE  /\ gstate \in GlobalStates /\ IsLog(log) /\ CommsOK(gstate, log) /\ CountersOK(gstate, log) /\ RootsOK(log)
         /\ OperationsOK(gstate.operations, log, ClosedOf(memory)) /\ gstate.operations \in Seq(OperationRecords)
         /\ \A p \in Procs : /\ gstate.states[p] \in StateRecords
                             /\ RequestsOK(gstate.states[p], log, p, ClosedOf(memory)[p])
                             /\ WaitOK(gstate.states[p], log, p, memory[p].requests)
                             /\ Closed(p) = ClosedOf(memory)[p]
<1>1. WorldOK(gstate, memory, log)
  BY DEF IInv
<1>2. CoreOK(gstate, memory, log) /\ \A p \in Procs : WaitOK(gstate.states[p], log, p, memory[p].requests)
  BY <1>1 DEF WorldOK
<1>3. /\ gstate \in GlobalStates /\ IsLog(log) /\ CommsOK(gstate, log) /\ CountersOK(gstate, log) /\ RootsOK(log)
      /\ OperationsOK(gstate.operations, log, ClosedOf(memory))
      /\ \A p \in Procs : /\ gstate.states[p] \in StateRecords
                          /\ RequestsOK(gstate.states[p], log, p, ClosedOf(memory)[p])
  BY <1>2, WorldParts
<1>4. gstate.operations \in Seq(OperationRecords)
  BY <1>3, GlobalFields
<1>5. \A p \in Procs : Closed(p) = ClosedOf(memory)[p]
  BY DEF Closed, ClosedOf
<1> QED BY <1>2, <1>3, <1>4, <1>5

\* The calls of q that belong to an operation.
CallsOf(op, q) ==
  {t \in DOMAIN log[q] : log[q][t].comm.comm_id = op.comm_id /\ Service!Position(q, t) = op.cc_id + 1}

LEMMA CallsOfOperation ==
  ASSUME IsLog(log), NEW op, NEW q \in Procs
  PROVE  CallsOf(op, q) = CallsAt(log, q, op.comm_id, op.cc_id)
<1>1. \A t \in DOMAIN log[q] : Service!Position(q, t) = PositionOf(log, q, t)
  BY ServicePosition
<1> QED BY <1>1 DEF CallsOf, CallsAt, CallsOn

LEMMA OperationIsCounted ==
  ASSUME IInv, error = "none", NEW i \in DOMAIN gstate.operations, NEW op, op = gstate.operations[i],
         op.comm_id # CommSelf
  PROVE  /\ op.remaining_enter + Cardinality({q \in Procs : CallsOf(op, q) # {}}) = op.process_count
         /\ op.remaining_complete + Cardinality({q \in Procs : CallsOf(op, q) \cap Closed(q) # {}}) = op.process_count
         /\ OperationIndex(gstate, op.comm_id, op.cc_id) = i
<1>1. /\ IsLog(log) /\ gstate.operations \in Seq(OperationRecords)
      /\ OperationsOK(gstate.operations, log, ClosedOf(memory))
      /\ \A p \in Procs : Closed(p) = ClosedOf(memory)[p]
  BY InvariantFacts
<1>2. OpenOK(op, log, ClosedOf(memory))
  BY <1>1 DEF OperationsOK, OperationOK
<1>3. PICK E, C : /\ E = {q \in Procs : CallsOf(op, q) # {}}
                  /\ C = {q \in Procs : CallsOf(op, q) \cap Closed(q) # {}}
  OBVIOUS
<1>4. E = Entered(log, op.comm_id, op.cc_id)
  BY <1>1, <1>3, CallsOfOperation DEF Entered
<1>5. C = Left(log, ClosedOf(memory), op.comm_id, op.cc_id)
  BY <1>1, <1>3, CallsOfOperation DEF Left
<1>6. OperationIndex(gstate, op.comm_id, op.cc_id) = i
  <2>1. i \in OperationsAt(gstate.operations, op.comm_id, op.cc_id)
    BY DEF OperationsAt
  <2>2. PICK j : j = OperationIndex(gstate, op.comm_id, op.cc_id)
    OBVIOUS
  <2>3. j \in OperationsAt(gstate.operations, op.comm_id, op.cc_id)
    BY <1>1, <2>1, <2>2, FindingOperation
  <2>4. j \in DOMAIN gstate.operations /\ gstate.operations[j].comm_id = op.comm_id /\ gstate.operations[j].cc_id = op.cc_id
    BY <2>3 DEF OperationsAt
  <2>5. j = i
    BY <1>1, <2>4 DEF OperationsOK
  <2> QED BY <2>2, <2>5
<1> QED BY <1>2, <1>3, <1>4, <1>5, <1>6 DEF OpenOK

LEMMA OpenCallHasOperation ==
  ASSUME IInv, error = "none", NEW p \in Procs, NEW t \in DOMAIN log[p] \ Closed(p)
  PROVE  OperationIndex(gstate, log[p][t].comm.comm_id, Service!Position(p, t) - 1)
           \in OperationsAt(gstate.operations, log[p][t].comm.comm_id, Service!Position(p, t) - 1)
<1>1. /\ gstate \in GlobalStates /\ IsLog(log) /\ CommsOK(gstate, log)
      /\ OperationsOK(gstate.operations, log, ClosedOf(memory))
      /\ Closed(p) = ClosedOf(memory)[p]
  BY InvariantFacts
<1>2. PICK id, P : id = log[p][t].comm.comm_id /\ P = PositionOf(log, p, t)
  OBVIOUS
<1>3. P \in 1 .. Cardinality(CallsOn(log, p, id)) /\ Cardinality(CallsOn(log, p, id)) \in Nat
  BY <1>1, <1>2, PositionFacts, CallsAreFinite
<1>4. PICK k \in Nat : P = k + 1 /\ k = P - 1
  BY <1>3
<1>5. PICK D, C : D = ClosedOf(memory) /\ C = [D EXCEPT ![p] = @ \cup {t}]
  OBVIOUS
<1>6. DOMAIN D = Procs /\ t \notin D[p]
  BY <1>1, <1>5 DEF ClosedOf
<1>7. Completes(gstate, log, D, p, t, id, k, C)
  BY <1>1, <1>2, <1>4, <1>5, <1>6 DEF Completes
<1>8. OperationIndex(gstate, id, k) \in OperationsAt(gstate.operations, id, k)
  BY <1>7, OperationExists
<1>9. Service!Position(p, t) = P
  BY <1>1, <1>2, ServicePosition
<1> QED BY <1>2, <1>4, <1>8, <1>9

LEMMA UserCommIsFound ==
  ASSUME NEW G \in GlobalStates, NEW L, IsLog(L), CommsOK(G, L), NEW p \in Procs, NEW c \in ToSet(G.states[p].comms)
  PROVE  Finds(G, p, c.comm_id, c)
<1>1. PICK n, s : n \in Nat /\ s = G.states[p].comms /\ s \in Seq(Comms) /\ n = Len(s) /\ DOMAIN s = 1 .. n
  <2>1. G.states[p].comms \in Seq(Comms)
    BY GlobalFields, StateFields
  <2> QED BY <2>1, LenProperties
<1>2. PICK i \in 1 .. n : c = s[i]
  BY <1>1 DEF ToSet
<1>3. c \in Comms /\ c.comm_id > CommUserdef
  BY <1>1, <1>2, ElementOfSeq DEF CommsOK
<1>4. PICK id : id = c.comm_id
  OBVIOUS
<1>5. id # CommWorld /\ id # CommSelf /\ c # None
  <2>1. c.comm_id \in Nat /\ c # None
    BY <1>3, CommFields, NoneAssumption
  <2> QED BY <1>3, <1>4, <2>1, CommNumbers
<1>6. PICK I : I = {j \in 1 .. n : s[j].comm_id = id}
  OBVIOUS
<1>7. I = {i}
  BY <1>1, <1>2, <1>4, <1>6 DEF CommsOK
<1>8. I # {} /\ Min(I) = i
  BY <1>7, MinIsSmallest
<1>9. SelectInSeq(s, LAMBDA d : d.comm_id = id) = i
  BY <1>1, <1>6, <1>8 DEF SelectInSeq
<1>10. i # 0
  OBVIOUS
<1>11. GetComm(G.states[p], p, id) = c
  BY <1>1, <1>2, <1>5, <1>9, <1>10 DEF GetComm
<1> QED BY <1>4, <1>5, <1>11 DEF Finds

\* Property OperationsMatchCalls holds: the counts of an operation object are those of the calls
\* (mpi/collectives.py), there is one object for the calls that belong together, and the counters
\* of a process number its calls.
THEOREM OperationsMatch == Spec => []OperationsMatchCalls
<1>1. ASSUME IInv PROVE OperationsMatchCalls
  <2>1. SUFFICES ASSUME error = "none"
        PROVE  /\ \A i \in DOMAIN gstate.operations : gstate.operations[i].comm_id # CommSelf =>
                    /\ gstate.operations[i].remaining_enter
                         + Cardinality({q \in Procs : CallsOf(gstate.operations[i], q) # {}})
                         = gstate.operations[i].process_count
                    /\ gstate.operations[i].remaining_complete
                         + Cardinality({q \in Procs : CallsOf(gstate.operations[i], q) \cap Closed(q) # {}})
                         = gstate.operations[i].process_count
                    /\ OperationIndex(gstate, gstate.operations[i].comm_id, gstate.operations[i].cc_id) = i
               /\ \A p \in Procs : \A t \in DOMAIN log[p] \ Closed(p) :
                    OperationIndex(gstate, log[p][t].comm.comm_id, Service!Position(p, t) - 1) # 0
               /\ \A p \in Procs : \A c \in ToSet(gstate.states[p].comms) :
                    GetCounter(gstate.states[p], c) = Cardinality(CallsOn(log, p, c.comm_id))
    BY DEF OperationsMatchCalls, CallsOf, CallsOn
  <2>2. ASSUME NEW i \in DOMAIN gstate.operations, gstate.operations[i].comm_id # CommSelf
        PROVE  /\ gstate.operations[i].remaining_enter
                    + Cardinality({q \in Procs : CallsOf(gstate.operations[i], q) # {}})
                    = gstate.operations[i].process_count
               /\ gstate.operations[i].remaining_complete
                    + Cardinality({q \in Procs : CallsOf(gstate.operations[i], q) \cap Closed(q) # {}})
                    = gstate.operations[i].process_count
               /\ OperationIndex(gstate, gstate.operations[i].comm_id, gstate.operations[i].cc_id) = i
    <3>1. PICK op : op = gstate.operations[i]
      OBVIOUS
    <3>2. /\ op.remaining_enter + Cardinality({q \in Procs : CallsOf(op, q) # {}}) = op.process_count
          /\ op.remaining_complete + Cardinality({q \in Procs : CallsOf(op, q) \cap Closed(q) # {}}) = op.process_count
          /\ OperationIndex(gstate, op.comm_id, op.cc_id) = i
      BY <1>1, <2>1, <2>2, <3>1, OperationIsCounted
    <3> QED BY <3>1, <3>2
  <2>3. ASSUME NEW p \in Procs, NEW t \in DOMAIN log[p] \ Closed(p)
        PROVE  OperationIndex(gstate, log[p][t].comm.comm_id, Service!Position(p, t) - 1) # 0
    <3>1. PICK id, k, i : id = log[p][t].comm.comm_id /\ k = Service!Position(p, t) - 1 /\ i = OperationIndex(gstate, id, k)
      OBVIOUS
    <3>2. i \in OperationsAt(gstate.operations, id, k)
      BY <1>1, <2>1, <3>1, OpenCallHasOperation
    <3>3. i \in DOMAIN gstate.operations
      BY <3>2 DEF OperationsAt
    <3>4. i # 0
      BY <1>1, <2>1, <3>3, InvariantFacts, LenProperties
    <3> QED BY <3>1, <3>4
  <2>4. ASSUME NEW p \in Procs, NEW c \in ToSet(gstate.states[p].comms)
        PROVE  GetCounter(gstate.states[p], c) = Cardinality(CallsOn(log, p, c.comm_id))
    <3>1. gstate \in GlobalStates /\ IsLog(log) /\ CommsOK(gstate, log) /\ CountersOK(gstate, log)
      BY <1>1, <2>1, InvariantFacts
    <3>2. Finds(gstate, p, c.comm_id, c)
      BY <3>1, UserCommIsFound
    <3>3. PICK x, id : x = CounterIndex(gstate.states[p], c) /\ id = c.comm_id
      OBVIOUS
    <3>4. gstate.states[p].counters[x] = Cardinality(CallsOn(log, p, id))
      BY <3>1, <3>2, <3>3, CounterOfComm
    <3> QED BY <3>3, <3>4 DEF GetCounter
  <2> QED BY <2>2, <2>3, <2>4
<1> QED BY <1>1, InductiveInvariant, PTL

-----------------------------------------------------------------------------
(* The operations implement those of module CollectiveService *)

\* The call of a request, and the operation it takes part in.
Stands(p, r, t, id, k, c, D) ==
  /\ IInv /\ error = "none" /\ p \in Procs /\ r \in LiveRequests(gstate.states[p]) /\ t = r.serial
  /\ id = r.comm_id /\ k = r.cc_id /\ c = log[p][t].comm /\ D = ClosedOf(memory)

LEMMA StandsFacts ==
  ASSUME NEW p, NEW r, NEW t, NEW id, NEW k, NEW c, NEW D, Stands(p, r, t, id, k, c, D)
  PROVE  /\ p \in Procs /\ t \in DOMAIN log[p] /\ t \notin D[p] /\ k \in Nat
         /\ id = c.comm_id /\ PositionOf(log, p, t) = k + 1 /\ t \in CallsAt(log, p, id, k)
         /\ log[p][t] \in Entries(p) /\ c \in Comms /\ c \in Known(gstate, log, p) /\ IsMember(p, c, gstate.comm_id_counter)
         /\ p \in Members(c)
         /\ log[p][t].call.name \in Rooted => log[p][t].call.root \in 0 .. Size(c) - 1
         /\ OperationIndex(gstate, id, k) \in OperationsAt(gstate.operations, id, k)
         /\ OperationsOK(gstate.operations, log, D) /\ IsLog(log) /\ CommsOK(gstate, log)
<1>1. /\ IInv /\ error = "none" /\ p \in Procs /\ r \in LiveRequests(gstate.states[p]) /\ t = r.serial
      /\ id = r.comm_id /\ k = r.cc_id /\ c = log[p][t].comm /\ D = ClosedOf(memory)
  BY DEF Stands
<1>2. /\ gstate \in GlobalStates /\ IsLog(log) /\ CommsOK(gstate, log) /\ RootsOK(log)
      /\ OperationsOK(gstate.operations, log, D)
      /\ gstate.states[p] \in StateRecords /\ RequestsOK(gstate.states[p], log, p, D[p])
      /\ Closed(p) = D[p]
  BY <1>1, InvariantFacts
<1>3. RequestOK(log, p, r) /\ t \notin D[p]
  BY <1>1, <1>2 DEF RequestsOK
<1>4. t \in DOMAIN log[p] /\ id = c.comm_id /\ k + 1 = PositionOf(log, p, t)
  BY <1>1, <1>3 DEF RequestOK
<1>5. r \in Requests
  <2>1. gstate.states[p].active \in Seq(Requests) /\ gstate.states[p].finished \in SUBSET Requests
    BY <1>2, StateFields
  <2>2. ToSet(gstate.states[p].active) \subseteq Requests
    BY <2>1, LenProperties DEF ToSet
  <2> QED BY <1>1, <2>1, <2>2 DEF LiveRequests
<1>6. k \in Nat
  BY <1>1, <1>5 DEF Requests
<1>7. log[p][t] \in Entries(p)
  <2>1. log[p] \in Seq(Entries(p))
    BY <1>1, <1>2 DEF IsLog
  <2> QED BY <1>4, <2>1, LogDomain, ElementOfSeq, LenProperties
<1>8. c \in Comms
  BY <1>1, <1>7 DEF Entries
<1>9. c \in Known(gstate, log, p)
  BY <1>1, <1>4 DEF Known
<1>10. IsMember(p, c, gstate.comm_id_counter)
  BY <1>1, <1>2, <1>9 DEF CommsOK
<1>11. p \in Members(c)
  BY <1>10 DEF IsMember, Members
<1>12. t \in CallsAt(log, p, id, k)
  BY <1>1, <1>4 DEF CallsAt, CallsOn
<1>13. log[p][t].call.name \in Rooted => log[p][t].call.root \in 0 .. Size(c) - 1
  BY <1>1, <1>2, <1>4 DEF RootsOK
<1>14. OperationIndex(gstate, id, k) \in OperationsAt(gstate.operations, id, k)
  <2>1. t \in DOMAIN log[p] \ Closed(p)
    BY <1>2, <1>3, <1>4
  <2>2. Service!Position(p, t) = PositionOf(log, p, t)
    BY <1>1, <1>2, <1>4, ServicePosition
  <2>3. Service!Position(p, t) - 1 = k
    BY <1>4, <1>6, <2>2
  <2>4. log[p][t].comm.comm_id = id
    BY <1>1, <1>4
  <2> QED BY <1>1, <2>1, <2>3, <2>4, OpenCallHasOperation
<1> QED BY <1>1, <1>2, <1>3, <1>4, <1>6, <1>7, <1>8, <1>9, <1>10, <1>11, <1>12, <1>13, <1>14

\* Who entered the operation of a call has made a call that belongs to it.
LEMMA EnteredTogether ==
  ASSUME NEW p, NEW r, NEW t, NEW id, NEW k, NEW c, NEW D, Stands(p, r, t, id, k, c, D), id # CommSelf,
         NEW q \in Entered(log, id, k)
  PROVE  Service!HasEntered(p, t, q) /\ q \in Members(c)
<1>1. /\ p \in Procs /\ t \in DOMAIN log[p] /\ k \in Nat /\ id = c.comm_id /\ PositionOf(log, p, t) = k + 1
      /\ c \in Known(gstate, log, p) /\ IsLog(log) /\ CommsOK(gstate, log)
  BY StandsFacts
<1>2. c = log[p][t].comm
  BY DEF Stands
<1>3. q \in Procs
  BY DEF Entered
<1>4. PICK u : u \in CallsAt(log, q, id, k)
  BY DEF Entered
<1>5. u \in DOMAIN log[q] /\ log[q][u].comm.comm_id = id /\ PositionOf(log, q, u) = k + 1
  BY <1>4 DEF CallsAt, CallsOn
<1>6. Service!Together(p, t, q, u)
  <2>1. Service!Position(p, t) = Service!Position(q, u)
    BY <1>1, <1>3, <1>5, ServicePosition
  <2>2. Service!Key(p, t) = <<id>> /\ Service!Key(q, u) = <<id>>
    BY <1>1, <1>2, <1>5 DEF Service!Key
  <2> QED BY <2>1, <2>2 DEF Service!Together
<1>7. Service!HasEntered(p, t, q)
  BY <1>5, <1>6 DEF Service!HasEntered
<1>8. log[q][u].comm \in Known(gstate, log, q)
  BY <1>5 DEF Known
<1>9. log[q][u].comm = c
  BY <1>1, <1>3, <1>5, <1>8 DEF CommsOK
<1>10. q \in Members(c)
  BY <1>1, <1>3, <1>8, <1>9 DEF CommsOK, IsMember, Members
<1> QED BY <1>7, <1>10

LEMMA SelfTogether ==
  ASSUME NEW p, NEW t \in DOMAIN log[p]
  PROVE  Service!HasEntered(p, t, p)
<1>1. Service!Together(p, t, p, t)
  BY DEF Service!Together
<1> QED BY <1>1 DEF Service!HasEntered

\* What a call needs, in the words of the code.
LEMMA NeedsOf ==
  ASSUME NEW p, NEW t, NEW call, call = log[p][t].call, NEW c, c = log[p][t].comm
  PROVE  /\ call.name \in {"gather", "gatherv", "reduce"} =>
              Service!Needs(p, t) = IF p = RankToPid(c, call.root) THEN Members(c) ELSE {}
         /\ call.name \in {"scatter", "scatterv", "bcast"} => Service!Needs(p, t) = {RankToPid(c, call.root)}
         /\ call.name \in {"comm_dup", "comm_create"} => Service!Needs(p, t) = {}
         /\ call.name \notin Rooted \cup {"comm_dup", "comm_create"} => Service!Needs(p, t) = Members(c)
<1>1. Service!Table(p, t) = c.group.table
  BY DEF Service!Table
<1>2. PICK table, all : table = c.group.table /\ all = Members(c)
  OBVIOUS
<1>3. Service!ToSet(table) = all
  BY <1>2, SameOperators DEF Members
<1>4. RankToPid(c, call.root) = table[call.root + 1]
  BY <1>2 DEF RankToPid
<1>5. CASE call.name \in {"gather", "gatherv", "reduce"}
  BY <1>1, <1>2, <1>3, <1>4, <1>5 DEF Service!Needs, Service!ToRoot, Service!FromRoot, Rooted
<1>6. CASE call.name \in {"scatter", "scatterv", "bcast"}
  BY <1>1, <1>2, <1>3, <1>4, <1>6 DEF Service!Needs, Service!ToRoot, Service!FromRoot, Rooted
<1>7. CASE call.name \in {"comm_dup", "comm_create"}
  BY <1>7 DEF Service!Needs, Service!ToRoot, Service!FromRoot, Rooted
<1>8. CASE call.name \notin Rooted \cup {"comm_dup", "comm_create"}
  BY <1>1, <1>2, <1>3, <1>8 DEF Service!Needs, Service!ToRoot, Service!FromRoot, Rooted
<1> QED BY <1>5, <1>6, <1>7, <1>8 DEF Rooted

LEMMA RootIsMember ==
  ASSUME NEW c \in Comms, NEW root \in 0 .. Size(c) - 1
  PROVE  RankToPid(c, root) \in Members(c) /\ root + 1 \in DOMAIN c.group.table
<1>1. PICK n \in Nat : n = Size(c) /\ DOMAIN c.group.table = 1 .. n
  BY MembersAreCounted
<1>2. root + 1 \in 1 .. n
  BY <1>1
<1> QED BY <1>1, <1>2 DEF RankToPid, Members, ToSet

\* When all entered, all members did.
LEMMA AllEntered ==
  ASSUME NEW p, NEW r, NEW t, NEW id, NEW k, NEW c, NEW D, Stands(p, r, t, id, k, c, D), id # CommSelf,
         NEW op, OpenOK(op, log, D), op.comm_id = id, op.cc_id = k, op.remaining_enter = 0
  PROVE  Entered(log, id, k) = Members(c)
<1>1. PICK E : E = Entered(log, id, k)
  OBVIOUS
<1>2. E \subseteq Members(c)
  BY <1>1, EnteredTogether
<1>3. c \in Comms /\ t \in CallsAt(log, p, id, k) /\ p \in Procs
  BY StandsFacts
<1>4. IsFiniteSet(Members(c)) /\ Cardinality(Members(c)) = Size(c) /\ Size(c) \in Nat
  BY <1>3, MembersAreCounted
<1>5. IsFiniteSet(E) /\ Cardinality(E) \in Nat
  BY <1>2, <1>4, FS_Subset, FS_CardinalityType
<1>6. Agrees(op, log, p, log[p][t])
  BY <1>3 DEF OpenOK
<1>7. op.process_count = Size(c)
  BY <1>6 DEF Agrees, Stands
<1>8. 0 + Cardinality(E) = Size(c)
  BY <1>1, <1>7 DEF OpenOK
<1>9. Cardinality(E) = Cardinality(Members(c))
  BY <1>4, <1>5, <1>8
<1> QED BY <1>1, <1>2, <1>4, <1>9, FS_Subset

LEMMA FinishedHasData ==
  ASSUME NEW p, NEW r, NEW t, NEW id, NEW k, NEW c, NEW D, Stands(p, r, t, id, k, c, D),
         NEW i, i = OperationIndex(gstate, id, k), CanBeCompleted(gstate.operations[i], p)
  PROVE  Service!MayFinish(p, t)
<1>1. /\ p \in Procs /\ t \in DOMAIN log[p] /\ t \in CallsAt(log, p, id, k)
      /\ id = c.comm_id /\ c \in Comms /\ IsMember(p, c, gstate.comm_id_counter) /\ p \in Members(c)
      /\ log[p][t].call.name \in Rooted => log[p][t].call.root \in 0 .. Size(c) - 1
      /\ i \in OperationsAt(gstate.operations, id, k) /\ OperationsOK(gstate.operations, log, D)
  BY StandsFacts
<1>2. PICK call, op : call = log[p][t].call /\ op = gstate.operations[i]
  OBVIOUS
<1>3. c = log[p][t].comm
  BY DEF Stands
<1>4. Service!HasRoot(p, t)
  <2>1. Service!Table(p, t) = c.group.table
    BY <1>3 DEF Service!Table
  <2>2. SUFFICES ASSUME call.name \in Service!Rooted PROVE call.root + 1 \in DOMAIN c.group.table
    BY <1>2, <2>1 DEF Service!HasRoot
  <2>3. call.name \in Rooted
    BY <2>2 DEF Rooted, Service!Rooted, Service!ToRoot, Service!FromRoot
  <2> QED BY <1>1, <1>2, <2>3, RootIsMember
<1>5. /\ call.name \in {"gather", "gatherv", "reduce"} =>
           Service!Needs(p, t) = IF p = RankToPid(c, call.root) THEN Members(c) ELSE {}
      /\ call.name \in {"scatter", "scatterv", "bcast"} => Service!Needs(p, t) = {RankToPid(c, call.root)}
      /\ call.name \in {"comm_dup", "comm_create"} => Service!Needs(p, t) = {}
      /\ call.name \notin Rooted \cup {"comm_dup", "comm_create"} => Service!Needs(p, t) = Members(c)
  BY <1>2, <1>3, NeedsOf
<1>6. call.name \in Rooted => RankToPid(c, call.root) \in Members(c)
  BY <1>1, <1>2, RootIsMember
<1>7. \A q \in Service!Needs(p, t) : Service!HasEntered(p, t, q)
  <2>1. CASE id = CommSelf
    <3>1. c = MakeCommSelf(p)
      BY <1>1, <2>1 DEF IsMember
    <3>2. Members(c) = {p}
      BY <1>1, <3>1, PermanentComms
    <3>3. Service!Needs(p, t) \subseteq {p}
      BY <1>5, <1>6, <3>2 DEF Rooted
    <3> QED BY <1>1, <3>3, SelfTogether
  <2>2. CASE id # CommSelf
    <3>1. i \in DOMAIN gstate.operations /\ op.comm_id = id /\ op.cc_id = k
      BY <1>1, <1>2 DEF OperationsAt
    <3>2. OpenOK(op, log, D)
      BY <1>1, <1>2, <2>2, <3>1 DEF OperationsOK, OperationOK
    <3>3. Agrees(op, log, p, log[p][t])
      BY <1>1, <3>1, <3>2 DEF OpenOK
    <3>4. /\ op.name = call.name
          /\ op.name \in Rooted => op.root = call.root /\ op.root_pid = RankToPid(c, call.root)
          /\ op.name \in {"scatter", "scatterv", "bcast"} =>
               (op.buffers[op.root + 1] # None => RankToPid(c, call.root) \in Entered(log, id, k))
      BY <1>2, <1>3, <3>1, <3>3 DEF Agrees, Rooted
    <3>5. \A q \in Entered(log, id, k) : Service!HasEntered(p, t, q)
      BY <2>2, EnteredTogether
    <3>6. op.remaining_enter = 0 => \A q \in Members(c) : Service!HasEntered(p, t, q)
      BY <2>2, <3>1, <3>2, <3>5, AllEntered
    <3>7. CanBeCompleted(op, p)
      BY <1>2
    <3>8. CASE call.name \in {"gather", "gatherv", "reduce"}
      <4>1. p # op.root_pid \/ op.remaining_enter = 0
        BY <3>4, <3>7, <3>8 DEF CanBeCompleted, EverybodyEnteredForRoot
      <4> QED BY <1>5, <3>4, <3>6, <3>8, <4>1 DEF Rooted
    <3>9. CASE call.name \in {"scatter", "scatterv", "bcast"}
      <4>1. op.buffers[op.root + 1] # None
        BY <3>4, <3>7, <3>9 DEF CanBeCompleted, RootEntered
      <4> QED BY <1>5, <3>4, <3>5, <3>9, <4>1 DEF Rooted
    <3>10. CASE call.name \in {"comm_dup", "comm_create"}
      BY <1>5, <3>10
    <3>11. CASE call.name \notin Rooted \cup {"comm_dup", "comm_create"}
      <4>1. op.remaining_enter = 0
        BY <3>4, <3>7, <3>11 DEF CanBeCompleted, EverybodyEntered, Rooted
      <4> QED BY <1>5, <3>6, <3>11, <4>1
    <3> QED BY <3>8, <3>9, <3>10, <3>11 DEF Rooted
  <2> QED BY <2>1, <2>2
<1> QED BY <1>4, <1>7 DEF Service!MayFinish

LEMMA FinishIsFinish ==
  ASSUME IInv, error = "none", log' = log, NEW p, NEW j, FinishesAt(p, j),
         FinishedCall(p, gstate.states[p].active[j].serial)
  PROVE  Service!Next
<1>1. PICK r, t, id, k, c, D : /\ r = gstate.states[p].active[j] /\ t = r.serial /\ id = r.comm_id /\ k = r.cc_id
                               /\ c = log[p][t].comm /\ D = ClosedOf(memory)
  OBVIOUS
<1>2. p \in Procs /\ j \in DOMAIN gstate.states[p].active
  BY DEF FinishesAt
<1>3. r \in LiveRequests(gstate.states[p])
  BY <1>1, <1>2 DEF LiveRequests, ToSet
<1>4. Stands(p, r, t, id, k, c, D)
  BY <1>1, <1>2, <1>3 DEF Stands
<1>5. PICK i : i = OperationIndex(gstate, id, k) /\ CanBeCompleted(gstate.operations[i], p)
  BY <1>1 DEF FinishesAt
<1>6. Service!MayFinish(p, t)
  BY <1>4, <1>5, FinishedHasData
<1>7. t \in DOMAIN log[p] \ Done[p] /\ Done' = [Done EXCEPT ![p] = @ \cup {t}]
  BY <1>1 DEF FinishedCall
<1>8. Service!Finish(p)
  BY <1>6, <1>7 DEF Service!Finish
<1> QED BY <1>2, <1>8 DEF Service!Next

LEMMA CallIsEnter ==
  ASSUME IInv, error = "none", KeepsDone, NEW p \in Procs, Call(p), NEW entry, LogGrows(log, log', p, entry)
  PROVE  Service!Next
<1>1. /\ IsLog(log) /\ gstate.states[p] \in StateRecords
      /\ RequestsOK(gstate.states[p], log, p, ClosedOf(memory)[p])
      /\ WaitOK(gstate.states[p], log, p, memory[p].requests) /\ Closed(p) = ClosedOf(memory)[p]
  BY InvariantFacts
<1>2. gstate.states[p].status = "running"
  BY DEF Call, Running
<1>3. \A s \in DOMAIN log[p] : log[p][s].call.blocking => s \in Done[p]
  <2>1. SUFFICES ASSUME NEW s \in DOMAIN log[p], log[p][s].call.blocking, s \notin Closed(p) PROVE FALSE
    BY DEF Done
  <2>2. PICK r \in LiveRequests(gstate.states[p]) : r.serial = s
    BY <1>1, <2>1 DEF RequestsOK
  <2>3. ~log[p][r.serial].call.blocking
    BY <1>1, <1>2, RunningWaitsNot
  <2> QED BY <2>1, <2>2, <2>3
<1>4. /\ entry \in Entries(p) /\ Appended(log, log', p, entry) /\ entry.comm \in Comms /\ p \in Members(entry.comm)
  BY DEF LogGrows
<1>5. PICK K : K = log' /\ Appended(log, K, p, entry)
  BY <1>4
<1>6. /\ Len(K[p]) = Len(log[p]) + 1 /\ K[p][Len(log[p]) + 1] = entry
  BY <1>1, <1>4, <1>5, AppendingToLog
<1>7. Last(K[p]) = entry
  BY <1>6 DEF Last
<1>8. Service!Valid(p, entry)
  <2>1. Members(entry.comm) \subseteq Procs
    BY <1>4, MembersAreCounted
  <2>2. Service!ToSet(entry.comm.group.table) = Members(entry.comm)
    BY SameOperators DEF Members
  <2> QED BY <1>4, <2>1, <2>2 DEF Service!Valid
<1>9. Service!Last(log'[p]) = entry
  BY <1>5, <1>7, SameOperators
<1>10. log' = [log EXCEPT ![p] = Append(@, entry)]
  BY <1>4 DEF Appended
<1>11. Done' = Done
  BY DEF KeepsDone
<1>12. Len(log'[p]) = Len(log[p]) + 1
  BY <1>5, <1>6
<1>13. Service!Enter(p)
  BY <1>3, <1>8, <1>9, <1>10, <1>11, <1>12 DEF Service!Enter
<1> QED BY <1>13 DEF Service!Next

\* Property Implements holds: with the calls that are finished for "done", every behaviour of the
\* verifier (mpi/collectives.py, mpi/globalstate.py, mpi/worker.py) is one of CollectiveService.
THEOREM ImplementsService == Spec => Implements
<1>1. Init => Service!Init
  <2>1. SUFFICES ASSUME Init PROVE Service!Init
    OBVIOUS
  <2>2. log = [p \in Procs |-> <<>>]
    BY <2>1 DEF Init
  <2>4. memory = [p \in Procs |-> InitialMemory]
    BY <2>1 DEF Init
  <2>5. gstate = [states |-> [p \in Procs |-> InitialState], operations |-> <<>>,
                  comm_id_counter |-> CommUserdef]
    BY <2>1 DEF Init
  <2>6. \A p \in Procs : gstate.states[p] = InitialState
    BY <2>5
  <2>3. \A p \in Procs : Done[p] = {}
    BY <2>4, <2>6 DEF Done, Closed, InitialState, InitialMemory
  <2>7. Done = [p \in Procs |-> {}]
    BY <2>3 DEF Done
  <2> QED BY <2>2, <2>7 DEF Service!Init
<1>2. IInv /\ [Next]_vars => [Service!Next]_(Service!vars)
  <2>1. SUFFICES ASSUME IInv, [Next]_vars PROVE [Service!Next]_(Service!vars)
    OBVIOUS
  <2>2. StepAs
    BY <2>1, EveryStep
  <2>3. CASE KeepsDone /\ log' = log
    BY <2>3 DEF KeepsDone, Service!vars
  <2>4. CASE KeepsDone /\ \E p \in Procs : \E entry : Call(p) /\ LogGrows(log, log', p, entry)
    <3>1. PICK p \in Procs : \E entry : Call(p) /\ LogGrows(log, log', p, entry)
      BY <2>4
    <3>2. PICK entry : Call(p) /\ LogGrows(log, log', p, entry)
      BY <3>1
    <3>3. error = "none"
      BY <2>1, <3>2, Starting DEF Call
    <3> QED BY <2>1, <2>4, <3>2, <3>3, CallIsEnter
  <2>5. CASE log' = log /\ \E p, k : FinishesAt(p, k) /\ FinishedCall(p, gstate.states[p].active[k].serial)
    <3>1. CASE error = "none"
      BY <2>1, <2>5, <3>1, FinishIsFinish
    <3>2. CASE error # "none"
      <4>1. phase = "end"
        BY <2>1, <3>2 DEF IInv
      <4>2. UNCHANGED vars
        BY <2>1, <4>1 DEF Next, Call, Exit, Flag0, TestAll, FinishCollectiveRequest, NothingToFinish, Sweep, EndSweep,
                          FinalNode, Ended
      <4>3. UNCHANGED <<log, Done>>
        BY <4>2 DEF vars, Done, Closed
      <4> QED BY <4>3 DEF Service!vars
    <3> QED BY <3>1, <3>2
  <2> QED BY <2>2, <2>3, <2>4, <2>5 DEF StepAs
<1> QED BY <1>1, <1>2, InductiveInvariant, PTL DEF Spec, Implements, Service!Spec

=============================================================================
