---------------------------- MODULE Collectives ----------------------------
(***************************************************************************)
(* Collective operations (mpi/collectives.py), the part of the global      *)
(* state that keeps them (mpi/globalstate.py), the calls on communicators, *)
(* groups and attributes (mpi/mpicalls.py), and how a worker completes     *)
(* them (mpi/worker.py, Context._close_request).                           *)
(*                                                                         *)
(* A behaviour is one path of the state space.  Generator.main_cycle       *)
(* handles the calls of the running processes in the order in which their  *)
(* controllers answer: any order.  After every call the worker finishes    *)
(* the collective requests that can be finished and continues the          *)
(* processes whose requests are finished (fast_expand).                    *)
(*                                                                         *)
(* The verified program is data: for each process a sequence of sets of    *)
(* calls, any one call of a set is made.  A call names communicators,      *)
(* groups and requests by the program variable that holds the handle.      *)
(* What a process puts into an operation is the pair of its pid and the    *)
(* number of the call.                                                     *)
(***************************************************************************)
EXTENDS Communicators

CONSTANTS
  Programs,     \* the programs to verify
  RequestVars,  \* number of MPI_Request variables of a process
  CommVars,     \* number of MPI_Comm variables: the first two hold WORLD and SELF
  GroupVars     \* number of MPI_Group variables

ASSUME VariablesAssumption ==
  RequestVars \in Nat /\ CommVars \in Nat \ {0, 1} /\ GroupVars \in Nat

VARIABLES
  gstate,   \* the GlobalState: [states, operations, comm_id_counter]
  memory,   \* memory[p]: variables of process p and what operations wrote there
  todo,     \* what is left of the program of each process
  phase,    \* "poll", "expand", "sweep", "node" or "end"
  cursor,   \* the next process of the sweep of fast_expand
  error,    \* the error that ended the verification, or "none"
  log       \* history: log[p] is the sequence of collective calls of p

vars == <<gstate, memory, todo, phase, cursor, error, log>>

\* The operators below take and return the world of a handler: [gstate, memory, error, log].
Here == [gstate |-> gstate, memory |-> memory, error |-> error, log |-> log]

Become(w) ==
  /\ gstate' = w.gstate
  /\ memory' = w.memory
  /\ error' = w.error
  /\ log' = w.log

Fail(w, e) == [w EXCEPT !.error = e]

\* Handlers stop where an error is thrown.
Then(w, F(_)) == IF w.error = "none" THEN F(w) ELSE w

RequestNull == 0

-----------------------------------------------------------------------------
(* Operations. *)

\* What the functions of mpicalls.py call: classes of blocking and of non-blocking calls.
BlockingClasses ==
  {"barrier", "gather", "allgather", "gatherv", "allgatherv", "scatter", "scatterv", "reduce",
   "reduce_scatter", "allreduce", "scan", "bcast", "comm_split", "comm_dup", "comm_create"}
NonBlockingClasses ==
  {"barrier", "gather", "gatherv", "scatter", "scatterv", "reduce", "allreduce", "bcast"}

\* The arguments of a collective call.
IsCollectiveCall(call) ==
  /\ call.blocking \in BOOLEAN
  /\ call.name \in IF call.blocking THEN BlockingClasses ELSE NonBlockingClasses
  /\ call.comm \in 1 .. CommVars
  /\ call.root \in Int /\ call.inplace \in BOOLEAN /\ call.recvbuf \in Nat
  /\ call.fn \in STRING /\ call.count \in Nat /\ call.color \in Int /\ call.key \in Int

\* The calls that the programs of p contain.
MayCall(p) == UNION {UNION ToSet(program[p]) : program \in Programs}

\* MPI asks programs not to wait for a request twice in one call, nor to put a rank into a group
\* twice; the code relies on it.
ASSUME ProgramsAssumption ==
  /\ \A program \in Programs :
       DOMAIN program = Procs /\ \A p \in Procs : program[p] \in Seq(SUBSET MayCall(p))
  /\ \A p \in Procs : \A call \in MayCall(p) :
       /\ call.op = "Collective" => IsCollectiveCall(call)
       /\ call.op \in {"Wait", "Test"} =>
            call.requests \in Seq(1 .. RequestVars) /\ IsInjective(call.requests)
       /\ call.op \in {"Comm_free", "Attr_put", "Attr_delete"} => call.comm \in 1 .. CommVars
       /\ call.op = "Group_incl" => IsInjective(call.ranks)
       /\ call.op \in {"Group_incl", "Group_excl"} => call.ranks \in Seq(Int)
       /\ call.op = "Keyval_create" => call.copy \in BOOLEAN /\ call.delete \in BOOLEAN

Rooted == {"gather", "gatherv", "reduce", "scatter", "scatterv", "bcast"}
Reducing == {"reduce", "allreduce", "scan", "reduce_scatter"}
OnComms == {"comm_split", "comm_dup", "comm_create"}

\* CollectiveOperation.__init__ and those of its classes.
NewOperation(comm, cc_id, call) ==
  [name |-> call.name, blocking |-> call.blocking, comm_id |-> comm.comm_id, cc_id |-> cc_id,
   root |-> None, root_pid |-> None, process_count |-> Size(comm),
   remaining_enter |-> Size(comm), remaining_complete |-> Size(comm),
   buffers |-> [r \in 1 .. Size(comm) |-> None],   \* (color, key) of a CommSplit
   recvbufs |-> [r \in 1 .. Size(comm) |-> None],  \* newcomm_ptrs of the operations on comms
   recvbuf |-> None,                               \* of Gather, Gatherv and Reduce
   op |-> None, count |-> None,                    \* of the reductions
   group |-> None,                                 \* of CommCreate
   final |-> None]                                 \* final_buffer, comm_ids or newcomm_id

\* GlobalState.get_operation_by_cc_id: the index of the first one, 0 if there is none.
OperationIndex(G, comm_id, cc_id) ==
  SelectInSeq(G.operations, LAMBDA op : op.comm_id = comm_id /\ op.cc_id = cc_id)

\* can_be_completed of Barrier, Allgather, Allgatherv, the reductions without a root, CommSplit
EverybodyEntered(op) == op.remaining_enter = 0

\* Mutant of EverybodyEnteredForRoot: the root does not wait.
EnteredForRoot(op, pid) == pid # op.root_pid \/ op.remaining_enter < op.process_count

\* of Gatherv, Gather and Reduce
EverybodyEnteredForRoot(op, pid) == pid # op.root_pid \/ op.remaining_enter = 0

\* of Scatterv, Scatter and Bcast
RootEntered(op) == op.buffers[op.root + 1] # None

CanBeCompleted(op, pid) ==
  CASE op.name \in {"gather", "gatherv", "reduce"} -> EverybodyEnteredForRoot(op, pid)
    [] op.name \in {"scatter", "scatterv", "bcast"} -> RootEntered(op)
    [] op.name \in {"comm_dup", "comm_create"} -> TRUE
    [] OTHER -> EverybodyEntered(op)

-----------------------------------------------------------------------------
(* The global state. *)

InitialState ==
  [comms |-> <<>>, counters |-> <<0, 0>>, groups |-> <<>>, keyvals |-> <<>>, attrs |-> {},
   made |-> {}, deleted |-> {},
   status |-> "running", tested |-> <<>>, pointer |-> <<>>, active |-> <<>>, finished |-> {}]

InitialMemory ==
  [requests |-> [v \in 1 .. RequestVars |-> RequestNull],
   comms |-> [v \in 1 .. CommVars |->
                IF v = 1 THEN CommWorld ELSE IF v = 2 THEN CommSelf ELSE CommNull],
   groups |-> [v \in 1 .. GroupVars |-> GroupNull],
   results |-> {}]   \* history: [serial, outcome] of the completed calls

\* GlobalState.create_new_communicator and clone_communicator
CreateCommunicator(G, group) ==
  LET comm == Communicator(G.comm_id_counter + 1, group)
  IN [G EXCEPT !.comm_id_counter = @ + 1,
               !.states = [p \in Procs |-> IF p \in ToSet(group.table)
                                           THEN AddComm(G.states[p], comm) ELSE G.states[p]]]

-----------------------------------------------------------------------------
(* enter_main of the classes.  What enters is the record e: the process,   *)
(* its rank, the communicator, the call, the data it puts in and, for      *)
(* CommCreate, the group.  The answer is the operation, or the error.      *)

Refuse(e) == [refused |-> e]
Refused(x) == "refused" \in DOMAIN x

\* Mutant of CheckRoot: the root of the last process counts.
CheckRootOfLast(op, e) ==
  IF e.call.root \notin 0 .. Size(e.comm) - 1 THEN Refuse("InvalidRank")
  ELSE [op EXCEPT !.root = e.call.root, !.root_pid = RankToPid(e.comm, e.call.root)]

\* check_rank, and check_root of CollectiveOperation
CheckRoot(op, e) ==
  IF e.call.root \notin 0 .. Size(e.comm) - 1 THEN Refuse("InvalidRank")
  ELSE IF op.root = None
  THEN [op EXCEPT !.root = e.call.root, !.root_pid = RankToPid(e.comm, e.call.root)]
  ELSE IF op.root # e.call.root THEN Refuse("RootMismatch") ELSE op

\* Mutant of PutIn: data are kept in the order of arrival.
PutInOrder(op, e) ==
  [op EXCEPT !.buffers[op.process_count - op.remaining_enter] = e.data]

\* OperationWithBuffers.make_buffer_for_root and make_buffer_for_all
PutIn(op, e) == [op EXCEPT !.buffers[e.rank + 1] = e.data]

Receiving(op, e) == [op EXCEPT !.recvbufs[e.rank + 1] = e.call.recvbuf]

EnterGatherv(operation, e) ==
  LET op == CheckRoot(operation, e)
  IN IF Refused(op) THEN op
     ELSE IF e.call.root = e.rank THEN [PutIn(op, e) EXCEPT !.recvbuf = e.call.recvbuf]
     ELSE PutIn(op, e)

EnterGather(operation, e) ==
  LET op == CheckRoot(operation, e)
  IN IF Refused(op) THEN op
     ELSE IF e.rank # e.call.root THEN IF e.call.inplace THEN Refuse("InvalidInPlace") ELSE PutIn(op, e)
     ELSE IF e.call.inplace THEN [op EXCEPT !.recvbuf = e.call.recvbuf]
     ELSE [PutIn(op, e) EXCEPT !.recvbuf = e.call.recvbuf]

EnterAllgather(op, e) == PutIn(Receiving(op, e), e)
EnterAllgatherv(op, e) == Receiving(PutIn(op, e), e)

EnterScatterv(operation, e) ==
  LET op == CheckRoot(operation, e)
  IN IF Refused(op) THEN op
     ELSE IF op.root = e.rank THEN PutIn(Receiving(op, e), e) ELSE Receiving(op, e)

\* MPI_IN_PLACE is kept as the receive buffer of the root: None here.
EnterScatter(operation, e) ==
  LET op == CheckRoot(operation, e)
  IN IF Refused(op) THEN op
     ELSE IF op.root = e.rank
     THEN IF e.call.inplace THEN PutIn(op, e) ELSE PutIn(Receiving(op, e), e)
     ELSE IF e.call.inplace THEN Refuse("InvalidInPlace") ELSE Receiving(op, e)

EnterBcast(operation, e) ==
  LET op == CheckRoot(operation, e)
  IN IF Refused(op) THEN op ELSE IF op.root = e.rank THEN PutIn(op, e) ELSE Receiving(op, e)

\* The operation and the count of the first process are those of the reduction.
EnterReduce(operation, e) ==
  LET first == [operation EXCEPT !.op = e.call.fn, !.count = e.call.count]
      op == CheckRoot(IF operation.op = None THEN first ELSE operation, e)
  IN IF e.call.root \notin 0 .. Size(e.comm) - 1 THEN Refuse("InvalidRank")
     ELSE IF operation.op # None /\ operation # first THEN Refuse("AssertionError")
     ELSE IF Refused(op) THEN op ELSE [PutIn(op, e) EXCEPT !.recvbuf = e.call.recvbuf]

\* The assertion compares op.fn_ptr with itself.  The receive buffer gets the process's own data
\* here already; what buffers hold before a call is completed is not kept, and complete_main
\* overwrites it.
EnterAllReduce(operation, e) ==
  LET op == IF operation.op = None
            THEN [operation EXCEPT !.op = e.call.fn, !.count = e.call.count] ELSE operation
  IN IF op.count # e.call.count THEN Refuse("AssertionError") ELSE PutIn(Receiving(op, e), e)

\* The last process reduces.
EnterReduceScatter(operation, e) ==
  LET op == IF operation.count = None
            THEN [operation EXCEPT !.op = e.call.fn, !.count = e.call.count] ELSE operation
      entered == PutIn(Receiving(op, e), e)
  IN IF op.count # e.call.count THEN Refuse("CountMismatch")
     ELSE IF entered.remaining_enter = 0
     THEN [entered EXCEPT !.final = entered.buffers, !.buffers = <<>>]
     ELSE entered

EnterWithBuffers(op, e) ==
  CASE op.name = "barrier" -> op
    [] op.name = "gatherv" -> EnterGatherv(op, e)
    [] op.name = "gather" -> EnterGather(op, e)
    [] op.name = "allgather" -> EnterAllgather(op, e)
    [] op.name = "allgatherv" -> EnterAllgatherv(op, e)
    [] op.name = "scatterv" -> EnterScatterv(op, e)
    [] op.name = "scatter" -> EnterScatter(op, e)
    [] op.name = "bcast" -> EnterBcast(op, e)
    [] op.name = "reduce" -> EnterReduce(op, e)
    [] op.name \in {"allreduce", "scan"} -> EnterAllReduce(op, e)
    [] op.name = "reduce_scatter" -> EnterReduceScatter(op, e)

-----------------------------------------------------------------------------
(* enter_main of the operations on communicators also changes the global   *)
(* state: operation i of G is entered.                                     *)

\* The members of the communicator of color c, sorted by key and old rank.
\* colors[r + 1] = <<color, key>> of rank r.
RanksOfColor(comm, colors, c) == {r \in 0 .. Size(comm) - 1 : colors[r + 1][1] = c}

SplitTable(comm, colors, c) ==
  LET before(r, q) == \/ colors[r + 1][2] < colors[q + 1][2]
                      \/ colors[r + 1][2] = colors[q + 1][2] /\ r < q
      order == InOrder(RanksOfColor(comm, colors, c), before)
  IN [i \in DOMAIN order |-> RankToPid(comm, order[i])]

\* What is split so far: the global state and the ids for the ranks.
SplitOff(comm, colors, split, c) ==
  LET group == NewGroup(<<"comm", split.G.comm_id_counter + 1, 0>>, SplitTable(comm, colors, c))
      H == CreateCommunicator(split.G, group)
  IN [G |-> H, ids |-> [i \in DOMAIN colors |-> IF i - 1 \in RanksOfColor(comm, colors, c)
                                                THEN H.comm_id_counter ELSE split.ids[i]]]

\* One communicator for each color, in the order of the colors, when everybody has entered.
SplitCommunicator(G, comm, colors) ==
  LET order == InOrder({colors[i][1] : i \in DOMAIN colors} \ {Undefined}, <)
      made[n \in 0 .. Len(order)] ==
        IF n = 0 THEN [G |-> G, ids |-> [i \in DOMAIN colors |-> CommNull]]
        ELSE SplitOff(comm, colors, made[n - 1], order[n])
  IN made[Len(order)]

EnterCommSplit(G, i, e) ==
  LET op == PutIn(Receiving(G.operations[i], e), e)
      split == SplitCommunicator(G, e.comm, op.buffers)
  IN IF e.call.color < 0 /\ e.call.color # Undefined THEN Refuse("InvalidColor")
     ELSE IF op.remaining_enter = 0
     THEN [split.G EXCEPT !.operations[i] = [op EXCEPT !.final = split.ids, !.buffers = <<>>]]
     ELSE [G EXCEPT !.operations[i] = op]

\* Mutant of EnterCommDup: each process makes a communicator.
EnterCommDupAlone(G, i, e) ==
  LET op == Receiving(G.operations[i], e)
      H == CreateCommunicator(G, e.comm.group)
  IN [H EXCEPT !.operations[i] = [op EXCEPT !.final = H.comm_id_counter],
               !.states[e.pid] = CopyCommAttrs(H.states[e.pid], e.comm.comm_id, H.comm_id_counter)]

\* The first process makes the communicator, each copies its attributes.
EnterCommDup(G, i, e) ==
  LET op == Receiving(G.operations[i], e)
      H == IF op.final = None THEN CreateCommunicator(G, e.comm.group) ELSE G
      id == IF op.final = None THEN H.comm_id_counter ELSE op.final
  IN [H EXCEPT !.operations[i] = [op EXCEPT !.final = id],
               !.states[e.pid] = CopyCommAttrs(H.states[e.pid], e.comm.comm_id, id)]

EnterCommCreate(G, i, e) ==
  LET op == Receiving(G.operations[i], e)
      first == op.final = None
      H == IF first THEN CreateCommunicator(G, e.group) ELSE G
  IN IF ~first /\ op.group.table # e.group.table THEN Refuse("GroupMismatch")
     ELSE IF first
     THEN [H EXCEPT !.operations[i] = [op EXCEPT !.final = H.comm_id_counter, !.group = e.group]]
     ELSE [H EXCEPT !.operations[i] = op]

EnterMain(G, i, e) ==
  LET op == G.operations[i]
      entered == EnterWithBuffers(op, e)
  IN CASE op.name = "comm_split" -> EnterCommSplit(G, i, e)
       [] op.name = "comm_dup" -> EnterCommDup(G, i, e)
       [] op.name = "comm_create" -> EnterCommCreate(G, i, e)
       [] OTHER -> IF Refused(entered) THEN entered ELSE [G EXCEPT !.operations[i] = entered]

\* check_compatability
Incompatible(op, call) ==
  IF op.name # call.name THEN "CollectiveMixing"
  ELSE IF op.blocking # call.blocking THEN "CollectiveMixingBlockingNonBlocking"
  ELSE "none"

\* CollectiveOperation.enter
Enter(G, i, e) == EnterMain([G EXCEPT !.operations[i].remaining_enter = @ - 1], i, e)

\* GlobalState.call_collective_operation
CallCollectiveOperation(w, p, comm, call, group) ==
  LET S == w.gstate.states[p]
      cc_id == GetCounter(S, comm)
      found == OperationIndex(w.gstate, comm.comm_id, cc_id)
      fresh == found = 0 \/ comm.comm_id = CommSelf
      operations == IF fresh THEN Append(w.gstate.operations, NewOperation(comm, cc_id, call))
                    ELSE w.gstate.operations
      i == IF fresh THEN Len(operations) ELSE found
      data == IF call.name = "comm_split" THEN <<call.color, call.key>> ELSE <<p, Len(w.log[p])>>
      e == [pid |-> p, rank |-> PidToRank(comm, p), comm |-> comm, call |-> call,
            data |-> data, group |-> group]
      G == [w.gstate EXCEPT !.operations = operations, !.states[p] = IncCounter(S, comm)]
      H == Enter(G, i, e)
  IN IF Incompatible(operations[i], call) # "none" THEN Fail(w, Incompatible(operations[i], call))
     ELSE IF Refused(H) THEN Fail(w, H.refused) ELSE [w EXCEPT !.gstate = H]

-----------------------------------------------------------------------------
(* complete_main of the classes: the receive buffer it writes to and what  *)
(* it writes there; None: it writes nothing.                               *)

At(buffer, value) == [buffer |-> buffer, value |-> value]

\* execute_reduce_op: the operation and the data, in the order of the ranks
Reduction(op, buffers) == [op |-> op.op, of |-> buffers]

CompleteGatherv(op, p) == IF p = op.root_pid THEN At(op.recvbuf, op.buffers) ELSE None
CompleteGather(op, p) == IF p = op.root_pid THEN At(op.recvbuf, op.buffers) ELSE None
CompleteAllgather(op, rank) == At(op.recvbufs[rank + 1], op.buffers)
CompleteAllgatherv(op, rank) == At(op.recvbufs[rank + 1], op.buffers)
CompleteScatterv(op, rank) == At(op.recvbufs[rank + 1], <<op.buffers[op.root + 1], rank>>)
CompleteScatter(op, rank) ==
  IF op.recvbufs[rank + 1] = None THEN None
  ELSE At(op.recvbufs[rank + 1], <<op.buffers[op.root + 1], rank>>)
CompleteBcast(op, rank) ==
  IF op.root = rank THEN None ELSE At(op.recvbufs[rank + 1], op.buffers[op.root + 1])
CompleteReduce(op, p) ==
  IF p = op.root_pid THEN At(op.recvbuf, Reduction(op, op.buffers)) ELSE None
CompleteAllReduce(op, rank) == At(op.recvbufs[rank + 1], Reduction(op, op.buffers))
CompleteReduceScatter(op, rank) == At(op.recvbufs[rank + 1], <<Reduction(op, op.final), rank>>)
CompleteScan(op, rank) ==
  At(op.recvbufs[rank + 1], Reduction(op, SubSeq(op.buffers, 1, rank + 1)))
CompleteCommSplit(op, rank) == At(op.recvbufs[rank + 1], op.final[rank + 1])
CompleteCommDup(op, rank) == At(op.recvbufs[rank + 1], op.final)
CompleteCommCreate(op, rank) == At(op.recvbufs[rank + 1], op.final)

CompleteMain(op, p, rank) ==
  CASE op.name = "barrier" -> None
    [] op.name = "gatherv" -> CompleteGatherv(op, p)
    [] op.name = "gather" -> CompleteGather(op, p)
    [] op.name = "allgather" -> CompleteAllgather(op, rank)
    [] op.name = "allgatherv" -> CompleteAllgatherv(op, rank)
    [] op.name = "scatterv" -> CompleteScatterv(op, rank)
    [] op.name = "scatter" -> CompleteScatter(op, rank)
    [] op.name = "bcast" -> CompleteBcast(op, rank)
    [] op.name = "reduce" -> CompleteReduce(op, p)
    [] op.name = "allreduce" -> CompleteAllReduce(op, rank)
    [] op.name = "reduce_scatter" -> CompleteReduceScatter(op, rank)
    [] op.name = "scan" -> CompleteScan(op, rank)
    [] op.name = "comm_split" -> CompleteCommSplit(op, rank)
    [] op.name = "comm_dup" -> CompleteCommDup(op, rank)
    [] op.name = "comm_create" -> CompleteCommCreate(op, rank)

\* complete_main asks the communicator for the rank, and there is none once it was freed.
AsksForRank(op, p) ==
  ~ \/ op.name \in {"barrier", "gather", "gatherv"}
    \/ op.name = "reduce" /\ p # op.root_pid

\* A result reaches the memory of p: new communicators as handles.
Write(M, op, serial, outcome) ==
  LET N == [M EXCEPT !.results = @ \cup {[serial |-> serial, outcome |-> outcome]}]
  IN IF op.name \in OnComms THEN [N EXCEPT !.comms[outcome.buffer] = outcome.value] ELSE N

\* Mutant of FinishCollectiveOperation: the first operation goes.
FinishFirstOperation(G, i) == [G EXCEPT !.operations = Tail(@)]

\* GlobalState.finish_collective_operation
FinishCollectiveOperation(G, i) == [G EXCEPT !.operations = RemoveAt(@, i)]

\* CollectiveOperation.complete
Complete(w, p, i, serial) ==
  LET op == w.gstate.operations[i]
      comm == GetComm(w.gstate.states[p], p, op.comm_id)
      outcome == CompleteMain(op, p, IF comm = None THEN None ELSE PidToRank(comm, p))
      counted == [w.gstate EXCEPT !.operations[i].remaining_complete = @ - 1]
      last == op.remaining_complete = 1
  IN IF comm = None /\ AsksForRank(op, p) THEN Fail(w, "AttributeError")
     ELSE [w EXCEPT !.memory[p] = Write(w.memory[p], op, serial, outcome),
                    !.gstate = IF last THEN FinishCollectiveOperation(counted, i) ELSE counted]

CloseRequest(w, p, id) ==
  LET r == CHOOSE r \in w.gstate.states[p].finished : r.id = id
      i == OperationIndex(w.gstate, r.comm_id, r.cc_id)
      done(v) == [v EXCEPT !.gstate.states[p].finished = @ \ {r}]
  IN Then(Complete(w, p, i, r.serial), done)

CloseTested(w, p, id) ==
  IF id = RequestNull \/ w.error # "none" THEN w ELSE CloseRequest(w, p, id)

\* Context.close_all_requests: MPI_Test writes MPI_REQUEST_NULL where it read the request.
CloseAllRequests(w, p) ==
  LET S == w.gstate.states[p]
      closed[n \in 0 .. Len(S.tested)] ==
        IF n = 0 THEN w ELSE CloseTested(closed[n - 1], p, S.tested[n])
      nullify(v) == [v EXCEPT !.memory[p].requests =
                       [x \in DOMAIN @ |-> IF x \in ToSet(S.pointer) THEN RequestNull ELSE @[x]]]
  IN Then(closed[Len(S.tested)], nullify)

-----------------------------------------------------------------------------
(* The calls. *)

LiveRequests(S) == ToSet(S.active) \cup S.finished
RequestIds(S) == {r.id : r \in LiveRequests(S)}

\* State.new_request_id, for one type of requests
NewRequestId(S) ==
  CHOOSE i \in 1 .. Cardinality(RequestIds(S)) + 1 :
    i \notin RequestIds(S) /\ \A j \in 1 .. i - 1 : j \in RequestIds(S)

SetWait(S, ids) == [S EXCEPT !.status = "wait", !.tested = ids, !.pointer = <<>>]
SetTest(S, ids, variables) ==
  [S EXCEPT !.status = "test", !.tested = ids, !.pointer = variables]
SetReady(S) == [S EXCEPT !.status = "ready", !.tested = <<>>, !.pointer = <<>>]

\* atypes.Comm, check_comm
CommOf(w, p, v) == GetComm(w.gstate.states[p], p, w.memory[p].comms[v])

\* mpicalls.call_collective_operation and call_collective_operation2
CollectiveCall(w, p, call) ==
  LET comm == CommOf(w, p, call.comm)
      S == w.gstate.states[p]
      r == [id |-> NewRequestId(S), comm_id |-> comm.comm_id, cc_id |-> GetCounter(S, comm),
            serial |-> Len(w.log[p]) + 1]
      group == IF call.name = "comm_create" THEN GetGroup(S, w.memory[p].groups[call.group])
               ELSE None
      entry == [comm |-> comm, call |-> call,
                group |-> IF group = None THEN None ELSE group.table]
      logged == [w EXCEPT !.log[p] = Append(@, entry)]
      post(v) ==
        LET u == [v EXCEPT !.gstate.states[p].active = Append(@, r)]
        IN IF call.blocking THEN [u EXCEPT !.gstate.states[p] = SetWait(u.gstate.states[p], <<r.id>>)]
           ELSE [u EXCEPT !.memory[p].requests[call.request] = r.id]
  IN IF comm = None THEN Fail(w, "InvalidCommunicator")
     ELSE IF call.name = "comm_create" /\ group = None THEN Fail(w, "InvalidGroup")
     ELSE Then(CallCollectiveOperation(logged, p, comm, call, group), post)

\* MPI_Wait and MPI_Waitall: the variables are reset at once.
WaitCall(w, p, call) ==
  LET ids == [i \in DOMAIN call.requests |-> w.memory[p].requests[call.requests[i]]]
  IN IF ~ (ToSet(ids) \subseteq RequestIds(w.gstate.states[p]) \cup {RequestNull})
     THEN Fail(w, "InvalidRequest")
     ELSE [w EXCEPT !.gstate.states[p] = SetWait(w.gstate.states[p], ids),
                    !.memory[p].requests =
                       [v \in DOMAIN @ |-> IF v \in ToSet(call.requests) THEN RequestNull ELSE @[v]]]

\* MPI_Test and MPI_Testall
TestCall(w, p, call) ==
  LET ids == [i \in DOMAIN call.requests |-> w.memory[p].requests[call.requests[i]]]
  IN IF ~ (ToSet(ids) \subseteq RequestIds(w.gstate.states[p]) \cup {RequestNull})
     THEN Fail(w, "InvalidRequest")
     ELSE [w EXCEPT !.gstate.states[p] = SetTest(w.gstate.states[p], ids, call.requests)]

\* MPI_Comm_free
CommFreeCall(w, p, call) ==
  LET comm == CommOf(w, p, call.comm)
  IN IF w.memory[p].comms[call.comm] \in {CommWorld, CommSelf}
     THEN Fail(w, "FreeingPermanentComm")
     ELSE IF comm = None THEN Fail(w, "InvalidCommunicator")
     ELSE [w EXCEPT !.gstate.states[p] = RemoveComm(w.gstate.states[p], comm),
                    !.memory[p].comms[call.comm] = CommNull]

\* MPI_Comm_group, MPI_Group_incl and MPI_Group_excl; "made" names the new Group object.
GroupCall(w, p, call) ==
  LET S == w.gstate.states[p]
      old == GetGroup(S, w.memory[p].groups[call.from])
      made(table) == NewGroup(<<"made", p, Len(todo[p])>>, table)
      give(group) == [w EXCEPT !.gstate.states[p] = AddGroup(S, group),
                               !.memory[p].groups[call.group] = FreeGroupId(S)]
  IN IF call.op = "Comm_group"
     THEN LET comm == CommOf(w, p, call.comm)
          IN IF comm = None THEN Fail(w, "InvalidCommunicator") ELSE give(comm.group)
     ELSE IF old = None THEN Fail(w, "InvalidGroup")
     ELSE IF \E i \in DOMAIN call.ranks : call.ranks[i] \notin 0 .. Len(old.table) - 1
     THEN Fail(w, "InvalidRank")
     ELSE IF call.op = "Group_incl" THEN give(made(Including(old, call.ranks)))
     ELSE IF ~ IsInjective(call.ranks) THEN Fail(w, "NonUniqueValues")
     ELSE give(made(Excluding(old, call.ranks)))

\* MPI_Group_free
GroupFreeCall(w, p, call) ==
  LET group == GetGroup(w.gstate.states[p], w.memory[p].groups[call.group])
  IN IF group = None THEN Fail(w, "InvalidGroup")
     ELSE [w EXCEPT !.gstate.states[p] = RemoveGroup(w.gstate.states[p], group),
                    !.memory[p].groups[call.group] = GroupNull]

\* MPI_Comm_create_keyval, _free_keyval, _set_attr and _delete_attr; a program names a key by
\* its number.
AttributeCall(w, p, call) ==
  LET S == w.gstate.states[p]
      comm == CommOf(w, p, call.comm)
      become(T) == [w EXCEPT !.gstate.states[p] = T]
      attrs == GetAttr(S, comm.comm_id, call.keyval)
  IN IF call.op = "Keyval_create" THEN become(AddKeyval(S, call.copy, call.delete))
     ELSE IF call.op # "Keyval_free" /\ comm = None THEN Fail(w, "InvalidCommunicator")
     ELSE IF call.keyval \notin DOMAIN S.keyvals \/ S.keyvals[call.keyval].freed
     THEN Fail(w, "InvalidKeyval")
     ELSE IF call.op = "Keyval_free" THEN become(RemoveKeyval(S, call.keyval))
     ELSE IF call.op = "Attr_put"
     THEN become(SetAttr(S, comm.comm_id, call.keyval, <<p, Len(todo[p])>>))
     ELSE IF attrs = {} THEN Fail(w, "AttributeNotFound")
     ELSE become(DeleteAttrs(S, attrs))

Execute(w, p, call) ==
  CASE call.op = "Collective" -> CollectiveCall(w, p, call)
    [] call.op = "Wait" -> WaitCall(w, p, call)
    [] call.op = "Test" -> TestCall(w, p, call)
    [] call.op = "Comm_free" -> CommFreeCall(w, p, call)
    [] call.op \in {"Comm_group", "Group_incl", "Group_excl"} -> GroupCall(w, p, call)
    [] call.op = "Group_free" -> GroupFreeCall(w, p, call)
    [] OTHER -> AttributeCall(w, p, call)

-----------------------------------------------------------------------------
(* The worker. *)

Init ==
  /\ gstate = [states |-> [p \in Procs |-> InitialState], operations |-> <<>>,
               comm_id_counter |-> CommUserdef]
  /\ memory = [p \in Procs |-> InitialMemory]
  /\ todo \in Programs
  /\ phase = "poll"
  /\ cursor = 0
  /\ error = "none"
  /\ log = [p \in Procs |-> <<>>]

\* An error ends the verification.
Proceed(next) == phase' = IF error' = "none" THEN next ELSE "end"

Running(p) == gstate.states[p].status = "running"

\* main_cycle: the controller of p answers with a call.
Call(p) ==
  /\ phase = "poll"
  /\ Running(p)
  /\ todo[p] # <<>>
  /\ \E call \in Head(todo[p]) : Become(Execute(Here, p, call))
  /\ todo' = [todo EXCEPT ![p] = Tail(@)]
  /\ Proceed("expand")
  /\ UNCHANGED cursor

\* main_cycle: the controller of p answers with EXIT.
Exit(p) ==
  /\ phase = "poll"
  /\ Running(p)
  /\ todo[p] = <<>>
  /\ gstate' = [gstate EXCEPT !.states[p].status = "finished"]
  /\ phase' = "expand"
  /\ UNCHANGED <<memory, todo, cursor, error, log>>

\* The active collective requests that check_collective_requests may finish.
Finishable ==
  LET completable(p, r) ==
        CanBeCompleted(gstate.operations[OperationIndex(gstate, r.comm_id, r.cc_id)], p)
  IN UNION {{<<p, k>> : k \in {j \in DOMAIN gstate.states[p].active :
                                completable(p, gstate.states[p].active[j])}} : p \in Procs}

\* fast_expand: check_collective_requests finishes the first of them.
FinishCollectiveRequest ==
  /\ phase = "expand"
  /\ \E f \in Finishable :
       /\ \A h \in Finishable : f[1] < h[1] \/ (f[1] = h[1] /\ f[2] <= h[2])
       /\ gstate' = [gstate EXCEPT
                       !.states[f[1]].active = RemoveAt(@, f[2]),
                       !.states[f[1]].finished = @ \cup {gstate.states[f[1]].active[f[2]]}]
  /\ UNCHANGED <<memory, todo, phase, cursor, error, log>>

NothingToFinish ==
  /\ phase = "expand"
  /\ Finishable = {}
  /\ phase' = "sweep"
  /\ cursor' = 0
  /\ UNCHANGED <<gstate, memory, todo, error, log>>

TestedFinished(S) ==
  ToSet(S.tested) \subseteq {r.id : r \in S.finished} \cup {RequestNull}

\* fast_expand_state
SweepState(w, p) ==
  LET S == w.gstate.states[p]
      run(v) == [v EXCEPT !.gstate.states[p] = [SetReady(v.gstate.states[p]) EXCEPT !.status = "running"]]
  IN CASE S.status = "wait" /\ TestedFinished(S) -> Then(CloseAllRequests(w, p), run)
       [] S.status = "ready" -> run(w)
       [] OTHER -> w

Sweep ==
  /\ phase = "sweep"
  /\ cursor \in Procs
  /\ Become(SweepState(Here, cursor))
  /\ cursor' = cursor + 1
  /\ Proceed("sweep")
  /\ UNCHANGED todo

\* fast_expand returns whether a process runs; if none does, a node is made.
EndSweep ==
  /\ phase = "sweep"
  /\ cursor = ProcessCount
  /\ phase' = IF \E p \in Procs : Running(p) THEN "poll" ELSE "node"
  /\ cursor' = 0
  /\ UNCHANGED <<gstate, memory, todo, error, log>>

\* ActionFlag0: the test fails.
Flag0(p) ==
  /\ phase = "node"
  /\ gstate.states[p].status = "test"
  /\ gstate' = [gstate EXCEPT !.states[p] = SetReady(gstate.states[p])]
  /\ phase' = "expand"
  /\ UNCHANGED <<memory, todo, cursor, error, log>>

\* ActionTestAll: the test succeeds.
TestAll(p) ==
  /\ phase = "node"
  /\ gstate.states[p].status = "test"
  /\ TestedFinished(gstate.states[p])
  /\ LET ready(v) == [v EXCEPT !.gstate.states[p] = SetReady(v.gstate.states[p])]
     IN Become(Then(CloseAllRequests(Here, p), ready))
  /\ Proceed("expand")
  /\ UNCHANGED <<todo, cursor>>

\* continue_in_execution at a node without actions: a deadlock, or the end of the program and
\* the leak check.
FinalNode ==
  /\ phase = "node"
  /\ \A p \in Procs : gstate.states[p].status # "test"
  /\ phase' = "end"
  /\ error' = IF \E p \in Procs : gstate.states[p].status # "finished" THEN "Deadlock"
              ELSE IF \E p \in Procs : LiveRequests(gstate.states[p]) # {} THEN "NotFreedRequest"
              ELSE "none"
  /\ UNCHANGED <<gstate, memory, todo, cursor, log>>

Ended == phase = "end" /\ UNCHANGED vars

Next ==
  \/ \E p \in Procs : Call(p) \/ Exit(p) \/ Flag0(p) \/ TestAll(p)
  \/ FinishCollectiveRequest
  \/ NothingToFinish
  \/ Sweep
  \/ EndSweep
  \/ FinalNode
  \/ Ended

Spec == Init /\ [][Next]_vars

-----------------------------------------------------------------------------
(* Properties. *)

Closed(p) == {r.serial : r \in memory[p].results}

\* The finished calls of every process.
Done == [p \in Procs |-> {r.serial : r \in gstate.states[p].finished} \cup Closed(p)]

Service == INSTANCE CollectiveService WITH done <- Done

\* Each path of the verifier is a behaviour of MPI's collective operations: calls are put
\* together by their order on a communicator although the code only counts them, blocking
\* calls block, and no request is finished before the data the process needs was entered.
Implements == Service!Spec

CommCall(p, s) == log[p][s].call.name \in OnComms

\* The calls of processes p and q that belong to one operation.
Related(p, q) ==
  {st \in (DOMAIN log[p]) \X (DOMAIN log[q]) : Service!Together(p, st[1], q, st[2])}

\* Processes that pass different receive buffers to one Reduce: the verifier writes to the one
\* of the last process that entered, see the hazard at Reduce.enter_main.
SameBuffers(p, s) ==
  log[p][s].call.name = "reduce" =>
    \A q \in Procs : \A st \in Related(p, q) :
      st[1] = s => log[q][st[2]].call.recvbuf = log[p][s].call.recvbuf

\* Likewise for calls of one reduction with different operations: only Reduce compares them.
SameReduction(p, s) ==
  log[p][s].call.name \in Reducing =>
    \A q \in Procs : \A st \in Related(p, q) :
      st[1] = s => log[q][st[2]].call.fn = log[p][s].call.fn

\* What a collective call writes when its request is closed is what MPI asks for: the data of
\* the right calls of the other processes, in the order of the ranks, to the buffer of this
\* call, whatever order the processes came and completed in.
ResultsAreRight ==
  \A p \in Procs : \A r \in memory[p].results :
    (~CommCall(p, r.serial) /\ SameBuffers(p, r.serial) /\ SameReduction(p, r.serial))
      => r.outcome = Service!Result(p, r.serial)

\* An operation that processes of one communicator work on: its counts of processes are those
\* of the calls made and completed, no two objects stand for the same calls, and calls that
\* are not completed have an object.  The counters of a process number its calls.
OperationsMatchCalls ==
  error = "none" =>
    /\ \A i \in DOMAIN gstate.operations :
         LET op == gstate.operations[i]
             calls(q) == {t \in DOMAIN log[q] : /\ log[q][t].comm.comm_id = op.comm_id
                                               /\ Service!Position(q, t) = op.cc_id + 1}
         IN op.comm_id # CommSelf =>
              /\ op.remaining_enter + Cardinality({q \in Procs : calls(q) # {}}) = op.process_count
              /\ op.remaining_complete
                   + Cardinality({q \in Procs : calls(q) \cap Closed(q) # {}}) = op.process_count
              /\ OperationIndex(gstate, op.comm_id, op.cc_id) = i
    /\ \A p \in Procs : \A t \in DOMAIN log[p] \ Closed(p) :
         OperationIndex(gstate, log[p][t].comm.comm_id, Service!Position(p, t) - 1) # 0
    /\ \A p \in Procs : \A c \in ToSet(gstate.states[p].comms) :
         GetCounter(gstate.states[p], c) =
           Cardinality({t \in DOMAIN log[p] : log[p][t].comm.comm_id = c.comm_id})

\* Handles of new communicators: processes that belong together got the same id, other
\* communicators have other ids, and a member finds under this id the group MPI asks for.
CommunicatorsAgree ==
  \A p \in Procs, q \in Procs :
    \A r \in memory[p].results, u \in memory[q].results :
      (CommCall(p, r.serial) /\ CommCall(q, u.serial)) =>
        LET table == Service!NewTable(p, r.serial)
            other == Service!NewTable(q, u.serial)
            known == {c \in ToSet(gstate.states[p].comms) : c.comm_id = r.outcome.value}
            held == r.outcome.value \in ToSet(memory[p].comms)
        IN /\ (table = <<>>) = (r.outcome.value = CommNull)
           /\ table # <<>> /\ other # <<>> =>
                (r.outcome.value = u.outcome.value) =
                  (table = other /\ Service!Together(p, r.serial, q, u.serial))
           /\ \A c \in known : c.group.table = table
           /\ held /\ p \in ToSet(table) => known # {}

Differ(a, b, error_name) ==
  CASE error_name = "CollectiveMixing" -> a.call.name # b.call.name
    [] error_name = "CollectiveMixingBlockingNonBlocking" ->
         a.call.name = b.call.name /\ a.call.blocking # b.call.blocking
    [] error_name = "RootMismatch" ->
         a.call.name = b.call.name /\ a.call.name \in Rooted /\ a.call.root # b.call.root
    [] error_name = "GroupMismatch" ->
         a.call.name = b.call.name /\ a.call.name = "comm_create" /\ a.group # b.group
    [] error_name = "CountMismatch" ->
         a.call.name = b.call.name /\ a.call.name = "reduce_scatter" /\ a.call.count # b.call.count
    [] error_name = "AssertionError" ->
         /\ a.call.name = b.call.name /\ a.call.name \in Reducing
         /\ <<a.call.fn, a.call.count>> # <<b.call.fn, b.call.count>>

Mismatches == {"CollectiveMixing", "CollectiveMixingBlockingNonBlocking", "RootMismatch",
               "GroupMismatch", "CountMismatch"}

Mismatch(e) ==
  \E p \in Procs, q \in Procs : \E st \in Related(p, q) :
    Differ(log[p][st[1]], log[q][st[2]], e)

\* Errors of collective calls are exact.  A mismatch is reported only if two calls of one
\* operation differ so, and calls that differ are reported as soon as both were made, in
\* whatever order the processes came; reductions that differ may end in a failed
\* assertion.  A deadlock is reported only if every process that has
\* not ended waits for a call whose data is missing.  The verifier itself fails only over an
\* operation on a communicator that the program freed before the operation was completed.
ErrorsAreExact ==
  /\ error \in Mismatches \cup {"AssertionError"} => Mismatch(error)
  /\ error \in {"none", "Deadlock"} => \A e \in Mismatches : ~Mismatch(e)
  /\ error = "Deadlock" =>
       \A p \in Procs : gstate.states[p].status # "finished" =>
         \E s \in DOMAIN log[p] \ Done[p] : ~Service!MayFinish(p, s)
  /\ error = "AttributeError" =>
       \E p \in Procs : \E r \in gstate.states[p].finished :
         GetComm(gstate.states[p], p, r.comm_id) = None

\* No attribute is lost or deleted twice: those ever attached whose key has a delete callback
\* are attached to a communicator the process still has, or went through the callback.
AttributesAreAccounted ==
  \A p \in Procs :
    LET S == gstate.states[p]
    IN /\ S.deleted \cap S.attrs = {}
       /\ \A a \in S.made : S.keyvals[a.keyval].delete => a \in S.deleted \cup S.attrs
       /\ \A a \in S.attrs : GetComm(S, p, a.comm) # None

=============================================================================
