---------------------------- MODULE FullProtocol ----------------------------
(***************************************************************************)
(* The state space that a search with the send protocol "full" builds:     *)
(* nodes are the global states in which no process runs, arcs hold the     *)
(* events on the way from one node to the next (mpi/event.py).  The        *)
(* program is a sequence of calls for each process, without tags:          *)
(*                                                                         *)
(*   send     to peer; kind "std", "rendezvous" (Ssend) or "eager" (Bsend) *)
(*   recv     from peer, which may be AnySource                            *)
(*   coll     a blocking collective operation on one of Comms, with the    *)
(*            process root that sends to all, or None: a barrier           *)
(*   waitall, waitany, testall   on all open requests of the process;      *)
(*            testall is called again as long as the answer is no          *)
(*                                                                         *)
(* The set sync names the calls <<pid, serial>>, standard sends and        *)
(* operations with a root, that an implementation of MPI completes only    *)
(* when the other side has come.  The verifier works with sync = {}.       *)
(***************************************************************************)
EXTENDS Integers, Sequences, FiniteSets, SequencesExt, FiniteSetsExt, Functions

CONSTANTS ProcessCount, Comms, AnySource, None

ASSUME FullProtocolAssumption == ProcessCount \in Nat \ {0} /\ None \notin 0 .. ProcessCount - 1

Procs == 0 .. ProcessCount - 1

-----------------------------------------------------------------------------
(* Requests.  An id names its process and type: <<pid, number, type>>.     *)

PidOf(id) == id[1]
TypeOf(id) == id[3]

SendTypes == {"std", "rendezvous", "eager"}
IsSend(r) == TypeOf(r.id) \in SendTypes
IsReceive(r) == TypeOf(r.id) = "receive"

\* State.new_request_id
NewRequestId(S, p, type) ==
  LET used == {r.id : r \in ToSet(S.active)} \cup S.finished
      free(k) == <<p, k, type>> \notin used
      numbers == 1 .. Cardinality(used) + 1
  IN <<p, CHOOSE k \in numbers : free(k) /\ \A j \in 1 .. k - 1 : ~free(j), type>>

\* get_send_type, and what a synchronous implementation makes of the send.
RequestType(p, serial, call, sync) ==
  CASE call.op = "recv" -> "receive"
    [] call.op = "coll" -> "collective"
    [] <<p, serial>> \in sync -> "rendezvous"
    [] OTHER -> call.kind

-----------------------------------------------------------------------------
(* A world is a pair of the states of the processes and of the events      *)
(* since the last node.                                                    *)

InitialState ==
  [pc |-> 1, status |-> "ready", tested |-> <<>>, active |-> <<>>, finished |-> {}, open |-> <<>>,
   counters |-> [c \in Comms |-> 0]]

World(states) == [states |-> states, events |-> <<>>]

AddEvent(w, e) == [w EXCEPT !.events = Append(@, e)]

CallEvent(p, serial, request, cc) ==
  [name |-> "Call", pid |-> p, serial |-> serial, request |-> request, cc |-> cc]
MatchEvent(source, target) == [name |-> "Match", source_id |-> source, target_id |-> target]
ContinueEvent(p, ids) == [name |-> "Continue", pid |-> p, request_ids |-> ids]
ExitEvent(p) == [name |-> "Exit", pid |-> p]

Suppressed(S, i) ==
  \E j \in 1 .. i - 1 : IsReceive(S.active[j]) /\ S.active[j].peer \in {AnySource, S.active[i].peer}

\* The first message from process q to process p, 0: there is none.
FirstSend(states, q, p) ==
  SelectInSeq(states[q].active, LAMBDA r : IsSend(r) /\ r.peer = p)

\* Matchings <<source pid, position, target pid, position>>, in the order of the code.
Matchings(states, p, nondeterministic) ==
  LET S == states[p]
      matchable(i) == /\ IsReceive(S.active[i])
                      /\ (S.active[i].peer = AnySource) = nondeterministic
                      /\ ~Suppressed(S, i)
      sources(i) == {q \in Procs : /\ FirstSend(states, q, p) # 0
                                   /\ S.active[i].peer \in {AnySource, q}}
      from(i) == LET order == SetToSortSeq(sources(i), <)
                 IN [k \in DOMAIN order |-> <<order[k], FirstSend(states, order[k], p), p, i>>]
  IN FlattenSeq([i \in DOMAIN S.active |-> IF matchable(i) THEN from(i) ELSE <<>>])

\* GlobalContext.apply_matching
ApplyMatching(w, m) ==
  LET s == w.states[m[1]].active[m[2]]
      r == w.states[m[3]].active[m[4]]
      received == [w.states EXCEPT ![m[3]].active = RemoveAt(@, m[4]), ![m[3]].finished = @ \cup {r.id}]
      i == SelectInSeq(received[m[1]].active, LAMBDA q : q.id = s.id)
      sent == [received EXCEPT ![m[1]].active = RemoveAt(@, i),
                               ![m[1]].finished =
                                  IF TypeOf(s.id) = "rendezvous" THEN @ \cup {s.id} ELSE @]
  IN [AddEvent(w, MatchEvent(s.id, r.id)) EXCEPT !.states = sent]

\* can_be_completed, for the n-th operation on a communicator: who has to have entered.
Awaited(p, r, sync) ==
  IF r.root = None \/ <<p, r.serial>> \in sync THEN Procs ELSE {r.root}

Finishable(states, sync) ==
  {pi \in Procs \X (1 .. Max({Len(states[p].active) : p \in Procs})) :
     /\ pi[2] \in DOMAIN states[pi[1]].active
     /\ LET r == states[pi[1]].active[pi[2]]
        IN /\ TypeOf(r.id) = "collective"
           /\ \A q \in Awaited(pi[1], r, sync) : states[q].counters[r.comm] > r.cc}

\* State.finish_collective_request
FinishCollective(w, pi) ==
  LET id == w.states[pi[1]].active[pi[2]].id
  IN [w EXCEPT !.states[pi[1]].active = RemoveAt(@, pi[2]), !.states[pi[1]].finished = @ \cup {id}]

\* Context.close_requests
CloseRequests(w, p, ids) ==
  LET closed(S) == [S EXCEPT !.finished = @ \ ToSet(ids), !.tested = <<>>,
                             !.open = SelectSeq(@, LAMBDA id : id \notin ToSet(ids))]
  IN [AddEvent(w, ContinueEvent(p, ids)) EXCEPT !.states[p] = closed(@)]

TestedFinished(S) == ToSet(S.tested) \subseteq S.finished

\* fast_expand_state
Ready(S) ==
  \/ S.status = "ready"
  \/ S.status = "waitall" /\ TestedFinished(S)
  \/ S.status = "waitany" /\ Len(S.tested) = 1 /\ TestedFinished(S)

ContinueProcess(w, p) ==
  LET v == IF w.states[p].status = "ready" THEN w ELSE CloseRequests(w, p, w.states[p].tested)
  IN [v EXCEPT !.states[p].status = "running"]

-----------------------------------------------------------------------------
(* The calls of a running process. *)

\* State.activate_request and add_collective_request: sends that are not rendezvous are active
\* and finished at once.
Activate(w, p, call, sync) ==
  LET S == w.states[p]
      type == RequestType(p, S.pc, call, sync)
      id == NewRequestId(S, p, type)
      collective == call.op = "coll"
      r == IF collective
           THEN [id |-> id, comm |-> call.comm, root |-> call.root, serial |-> S.pc,
                 cc |-> S.counters[call.comm]]
           ELSE [id |-> id, peer |-> call.peer]
      cc == IF collective THEN <<call.comm, S.counters[call.comm]>> ELSE None
      T == [S EXCEPT !.active = Append(@, r),
                     !.finished = IF type \in {"std", "eager"} THEN @ \cup {id} ELSE @,
                     !.counters = IF collective THEN [@ EXCEPT ![call.comm] = @ + 1] ELSE @,
                     !.pc = @ + 1]
      U == IF call.blocking THEN [T EXCEPT !.status = "waitall", !.tested = <<id>>]
           ELSE [T EXCEPT !.open = Append(@, id)]
  IN [AddEvent(w, CallEvent(p, S.pc, id, cc)) EXCEPT !.states[p] = U]

\* MPI_Waitall, MPI_Waitany and MPI_Testall: MPI_Testall comes back to itself.
WaitOrTest(w, p, call) ==
  LET S == w.states[p]
      T == IF S.open = <<>> THEN [S EXCEPT !.pc = @ + 1]
           ELSE [S EXCEPT !.status = call.op, !.tested = S.open,
                          !.pc = IF call.op = "testall" THEN @ ELSE @ + 1]
  IN [AddEvent(w, CallEvent(p, S.pc, None, None)) EXCEPT !.states[p] = T]

NextCall(w, program, p, sync) ==
  LET pc == w.states[p].pc
      call == program[p][pc]
  IN IF pc > Len(program[p])
     THEN [AddEvent(w, ExitEvent(p)) EXCEPT !.states[p].status = "finished"]
     ELSE IF call.op \in {"send", "recv", "coll"} THEN Activate(w, p, call, sync)
     ELSE WaitOrTest(w, p, call)

\* The loop of Worker.fast_expand and Generator.main_cycle.  Of the processes that run, the
\* first one calls next: the calls of different processes commute.
RECURSIVE Expand(_, _, _)
Expand(w, program, sync) ==
  LET matchings == FlattenSeq([i \in 1 .. ProcessCount |-> Matchings(w.states, i - 1, FALSE)])
      finishable == Finishable(w.states, sync)
      ready == {p \in Procs : Ready(w.states[p])}
      running == {p \in Procs : w.states[p].status = "running"}
  IN IF matchings # <<>> THEN Expand(ApplyMatching(w, matchings[1]), program, sync)
     ELSE IF finishable # {}
     THEN Expand(FinishCollective(w, CHOOSE pi \in finishable : TRUE), program, sync)
     ELSE IF ready # {} THEN Expand(ContinueProcess(w, Min(ready)), program, sync)
     ELSE IF running # {} THEN Expand(NextCall(w, program, Min(running), sync), program, sync)
     ELSE w

-----------------------------------------------------------------------------
(* Nodes and actions. *)

\* get_actions: the worlds in which they leave a node.
WaitAnyActions(states, p) ==
  LET S == states[p]
      ids == SelectSeq(S.tested, LAMBDA id : id \in S.finished)
      ready(w) == [w EXCEPT !.states[p].status = "ready"]
  IN [i \in DOMAIN ids |-> ready(CloseRequests(World(states), p, <<ids[i]>>))]

TestActions(states, p) ==
  LET S == states[p]
      ready(w) == [w EXCEPT !.states[p].status = "ready", !.states[p].tested = <<>>]
      passed(w) == [ready(CloseRequests(w, p, S.tested)) EXCEPT !.states[p].pc = @ + 1]
  IN <<ready(World(states))>> \o (IF TestedFinished(S) THEN <<passed(World(states))>> ELSE <<>>)

ProcessActions(states, p) ==
  CASE states[p].status = "waitany" -> WaitAnyActions(states, p)
    [] states[p].status = "testall" -> TestActions(states, p)
    [] OTHER -> <<>>

\* In the order in which the depth-first search takes them from its queue.
Actions(states) ==
  LET matchings == FlattenSeq([i \in 1 .. ProcessCount |-> Matchings(states, i - 1, TRUE)])
  IN Reverse([i \in DOMAIN matchings |-> ApplyMatching(World(states), matchings[i])]
             \o FlattenSeq([i \in 1 .. ProcessCount |-> ProcessActions(states, i - 1)]))

\* A state space: nodes[n] is the global state of node n; arcs[n] is the sequence of the arcs
\* [to, events] that leave it.
RECURSIVE Explore(_, _, _)
Explore(space, program, sync) ==
  LET n == Len(space.arcs) + 1
      step(acc, w) ==
        LET reached == Expand(w, program, sync)
            i == SelectInSeq(acc.nodes, LAMBDA s : s = reached.states)
            known == i # 0
        IN [nodes |-> IF known THEN acc.nodes ELSE Append(acc.nodes, reached.states),
            arcs |-> Append(acc.arcs, [to |-> IF known THEN i ELSE Len(acc.nodes) + 1,
                                       events |-> reached.events])]
      expanded == FoldLeft(step, [nodes |-> space.nodes, arcs |-> <<>>],
                           IF n = 2 THEN <<World(space.nodes[2])>> ELSE Actions(space.nodes[n]))
  IN IF n > Len(space.nodes) THEN space
     ELSE Explore([nodes |-> expanded.nodes, arcs |-> Append(space.arcs, expanded.arcs)],
                  program, sync)

\* Node 1 is the state before MPI_Init, node 2 the state after it.
StateSpace(program, sync) ==
  LET started == [p \in Procs |-> InitialState]
      init == [p \in Procs |-> [InitialState EXCEPT !.status = "init"]]
  IN Explore([nodes |-> <<init, started>>, arcs |-> <<<<[to |-> 2, events |-> <<>>]>>>>],
             program, sync)

-----------------------------------------------------------------------------
(* What the search itself reports. *)

Unfinished(states) == {p \in Procs : states[p].status # "finished"}

\* Nodes at which it found a deadlock.
StuckNodes(space) ==
  {n \in DOMAIN space.nodes : space.arcs[n] = <<>> /\ Unfinished(space.nodes[n]) # {}}

\* No deadlock, and mpi_leak_check of the final nodes finds nothing.
Clean(space) ==
  /\ StuckNodes(space) = {}
  /\ \A n \in DOMAIN space.nodes :
       space.arcs[n] = <<>> => \A p \in Procs : /\ space.nodes[n][p].active = <<>>
                                               /\ space.nodes[n][p].finished = {}

=============================================================================
