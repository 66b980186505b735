------------------------------- MODULE Ndsync -------------------------------
(***************************************************************************)
(* The analysis of synchronous sends (mpi/ndsync.py).  The search lets     *)
(* every standard send go on at once.  NdsyncChecker walks over the        *)
(* finished state space and finds out whether the program would deadlock   *)
(* if MPI chose to make some of the sends, or of the collective            *)
(* operations, synchronous.                                                *)
(*                                                                         *)
(* A mark stands for such a choice: the event of the call and its request. *)
(* A marking says, for one way to a node, which choices each process and   *)
(* each request depends on: were one of them made, the process would not   *)
(* have come so far.  The marks of a process that matches a send are what  *)
(* the end of the send depends on; marks that depend on each other in a    *)
(* circle are a deadlock.                                                  *)
(***************************************************************************)
EXTENDS FullProtocol

CONSTANT Programs

VARIABLES
  program,   \* the program that is verified
  space,     \* its state space
  markings,  \* the markings of the nodes that were reached and not yet processed
  queue,     \* nodes whose arcs to them have all been processed
  indegree,  \* for each node the number of those that have not
  outcome    \* what the analysis says so far

vars == <<program, space, markings, queue, indegree, outcome>>

-----------------------------------------------------------------------------
(* Markings. *)

\* Events are told from each other by their place: <<node, arc, index>>.
NewMark(key, event) ==
  [key |-> key, pid |-> event.pid, serial |-> event.serial, request_id |-> event.request]

NoMarks == [x \in {} |-> {}]

EmptyMarking ==
  [process |-> [p \in Procs |-> {}],  \* process_marks
   active |-> NoMarks, finished |-> NoMarks,  \* of the requests
   ssend |-> NoMarks,      \* from requests of standard sends to their marks
   terminate |-> NoMarks,  \* from marks to the marks on which their end depends
   collectives |-> <<>>]   \* operations that not all have entered: [cc, marks]

Put(f, x, v) == [y \in DOMAIN f \cup {x} |-> IF y = x THEN v ELSE f[y]]
Drop(f, x) == Restrict(f, DOMAIN f \ {x})
Without(f, marks) == [x \in DOMAIN f |-> f[x] \ marks]

\* Marking.get_event_marks: what an event depends on.
GetEventMarks(M, e) ==
  CASE e.name = "Match" -> M.active[e.source_id] \cup M.active[e.target_id]
    [] e.name = "Continue" ->
         LET ids == ToSet(e.request_ids)
         IN M.process[e.pid] \cup UNION {M.finished[id] : id \in ids}
              \cup {M.ssend[id] : id \in ids \cap DOMAIN M.ssend}
    [] OTHER -> M.process[e.pid]

\* Mutant of RemoveMarks: finished requests keep the marks.
RemoveMarksOfActive(M, marks) ==
  [process |-> Without(M.process, marks),
   active |-> Without(M.active, marks),
   finished |-> M.finished,
   ssend |-> Restrict(M.ssend, {id \in DOMAIN M.ssend : M.ssend[id] \notin marks}),
   terminate |-> Restrict(Without(M.terminate, marks), DOMAIN M.terminate \ marks),
   collectives |-> [i \in DOMAIN M.collectives |->
                      [M.collectives[i] EXCEPT !.marks = Without(@, marks)]]]

\* Marking.remove_marks
RemoveMarks(M, marks) ==
  [process |-> Without(M.process, marks),
   active |-> Without(M.active, marks),
   finished |-> Without(M.finished, marks),
   ssend |-> Restrict(M.ssend, {id \in DOMAIN M.ssend : M.ssend[id] \notin marks}),
   terminate |-> Restrict(Without(M.terminate, marks), DOMAIN M.terminate \ marks),
   collectives |-> [i \in DOMAIN M.collectives |->
                      [M.collectives[i] EXCEPT !.marks = Without(@, marks)]]]

\* Marking.remove_marks_and_cleanup: marks whose end depends on nothing go too.
RECURSIVE RemoveMarksAndCleanup(_, _)
RemoveMarksAndCleanup(M, marks) ==
  LET N == RemoveMarks(M, marks)
      ended == {m \in DOMAIN N.terminate : N.terminate[m] = {}}
  IN IF ended = {} THEN N ELSE RemoveMarksAndCleanup(N, {CHOOSE m \in ended : TRUE})

\* Mutant of MatchMark: what depends on the operation that ends is not cleaned up.
MatchMarkOnly(M, mark, marks) ==
  IF marks # {} THEN [M EXCEPT !.terminate = Put(@, mark, marks)] ELSE RemoveMarks(M, {mark})

\* Marking.match: the operation of mark ends, if marks permit it.
MatchMark(M, mark, marks) ==
  IF marks # {} THEN [M EXCEPT !.terminate = Put(@, mark, marks)]
  ELSE RemoveMarksAndCleanup(M, {mark})

\* Marking.add_collective
AddCollective(M, key, e) ==
  LET mark == NewMark(key, e)
      marks == M.process[e.pid]
      i == SelectInSeq(M.collectives, LAMBDA c : c.cc = e.cc)
      entered == IF i = 0 THEN [cc |-> e.cc, marks |-> Put(NoMarks, mark, marks)]
                 ELSE [M.collectives[i] EXCEPT !.marks = Put(@, mark, marks)]
      finished == [M EXCEPT !.finished = Put(@, e.request, marks \cup {mark})]
      all == UNION Range(entered.marks)
  IN IF Cardinality(DOMAIN entered.marks) = ProcessCount
     THEN FoldSet(LAMBDA m, N : MatchMark(N, m, all),
                  [finished EXCEPT !.collectives = IF i = 0 THEN @ ELSE RemoveAt(@, i)],
                  DOMAIN entered.marks)
     ELSE [finished EXCEPT !.collectives = IF i = 0 THEN Append(@, entered)
                                           ELSE [@ EXCEPT ![i] = entered]]

\* Marking.process_new_request
ProcessNewRequest(M, key, e) ==
  LET type == TypeOf(e.request)
      marks == M.process[e.pid]
      active == [M EXCEPT !.active = Put(@, e.request, marks)]
      finished == [active EXCEPT !.finished = Put(@, e.request, marks)]
  IN CASE type = "collective" -> AddCollective(M, key, e)
       [] type = "eager" -> finished
       [] type = "std" -> [finished EXCEPT !.ssend = Put(@, e.request, NewMark(key, e))]
       [] OTHER -> active

\* Marking.process_event for a MatchEvent
ProcessMatch(M, e) ==
  LET s == e.source_id
      target == M.active[e.target_id]
      new == M.active[s] \cup target
      matched == [M EXCEPT !.active = Drop(Drop(@, s), e.target_id),
                           !.finished = Put(@, e.target_id, new)]
      closed == s \notin DOMAIN M.finished
      matching == IF closed THEN [matched EXCEPT !.ssend = Drop(@, s)]
                  ELSE [matched EXCEPT !.finished[s] = @ \cup new]
  IN CASE TypeOf(s) = "rendezvous" -> [matched EXCEPT !.finished = Put(@, s, new)]
       [] TypeOf(s) = "eager" -> matched
       [] ~closed \/ s \in DOMAIN M.ssend -> MatchMark(matching, M.ssend[s], target)
       [] OTHER -> matching

\* Mutant of CloseMark: a process goes on behind a standard send as if it were buffered.
CloseRequest(M, p, id) ==
  [M EXCEPT !.finished = Drop(@, id),
            !.ssend = IF id \in DOMAIN M.active THEN @ ELSE Drop(@, id),
            !.process[p] = @ \cup M.finished[id]]

\* Marking.process_event for a Continue, one request: a process that goes on behind a standard
\* send depends on its mark.
CloseMark(M, p, id) ==
  LET marks == M.finished[id] \cup
                 (IF TypeOf(id) = "std" /\ id \in DOMAIN M.ssend THEN {M.ssend[id]} ELSE {})
  IN [M EXCEPT !.finished = Drop(@, id),
               !.ssend = IF id \in DOMAIN M.active THEN @ ELSE Drop(@, id),
               !.process[p] = @ \cup marks]

ProcessEvent(M, key, e) ==
  CASE e.name = "Match" -> ProcessMatch(M, e)
    [] e.name = "Continue" -> FoldLeft(LAMBDA N, id : CloseMark(N, e.pid, id), M, e.request_ids)
    [] e.name = "Call" /\ e.request # None -> ProcessNewRequest(M, key, e)
    [] OTHER -> M

-----------------------------------------------------------------------------
(* Markings that are alike. *)

MarksOf(collective) == SetToSortSeq(DOMAIN collective.marks, LAMBDA m, n : m.pid < n.pid)

\* The marks that is_covered_by relates before it tries the bijections.
BaseMapping(M, N) ==
  LET by_request == {<<M.ssend[id], N.ssend[id]>> : id \in DOMAIN M.ssend}
      peer(c) == CHOOSE d \in ToSet(N.collectives) : d.cc = c.cc
      by_process(c) == {<<MarksOf(c)[i], MarksOf(peer(c))[i]>> : i \in 1 .. Cardinality(DOMAIN c.marks)}
      pairs == by_request \cup UNION {by_process(c) : c \in ToSet(M.collectives)}
  IN [m \in {pair[1] : pair \in pairs} |-> CHOOSE n \in {pair[2] : pair \in pairs} : <<m, n>> \in pairs]

\* Marking.is_covered_by.  The code also compares the marks of processes and collective
\* operations, but goes on to the same conclusion.
Covers(N, M, mapping) ==
  LET image(marks) == {mapping[m] : m \in marks}
  IN /\ \A id \in DOMAIN M.active : image(M.active[id]) = N.active[id]
     /\ \A id \in DOMAIN M.finished : image(M.finished[id]) = N.finished[id]
     /\ \A m \in DOMAIN M.terminate : image(M.terminate[m]) = N.terminate[mapping[m]]

Bijections(S, T) == {f \in [S -> T] : IsInjective(f)}

IsCoveredBy(M, N) ==
  LET base == BaseMapping(M, N)
  IN /\ Cardinality(DOMAIN M.terminate) = Cardinality(DOMAIN N.terminate)
     /\ \E b \in Bijections(DOMAIN M.terminate, DOMAIN N.terminate) :
          Covers(N, M, [m \in DOMAIN base \cup DOMAIN b |-> IF m \in DOMAIN b THEN b[m] ELSE base[m]])

\* is_covered_by asserts that both have marks for as many sends, and looks them up in the other.
Comparable(M, N) ==
  Cardinality(DOMAIN M.terminate) = Cardinality(DOMAIN N.terminate) => DOMAIN M.ssend = DOMAIN N.ssend

\* NdsyncChecker.add_marking, on the list of the markings of the node.  It compares with one
\* after the other until it finds one that covers M.
AddMarking(list, M) ==
  IF M \in ToSet(list) \/ \E i \in DOMAIN list : IsCoveredBy(M, list[i]) THEN list
  ELSE Append(list, M)

AssertionFails(list, M) ==
  /\ M \notin ToSet(list)
  /\ \E i \in DOMAIN list : /\ ~Comparable(M, list[i])
                            /\ \A j \in 1 .. i - 1 : ~IsCoveredBy(M, list[j])

-----------------------------------------------------------------------------
(* The report. *)

\* StateSpace.find_path_to_events: arcs <<node, index>> from a node to the first arc that holds
\* one of the events.  Of the arcs of a node, only the last one is followed.
RECURSIVE FindPath(_, _, _)
FindPath(path, node, keys) ==
  LET arcs == space.arcs[node]
      holds == {i \in DOMAIN arcs : \E key \in keys : key[1] = node /\ key[2] = i}
      visited == {arc[1] : arc \in ToSet(path)} \cup {node}
  IN IF holds # {} THEN Append(path, <<node, Min(holds)>>)
     ELSE IF arcs = <<>> \/ Last(arcs).to \in visited THEN <<>>
     ELSE FindPath(Append(path, <<node, Len(arcs)>>), Last(arcs).to, keys)

\* StateSpace.reconstruct_path: <<>> if the events are not found.
RECURSIVE ReconstructPath(_, _, _)
ReconstructPath(path, node, keys) ==
  LET part == FindPath(<<>>, node, keys)
      last == Last(part)
  IN IF keys = {} THEN path
     ELSE IF part = <<>> THEN <<>>
     ELSE ReconstructPath(path \o part, space.arcs[last[1]][last[2]].to,
                          {key \in keys : <<key[1], key[2]>> # last})

\* NdsyncChecker.replay_path: the processes whose Exit does not depend on the marks.
ReplayPath(path, marks) ==
  LET event(key) == space.arcs[key[1]][key[2]].events[key[3]]
      keys == FlattenSeq([i \in DOMAIN path |->
                [k \in DOMAIN space.arcs[path[i][1]][path[i][2]].events |->
                   <<path[i][1], path[i][2], k>>]])
      step(acc, key) ==
        LET e == event(key)
            found == GetEventMarks(acc.marking, e)
            M == ProcessEvent(acc.marking, key, e)
        IN [marking |-> IF found \subseteq marks THEN M ELSE RemoveMarksAndCleanup(M, found \ marks),
            exits |-> IF found \cap marks = {} /\ e.name = "Exit" THEN acc.exits \cup {e.pid}
                      ELSE acc.exits]
  IN FoldLeft(step, [marking |-> EmptyMarking, exits |-> {}], keys).exits

\* NdsyncChecker.reconstruct_deadlock
ReconstructDeadlock(marks) ==
  LET path == ReconstructPath(<<>>, 1, {m.key : m \in marks})
  IN IF path = <<>> THEN [kind |-> "Events not found", marks |-> marks]
     ELSE [kind |-> "Deadlock", marks |-> marks, active_pids |-> Procs \ ReplayPath(path, marks)]

-----------------------------------------------------------------------------
(* The analysis. *)

\* StateSpace.inject_dfs_indegree: arcs back to a node of the stack do not count.  The stack
\* holds pairs of a node and the number of its arcs that were followed.
RECURSIVE Visit(_, _, _, _)
Visit(sp, stack, visited, degree) ==
  LET node == Last(stack)[1]
      k == Last(stack)[2] + 1
      to == sp.arcs[node][k].to
      below == Append(Front(stack), <<node, k>>)
      back == \E i \in DOMAIN stack : stack[i][1] = to
      counted == IF back THEN degree ELSE [degree EXCEPT ![to] = @ + 1]
  IN IF stack = <<>> THEN degree
     ELSE IF k > Len(sp.arcs[node]) THEN Visit(sp, Front(stack), visited, degree)
     ELSE IF to \in visited THEN Visit(sp, below, visited, counted)
     ELSE Visit(sp, Append(below, <<to, 0>>), visited \cup {to}, counted)

\* Mutant of DfsIndegree: StateSpace.inject_indegree, which counts all arcs.
Indegree(sp) ==
  LET arcs == UNION {{<<n, i>> : i \in DOMAIN sp.arcs[n]} : n \in DOMAIN sp.nodes}
  IN [n \in DOMAIN sp.nodes |-> Cardinality({a \in arcs : sp.arcs[a[1]][a[2]].to = n})]

DfsIndegree(sp) == Visit(sp, <<<<1, 0>>>>, {1}, [n \in DOMAIN sp.nodes |-> 0])

\* Generator.run: the analysis takes place if the search found no errors.  It starts behind the
\* first arc, which has no events.
Init ==
  /\ program \in Programs
  /\ space = StateSpace(program, {})
  /\ markings = [n \in {2} |-> <<EmptyMarking>>]
  /\ queue = <<2>>
  /\ indegree = DfsIndegree(space)
  /\ outcome = [kind |-> IF Clean(space) THEN "searching" ELSE "errors before"]

\* The first events of the arcs of a node, of which there are at least two: what each of them
\* depends on.
ArcMarks(M, arcs) == [i \in DOMAIN arcs |-> IF Len(arcs) = 1 THEN {}
                                             ELSE GetEventMarks(M, arcs[i].events[1])]

\* Mutant of DeadlockMarks: one arc with marks is enough.
MarkedArcs(M, arcs) ==
  IF arcs = <<>> THEN DOMAIN M.terminate ELSE UNION Range(ArcMarks(M, arcs))

\* Deadlocks of type 1, at a final node, and of type 2, where every arc depends on marks.
DeadlockMarks(M, arcs) ==
  IF arcs = <<>> THEN DOMAIN M.terminate
  ELSE IF \E i \in DOMAIN arcs : ArcMarks(M, arcs)[i] = {} THEN {}
  ELSE UNION Range(ArcMarks(M, arcs))

\* The marking behind arc i of a node: what the arc depends on was not chosen.
Follow(M, node, i) ==
  LET arcs == space.arcs[node]
      pruned == IF ArcMarks(M, arcs)[i] = {} THEN M ELSE RemoveMarksAndCleanup(M, ArcMarks(M, arcs)[i])
  IN FoldLeft(LAMBDA N, k : ProcessEvent(N, <<node, i, k>>, arcs[i].events[k]),
              pruned, [k \in DOMAIN arcs[i].events |-> k])

\* The markings of node follow the arcs: in the order of the code, the pairs of a marking and
\* the arc it takes.  Arcs back do not count.
Forward(node) ==
  LET arcs == space.arcs[node]
      pairs == [k \in 1 .. Len(markings[node]) * Len(arcs) |->
                  <<((k - 1) \div Len(arcs)) + 1, ((k - 1) % Len(arcs)) + 1>>]
  IN SelectSeq(pairs, LAMBDA ki : indegree[arcs[ki[2]].to] > 0)

\* One pair: the marking joins those of the next node, unless an assertion fails.
FollowArc(acc, node, ki) ==
  LET to == space.arcs[node][ki[2]].to
      list == IF to \in DOMAIN acc.markings THEN acc.markings[to] ELSE <<>>
      M == Follow(markings[node][ki[1]], node, ki[2])
  IN IF acc.failed \/ AssertionFails(list, M) THEN [acc EXCEPT !.failed = TRUE]
     ELSE [acc EXCEPT !.markings = Put(@, to, AddMarking(list, M))]

\* The nodes whose last arc is now processed, in the order of the arcs.
NewlyReady(arcs) ==
  LET before(i) == Cardinality({j \in 1 .. i : arcs[j].to = arcs[i].to})
      last == {i \in DOMAIN arcs : indegree[arcs[i].to] = before(i)}
      order == SetToSortSeq(last, <)
  IN [k \in DOMAIN order |-> arcs[order[k]].to]

\* What process_node asserts of a marking of a final node.
FinalAssertion(M) ==
  DOMAIN M.active = {} /\ DOMAIN M.finished = {} /\ UNION Range(M.process) \subseteq DOMAIN M.terminate

\* NdsyncChecker.process_node.  It stops at the first marking that shows a deadlock, or where an
\* assertion fails.
ProcessNode ==
  /\ outcome.kind = "searching"
  /\ queue # <<>>
  /\ LET node == Last(queue)
         arcs == space.arcs[node]
         here == markings[node]
         refuted == {k \in DOMAIN here : arcs = <<>> /\ ~FinalAssertion(here[k])}
         deadlocks == {k \in DOMAIN here : DeadlockMarks(here[k], arcs) # {}}
         first == Min(refuted \cup deadlocks \cup {Len(here) + 1})
         followed == FoldLeft(LAMBDA acc, ki : FollowArc(acc, node, ki),
                              [markings |-> Drop(markings, node), failed |-> FALSE],
                              SelectSeq(Forward(node), LAMBDA ki : ki[1] < first))
         stops == followed.failed \/ first \in DOMAIN here
     IN /\ markings' = followed.markings
        /\ queue' = Front(queue) \o (IF stops THEN <<>> ELSE NewlyReady(arcs))
        /\ indegree' = IF stops THEN indegree
                       ELSE [n \in DOMAIN indegree |->
                               indegree[n] - Cardinality({i \in DOMAIN arcs : arcs[i].to = n})]
        /\ outcome' = IF followed.failed \/ first \in refuted THEN [kind |-> "AssertionError"]
                      ELSE IF stops THEN ReconstructDeadlock(DeadlockMarks(here[first], arcs))
                      ELSE outcome
  /\ UNCHANGED <<program, space>>

\* NdsyncChecker.run ends
Finish ==
  /\ outcome.kind = "searching"
  /\ queue = <<>>
  /\ outcome' = [kind |-> "no deadlock"]
  /\ UNCHANGED <<program, space, markings, queue, indegree>>

Ended == outcome.kind # "searching" /\ UNCHANGED vars

Next == ProcessNode \/ Finish \/ Ended

Spec == Init /\ [][Next]_vars

-----------------------------------------------------------------------------
(* Properties. *)

\* The calls that MPI may make synchronous.
Optional ==
  UNION {{<<p, k>> : k \in {j \in DOMAIN program[p] :
                             \/ program[p][j].op = "send" /\ program[p][j].kind = "std"
                             \/ program[p][j].op = "coll" /\ program[p][j].root # None}} : p \in Procs}

StuckStates(sync) ==
  LET sp == StateSpace(program, sync) IN {sp.nodes[n] : n \in StuckNodes(sp)}

\* The marks on which the ends of some marks depend, and these marks (prev_of_marks).
RECURSIVE Behind(_, _)
Behind(M, marks) ==
  LET more == marks \cup UNION {M.terminate[m] : m \in marks \cap DOMAIN M.terminate}
  IN IF more = marks THEN marks ELSE Behind(M, more)

Reported == outcome.kind \in {"Deadlock", "Events not found"}

Rooted == \E p \in Procs : \E call \in ToSet(program[p]) : call.op = "coll" /\ call.root # None

\* A deadlock is no false alarm: the calls of the marks, and of the marks behind them, are
\* a choice of MPI that stops the program.  Not so where an operation has a root: what its root
\* depends on does not count for the others that receive from it.
ReportIsReal ==
  [][~Reported /\ Reported' /\ ~Rooted =>
       \E M \in ToSet(markings[Last(queue)]) :
         StuckStates({<<m.pid, m.serial>> : m \in Behind(M, outcome'.marks)}) # {}]_outcome

\* No choice of MPI leads to a deadlock that is not reported.
NothingMissed ==
  outcome.kind = "no deadlock" => \A sync \in SUBSET Optional : StuckStates(sync) = {}

\* Every mark something depends on is one of a send that has not ended or of an operation not
\* everybody has entered, or it waits for its end: is_covered_by finds it an image, and a
\* clean-up finds it.  And a send that is neither matched nor closed has its mark, which
\* process_event looks up when it is matched.
MarksAreOwned ==
  \A n \in DOMAIN markings : \A M \in ToSet(markings[n]) :
    LET used == UNION Range(M.process) \cup UNION Range(M.active) \cup UNION Range(M.finished)
                  \cup UNION Range(M.terminate)
                  \cup UNION {UNION Range(c.marks) : c \in ToSet(M.collectives)}
        entered == UNION {DOMAIN c.marks : c \in ToSet(M.collectives)}
    IN /\ used \subseteq Range(M.ssend) \cup DOMAIN M.terminate \cup entered
       /\ \A id \in DOMAIN M.active \cap DOMAIN M.finished :
            TypeOf(id) = "std" => id \in DOMAIN M.ssend

\* The analysis ends without a deadlock only when it has processed every node: the markings of
\* none are left (the assertion of run), none still waits for one (node 2 was there at once).
NothingLeftOver ==
  outcome.kind = "no deadlock" =>
    DOMAIN markings = {} /\ \A n \in DOMAIN indegree \ {2} : indegree[n] <= 0

\* At a final node, where every request was matched and closed, no process depends on a send or
\* an operation that could have ended: what is left are the marks in circles (process_node
\* asserts it).
OnlyCirclesAreLeft ==
  \A n \in DOMAIN markings :
    space.arcs[n] = <<>> => \A M \in ToSet(markings[n]) :
                             FinalAssertion(M) /\ \A m \in DOMAIN M.terminate : M.terminate[m] # {}

\* Two markings of a node have marks for the same sends (is_covered_by asserts it).  The code
\* breaks it: after a race only the marking of one outcome still has the mark of a send.
AssertionsHold == outcome.kind # "AssertionError"

=============================================================================
