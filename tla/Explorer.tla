------------------------------ MODULE Explorer ------------------------------
(***************************************************************************)
(* How the workers explore the state space together: the queues of         *)
(* mpi/worker.py, the table of nodes and the main cycle of                 *)
(* mpi/generator.py, and the transfer of work to a sleeping worker.        *)
(*                                                                         *)
(* What an action of a node leads to is given by a graph: the node that    *)
(* make_node gets to, and whether a process has to run on the way.  If     *)
(* none has, start_gcontext returns False at once; otherwise the worker is *)
(* busy until its clients have reported.  Module PointToPoint says what    *)
(* the actions are.                                                        *)
(*                                                                         *)
(* The verifier is a single thread: calls holds the activations of         *)
(* start_next_in_queue that are in their loop, the innermost one last.     *)
(***************************************************************************)
EXTENDS Integers, Sequences, FiniteSets, Functions

CONSTANTS
  WorkersCount,
  Nodes,        \* hashes of global states
  Root,         \* the node of make_initial_node
  Deadlocks,    \* nodes that a process is blocked in, if they have no actions
  Graphs,       \* state spaces that the program may have
  NoItem

Workers == 0 .. WorkersCount - 1
Items == [node : Nodes, action : Nat \ {0}]

ASSUME ExplorerAssumption ==
  /\ WorkersCount \in Nat \ {0}
  /\ Root \in Nodes /\ Deadlocks \subseteq Nodes
  /\ Graphs \subseteq [Nodes -> Seq([to : Nodes, runs : BOOLEAN])]
  /\ \A g \in Graphs : Len(g[Root]) = 1
  /\ NoItem \notin Items

VARIABLES
  graph,      \* the state space, not known to the verifier
  search,     \* option --search
  known,      \* hashes in the StateSpace
  arcs,       \* actions whose arc is in the StateSpace
  queue,      \* Worker.queue: actions of nodes that nobody has started
  gcontext,   \* Worker.gcontext: what the clients of the worker run
  calls,      \* workers in the loop of start_next_in_queue
  outcome     \* "searching", "finished", "error" (ErrorFound) or "aborted"

vars == <<graph, search, known, arcs, queue, gcontext, calls, outcome>>

Target(item) == graph[item.node][item.action].to
Runs(item) == graph[item.node][item.action].runs

ActionsOf(n) == [i \in 1 .. Len(graph[n]) |-> [node |-> n, action |-> i]]

-----------------------------------------------------------------------------

\* Mutants of Sleeping: a worker that is in its loop, or one that is busy.
SleepingWithQueue(w) == gcontext[w] = NoItem
SleepingWithoutQueue(w) == queue[w] = <<>>

\* Generator.sleeping_neighbours_of
Sleeping(w) == queue[w] = <<>> /\ gcontext[w] = NoItem

FirstSleeping(w, v) ==
  \E i \in 1 .. WorkersCount - 1 :
    /\ v = (w + i) % WorkersCount
    /\ Sleeping(v)
    /\ \A j \in 1 .. i - 1 : ~Sleeping((w + j) % WorkersCount)

\* Mutant of MakeNode: the new actions replace the queue.
MakeNodeOnly(v, item, queues) ==
  LET n == Target(item)
  IN /\ arcs' = arcs \cup {item}
     /\ known' = known \cup {n}
     /\ queue' = IF n \in known THEN queues ELSE [queues EXCEPT ![v] = ActionsOf(n)]
     /\ outcome' = IF n \notin known /\ graph[n] = <<>> /\ n \in Deadlocks THEN "error" ELSE outcome

\* make_node and slow_expand: the arc of the item is added in any case, but a node
\* that is known is not expanded again; the actions of a new one go to the queue of
\* the worker that found it.
MakeNode(v, item, queues) ==
  LET n == Target(item)
  IN /\ arcs' = arcs \cup {item}
     /\ known' = known \cup {n}
     /\ queue' = IF n \in known THEN queues ELSE [queues EXCEPT ![v] = @ \o ActionsOf(n)]
     /\ outcome' = IF n \notin known /\ graph[n] = <<>> /\ n \in Deadlocks THEN "error" ELSE outcome

\* Worker.start_gcontext
StartGContext(v, item, queues) ==
  IF Runs(item)
  THEN /\ gcontext' = [gcontext EXCEPT ![v] = item]
       /\ queue' = queues
       /\ UNCHANGED <<known, arcs, outcome>>
  ELSE MakeNode(v, item, queues) /\ UNCHANGED gcontext

\* A call of start_next_in_queue returns at once if the queue is empty.
Entered(v) == IF queue'[v] = <<>> THEN <<>> ELSE <<v>>

\* The item that the loop takes next, and what it leaves.
Popped(w) == IF search = "dfs" THEN queue[w][Len(queue[w])] ELSE Head(queue[w])

Remaining(w) ==
  [queue EXCEPT ![w] = IF search = "dfs" THEN SubSeq(@, 1, Len(@) - 1) ELSE Tail(@)]

InLoop(w) == outcome = "searching" /\ calls # <<>> /\ w = calls[Len(calls)]

Return == SubSeq(calls, 1, Len(calls) - 1)

\* Mutant of Transfer: the other worker is left alone with the actions it has found.
TransferOnly(w, v) ==
  /\ InLoop(w)
  /\ Len(queue[w]) > 1
  /\ FirstSleeping(w, v)
  /\ StartGContext(v, Popped(w), Remaining(w))
  /\ UNCHANGED <<graph, search, calls>>

\* The inner loop of start_next_in_queue: while it keeps an item for itself, the
\* worker gives what it takes to a sleeping one.
Transfer(w, v) ==
  /\ InLoop(w)
  /\ Len(queue[w]) > 1
  /\ FirstSleeping(w, v)
  /\ StartGContext(v, Popped(w), Remaining(w))
  /\ calls' = IF Runs(Popped(w)) THEN calls ELSE calls \o Entered(v)
  /\ UNCHANGED <<graph, search>>

\* The outer loop: it ends when the item needs the clients.
StartNext(w) ==
  /\ InLoop(w)
  /\ queue[w] # <<>>
  /\ Len(queue[w]) > 1 => \A v \in Workers : ~FirstSleeping(w, v)
  /\ StartGContext(w, Popped(w), Remaining(w))
  /\ calls' = IF Runs(Popped(w)) THEN Return ELSE calls
  /\ UNCHANGED <<graph, search>>

\* The loop does not look whether anything is left: pop from an empty deque.
PopEmpty(w) ==
  /\ InLoop(w)
  /\ queue[w] = <<>>
  /\ outcome' = "aborted"
  /\ UNCHANGED <<graph, search, known, arcs, queue, gcontext, calls>>

\* Mutant of FinishRun: the gcontext is not forgotten.
FinishRunAgain(w) ==
  /\ outcome = "searching" /\ calls = <<>>
  /\ gcontext[w] # NoItem
  /\ MakeNode(w, gcontext[w], queue)
  /\ calls' = Entered(w)
  /\ UNCHANGED <<graph, search, gcontext>>

\* Generator.main_cycle, when the last running process of w has reported
FinishRun(w) ==
  /\ outcome = "searching" /\ calls = <<>>
  /\ gcontext[w] # NoItem
  /\ MakeNode(w, gcontext[w], queue)
  /\ gcontext' = [gcontext EXCEPT ![w] = NoItem]
  /\ calls' = Entered(w)
  /\ UNCHANGED <<graph, search>>

\* Mutant of Finish: only the first worker is asked.
FinishFirst ==
  /\ outcome = "searching" /\ calls = <<>>
  /\ gcontext[0] = NoItem
  /\ outcome' = "finished"
  /\ UNCHANGED <<graph, search, known, arcs, queue, gcontext, calls>>

\* Generator.run, when no process runs
Finish ==
  /\ outcome = "searching" /\ calls = <<>>
  /\ \A w \in Workers : gcontext[w] = NoItem
  /\ outcome' = "finished"
  /\ UNCHANGED <<graph, search, known, arcs, queue, gcontext, calls>>

-----------------------------------------------------------------------------

\* Generator.start_workers, up to start_next_in_queue of the first worker
Init ==
  /\ graph \in Graphs
  /\ search \in {"bfs", "dfs"}
  /\ known = {Root}
  /\ arcs = {}
  /\ queue = [w \in Workers |-> IF w = 0 THEN ActionsOf(Root) ELSE <<>>]
  /\ gcontext = [w \in Workers |-> NoItem]
  /\ calls = <<0>>
  /\ outcome = "searching"

Next ==
  \/ \E w \in Workers :
       \/ StartNext(w) \/ PopEmpty(w) \/ FinishRun(w)
       \/ \E v \in Workers : Transfer(w, v)
  \/ Finish

\* Clients report: a process gets to its next MPI call or ends.
Spec == Init /\ [][Next]_vars /\ WF_vars(Next)

-----------------------------------------------------------------------------
(* Properties *)

Closed(S) ==
  /\ Root \in S
  /\ \A n \in S : \A i \in DOMAIN graph[n] : graph[n][i].to \in S

\* "It checks all possible runs": when the verifier ends without an error, it has
\* been in exactly the nodes that can be reached from the first one, and has an arc
\* for each of their actions (which the analyses after the search rely on).
ExploresStateSpace ==
  /\ outcome = "finished" => /\ Closed(known)
                             /\ \A n \in known : Range(ActionsOf(n)) \subseteq arcs
  /\ \A S \in SUBSET Nodes : Closed(S) => known \subseteq S

\* Where an action waits or runs: a place in a queue, or a gcontext.
Places(item) ==
  (UNION {{w} \X {i \in DOMAIN queue[w] : queue[w][i] = item} : w \in Workers})
    \cup ({w \in Workers : gcontext[w] = item} \X {0})

\* No action of a node is lost or started twice by pushing, popping, starting and
\* transferring: it is in one place until its arc is made, and in none after.
WorkIsConserved ==
  \A n \in known : \A item \in Range(ActionsOf(n)) :
    Cardinality(Places(item)) = IF item \in arcs THEN 0 ELSE 1

\* A worker with a queue is busy or in its loop: when main_cycle sees no running
\* process, the assertion of final_check on the queues holds.
QueuesAreServed ==
  \A w \in Workers :
    queue[w] # <<>> => \/ gcontext[w] # NoItem
                       \/ \E i \in DOMAIN calls : calls[i] = w

\* Workers that call each other's start_next_in_queue form no cycle, so that no
\* loop has its queue changed behind its back, and none of them is busy.
CallsAreNested ==
  \A i \in DOMAIN calls :
    /\ \A j \in DOMAIN calls : calls[i] = calls[j] => i = j
    /\ gcontext[calls[i]] = NoItem

\* What a worker runs is never replaced by work that another worker gives it.
BusyWorkersAreLeftAlone ==
  [][\A w \in Workers :
       gcontext[w] # NoItem /\ gcontext'[w] # gcontext[w] =>
         gcontext'[w] = NoItem /\ calls = <<>>]_vars

\* The search ends, since no node is expanded twice.
Terminates == <>(outcome # "searching")

\* The search ends with a verdict: it does not take from an empty queue.
NeverAborts == outcome # "aborted"

=============================================================================
