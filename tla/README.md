# Verification of Aislinn

Aislinn runs an MPI program in instrumented processes and explores every behaviour that the
nondeterminism of MPI allows. This directory holds TLA+ models of the verifier itself (Python code
under `src/src/aislinn`, and the Valgrind tool in `src/src/vgtool/an_main.c`), TLC runs that check
them on small instances, and proofs that TLAPS checks for every instance. What the models promise is
what a user of Aislinn relies on: that the runs it explores are exactly those of MPI, that nothing is
explored with wrong or freed data, and that the search is complete.

## The system

| part | state it keeps | operations | interacts with |
|---|---|---|---|
| `mpi/generator.py` Generator | workers, table of nodes (`StateSpace`), error messages | `start_workers`, `main_cycle`, `add_node`, checks at the end | polls the clients of all workers; runs Worker code in reaction |
| `mpi/worker.py` Worker | queue of (node, gstate, action), the current gcontext, clients, buffer manager | `start_next_in_queue`, `start_gcontext`, `continue_in_execution`, `fast_expand`, `slow_expand`, transfer to another worker | calls `start_next_in_queue` of other workers |
| `mpi/gcontext.py`, `mpi/context.py` GlobalContext, Context | one global state being run: events, contexts of processes with their client | `prepare_context`, `apply_matching`, `save_states`, `make_node`, `process_run_result`, `close_requests` | restores and saves processes in clients |
| `mpi/state.py` State, `mpi/request.py` | per process: status, active, finished and persistent requests, tested ids, probe and promise, communicators, attributes | activate, match, finish, wait, test, probe | copied when a node has several actions |
| `mpi/globalstate.py`, `mpi/collectives.py`, `mpi/comm.py` | collective operations in progress, counter of communicators | enter, complete, create communicators | share buffers between processes |
| `mpi/mpicalls.py`, `mpi/check.py` | - | one handler for each MPI call | change State; report errors |
| `mpi/action.py` | a choice at a node | `apply_action`, `transfer` | State, Context |
| `mpi/ndsync.py`, `mpi/event.py` | markings of nodes | analysis of synchronous sends after the search | StateSpace |
| `base/statespace.py` | graph of nodes and arcs | paths, in-degrees | Generator, reports |
| `vgtool/resource.py`, `vgtool/controller.py` | reference counts of buffers and saved states, cache of states, buffers to write, unused resources | save, restore, push, pull, new buffer, clean-up | commands to the client |
| `src/vgtool/an_main.c` | memory of the verified process: pages, validity bits, heap blocks, saved images, buffers | commands of the controller; reads and writes of the program | Controller, by a line protocol |
| `mpi/types.py`, `atypes.py`, `ops.py`, `keyval.py`, `misc.py` | datatypes and the like | layout, packing | mpicalls |
| `base/report.py`, `errormsg.py`, `aislinn.py` | - | reports, options | Generator |

All Python code is one thread. Concurrency comes from the clients, which run at the same time and
report in any order; from the workers, each of which may wait for its clients while others go on; and
from global states that wait in queues while others, which share buffers and saved processes with
them, are run. What is hard:

* **Matching.** Whether a receive is matched at once or at a node depends on every earlier receive
  of the process; promises of probes outlive the node that makes them; ids of requests are used
  again. A mistake loses runs of the program, or makes up runs it does not have.
* **Sharing.** Copies of a global state share messages and saved processes, counted by hand in many
  places; a buffer is written to a client only when a process there is prepared; saved states are
  found again by hash after their last reference has gone.
* **Search.** Workers hand each other work by calling each other, in nested loops over queues that
  all of them may change; the search is over as soon as no client runs.
* **Collective operations.** Processes enter and complete an operation in any order, several at a
  time; calls are put together by counting; communicators appear in the middle of an operation and
  are freed before the operations on them have completed.
* **Synchronous sends.** One search, in which sends go on at once, has to answer for all the ways in
  which MPI may make them wait; the analysis follows what every process depends on through races and
  cycles, and drops markings it takes for covered.
* There is no persistence, no lost message and no time-out: clients are local processes, and a client
  that dies ends the verification.

What makes each part correct: matching is that of MPI and keeps operations (PointToPoint,
MpiMatching); counts equal references, and nothing in use is freed (Resources); every action of
every reachable node is taken exactly once and the search ends (Explorer); every process of a
collective operation gets the data of that operation, communicators and counters agree (Collectives);
the analysis of synchronous sends reports a deadlock if and only if one exists (Ndsync); saved memory
of a process stays what it was, and what the process may access is what it has allocated (Client, Heap).

## Modules

| module | what it models |
|---|---|
| `MpiMatching` | the rules of MPI that matching has to reproduce, without requests or an order of exploration |
| `MCMpiMatching` | an instance of it: two processes, two tags, wildcards, one exchange |
| `MpiMatchingProofs` | its invariants, proved |
| `PointToPoint` | one path of the verification: MPI calls, requests, matching, probes, wait and test calls, the actions at a node |
| `MCPointToPoint` | small programs for it |
| `PointToPointProofs` | types, conservation of operations, completion after matching, errors of persistent requests, that ids identify requests, proved |
| `PromisesProofs` | that promises of probes are kept and that a reported deadlock is one, proved |
| `Resources` | reference counts of buffers and saved processes of one worker |
| `MCResources` | an instance of it |
| `ResourcesProofs` | exactness of the counts, the lists of buffers to write, the cache, the clean-up, proved |
| `Communicators` | communicators, counters of collective calls, attributes and groups of one process, as operators |
| `CollectiveService` | what MPI promises of collective operations, without operation objects and counters |
| `CollectiveServiceProofs` | that operations finish together and blocking calls keep their order, proved |
| `Collectives` | one path of the verification of a program of collective calls: operations, calls on communicators, groups and attributes, their completion |
| `MCCollectives` | programs for it |
| `CollectivesInvariant` | its inductive invariant, and that calls and entering an operation keep it |
| `CollectivesProofs` | that completing and the steps of the worker keep it; that objects and counters match the calls, and that the operations implement `CollectiveService`, proved |
| `FullProtocol` | the state space that the search builds for a program, with the events on its arcs |
| `Ndsync` | the analysis of synchronous sends over such a state space |
| `MCNdsync` | families of programs for it |
| `Explorer` | queues, gcontexts and nested calls of several workers over a state space |
| `MCExplorer` | state spaces for it |
| `ExplorerProofs` | its safety properties, proved |
| `Heap` | the allocator of the verified process, as operators on its list of blocks |
| `Client` | the memory of one verified process: pages, validity bits, cache, hashes, saved states, locks of requests |
| `ClientMemory` | what saving and restoring a process is to be |
| `MCClient` | programs for it |

### PointToPoint

`states[p]` is the `State` of process p, with the fields `status`, `active`, `finished`,
`persistent`, `tested` (`tested_request_ids` with the places that `tested_requests_pointer` gives),
`probe_data`, `probe_promise`; `log` and `closed` are history. `handles` is the array of requests in
the program's memory, which the verifier reads and writes, and `todo` the rest of the program. The
verified program is data: for each process, a sequence of sets of calls, any one of which it may make,
so that one instance contains many programs. `phase` is where the worker is:

* `run`: some clients run. One of them reports its next call (`Send` ... `Testall`, one action for
  each handler of `mpicalls.py`, with its checks) or its end (`Exit`).
* `match`: `fast_expand`. `Match` makes the first deterministic matching, in the order of pids and of
  requests; without one, `Resume` continues every process that can go on, closing its requests.
* `node`: no process runs. One of the actions that `get_actions` lists is taken: `ChooseMatching`,
  `ChooseWaitAny`, `ChooseWaitSome`, `ChooseTestAll`, `ChooseFlag0`, `ChoosePromise`; if there is none,
  `Conclude` ends the path, perhaps with a deadlock.
* `done`, `deadlock`, `error`: the end, with the error message in `error`.

An exception of the Python code is the error `Crash`. Left out: the content of messages (a buffer is
named by its sender and a serial number, and has a size), ranks and tags that are rejected, the locking
of message buffers, collective requests.

`MpiMatching` is its specification: operations posted so far and matchings made so far. A matching
takes the earliest open send of the source that fits and the earliest open receive that fits.
`Implements` is the refinement with `posted` mapped to the logs of the processes and `matched` to the
history of `ApplyMatching`.

### Resources

`stage`, `count` and `total` are the fields of `resource.py`; a VgBuffer has `targets`, `remaining` and
`written`, a VgState has a `hash`, `toMake[c]` is `buffers_to_make` of a controller. `held[g]` is the
set of references of a global state, each with its role (a send in `active_requests`, a send in
`finished_requests`, a finished receive, a collective operation, the `vg_state` of a process). The
actions are the code paths that change counts: sending and entering an operation, matching, closing
requests, finishing an operation, writing buffers, saving (new or from the cache), restoring, copying
and disposing a global state, cleaning up, the final check. Other global states wait in the queue and
hold their references. Ids are not used again, so `stage` ends in `freed`; the small numbers of ids
bound the model.

### Explorer

A state space is a graph of nodes and actions, with a flag for each action: whether a process has to
run before the next node. All graphs of a family are initial states. `queue`, `gcontext` and `search`
are those of the code, `known` and `arcs` are the StateSpace, and `calls` is the stack of
`start_next_in_queue` activations. `Transfer` and `StartNext` are the iterations of its inner and outer
loop, `PopEmpty` the pop that the code does not guard, `FinishRun` an iteration of `main_cycle`,
`Finish` its end.

### Collectives

`gstate` is the `GlobalState`: the states of the processes, the list of operations in progress, the
counter of communicators. An operation has the fields of its class; what a process puts in is the pair
of its pid and the number of its call, so a result shows whose data it is made of. `memory` holds the
variables of the programs and, as history, what completed operations wrote; `log` is the history of
calls. `phase` is where the worker is: `poll` (`Call`, one handler of `mpicalls.py`, or `Exit`),
`expand` (`FinishCollectiveRequest` finishes the first request that can be finished), `sweep` (one
process after the other goes on and closes its requests), `node` (`Flag0`, `TestAll`, `FinalNode`).
`Enter...` and `Complete...` are `enter_main` and `complete_main` of the classes; an error that a
handler throws ends the path, an exception of the Python code too (`AssertionError`,
`AttributeError`). Left out: datatypes, the counts of the variants with vectors, point-to-point requests, the
reference counts of buffers (Resources), copies of the global state at a node with several actions.

`CollectiveService` is the specification: the n-th calls of the members of a communicator belong
together, one blocking call at a time, and a call finishes only when those whose data it needs have
entered. `Implements` maps the finished calls to `done`. `Service!Result` and `Service!NewTable` say
what a call writes.

### FullProtocol and Ndsync

`FullProtocol` builds the state space of a program: `Expand` is `fast_expand` and `main_cycle` up to the
next node, `Actions` the actions of the node, `Explore` the depth-first search. Arcs hold the events of
`event.py` in order, ids of requests are given as in `new_request_id`, used ones again. Programs are
sequences of calls without tags, messages are all alike. The calls of different processes that run at
the same time commute, so the smallest pid calls first. `sync` is a set of calls that really wait for
the other side; the verifier works with the empty set.

`Ndsync` is `NdsyncChecker`. A marking has the fields of `Marking`, a mark is identified by the place of
its event. `ProcessNode` is `process_node` for the next node of the queue: it looks for deadlocks of
both types, follows the arcs with every marking (`Follow`), adds the results to the next nodes
(`AddMarking` with `is_covered_by`) and makes nodes ready. The clauses of `is_covered_by` on marks of
processes and collective operations are not there: in the code they end in a `continue` of the inner
loop and decide nothing. The report is part of the step (`ReconstructDeadlock`).

### Client and Heap

`auxmap`, `page_cache` and `blocks` are those of `MemorySpace`; `pages` and `vas` are the objects of
type Page and VA, with their counts, under the first free number for their base; `live` is the memory
itself. `images` are the saved states, `locks` the `Intervals` of the process in the controller.
`program` and `position` stand for the verified program: a sequence of sets of operations, any one of
which it may do. `Run` does the next one, with all that the tool and the controller do for it:
`Allocate`, `Realloc`, `Free`, `TraceWrite`, `TraceRead`, and for calls of MPI `Activate` (check, lock),
`CloseRequest` (unlock, write the message), `Receive`, `WriteOutput`. While the process waits in a call,
the controller may `Save` (hash, look into its cache, save), `Restore` and `FreeImage` a state, and
`Transfer` one, which is `push_state` and `pull_state` with the copy in the place of the original.
Operations on memory are functions of a record of the variables (`Space`), since one call of the tool
changes several pages one after the other. Left out: the flags of pages and `mmap`, the stack,
registers, the digest (a hash is the hashed content itself).

`ClientMemory` is the specification: saved states are copies of all that the program can see, and only
`Restore` brings one back. `Implements` maps `current` to the permission and, where readable, the value of
each word.

## Runs

Each property of a passing run has a mutant of the code in the module it is about (for example
`ApplyMatchingStale`, a matching that reads both states before it changes either), which violates it.

| run | what it checks | instance |
|---|---|---|
| `p2p_matching` | `Conservation`: a posted operation is active once or matched, never both; `CompletionFollowsMatching`: a receive completes with the message of the send it was matched with; `DeadlockIsReal`; `Implements` | 3 processes; wildcard and direct receives on two slots, all modes of send under the `full` protocol, exchanges with others and with oneself, null processes, a message that is too long, each way to wait and test |
| `p2p_requests` | `IdsAreUnique`, `HandlesFollowCompletion`: a wait or test frees the handles of what it completes and no others; `PromisesAreBacked`, `DeadlockIsReal`, `ActiveErrorIsReal` | probes of both kinds before and between receives, two communicators with different ranks, persistent requests started alone and together, waited for while some are inactive, and freed while ids are in use, `threshold` protocol with sizes below, between and at the thresholds |
| `matching` | `OneToOne`, `NonOvertaking`, `PostingOrder` | 2 processes, 3 operations each, any order |
| `resources` | `CountsAreExact`, `NoUseAfterFree`, `BuffersReachTheirControllers`, `CacheIsAFunction`, `NothingLeaks` | 2 clients, 1 buffer in all roles, 3 saved states with 2 hashes, 2 global states |
| `explorer` | `ExploresStateSpace`, `WorkIsConserved`, `QueuesAreServed`, `CallsAreNested`, `BusyWorkersAreLeftAlone`, `Terminates` | 3 workers, every graph of four nodes of a family with up to two actions (and some with three), breadth first and depth first |
| `collectives` | `ResultsAreRight`: what an operation writes is made of the right data, in the order of the ranks; `OperationsMatchCalls`: the counts of operations and of processes are those of the calls; `CommunicatorsAgree`: members of a new communicator have one id and one group, others another id; `ErrorsAreExact`: a mismatch is reported if and only if there is one; `AttributesAreAccounted`; `Implements` | 3 processes; two non-blocking operations at a time completed in every way, all 15 classes, mismatches of every kind, splits, dups and creations with operations on the new communicators while others are open, freed communicators and groups, attributes with and without callbacks |
| `ndsync` | `NothingMissed`: if the analysis finds nothing, no choice of synchronous calls leads to a deadlock; `ReportIsReal`: a reported choice does; `MarksAreOwned`, `OnlyCirclesAreLeft`, `NothingLeftOver`: what the code relies on about marks and the order of nodes | 1273 programs of 3 processes: all orders of the calls of exchanges, rings with barriers, races in front of sends, incomplete waits and polling tests, broadcasts; most are derived from `src/tests/deadlock` |
| `client` | `CountsAreExact`: counts of pages and of validity bits equal their users; `MemoriesAreCurrent`: the page cache and the hashes that count as valid are up to date; `AccessIsAllocated`: the words the program may use are those it allocated, those it may only read are in use by requests, and the blocks tile the heap; `Implements` | one process, 3 pages of 3 words: three blocks freed in any order, sends and receives from overlapping, equal and touching parts of a block, words never written, a page written and another allocated while a state is saved, two saved states that share a page |
| `p2p_posting`, `p2p_selfprobe`, `explorer_abort`, `ndsync_assertion` | one property each that the code violates, see below | |

Why the bounds are enough. Posting order, overtaking and suppression are about two receives and two
sends; three processes give two senders and a receiver, and the programs let each of them be late.
Counts change for one resource at a time, so one buffer in every role, and two states of one client that
may be shared, revived and freed, contain the cases; the proofs remove the bound for the counts. Three
workers allow nested transfers (a worker that was given an item gives its own items away) and a queue
that grows while all workers are busy; four nodes allow diamonds, cycles, self loops and nodes that are
found twice. Three processes give a collective operation a root, a process that is early and one that is
late, and with two operations open at a time every process may be ahead or behind; a third operation
would meet the same two kinds of neighbours. A deadlock of synchronous sends is a circle of processes,
possibly behind a race: three processes are two that wait for each other and one that races, or a circle
of three; two to four sends that may be synchronous are all combined by the reference, a search of the
program for each subset of them. Pages of three words have a first, an inner and a last word, blocks lie
in one page or in two; three blocks have a neighbour on both sides; a cache of two pages is full with
three. A page is shared by the current memory and one state, or by two, which is what its count is asked
for. `MaxPosted` bounds the operations of `MpiMatching` (in the refinement it is larger than any
program), the numbers of `Buffers` and `VgStates` bound how many resources a run creates, `Slots` how
many pages and validity maps there may be for a base (more than the programs need: there is always a
free one).

Deadlock is checked for PointToPoint, whose end states stutter in `Stop`, and for Collectives and Ndsync,
whose end states stutter in `Ended`. It is not for the other runs: MpiMatching stops when everything is
posted and matched, Resources when its ids are used up, Explorer when the search has ended, and Client when
the program has ended or an error was reported.

Fairness. Only `Terminates` needs any: `WF_vars(Next)` in Explorer, one step of the verifier as a
whole. It is justified by the code being a single thread that polls its clients: a client always
reports, because a process of the verified program gets to its next MPI call or ends (a program that
loops for ever without calling MPI is outside of what Aislinn can verify). No fairness between workers
is assumed.

## What the code does that it should not

* `p2p_posting`: `is_suppressed_by` compares an earlier receive field by field and lets a later receive
  (process 1, any tag) take a message that belongs to an earlier one (any source, tag 1). `Implements`
  holds in `p2p_matching` because no process there has two pending receives that overlap in this way;
  with them, in this run, it fails: the refinement is shown for the other programs only.
* `p2p_selfprobe`: probing asks whether a pending receive takes the message with the rank of the
  probing process in place of the rank of the sender. The programs of `p2p_requests` have no pending
  receive from the process itself, and `ReportedDeadlockIsReal` is about all programs that have none where
  they probe.
* `explorer_abort`: `start_next_in_queue` takes from an empty queue. In `explorer` such a search ends
  as `aborted`, and the safety properties hold up to there.

* `ndsync_assertion`: `is_covered_by` asserts that two markings of a node have marks for as many sends. After
  a race only one outcome has pruned a mark, and the analysis fails where it should report a deadlock.
  In `ndsync` such an analysis ends as `AssertionError`, and the other properties hold up to there.

Other observations without a run:

* A persistent standard or buffered send may not be started again after it has completed until its message
  is received: `check_persistent_request` takes it for active. `ActiveErrorIsReal` is about all other
  requests, and says of these that they are still active.
* A request named twice in MPI_Startall is activated twice; MPI_Sendrecv from MPI_PROC_NULL crashes
  after its send is activated (the error `Crash` of `p2p_matching`).
* `Reduce.enter_main` overwrites the receive buffer of the root with that of the last process, so
  `ResultsAreRight` asks for equal buffers. `AllReduce`, `Scan` and `ReduceScatter` compare the operation
  of the first process with itself: calls with different operations are reduced with the first one.
* Operations on MPI_COMM_SELF of two processes are told apart when they are made, not when they are completed:
  while a non-blocking gather of one process is pending, that of another one writes nothing. The
  programs of `collectives` have blocking operations on it only.
* An operation whose communicator was freed before it is completed makes the verifier fail
  (`AttributeError` in `ErrorsAreExact`).
* Ndsync gives a false alarm for some programs with rooted operations: those that receive from a root do
  not inherit what the root depends on (`ReportIsReal` leaves these programs out).
* `find_path_to_events` follows the last arc of each node only; a report behind another arc dies with
  "Events not found" (program `Detour`). The marks of a report need not contain those they depend on
  (`prev_of_marks` is computed and not used): `ReportIsReal` adds them.
* `user_realloc` never frees the old block and copies its red zone; when the block shrinks, it copies past the
  end of the new one. The programs of `client` only grow blocks.
* A buffer that is freed while a request uses it is not reported, and becomes accessible again when the request
  is closed; nor is a send from a buffer that a pending receive writes to. The model has neither:
  `AccessIsAllocated` and the locks are about programs that keep these rules of MPI.
* Padding in front of a block at the end of the heap is a free block of its own, also next to another one:
  `memspace_sanity_check`, which is commented out, would not hold. `trace_read` checks the first byte of a
  read only. The hash of a process leaves out where its pages lie and how its heap is divided (a state is
  in the cache of the model only if it is equal).

## Proofs

Every theorem holds for all values of the constants that satisfy the assumptions of its module (TLC
evaluates these in the runs); two have a hypothesis of their own. The names are those of the properties
of the runs, which show the same on an instance.

| module | theorem | property |
|---|---|---|
| `MpiMatchingProofs` | `MatchingTypeCorrect`, `MatchingsAreOneToOne`, `MessagesDoNotOvertake`, `ReceivesAreServedInOrder` | `TypeOK` (in no run), `OneToOne`, `NonOvertaking`, `PostingOrder` |
| `PointToPointProofs` | `TypesAreKept`, `NothingIsLostOrTakenTwice`, `CompletedWasMatched`, `ReportedIsActive`; `IdsIdentifyRequests` and `CompletionFreesItsHandles`, if `DistinctStarts` | `TypeOK`, `Conservation`, `CompletionFollowsMatching`, `ActiveErrorIsReal`; `IdsAreUnique`, `HandlesFollowCompletion` |
| `PromisesProofs` | `PromisesAreKept`; `ReportedDeadlockIsReal`, if `ProbedIsNotOwn` | `PromisesAreBacked`; `DeadlockIsReal` |
| `ResourcesProofs` | `ResourcesTypeCorrect`, `ReferenceCountsAreExact`, `ResourcesInUseAreNotFreed`, `BuffersReach`, `StateCacheIsAFunction`, `NothingIsLeaked` | `TypeOK`, `CountsAreExact`, `NoUseAfterFree`, `BuffersReachTheirControllers`, `CacheIsAFunction`, `NothingLeaks` |
| `ExplorerProofs` | `QueuesServed`, `CallsNested`, `BusyLeftAlone`, `WorkConserved`, `StateSpaceIsExplored` | `QueuesAreServed`, `CallsAreNested`, `BusyWorkersAreLeftAlone`, `WorkIsConserved`, `ExploresStateSpace` |
| `CollectiveServiceProofs` | `OperationsFinishTogether`, `BlockingOperationsSeparate` | `FinishedTogether`, `BlockingCallsSeparate` of the specification |
| `CollectivesProofs` | `InductiveInvariant`, `OperationsMatch`, `ImplementsService` | `IInv`, `OperationsMatchCalls`, `Implements` |

**MpiMatching.** The inductive invariant is the conjunction of the four properties. They need each
other: that a message does not overtake says which earlier receive took the earlier message, and that
this receive was served in order says that it had a message sent even earlier. Posting keeps all of it
because operations are only appended (`PostKeepsFit`); matching takes the first of what is open.

**PointToPoint.** `RequestsAreAccounted` is the inductive invariant `IInv`. For each process, `StateOK`
says that its operations are those that `matched` has and, once each, its active requests
(`Accounted`); that a finished or closed receive, and a finished rendezvous send, has its matching, with
the message in its buffer (`Fulfilled`); that requests are ones `check.py` lets through (`Legal`), without
which a matching could name a process that is not there; that a process in a call has recorded what it
waits for (`WaitIsRecorded`). Each property is a consequence of it: none is inductive, since what a
matching does depends on what activation has put into the request, and what a wait completes on what the
matching has. There is a lemma for each handler, and lemmas for what the handlers share: `ActivateOK`,
`LeavesActive`, `ApplyMatchingOK`, `CloseOK`, `StartedOK`. `Programs` is any set of programs that the
checks of arguments let through (`ProgramsAssumption`). The proof showed an error of the model, since
mended: `Start` had reported a request that is active and not persistent as `ActivePersistentRequest`.

**Promises.** A promise is made of a message at a node and kept until the receive after it; in between
requests are completed, other processes send, and matchings are made. `PInv` says of each promise that
its message is there and that no active receive of the process may take it, and that at a node no
deterministic matching is left. The first part needs the second: the verifier asks only whether a
receive with *its own* rank or any source takes the message, so a receive from the sender itself might
take it, but that one would have been matched before the node was reached (`NoneTakes`). Matchings
then take other messages (`MatchingTakes`), and a new receive ends the promise. So `Resume` never finds a
promise broken: `continue_probe`, which does not check what it looks up, always finds the message.

**Deadlocks.** `DInv` adds to `IInv` that at a node every process is at rest, and that a deadlock is
reported only without actions. The earliest receive that may take a message is suppressed by none, so
there would be a match (`NothingToTake`); a blocking probe with a message would go on, unless a
pending receive is taken for one that gets it (`NothingToProbe`). The hypothesis `ProbedIsNotOwn` excludes
the one case in which it is not: a process that probes a communicator on which it receives from itself, as
in `p2p_selfprobe`. The programs of `p2p_matching` and `p2p_requests` satisfy it.

**Ids.** `IdsInv` says that ids belong to their process and type and that only the two entries of one
buffered send share one; that each handle names a request that is yet to be completed or persistent, and no
two handles the same one; and that a tested request has its handle where closing frees it. The last part
keeps handles from naming a request that is gone, and so from naming another one when its id is used again. The hypothesis `DistinctStarts` excludes calls of MPI_Startall that name a request
twice, which MPI forbids and the verifier does not check: it would activate the request twice.
`CompletionFreesItsHandles` is the other direction: a handle that changes without a call of its process named
a finished request that the step closes and that is not persistent. MPI_Waitany and MPI_Waitsome put null in
the place of inactive persistent requests in the list they wait for, not in the program's memory, and
`close_requests` skips null: these handles stay (`FreeHandles`), and what they name may be started again. The
proof needs that only finished requests are closed (`ResumableIsFinished`) and that a tested request has its
handle in the slot that is freed (`TestsNamed`).

**Resources.** The inductive invariant `IInv` adds what the code relies on without saying so: a resource
is live exactly when its count is positive (`LiveIsCounted`); `remaining_controllers` counts the lists a
buffer is in (`RemainingIsExact`); a send that is still active has no receive, and a rendezvous send is
not finished too (`UnmatchedIsNotReceived`, `NewIsNotRendezvous`), without which `Match` would add a
reference that is there already; a process is saved or in its client, not both (`SavedIsNotRunning`,
`OneStatePerProcess`), without which saving would. There is one lemma for each action; adding, removing
and moving references are lemmas of their own (`AddReference`, `RemoveReference`, `DropReference`,
`SaveReference`). `CInv` builds on it for the rest: `total` is the number of resources that are not new or
freed (`TotalIsExact`), a new buffer is in no list (`NewIsUnwritten`), after the final check nothing is
done (`CheckedIsOver`). Together with `CountsAreExact` they give `NothingLeaks`.

**Explorer.** The invariant says where an item may be: in a queue, in a gcontext, on its way between a
pop and a start in one of the nested calls, or among the arcs, and in one of these only; that the nodes
of all of these are known, with all their actions put somewhere when the node was added; and that calls
are nested and queues served. `WorkConserved` and `StateSpaceIsExplored` follow: when no queue and no
gcontext has an item, every action of a known node is an arc, so what is known is closed under the
actions. It holds for any number of workers, any graph and both orders of the search.

**CollectiveService.** The inductive invariant has four parts: logs are made of calls (`LogsAreValid`),
only calls that were made have finished (`FinishedCallsWereMade`), a blocking call finishes before the
next one is made (`BlockingCallsFinish`), and what has finished could finish (`FinishedTogether`). It is
kept because logs are only appended: a call keeps its position among the calls of its communicator, so
calls that belong together stay together, and a call that may finish may always.

**Collectives.** `ImplementsService` carries these theorems over to the model of the code. Its inductive
invariant `IInv` says what the verifier relies on without storing it, for each operation object, request
and communicator, in terms of the calls made (`log`) and completed:

* processes that know a communicator by one id know the same one, with the same group, and are members of it;
  the ids of a process differ (`CommsOK`), its counters count its calls (`CountersOK`);
* a call that is not completed has exactly one request, with the number of the call; what a process waits for
  or has in a variable is such a request, each once; a blocking call is waited for (`RequestsOK`, `WaitOK`);
* an operation counts those that entered and those that left; it is what every call that entered asks for,
  root, name and size; the data of a root is there only if the root has entered, and a split keeps the colour of
  everybody who has entered until all have. There is one operation for the calls that belong together until all members
  have left (`OperationsOK`).

The last part is what a step needs to find *its* operation: `get_operation_by_cc_id` returns the first object
with the id and the number, so entering makes a new operation exactly when no member has entered, and
completing finds the one entered. On MPI_COMM_SELF several objects share id and number; there only their
number is known, which is enough, as each of them is complete from the start. With `FinishedTogether`, the refinement
needs that a request is finished only when `CanBeCompleted`, which the counts turn into who has entered.
The lemmas follow the code: communicators and splits; entering, one lemma for each `enter_main`; the
calls; completing, where one call may close several requests in a row and fail in between; the sweep and the
actions of a node. The assumptions on `Programs` (`ProgramsAssumption`: calls have the arguments of their kind, a
wait names no request twice) are those of the wrappers' arguments and of MPI; `NoneAssumption` says that None is no value.
The proof changed the model in two places: `InOrder` names how colours and ranks are sorted (it was a
library operator with a parameter the provers cannot use), and the specification asks for a root where a call
finishes (`HasRoot`) and not where it is made, since the verifier checks it when the call enters.

Sequences and recursive functions are reasoned about by least counterexample (`SmallestNumber`), since the
induction theorems of the library cannot be used.

Only model-checked:

* `Implements` of `p2p_matching`, which does not hold for all programs (`p2p_posting`), so there is nothing to
  prove without describing the programs that suppression is right for;
* `ResultsAreRight`, `CommunicatorsAgree`, `ErrorsAreExact`, `AttributesAreAccounted` of Collectives.
  `ResultsAreRight` is not true of all programs (operations on MPI_COMM_SELF, see above); the others need the
  buffers and groups of operations in the invariant (see the plan);
* FullProtocol and Ndsync: they are recursive over programs, paths and state spaces (RECURSIVE operators),
  which is out of reach of the prover;
* Client and its refinement: its operations are folds over pages;
* `Terminates` (liveness under fairness).

## Plan

1. Proofs: `Alloc` and `Dealloc` of Heap keep `Tiled`, and with it a part of `AccessIsAllocated`; then the
   counts of Client, which need a lemma for each of its folds.
2. Proofs: `AttributesAreAccounted` of Collectives, which needs that no handle names a duplicate that its process
   has not entered; then `ErrorsAreExact`.
3. The transfer of resources between workers as an extension of Resources; copies of a global state
   with a collective operation in progress as an extension of Collectives.

## Not modelled, and why

Datatypes, argument types and operations (`types.py`, `atypes.py`, `ops.py`) transform data without
shared state. Reports, messages and options are wording. The sockets between controller and client carry
one request and one answer at a time. The wrappers of the client libraries pass arguments on.
Of collective operations, `Collectives` has what is written when a call completes: the copy of the send
buffer that MPI_Allreduce makes in the receive buffer when it is entered is left out, as completion
overwrites it; results are made in the order of the ranks, but which of the two arguments of a reduction
function is which is not modelled. `CommunicatorsAgree` speaks of the members of a new communicator;
MPI_Comm_create writes its id also in processes that are not members. `--debug-seq`, `--debug-compare`, `--max-states`, statistics and the profile do not change what is
explored, except that a limit ends it. The transfer of resources between workers is not written yet (see
the plan). Hashing is abstract: two global states are the same node if they are the same state of the
graph; that `compute_hash` distinguishes what it should is not shown.

## Running

    tlc -workers 2 -config MCPointToPoint_matching.cfg MCPointToPoint
    tlapm ResourcesProofs.tla

Every cfg file is named after its module; the runs, their properties, the mutants and the lines of the
code each definition stands for are listed in `PROJECT.json`.
