----------------------------- MODULE Resources -----------------------------
(***************************************************************************)
(* Reference counting of what a worker stores in its clients: VgBuffers    *)
(* with messages, and VgStates with saved processes (vgtool/resource.py,   *)
(* vgtool/controller.py), as requests, states and global states use them   *)
(* (mpi/request.py, mpi/state.py, mpi/globalstate.py, mpi/context.py).     *)
(*                                                                         *)
(* Only the current global state can change; the others are waiting in the *)
(* queue.  A global state holds a resource once for every role: the send   *)
(* in active_requests, the send in finished_requests, the finished         *)
(* receive, a collective operation, the vg_state of a process.             *)
(***************************************************************************)
EXTENDS Integers, FiniteSets

CONSTANTS
  Controllers,    \* one client for each process
  Buffers,        \* ids that VgBuffers may get
  VgStates,       \* ids that VgStates may get
  ControllerOf,   \* the client in which a VgState is stored
  Hashes,         \* hashes of saved processes
  NoHash,
  GStates,        \* global states
  Initial,        \* the global state of make_initial_node
  NoGState

Resources == Buffers \cup VgStates
Managers == Controllers \cup {"buffers"}
Roles == {"active", "sent", "received", "operation", "process"}

ASSUME ResourceAssumption ==
  /\ IsFiniteSet(Controllers) /\ IsFiniteSet(Resources) /\ IsFiniteSet(GStates)
  /\ Buffers \cap VgStates = {}
  /\ "buffers" \notin Controllers
  /\ ControllerOf \in [VgStates -> Controllers]
  /\ Initial \in GStates /\ NoGState \notin GStates

VARIABLES
  stage,      \* "new" (not allocated), "live", "unused" (not_used_resources) or "freed"
  count,      \* Resource.ref_count
  total,      \* ResourceManager.resource_count
  hash,       \* VgState.hash
  targets,    \* the controllers a buffer is made for
  remaining,  \* VgBuffer.remaining_controllers
  toMake,     \* ControllerWithResources.buffers_to_make
  written,    \* VgBuffer.controllers: the clients that have the buffer
  rendezvous, \* buffers of rendezvous sends
  held,       \* held[g]: pairs <<resource, role>>
  current,    \* the global state of the worker's gcontext
  running,    \* controllers that contain a process of the current global state
  checked     \* final_check has been reached

bufferVars == <<targets, remaining, toMake, written, rendezvous>>
vars == <<stage, count, total, hash, bufferVars, held, current, running, checked>>

Manager(r) == IF r \in Buffers THEN "buffers" ELSE ControllerOf[r]

Holds(g, r, role) == <<r, role>> \in held[g]

\* Global states that exist: the current one and those in the queue.
Alive == {g \in GStates : g = current \/ held[g] # {}}

-----------------------------------------------------------------------------
(* resource.py.  A step changes counts by a function of the resource. *)

\* Those that dec_ref leaves without a reference if r loses drop[r] of them.
Dropped(drop) == {r \in Resources : drop[r] > 0 /\ count[r] - drop[r] < 1}

\* dec_ref: add_not_used_resource for those
Release(drop) ==
  /\ count' = [r \in Resources |-> count[r] - drop[r]]
  /\ stage' = [r \in Resources |-> IF r \in Dropped(drop) THEN "unused" ELSE stage[r]]
  /\ total' = [m \in Managers |-> total[m] - Cardinality({r \in Dropped(drop) : Manager(r) = m})]

Once(S) == [r \in Resources |-> IF r \in S THEN 1 ELSE 0]

\* Every reference of g, one for each role.
RolesOf(g, r) == {role \in Roles : Holds(g, r, role)}
References(g) == [r \in Resources |-> Cardinality(RolesOf(g, r))]

-----------------------------------------------------------------------------
(* Buffers *)

\* VgBuffer.write_data for the buffers waiting for controllers of C; a buffer
\* that none is left for loses the reference of BufferManager.new_buffer.
Waiting(b, C) == {c \in C : b \in toMake[c]}

Completed(C) ==
  {b \in Buffers : Waiting(b, C) # {} /\ remaining[b] = Cardinality(Waiting(b, C))}

\* Mutant of WriteBuffers: buffers_to_make is not emptied.
WriteBuffersAgain(C) ==
  /\ remaining' = [b \in Buffers |-> remaining[b] - Cardinality(Waiting(b, C))]
  /\ written' = [b \in Buffers |-> written[b] \cup Waiting(b, C)]
  /\ UNCHANGED toMake

WriteBuffers(C) ==
  /\ remaining' = [b \in Buffers |-> remaining[b] - Cardinality(Waiting(b, C))]
  /\ written' = [b \in Buffers |-> written[b] \cup Waiting(b, C)]
  /\ toMake' = [c \in Controllers |-> IF c \in C THEN {} ELSE toMake[c]]

\* Context.make_buffer, make_buffer_for_one and make_buffer_for_more: the buffer
\* has a reference for each role and one until all the controllers have got it.
NewBuffer(b, C, roles, isRendezvous) ==
  /\ current \in GStates /\ running # {} /\ ~checked
  /\ stage[b] = "new"
  /\ stage' = [stage EXCEPT ![b] = "live"]
  /\ count' = [count EXCEPT ![b] = Cardinality(roles) + 1]
  /\ total' = [total EXCEPT !["buffers"] = @ + 1]
  /\ targets' = [targets EXCEPT ![b] = C]
  /\ remaining' = [remaining EXCEPT ![b] = Cardinality(C)]
  /\ toMake' = [c \in Controllers |-> IF c \in C THEN toMake[c] \cup {b} ELSE toMake[c]]
  /\ rendezvous' = IF isRendezvous THEN rendezvous \cup {b} ELSE rendezvous
  /\ held' = [held EXCEPT ![current] = @ \cup ({b} \X roles)]
  /\ UNCHANGED <<hash, written, current, running, checked>>

\* State.activate_request: a send that is not a rendezvous is finished at once.
Send(b, c) ==
  \/ NewBuffer(b, {c}, {"active"}, TRUE)
  \/ NewBuffer(b, {c}, {"active", "sent"}, FALSE)

\* OperationWithBuffers.make_buffer_for_all and make_buffer_for_root
EnterOperation(b, C) == C # {} /\ NewBuffer(b, C, {"operation"}, FALSE)

\* Mutant of Match: the send is handled first, and may take the buffer with it.
MatchSendFirst(b) ==
  /\ current \in GStates
  /\ Holds(current, b, "active")
  /\ LET new == IF b \in rendezvous THEN {"sent", "received"} ELSE {"received"}
     IN held' = [held EXCEPT ![current] = (@ \ {<<b, "active">>}) \cup ({b} \X new)]
  /\ count' = [count EXCEPT ![b] = IF b \in rendezvous THEN @ + 1 ELSE (@ - 1) + 1]
  /\ stage' = [stage EXCEPT ![b] = IF b \notin rendezvous /\ count[b] = 1 THEN "unused" ELSE @]
  /\ UNCHANGED <<total, hash, bufferVars, current, running, checked>>

\* GlobalContext.apply_matching: the finished receive gets its reference before
\* the send loses its own; a rendezvous send only moves to the finished ones.
Match(b) ==
  /\ current \in GStates
  /\ Holds(current, b, "active")
  /\ LET new == IF b \in rendezvous THEN {"sent", "received"} ELSE {"received"}
     IN held' = [held EXCEPT ![current] = (@ \ {<<b, "active">>}) \cup ({b} \X new)]
  /\ count' = [count EXCEPT ![b] = IF b \in rendezvous THEN @ + 1 ELSE (@ + 1) - 1]
  /\ UNCHANGED <<stage, total, hash, bufferVars, current, running, checked>>

\* Context._close_request of a finished send
CloseSend(b) ==
  /\ current \in GStates
  /\ Holds(current, b, "sent")
  /\ running # {}
  /\ Release(Once({b}))
  /\ held' = [held EXCEPT ![current] = @ \ {<<b, "sent">>}]
  /\ UNCHANGED <<hash, bufferVars, current, running, checked>>

\* The same for a receive of the process in c, after prepare_context: its client
\* gets its buffers, of which the message is unpacked.
CloseReceive(b, c) ==
  /\ current \in GStates
  /\ Holds(current, b, "received")
  /\ c \in targets[b] \cap running
  /\ WriteBuffers({c})
  /\ LET made == Completed({c})
     IN Release([r \in Resources |-> (IF r \in made THEN 1 ELSE 0) + (IF r = b THEN 1 ELSE 0)])
  /\ held' = [held EXCEPT ![current] = @ \ {<<b, "received">>}]
  /\ UNCHANGED <<hash, targets, rendezvous, current, running, checked>>

\* CollectiveOperation.complete of the last process; every process has gone
\* through prepare_context before it read the buffers.
FinishOperation(b) ==
  /\ current \in GStates
  /\ Holds(current, b, "operation")
  /\ running # {}
  /\ Waiting(b, Controllers) = {}
  /\ Release(Once({b}))
  /\ held' = [held EXCEPT ![current] = @ \ {<<b, "operation">>}]
  /\ UNCHANGED <<hash, bufferVars, current, running, checked>>

\* ControllerWithResources.make_buffers, as prepare_context calls it
MakeBuffers(c) ==
  /\ c \in running
  /\ toMake[c] # {}
  /\ WriteBuffers({c})
  /\ Release(Once(Completed({c})))
  /\ UNCHANGED <<hash, targets, rendezvous, held, current, running, checked>>

\* BufferManager.cleanup, at the end of Worker.fast_expand
CleanupBuffers ==
  /\ \E b \in Buffers : stage[b] = "unused"
  /\ stage' = [r \in Resources |->
                 IF r \in Buffers /\ stage[r] = "unused" THEN "freed" ELSE stage[r]]
  /\ written' = [b \in Buffers |-> IF stage[b] = "unused" THEN {} ELSE written[b]]
  /\ UNCHANGED <<count, total, hash, targets, remaining, toMake, rendezvous,
                 held, current, running, checked>>

-----------------------------------------------------------------------------
(* Saved processes.  state_cache of a controller maps a hash to the VgState  *)
(* that has it, until cleanup_states.                                        *)

Cached(c, h) ==
  {s \in VgStates : ControllerOf[s] = c /\ stage[s] \in {"live", "unused"} /\ hash[s] = h}

\* save_state: from the cache, with inc_ref_revive ...
SaveCached(c, s) ==
  /\ current \in GStates
  /\ c \in running
  /\ s \in Cached(c, hash[s])
  /\ stage' = [stage EXCEPT ![s] = "live"]
  /\ count' = [count EXCEPT ![s] = @ + 1]
  /\ total' = [total EXCEPT ![c] = IF stage[s] = "unused" THEN @ + 1 ELSE @]
  /\ held' = [held EXCEPT ![current] = @ \cup {<<s, "process">>}]
  /\ running' = running \ {c}
  /\ UNCHANGED <<hash, bufferVars, current, checked>>

\* Mutant of SaveNew: the cache is not consulted.
SaveUncached(c, s, h) ==
  /\ current \in GStates
  /\ c \in running
  /\ ControllerOf[s] = c
  /\ stage[s] = "new"
  /\ stage' = [stage EXCEPT ![s] = "live"]
  /\ count' = [count EXCEPT ![s] = 1]
  /\ total' = [total EXCEPT ![c] = @ + 1]
  /\ hash' = [hash EXCEPT ![s] = h]
  /\ held' = [held EXCEPT ![current] = @ \cup {<<s, "process">>}]
  /\ running' = running \ {c}
  /\ UNCHANGED <<bufferVars, current, checked>>

\* ... or saved by the client.
SaveNew(c, s, h) ==
  /\ current \in GStates
  /\ c \in running
  /\ ControllerOf[s] = c
  /\ stage[s] = "new"
  /\ Cached(c, h) = {}
  /\ stage' = [stage EXCEPT ![s] = "live"]
  /\ count' = [count EXCEPT ![s] = 1]
  /\ total' = [total EXCEPT ![c] = @ + 1]
  /\ hash' = [hash EXCEPT ![s] = h]
  /\ held' = [held EXCEPT ![current] = @ \cup {<<s, "process">>}]
  /\ running' = running \ {c}
  /\ UNCHANGED <<bufferVars, current, checked>>

\* A process that has ended is not saved.
Exit(c) ==
  /\ c \in running
  /\ running' = running \ {c}
  /\ UNCHANGED <<stage, count, total, hash, bufferVars, held, current, checked>>

\* Mutant of Restore: the state takes the place of the client it is restored in.
RestoreWithoutClient(s) ==
  /\ current \in GStates
  /\ Holds(current, s, "process")
  /\ Release(Once({s}))
  /\ held' = [held EXCEPT ![current] = @ \ {<<s, "process">>}]
  /\ running' = running \cup {s}
  /\ UNCHANGED <<hash, bufferVars, current, checked>>

\* Context.restore_state
Restore(s) ==
  /\ current \in GStates
  /\ Holds(current, s, "process")
  /\ Release(Once({s}))
  /\ held' = [held EXCEPT ![current] = @ \ {<<s, "process">>}]
  /\ running' = running \cup {ControllerOf[s]}
  /\ UNCHANGED <<hash, bufferVars, current, checked>>

-----------------------------------------------------------------------------
(* Global states *)

\* Mutant of Copy: no inc_ref for finished receives.
CopyWithoutReceived(g) ==
  /\ current \in GStates
  /\ running = {}
  /\ g \notin Alive
  /\ count' = [r \in Resources |-> count[r] + Cardinality(RolesOf(current, r) \ {"received"})]
  /\ held' = [held EXCEPT ![g] = held[current]]
  /\ UNCHANGED <<stage, total, hash, bufferVars, current, running, checked>>

\* GlobalState.copy for an action of a node: inc_ref for every request, buffer of
\* an operation and saved process.
Copy(g) ==
  /\ current \in GStates
  /\ running = {}
  /\ g \notin Alive
  /\ count' = [r \in Resources |-> count[r] + References(current)[r]]
  /\ held' = [held EXCEPT ![g] = held[current]]
  /\ UNCHANGED <<stage, total, hash, bufferVars, current, running, checked>>

\* GlobalState.dispose
Dispose ==
  /\ current \in GStates
  /\ running = {}
  /\ Release(References(current))
  /\ held' = [held EXCEPT ![current] = {}]
  /\ current' = NoGState
  /\ UNCHANGED <<hash, bufferVars, running, checked>>

\* Worker.start_gcontext of a global state from the queue
StartGContext(g) ==
  /\ current = NoGState
  /\ g \in Alive
  /\ current' = g
  /\ UNCHANGED <<stage, count, total, hash, bufferVars, held, running, checked>>

\* Mutant of FinalCheck: it only cleans up.
FinalCheckWithoutWriting ==
  /\ current = NoGState
  /\ Alive = {}
  /\ ~checked
  /\ stage' = [r \in Resources |-> IF stage[r] = "unused" THEN "freed" ELSE stage[r]]
  /\ checked' = TRUE
  /\ UNCHANGED <<count, total, hash, bufferVars, held, current, running>>

\* Worker.before_final_check, when the queue is empty: all buffers are written,
\* then everything that is not used is freed in the clients.
FinalCheck ==
  /\ current = NoGState
  /\ Alive = {}
  /\ ~checked
  /\ WriteBuffers(Controllers)
  /\ LET drop == Once(Completed(Controllers))
     IN /\ count' = [r \in Resources |-> count[r] - drop[r]]
        /\ total' = [m \in Managers |->
                       total[m] - Cardinality({r \in Dropped(drop) : Manager(r) = m})]
        /\ stage' = [r \in Resources |->
                       IF stage[r] = "unused" \/ r \in Dropped(drop) THEN "freed" ELSE stage[r]]
  /\ checked' = TRUE
  /\ UNCHANGED <<hash, targets, rendezvous, held, current, running>>

-----------------------------------------------------------------------------
Init ==
  /\ stage = [r \in Resources |-> "new"]
  /\ count = [r \in Resources |-> 0]
  /\ total = [m \in Managers |-> 0]
  /\ hash = [s \in VgStates |-> NoHash]
  /\ targets = [b \in Buffers |-> {}]
  /\ remaining = [b \in Buffers |-> 0]
  /\ toMake = [c \in Controllers |-> {}]
  /\ written = [b \in Buffers |-> {}]
  /\ rendezvous = {}
  /\ held = [g \in GStates |-> {}]
  /\ current = Initial
  /\ running = Controllers
  /\ checked = FALSE

Next ==
  \/ \E b \in Buffers :
       \/ \E c \in Controllers : Send(b, c) \/ CloseReceive(b, c)
       \/ \E C \in SUBSET Controllers : EnterOperation(b, C)
       \/ Match(b) \/ CloseSend(b) \/ FinishOperation(b)
  \/ \E c \in Controllers : MakeBuffers(c) \/ Exit(c)
  \/ \E c \in Controllers, s \in VgStates :
       SaveCached(c, s) \/ \E h \in Hashes : SaveNew(c, s, h)
  \/ \E s \in VgStates : Restore(s)
  \/ \E g \in GStates : Copy(g) \/ StartGContext(g)
  \/ Dispose
  \/ CleanupBuffers
  \/ FinalCheck

Spec == Init /\ [][Next]_vars

-----------------------------------------------------------------------------
(* Properties *)

TypeOK ==
  /\ stage \in [Resources -> {"new", "live", "unused", "freed"}]
  /\ count \in [Resources -> Int]
  /\ total \in [Managers -> Int]
  /\ hash \in [VgStates -> Hashes \cup {NoHash}]
  /\ targets \in [Buffers -> SUBSET Controllers]
  /\ remaining \in [Buffers -> Int]
  /\ toMake \in [Controllers -> SUBSET Buffers]
  /\ written \in [Buffers -> SUBSET Controllers]
  /\ rendezvous \subseteq Buffers
  /\ held \in [GStates -> SUBSET (Resources \X Roles)]
  /\ current \in GStates \cup {NoGState}
  /\ running \subseteq Controllers
  /\ checked \in BOOLEAN

\* Who has a reference to r: global states, each in some roles ...
Holders(r) == {x \in GStates \X Roles : Holds(x[1], r, x[2])}

\* ... and the list of a controller that the buffer has still to be written to.
Pending(r) == IF r \in Buffers /\ Waiting(r, Controllers) # {} THEN 1 ELSE 0

\* ref_count is the number of references: copying, matching, closing, disposing
\* and writing keep it exact, so none of the assertions of resource.py fails.
CountsAreExact ==
  \A r \in Resources : count[r] = Cardinality(Holders(r)) + Pending(r)

\* What is referred to is not handed back to the client, and what is not referred
\* to waits to be: free_buffer and free_state never hit a resource in use.
NoUseAfterFree ==
  \A r \in Resources :
    stage[r] = "live" <=> (Holders(r) # {} \/ Pending(r) = 1)

\* A process that receives a message finds it in its client once it has written
\* the buffers that wait for it: no controller is forgotten or served twice.
BuffersReachTheirControllers ==
  \A b \in Buffers :
    stage[b] \in {"live", "unused"} =>
      /\ written[b] \cup Waiting(b, Controllers) = targets[b]
      /\ written[b] \cap Waiting(b, Controllers) = {}
      /\ remaining[b] = Cardinality(Waiting(b, Controllers))

\* A controller does not have two saved processes with one hash: state_cache is
\* as large as resource_count says when states_count compares them.
CacheIsAFunction ==
  \A s, t \in VgStates :
    /\ {stage[s], stage[t]} \subseteq {"live", "unused"}
    /\ ControllerOf[s] = ControllerOf[t] /\ hash[s] = hash[t]
    => s = t

\* Worker.final_check finds nothing left: every resource has been freed, and the
\* managers count none.
NothingLeaks ==
  checked =>
    /\ \A r \in Resources : stage[r] \in {"new", "freed"} /\ count[r] = 0
    /\ \A m \in Managers : total[m] = 0

=============================================================================
