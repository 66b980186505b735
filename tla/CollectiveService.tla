------------------------- MODULE CollectiveService -------------------------
(***************************************************************************)
(* What MPI promises of collective operations, without operation objects,  *)
(* counters and requests.  The n-th collective call of a process on a      *)
(* communicator belongs to the n-th calls of the other members.  A process *)
(* enters operations in the order of its calls, one blocking call at a     *)
(* time, and an operation may finish at a process as soon as the processes *)
(* whose data it needs there have entered it.                              *)
(***************************************************************************)
EXTENDS Integers, Sequences, FiniteSets, SequencesExt

CONSTANTS Procs, None, CommSelf

VARIABLES
  log,   \* log[p]: the collective calls of p: records [comm, group, call]
  done   \* done[p]: the numbers of the calls of p that have finished

vars == <<log, done>>

-----------------------------------------------------------------------------
(* Which calls belong together. *)

\* MPI_COMM_SELF is a communicator of its own in every process.
Key(p, s) ==
  IF log[p][s].comm.comm_id = CommSelf THEN <<CommSelf, p>> ELSE <<log[p][s].comm.comm_id>>

\* The position of a call among the calls of its process on this communicator.
Position(p, s) == Cardinality({t \in 1 .. s : Key(p, t) = Key(p, s)})

Together(p, s, q, t) == Key(p, s) = Key(q, t) /\ Position(p, s) = Position(q, t)

Table(p, s) == log[p][s].comm.group.table

\* The call of process q that belongs to call s of p.
HasEntered(p, s, q) == \E t \in DOMAIN log[q] : Together(p, s, q, t)
PeerCall(p, s, q) == CHOOSE t \in DOMAIN log[q] : Together(p, s, q, t)

ToRoot == {"gather", "gatherv", "reduce"}
FromRoot == {"scatter", "scatterv", "bcast"}
Rooted == ToRoot \cup FromRoot

\* The processes whose data call s of p needs.
Needs(p, s) ==
  LET call == log[p][s].call
      table == Table(p, s)
  IN CASE call.name \in ToRoot -> IF p = table[call.root + 1] THEN ToSet(table) ELSE {}
       [] call.name \in FromRoot -> {table[call.root + 1]}
       [] call.name \in {"comm_dup", "comm_create"} -> {}
       [] OTHER -> ToSet(table)

\* A root that is no rank of the communicator is an error.
HasRoot(p, s) ==
  log[p][s].call.name \in Rooted => log[p][s].call.root + 1 \in DOMAIN Table(p, s)

MayFinish(p, s) == HasRoot(p, s) /\ \A q \in Needs(p, s) : HasEntered(p, s, q)

-----------------------------------------------------------------------------
Init ==
  /\ log = [p \in Procs |-> <<>>]
  /\ done = [p \in Procs |-> {}]

\* A member calls.
Valid(p, entry) ==
  LET table == entry.comm.group.table IN p \in ToSet(table) /\ ToSet(table) \subseteq Procs

Enter(p) ==
  /\ \A s \in DOMAIN log[p] : log[p][s].call.blocking => s \in done[p]
  /\ UNCHANGED done
  /\ Len(log'[p]) = Len(log[p]) + 1
  /\ Valid(p, Last(log'[p]))
  /\ log' = [log EXCEPT ![p] = Append(@, Last(log'[p]))]

Finish(p) ==
  /\ \E s \in DOMAIN log[p] \ done[p] :
       /\ MayFinish(p, s)
       /\ done' = [done EXCEPT ![p] = @ \cup {s}]
  /\ UNCHANGED log

Next == \E p \in Procs : Enter(p) \/ Finish(p)

Spec == Init /\ [][Next]_vars

-----------------------------------------------------------------------------
(* The results. *)

Data(p, s, q) ==
  LET t == PeerCall(p, s, q)
  IN IF log[q][t].call.name = "gather" /\ log[q][t].call.inplace THEN None ELSE <<q, t>>

AllData(p, s) ==
  LET table == Table(p, s) IN [i \in DOMAIN table |-> Data(p, s, table[i])]

\* What call s of p writes: to which buffer and what, None if nothing.
Result(p, s) ==
  LET call == log[p][s].call
      table == Table(p, s)
      rank == SelectInSeq(table, LAMBDA q : q = p) - 1
      root == table[call.root + 1]
      all == AllData(p, s)
      write(value) == [buffer |-> call.recvbuf, value |-> value]
      reduced(data) == [op |-> call.fn, of |-> data]
  IN CASE call.name = "barrier" -> None
       [] call.name \in {"gather", "gatherv"} -> IF p = root THEN write(all) ELSE None
       [] call.name = "reduce" -> IF p = root THEN write(reduced(all)) ELSE None
       [] call.name \in {"scatter", "scatterv"} ->
            IF call.inplace THEN None ELSE write(<<Data(p, s, root), rank>>)
       [] call.name = "bcast" -> IF p = root THEN None ELSE write(Data(p, s, root))
       [] call.name \in {"allgather", "allgatherv"} -> write(all)
       [] call.name = "allreduce" -> write(reduced(all))
       [] call.name = "scan" -> write(reduced(SubSeq(all, 1, rank + 1)))
       [] call.name = "reduce_scatter" -> write(<<reduced(all), rank>>)

\* The members of the communicator that call s of p makes, in the order of their ranks; no
\* one, if p asked for none.
NewTable(p, s) ==
  LET call == log[p][s].call
      table == Table(p, s)
      peer(q) == log[q][PeerCall(p, s, q)].call
      same == {i \in DOMAIN table : peer(table[i]).color = call.color}
      before(i, j) == \/ peer(table[i]).key < peer(table[j]).key
                      \/ peer(table[i]).key = peer(table[j]).key /\ i < j
      order == SetToSortSeq(same, before)
  IN CASE call.name = "comm_dup" -> table
       [] call.name = "comm_create" -> log[p][s].group
       [] call.name = "comm_split" /\ call.color < 0 -> <<>>
       [] OTHER -> [i \in DOMAIN order |-> table[order[i]]]

-----------------------------------------------------------------------------
\* An operation finished nowhere before the data it needs there was entered: the root of a
\* gather has heard of everybody, nobody leaves a barrier early.
FinishedTogether == \A p \in Procs : \A s \in done[p] : MayFinish(p, s)

\* Who has called again after a blocking call had the data for it: behind a barrier, a process
\* can rely on what all members did before.
BlockingCallsSeparate ==
  \A p \in Procs : \A s \in DOMAIN log[p], t \in DOMAIN log[p] :
    log[p][s].call.blocking /\ s < t => MayFinish(p, s)

=============================================================================
