--------------------------- MODULE Communicators ---------------------------
(***************************************************************************)
(* What a State object knows of communicators, groups and attributes       *)
(* (mpi/comm.py, mpi/keyval.py and the first half of mpi/state.py), as     *)
(* operators on the record of one process:                                 *)
(*                                                                         *)
(*   comms     the user-defined communicators of which it is a member      *)
(*   counters  cc_id_counters: WORLD, SELF, then one for each of comms     *)
(*             (None in the code until it is first touched: all zero)      *)
(*   groups    from the ids of group handles to Group objects              *)
(*   keyvals   attribute keys by number, None once freed                   *)
(*   attrs     the attributes: records [comm, keyval, value]               *)
(*   made, deleted  history: the attributes that were attached, and those  *)
(*             whose delete callback was called                            *)
(*                                                                         *)
(* The identity of a Group object matters (MPI_Group_free looks for it):   *)
(* "object" names the object.                                              *)
(***************************************************************************)
EXTENDS Integers, Sequences, FiniteSets, SequencesExt, Functions

CONSTANTS ProcessCount, None

ASSUME CommunicatorsAssumption == ProcessCount \in Nat \ {0}

Procs == 0 .. ProcessCount - 1

\* Group and Communicator objects; a process is in a group once.
Groups ==
  [object : {"world", "self", "comm", "made"} \X Nat \X Nat, table : {table \in Seq(Procs) : IsInjective(table)}]
Comms == [comm_id : Nat, group : Groups]

\* None is no number, name, pair or object.
ASSUME NoneAssumption ==
  None \notin Int /\ None \notin STRING /\ None \notin Int \X Int /\ None \notin Groups /\ None \notin Comms

\* consts.py, the part that tells communicators from each other
CommNull == 0
CommSelf == 1
CommWorld == 2
CommUserdef == 3
GroupNull == 0
Undefined == -1

-----------------------------------------------------------------------------
(* comm.py *)

NewGroup(object, table) == [object |-> object, table |-> table]
Communicator(comm_id, group) == [comm_id |-> comm_id, group |-> group]

Size(comm) == Len(comm.group.table)
RankToPid(comm, rank) == comm.group.table[rank + 1]

\* Group.pid_to_rank, None where the process is no member
PidToRank(comm, pid) ==
  LET i == SelectInSeq(comm.group.table, LAMBDA q : q = pid)
  IN IF i = 0 THEN None ELSE i - 1

GroupWorld == NewGroup(<<"world", 0, 0>>, [i \in 1 .. ProcessCount |-> i - 1])
MakeCommWorld == Communicator(CommWorld, GroupWorld)

\* make_comm_self: get_comm makes a Communicator of its own at every call.
MakeCommSelf(pid) == Communicator(CommSelf, NewGroup(<<"self", pid, 0>>, <<pid>>))

-----------------------------------------------------------------------------
(* Communicators and the counters of collective operations.                *)

\* State.get_comm
GetComm(S, pid, comm_id) ==
  IF comm_id = CommWorld THEN MakeCommWorld
  ELSE IF comm_id = CommSelf THEN MakeCommSelf(pid)
  ELSE LET i == SelectInSeq(S.comms, LAMBDA c : c.comm_id = comm_id)
       IN IF i = 0 THEN None ELSE S.comms[i]

\* State._cc_id_counter_index, counted from 1
CounterIndex(S, comm) ==
  CASE comm.comm_id = CommWorld -> 1
    [] comm.comm_id = CommSelf -> 2
    [] OTHER -> 2 + SelectInSeq(S.comms, LAMBDA c : c.comm_id = comm.comm_id)

GetCounter(S, comm) == S.counters[CounterIndex(S, comm)]

IncCounter(S, comm) == [S EXCEPT !.counters[CounterIndex(S, comm)] = @ + 1]

\* State.add_comm
AddComm(S, comm) ==
  [S EXCEPT !.counters = Append(@, 0), !.comms = Append(@, comm)]

-----------------------------------------------------------------------------
(* Attributes.  keyvals[k] = [copy, delete]: whether the key has a copy    *)
(* and a delete callback.  A copy callback answers with the value.         *)

AddKeyval(S, copy, delete) ==
  [S EXCEPT !.keyvals = Append(@, [copy |-> copy, delete |-> delete, freed |-> FALSE])]

RemoveKeyval(S, k) == [S EXCEPT !.keyvals[k].freed = TRUE]

GetAttr(S, comm_id, k) == {a \in S.attrs : a.comm = comm_id /\ a.keyval = k}
GetCommAttrs(S, comm_id) == {a \in S.attrs : a.comm = comm_id}

\* State.delete_attr of each of attrs
DeleteAttrs(S, attrs) ==
  [S EXCEPT !.attrs = @ \ attrs,
            !.deleted = @ \cup {a \in attrs : S.keyvals[a.keyval].delete}]

Attach(S, attrs) == [S EXCEPT !.attrs = @ \cup attrs, !.made = @ \cup attrs]

\* Mutant of SetAttr: the value that was there is just overwritten.
SetAttrOver(S, comm_id, k, value) ==
  Attach([S EXCEPT !.attrs = @ \ GetAttr(S, comm_id, k)],
         {[comm |-> comm_id, keyval |-> k, value |-> value]})

\* State.set_attr: the value it replaces goes through delete_attr
SetAttr(S, comm_id, k, value) ==
  Attach(DeleteAttrs(S, GetAttr(S, comm_id, k)),
         {[comm |-> comm_id, keyval |-> k, value |-> value]})

\* State.remove_comm
RemoveComm(S, comm) ==
  LET T == DeleteAttrs(S, GetCommAttrs(S, comm.comm_id))
      i == SelectInSeq(S.comms, LAMBDA c : c = comm)
  IN [T EXCEPT !.comms = RemoveAt(@, i), !.counters = RemoveAt(@, i + 2)]

\* Context.copy_comm_attrs: attributes whose key has a copy callback.
CopyCommAttrs(S, comm_id, new_id) ==
  Attach(S, {[a EXCEPT !.comm = new_id] :
               a \in {b \in GetCommAttrs(S, comm_id) : S.keyvals[b.keyval].copy}})

-----------------------------------------------------------------------------
(* Groups. *)

\* State.add_group: the smallest id that is free.
FreeGroupId(S) ==
  CHOOSE i \in 1 .. Cardinality(DOMAIN S.groups) + 1 :
    i \notin DOMAIN S.groups /\ \A j \in 1 .. i - 1 : j \in DOMAIN S.groups

AddGroup(S, group) ==
  LET id == FreeGroupId(S)
  IN [S EXCEPT !.groups = [i \in DOMAIN S.groups \cup {id} |-> IF i = id THEN group ELSE S.groups[i]]]

GetGroup(S, id) == IF id \in DOMAIN S.groups THEN S.groups[id] ELSE None

\* State.remove_group: the first handle of this very object.
RemoveGroup(S, group) ==
  LET ids == {i \in DOMAIN S.groups : S.groups[i].object = group.object}
      first == CHOOSE i \in ids : \A j \in ids : i <= j
  IN [S EXCEPT !.groups = Restrict(@, DOMAIN @ \ {first})]

\* sorted() of Python: the elements of a set in the order of before.
InOrder(set, before(_, _)) == CHOOSE s \in SetToSeqs(set) : IsSorted(s, before)

\* MPI_Group_incl, MPI_Group_excl: the table of the new group.
Including(group, ranks) == [i \in DOMAIN ranks |-> group.table[ranks[i] + 1]]
Excluding(group, ranks) ==
  LET rest == {r \in 0 .. Len(group.table) - 1 : r \notin ToSet(ranks)}
      order == InOrder(rest, <)
  IN [i \in DOMAIN order |-> group.table[order[i] + 1]]

=============================================================================
