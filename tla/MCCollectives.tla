--------------------------- MODULE MCCollectives ---------------------------
(***************************************************************************)
(* Programs of three processes for module Collectives.  Each position      *)
(* offers a set of calls, so that calls of one operation match in some of  *)
(* the programs and mismatch in others.                                    *)
(***************************************************************************)
EXTENDS Collectives

World == 1
Self == 2

collective(name, comm) ==
  [op |-> "Collective", name |-> name, blocking |-> TRUE, comm |-> comm, root |-> 0,
   inplace |-> FALSE, recvbuf |-> 5, fn |-> "sum", count |-> 1, color |-> 0, key |-> 0,
   group |-> 1, request |-> 1]
rooted(name, comm, root) == [collective(name, comm) EXCEPT !.root = root]
nonblocking(call, request) == [call EXCEPT !.blocking = FALSE, !.request = request]
inplace(call) == [call EXCEPT !.inplace = TRUE]
into(recvbuf, call) == [call EXCEPT !.recvbuf = recvbuf]
with(fn, call) == [call EXCEPT !.fn = fn]
counted(count, call) == [call EXCEPT !.count = count]

split(comm, color, key, var) ==
  [collective("comm_split", comm) EXCEPT !.color = color, !.key = key, !.recvbuf = var]
dup(comm, var) == into(var, collective("comm_dup", comm))
create(comm, group, var) == [into(var, collective("comm_create", comm)) EXCEPT !.group = group]
free(var) == [op |-> "Comm_free", comm |-> var]

wait(requests) == [op |-> "Wait", requests |-> requests]
test(requests) == [op |-> "Test", requests |-> requests]

comm_group(comm, var) == [op |-> "Comm_group", comm |-> comm, group |-> var]
incl(from, ranks, var) == [op |-> "Group_incl", from |-> from, ranks |-> ranks, group |-> var]
excl(from, ranks, var) == [op |-> "Group_excl", from |-> from, ranks |-> ranks, group |-> var]
group_free(var) == [op |-> "Group_free", group |-> var]

keyval(copy, delete) ==
  [op |-> "Keyval_create", copy |-> copy, delete |-> delete, comm |-> World, keyval |-> 0]
keyval_free(k) == [op |-> "Keyval_free", keyval |-> k, comm |-> World]
put(comm, k) == [op |-> "Attr_put", comm |-> comm, keyval |-> k]
delete(comm, k) == [op |-> "Attr_delete", comm |-> comm, keyval |-> k]

Program(p0, p1, p2) == [p \in Procs |-> IF p = 0 THEN p0 ELSE IF p = 1 THEN p1 ELSE p2]
Same(calls) == Program(calls, calls, calls)

\* Two operations in flight, completed in every way.
Pipelined(first, second, ends) ==
  <<{nonblocking(first, 1)}, {nonblocking(second, 2)}, ends, {wait(<<1, 2>>)}>>

BothWays == {wait(<<2, 1>>), test(<<2>>), test(<<1, 2>>)}

MCPrograms ==
  { Same(Pipelined(rooted("gather", World, 1), rooted("bcast", World, 2), BothWays)),
    Same(Pipelined(rooted("reduce", World, 2), rooted("scatter", World, 0), BothWays)),
    Program(Pipelined(collective("barrier", World), inplace(rooted("gather", World, 0)), BothWays),
            Pipelined(collective("barrier", World), rooted("gather", World, 0), BothWays),
            <<{collective("barrier", World), nonblocking(collective("barrier", World), 1)},
              {nonblocking(rooted("gather", World, 0), 2), nonblocking(rooted("gather", World, 1), 2)},
              {wait(<<1, 2>>)}>>),
    \* different buffers and operations of one reduction, different counts
    Program(<<{into(6, rooted("reduce", World, 0)), with("max", rooted("reduce", World, 0))},
              {collective("allreduce", World)}, {collective("reduce_scatter", World)}>>,
            <<{rooted("reduce", World, 0)}, {with("max", collective("allreduce", World)),
                                             collective("allreduce", World)},
              {collective("reduce_scatter", World), counted(2, collective("reduce_scatter", World))}>>,
            <<{rooted("reduce", World, 0)}, {collective("allreduce", World)},
              {collective("reduce_scatter", World)}>>),
    Same(<<{collective("scan", World)}, {collective("allgather", World)},
           {rooted("scatterv", World, 1)}, {rooted("gatherv", World, 1)},
           {collective("allgatherv", World)}>>),
    \* requests that are never closed, a missing call, a scatter in place
    Program(<<{nonblocking(collective("barrier", World), 1)}, {test(<<1>>), wait(<<1>>)}>>,
            <<{nonblocking(collective("barrier", World), 1)}, {test(<<1>>)}>>,
            <<{nonblocking(collective("barrier", World), 1)}, {wait(<<1>>)}>>),
    Program(<<{collective("barrier", World), rooted("gather", World, 1)}>>,
            <<{collective("barrier", World), rooted("gather", World, 1)}>>, <<>>),
    Program(<<{inplace(rooted("scatter", World, 0))}, {rooted("gather", Self, 0)}>>,
            <<{rooted("scatter", World, 0), inplace(rooted("scatter", World, 0)),
               rooted("scatter", World, 3)}>>,
            <<{rooted("scatter", World, 0)}, {rooted("gather", Self, 0)}>>),
    \* split, operations on the parts, communicators made and freed meanwhile
    Program(<<{split(World, 1, 1, 3)}, {nonblocking(collective("barrier", World), 1)},
              {nonblocking(rooted("bcast", 3, 0), 2), dup(3, 4)}, {wait(<<2>>), free(3)},
              {wait(<<1, 2>>)}>>,
            <<{split(World, 0, 0, 3), split(World, Undefined, 0, 3), split(World, -2, 0, 3)},
              {nonblocking(collective("barrier", World), 1)},
              {dup(3, 4), wait(<<1>>)}, {wait(<<1>>)}>>,
            <<{split(World, 1, 0, 3)}, {nonblocking(collective("barrier", World), 1)},
              {nonblocking(rooted("bcast", 3, 0), 2), dup(3, 4)}, {free(4), free(3)},
              {wait(<<1, 2>>)}>>),
    \* groups, communicators of groups and of duplicates
    Program(<<{comm_group(World, 1)}, {incl(1, <<2, 0>>, 2), incl(1, <<0, 2>>, 2)},
              {create(World, 2, 3)}, {group_free(2)}, {rooted("bcast", 3, 1)}, {free(3)},
              {dup(World, 4)}>>,
            <<{comm_group(World, 1)},
              {excl(1, <<1>>, 2), excl(1, <<1, 1>>, 2), incl(1, <<2, 0>>, 2), incl(2, <<0>>, 2)},
              {create(World, 2, 3)}, {dup(World, 4)}>>,
            <<{comm_group(World, 1)}, {incl(1, <<2, 0>>, 2)}, {group_free(1)},
              {create(World, 2, 3)}, {rooted("bcast", 3, 1)}, {dup(World, 4)}>>),
    \* attributes
    Program(<<{keyval(TRUE, TRUE), keyval(FALSE, TRUE)}, {put(World, 1)}, {put(World, 1), dup(World, 3)},
              {dup(World, 3), dup(World, 4)}, {put(3, 1), delete(World, 1), keyval_free(1)},
              {dup(3, 4), free(3)}, {free(3), delete(3, 1)}>>,
            <<{dup(World, 3)}, {dup(3, 4), free(3)}, {free(4)}>>,
            <<{dup(World, 3)}, {dup(3, 4), dup(World, 4)}, {free(3), free(World)}>>) }

=============================================================================
