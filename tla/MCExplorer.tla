---------------------------- MODULE MCExplorer ----------------------------
(***************************************************************************)
(* Explorer for TLC: state spaces of three nodes after the first one, with *)
(* up to two actions each, or three that keep every worker busy.  An       *)
(* action after which no process runs has only made a matching or a        *)
(* promise, so it leads to a later node; with the others (MPI_Test,        *)
(* MPI_Iprobe) a program may come back to a node.                          *)
(***************************************************************************)
EXTENDS Explorer

CONSTANTS n0, n1, n2, n3

Ran == [to : {n1, n2, n3}, runs : {TRUE}]
Matched(later) == [to : later, runs : {FALSE}]

UpToTwo(actions) == UNION {[1 .. m -> actions] : m \in 0 .. 2}

\* A node whose three actions keep three workers busy.
Busy == {<<x, y, y>> : x, y \in {r \in Ran : r.to # n1}}

\* The processes always have to run to get from MPI_Init to their first calls.
MCGraphs ==
  {[n \in Nodes |-> IF n = n0 THEN <<[to |-> n1, runs |-> TRUE]>>
                    ELSE IF n = n1 THEN a ELSE IF n = n2 THEN b ELSE c] :
     a \in UpToTwo(Ran \cup Matched({n2, n3})) \cup Busy,
     b \in UpToTwo(Ran \cup Matched({n3})),
     c \in UpToTwo(Ran)}

=============================================================================
