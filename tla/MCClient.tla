------------------------------ MODULE MCClient ------------------------------
(***************************************************************************)
(* Client for TLC: programs that allocate, write, communicate and free on  *)
(* three pages of three words, while one or two states are saved.          *)
(***************************************************************************)
EXTENDS Client

Op(op, block, offset, size) ==
  {[op |-> op, block |-> block, offset |-> offset, size |-> size, align |-> 1]}
Malloc(size) == Op("malloc", 0, 0, size)
Calloc(size) == Op("calloc", 0, 0, size)
Memalign(size, align) == {[op EXCEPT !.align = align] : op \in Malloc(size)}
Realloc1(size) == Op("realloc", 1, 0, size)
FreeNth(block) == Op("free", block, 0, 0)
Write(block, offset, size) == Op("write", block, offset, size)
Read(block, offset) == Op("read", block, offset, 0)
Isend(offset, size) == Op("isend", 1, offset, size)
Irecv(offset, size) == Op("irecv", 1, offset, size)
Recv(block, size) == Op("recv", block, 0, size)
Output(block, offset) == Op("output", block, offset, 1)
Probe == Op("probe", 0, 0, 0)
Wait == Op("wait", 0, 0, 0)

-----------------------------------------------------------------------------
\* Three blocks are freed in every order, with other allocations in between.
Frees ==
  {<<first, Malloc(1), Memalign(1, 3), Probe, FreeNth(i), FreeNth(j), fourth, Probe, FreeNth(1)>> :
     first \in {Malloc(1), Calloc(2)}, i \in 1 .. 3, j \in 1 .. 2, fourth \in {Malloc(3), Memalign(1, 2)}}

\* A page is written, and another one is needed, while a state that has the first is kept.
Growing ==
  {<<Calloc(1), Probe, Write(1, 0, 1), Probe, Malloc(3), Probe, Write(i, 0, 1), Probe>> : i \in {1, 2}}

\* Two states that share a page are kept, and the process writes or frees between them.
Sharing == {<<Calloc(1), Probe, between, Probe>> : between \in {Write(1, 0, 1), FreeNth(1)}}

\* Requests lock parts of a block that overlap, are the same or touch each other, and are closed in
\* any order.
Locking ==
  {<<Calloc(5), Isend(0, 3), second, third, Wait, touch, Wait, Probe>> :
     second \in {Isend(1, 1), Isend(1, 4), Isend(0, 3), Irecv(3, 2)},
     third \in {Isend(1, 2), Isend(2, 3), Irecv(4, 1)},
     touch \in {Read(1, 2), Write(1, 0, 1), Output(1, 4)}}

\* Words that were never written are sent, received into, read, and copied by realloc.
Undefined ==
  {<<Malloc(2), Write(1, 1, 1), use, Probe, after, Probe>> :
     use \in {Isend(0, 2), Isend(1, 2), Irecv(0, 2), Irecv(1, 1), Recv(1, 2), Read(1, 0), Realloc1(4)},
     after \in {Wait, Read(1, 0), Write(1, 0, 3), Read(1, 2), Output(1, 0), FreeNth(1), Realloc1(3), Malloc(6)}}

MCPrograms ==
  [ops : Frees \cup Growing \cup Locking \cup Undefined, saved : {1}] \cup [ops : Sharing, saved : {2}]
=============================================================================
