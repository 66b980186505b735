-------------------------------- MODULE Heap --------------------------------
(***************************************************************************)
(* The allocator of the verified process (memspace_alloc, memspace_free    *)
(* and memspace_block_size of vgtool/an_main.c) on the list                *)
(* allocation_blocks: first fit, a red zone behind each block, free blocks *)
(* merged with their neighbours.  Sizes and addresses are counted in words.*)
(***************************************************************************)
EXTENDS Integers, Sequences, FiniteSetsExt, SequencesExt

CONSTANTS
  HeapStart,   \* heap_space, the address of the heap
  HeapSize,    \* heap_max_size
  RedZone      \* redzone_size

ASSUME HeapAssumption == HeapStart \in Nat \ {0} /\ HeapSize \in Nat /\ RedZone \in Nat

\* An AllocationBlock; requested counts for used blocks only.
Block(type, address, requested) == [type |-> type, address |-> address, requested |-> requested]

EmptyHeap == <<Block("end", HeapStart, 0)>>

\* The block from an address up to the next one, if it is not empty.
FreeBlock(from, to) == IF from < to THEN <<Block("free", from, 0)>> ELSE <<>>

Aligned(address, align) == ((address - 1) \div align + 1) * align

\* The free blocks that have the room for size words, padding included.
Fitting(blocks, size, align) ==
  {i \in 1 .. Len(blocks) - 1 :
     /\ blocks[i].type = "free"
     /\ Aligned(blocks[i].address, align) + size <= blocks[i + 1].address}

AllocSize(requested) == IF requested + RedZone = 0 THEN 1 ELSE requested + RedZone

\* The block that memspace_alloc takes: the first that fits, or the end.
Chosen(blocks, requested, align) ==
  LET fitting == Fitting(blocks, AllocSize(requested), align)
  IN IF fitting # {} THEN Min(fitting) ELSE Len(blocks)

AllocAddress(blocks, requested, align) ==
  Aligned(blocks[Chosen(blocks, requested, align)].address, align)

\* The allocation goes beyond the end of the heap, which is reported.
ExceedsHeap(blocks, requested, align) ==
  /\ Chosen(blocks, requested, align) = Len(blocks)
  /\ AllocAddress(blocks, requested, align) + AllocSize(requested) - HeapStart >= HeapSize

Alloc(blocks, requested, align) ==
  LET i == Chosen(blocks, requested, align)
      address == AllocAddress(blocks, requested, align)
      stop == address + AllocSize(requested)
      rest == IF i = Len(blocks) THEN <<Block("end", stop, 0)>>
              ELSE FreeBlock(stop, blocks[i + 1].address)
  IN SubSeq(blocks, 1, i - 1)
       \o FreeBlock(blocks[i].address, address)
       \o <<Block("used", address, requested)>>
       \o rest
       \o SubSeq(blocks, i + 1, Len(blocks))

-----------------------------------------------------------------------------
BlockAt(blocks, address) == CHOOSE i \in DOMAIN blocks : blocks[i].address = address

BlockSize(blocks, address) == blocks[BlockAt(blocks, address) + 1].address - address

\* memspace_free merges the block with the free block behind it and with the one before it.
Dealloc(blocks, address) ==
  LET i == BlockAt(blocks, address)
      freed == [blocks EXCEPT ![i] = Block("free", address, 0)]
      behind == IF blocks[i + 1].type = "free" THEN RemoveAt(freed, i + 1) ELSE freed
  IN IF i > 1 /\ blocks[i - 1].type = "free" THEN RemoveAt(behind, i) ELSE behind

-----------------------------------------------------------------------------
UsedBlocks(blocks) == SelectSeq(blocks, LAMBDA b : b.type = "used")
Used(blocks) == ToSet(UsedBlocks(blocks))

\* The words that the program has asked for.
Allocated(blocks) == UNION {b.address .. b.address + b.requested - 1 : b \in Used(blocks)}

\* The blocks follow each other from the start of the heap to its end, and each used one has
\* room for its words and a red zone.
Tiled(blocks) ==
  /\ blocks[1].address = HeapStart
  /\ \A i \in DOMAIN blocks : blocks[i].type = "end" <=> i = Len(blocks)
  /\ \A i \in 1 .. Len(blocks) - 1 :
       /\ blocks[i].address < blocks[i + 1].address
       /\ blocks[i].type = "used" =>
            blocks[i].address + blocks[i].requested + RedZone <= blocks[i + 1].address

=============================================================================
