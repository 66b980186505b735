------------------------------- MODULE Client -------------------------------
(***************************************************************************)
(* The memory of one verified process inside its client (vgtool/an_main.c):*)
(* pages with validity bits that the current memory and saved states share *)
(* until they are written, a cache of pages, the heap, and the locks that  *)
(* the controller keeps for requests (base/utils.py Intervals).            *)
(*                                                                         *)
(* Memory is counted in words; the pages are those of the heap, whose      *)
(* flags are all read and write.  Of the registers there is the position   *)
(* in the program, which is a sequence of sets of operations: the process  *)
(* may do any one of the set at its position.                              *)
(***************************************************************************)
EXTENDS Heap, TLC

CONSTANTS
  PageSize,     \* words of a page
  CacheSize,    \* MEMSPACE_PAGE_CACHE_SIZE
  None,
  Slots,        \* how many pages, and how many VAs, there may be for a base
  Programs      \* records: ops, a sequence of sets of operations; saved, how many states of the
                \* process are saved at a time

\* Calls of MPI in which a process may have to wait until another node is reached
BlockingOps == {"wait", "recv", "probe"}

ASSUME ClientAssumption ==
  /\ PageSize \in Nat \ {0} /\ CacheSize \in Nat \ {0} /\ (HeapStart % PageSize) = 0
  /\ Slots \in Nat
  /\ \A p \in Programs : \A ops \in ToSet(p.ops) :
       LET names == {op.op : op \in ops} IN names \subseteq BlockingOps \/ names \cap BlockingOps = {}

Words == HeapStart .. HeapStart + HeapSize - 1
Offsets == 0 .. PageSize - 1
Bases == {a \in Words : a % PageSize = 0}
Base(a) == a - (a % PageSize)

\* uniform_va
Uniform(perm) == <<perm>>

\* Where a Page or VA is in memory: in the first free place for its base.
Ids == Bases \X (1 .. Slots)
FirstFree(count, base) == <<base, Min({n \in 1 .. Slots : count[<<base, n>>] = 0})>>
WordsFrom(from, size) == from .. from + size - 1

\* MEM_NOACCESS, MEM_UNDEFINED, MEM_READONLY, MEM_DEFINED
Perms == {"noaccess", "undefined", "readonly", "defined"}
Readable == {"readonly", "defined"}
Writable == {"undefined", "defined"}

VARIABLES
  auxmap,      \* the page at each base, None before the first access
  page_cache,  \* the last pages used, MemorySpace.page_cache
  blocks,      \* allocation_blocks
  pages,       \* Page objects
  vas,         \* VA objects: how many pages use them, validity bits
  live,        \* the memory itself
  images,      \* saved states: pages, blocks, the position and the locks of the process
  locks,       \* Intervals of State.locked_memory: <<start, end, kind of the request>>
  program,
  position,    \* the operation the program has come to, in its ThreadState
  loaded,      \* the current memory is that of a process that goes on, not one that was saved
  reported     \* "no", or the error that ended the run

memoryVars == <<auxmap, page_cache, pages, vas, live>>
vars == <<memoryVars, blocks, images, locks, program, position, loaded, reported>>

NoPage == [base |-> 0, ref_count |-> 0, va |-> Uniform("noaccess"), data |-> None,
           status |-> "empty", hash |-> None]
NoVa == [ref_count |-> 0, vabits |-> [o \in Offsets |-> "noaccess"]]

-----------------------------------------------------------------------------
(* Operations on memory are functions of the memory space; page is the page at hand. *)

Space == [auxmap |-> auxmap, page_cache |-> page_cache, pages |-> pages, vas |-> vas,
          live |-> live, page |-> None]

Becomes(m) ==
  /\ auxmap' = m.auxmap /\ page_cache' = m.page_cache
  /\ pages' = m.pages /\ vas' = m.vas /\ live' = m.live

\* A page or a VA that is disposed of with its last reference is as new.
DropVa(m, va) ==
  IF m.vas[va].ref_count > 1 THEN [m EXCEPT !.vas[va].ref_count = @ - 1]
  ELSE [m EXCEPT !.vas[va] = NoVa]

\* Mutant of DropPage: the VA of the page is forgotten.
DropPageOnly(m, p) ==
  IF m.pages[p].ref_count > 1 THEN [m EXCEPT !.pages[p].ref_count = @ - 1]
  ELSE [m EXCEPT !.pages[p] = NoPage]

DropPage(m, p) ==
  IF m.pages[p].ref_count > 1 THEN [m EXCEPT !.pages[p].ref_count = @ - 1]
  ELSE [DropVa(m, m.pages[p].va) EXCEPT !.pages[p] = NoPage]

ShareVa(m, va) == [m EXCEPT !.vas[va].ref_count = @ + 1]

\* page_new, with one reference
NewPage(m, page) ==
  LET p == FirstFree([q \in Ids |-> m.pages[q].ref_count], page.base)
  IN [m EXCEPT !.pages[p] = page, !.page = p]

EmptyPage(m, base) ==
  NewPage(ShareVa(m, Uniform("noaccess")), [NoPage EXCEPT !.base = base, !.ref_count = 1])

\* va_new for page p, which gives up its own
NewVa(m, p, vabits) ==
  LET va == FirstFree([v \in Ids |-> m.vas[v].ref_count], m.pages[p].base)
  IN [m EXCEPT !.vas[va] = [ref_count |-> 1, vabits |-> vabits], !.pages[p].va = va]

Vabits(m, p) == m.vas[m.pages[p].va].vabits

(* get_page and get_page_or_null: the cache, then the map. *)

AddToCache(cache, p) ==
  IF Len(cache) < CacheSize THEN Append(cache, p) ELSE <<p>> \o SubSeq(cache, 1, CacheSize - 1)

GetPageOrNull(m, base) ==
  LET hits == {i \in DOMAIN m.page_cache : m.pages[m.page_cache[i]].base = base}
      i == Min(hits)
      p == m.auxmap[base]
  IN IF hits # {}
     THEN [m EXCEPT !.page = m.page_cache[i],
                    !.page_cache = <<m.page_cache[i]>> \o RemoveAt(@, i)]
     ELSE [m EXCEPT !.page = p, !.page_cache = IF p = None THEN @ ELSE AddToCache(@, p)]

GetPage(m, base) ==
  LET found == GetPageOrNull(m, base)
      new == EmptyPage(m, base)
  IN IF found.page # None THEN found ELSE [new EXCEPT !.auxmap[base] = new.page]

\* Mutant of PageUpdate: the cache keeps the page that is shared.
PageUpdateMapOnly(m) == [m EXCEPT !.auxmap[m.pages[m.page].base] = m.page]

\* page_update: the page at hand takes the place of the one it was cloned from.
PageUpdate(m) ==
  LET base == m.pages[m.page].base
  IN [m EXCEPT !.auxmap[base] = m.page,
               !.page_cache = [i \in DOMAIN @ |-> IF m.pages[@[i]].base = base THEN m.page ELSE @[i]]]

\* page_prepare_for_write_data: a shared page is cloned, without data; the hash is void.  What an
\* unshared page has kept of an earlier state is of no use to anyone and left out.
PrepareData(m) ==
  LET p == m.page
      shared == [ShareVa(m, m.pages[p].va) EXCEPT !.pages[p].ref_count = @ - 1]
      clone == [m.pages[p] EXCEPT !.ref_count = 1, !.data = None, !.status = "invalid", !.hash = None]
  IN IF m.pages[p].ref_count >= 2 THEN PageUpdate(NewPage(shared, clone))
     ELSE [m EXCEPT !.pages[p].data = None, !.pages[p].status = "invalid", !.pages[p].hash = None]

OwnVa(m) ==
  LET va == m.pages[m.page].va
  IN IF m.vas[va].ref_count >= 2
     THEN NewVa([m EXCEPT !.vas[va].ref_count = @ - 1], m.page, m.vas[va].vabits)
     ELSE m

\* page_prepare_for_write_va: the validity bits are the page's own as well
PrepareVa(m) == OwnVa(PrepareData(m))

-----------------------------------------------------------------------------
(* Permissions of ranges of memory *)

BasesFrom(from, size) ==
  SetToSortSeq({Base(a) : a \in WordsFrom(from, size)}, <)

WordsOf(base) == WordsFrom(base, PageSize)

\* page_set_va with a uniform VA
SetVa(m, perm) ==
  LET own == PrepareData(m)
      dropped == DropVa(own, own.pages[own.page].va)
  IN ShareVa([dropped EXCEPT !.pages[dropped.page].va = Uniform(perm)], Uniform(perm))

SetBits(m, from, size, perm) ==
  LET own == PrepareVa(m)
      page == own.pages[own.page]
      bits == [o \in Offsets |-> IF page.base + o \in WordsFrom(from, size) THEN perm
                                 ELSE own.vas[page.va].vabits[o]]
  IN [own EXCEPT !.vas[page.va].vabits = bits]

\* set_address_range_perms: make_mem_noaccess and so on
SetPerms(m, from, size, perm) ==
  FoldLeft(LAMBDA n, base :
             LET at == GetPage(n, base)
             IN IF WordsOf(base) \subseteq WordsFrom(from, size) THEN SetVa(at, perm)
                ELSE SetBits(at, from, size, perm),
           m, BasesFrom(from, size))

\* The permission of a word; there is none where there is no page.
Perm(m, a) ==
  LET p == m.auxmap[Base(a)] IN IF p = None THEN "noaccess" ELSE Vabits(m, p)[a - Base(a)]

\* check_address_range_perms
Allowed(m, from, size, perms) ==
  \A a \in WordsFrom(from, size) : a \in Words /\ Perm(m, a) \in perms

\* The pages that a successful check looks up
LookUp(m, from, size) ==
  FoldLeft(LAMBDA n, base : GetPageOrNull(n, base), m, BasesFrom(from, size))

Fill(m, from, size, value) ==
  [m EXCEPT !.live = [a \in Words |-> IF a \in WordsFrom(from, size) THEN value ELSE @[a]]]

-----------------------------------------------------------------------------
(* What the program does; each operation says what becomes of the memory, the blocks, the locks
   and reported. *)

\* A report ends the run: the process cannot be resumed after it.
Report(error) == reported' = error /\ UNCHANGED <<memoryVars, blocks, locks>>

\* client_malloc and user_memalign clear the words and make them undefined, user_calloc makes
\* them defined.
Allocate(requested, align, perm) ==
  LET address == AllocAddress(blocks, requested, align)
  IN IF ExceedsHeap(blocks, requested, align) THEN Report("heaperror")
     ELSE /\ blocks' = Alloc(blocks, requested, align)
          /\ Becomes(SetPerms(Fill(Space, address, requested, 0), address, requested, perm))
          /\ UNCHANGED <<locks, reported>>

\* user_realloc copies the old block with its red zone, and keeps it.
Realloc(old, requested) ==
  LET address == AllocAddress(blocks, requested, 1)
      size == BlockSize(blocks, old.address)
      defined == SetPerms(Space, address, requested, "defined")
      copied(a) == IF a \in WordsFrom(address, size) THEN live[old.address + a - address]
                   ELSE IF a \in WordsFrom(address, requested) THEN 0 ELSE live[a]
  IN IF ExceedsHeap(blocks, requested, 1) THEN Report("heaperror")
     ELSE /\ blocks' = Alloc(blocks, requested, 1)
          /\ Becomes([defined EXCEPT !.live = [a \in Words |-> copied(a)]])
          /\ UNCHANGED <<locks, reported>>

\* client_free
Free(block) ==
  /\ blocks' = Dealloc(blocks, block.address)
  /\ Becomes(SetPerms(Space, block.address, BlockSize(blocks, block.address), "noaccess"))
  /\ UNCHANGED <<locks, reported>>

\* Mutant of Written: only the pages whose validity bits change are prepared.
WrittenUnprepared(m, from, size) ==
  FoldLeft(LAMBDA n, base :
             LET at == GetPageOrNull(n, base)
             IN IF \E a \in WordsFrom(from, size) \cap WordsOf(base) : Perm(at, a) = "undefined"
                THEN SetBits(at, from, size, "defined") ELSE at,
           m, BasesFrom(from, size))

\* trace_write, page by page
Written(m, from, size) ==
  FoldLeft(LAMBDA n, base :
             LET at == PrepareData(GetPageOrNull(n, base))
             IN IF \E a \in WordsFrom(from, size) \cap WordsOf(base) : Perm(at, a) = "undefined"
                THEN SetBits(at, from, size, "defined") ELSE at,
           m, BasesFrom(from, size))

\* trace_write and the write itself
TraceWrite(from, size, value) ==
  IF Allowed(Space, from, size, Writable)
  THEN /\ Becomes(Fill(Written(Space, from, size), from, size, value))
       /\ UNCHANGED <<blocks, locks, reported>>
  ELSE Report("invalidwrite")

\* trace_read clears a word that is undefined.
TraceRead(a) ==
  LET at == GetPage(Space, Base(a))
  IN IF a \in Words /\ Perm(Space, a) # "noaccess"
     THEN /\ Becomes(IF Perm(Space, a) = "undefined" THEN Fill(at, a, 1, 0) ELSE at)
          /\ UNCHANGED <<blocks, locks, reported>>
     ELSE Report("invalidread")

-----------------------------------------------------------------------------
(* What the controller does for a call of MPI *)

\* extern_write: prepare_for_write and make_mem_defined
ExternWritten(m, from, size) ==
  LET prepared == FoldLeft(LAMBDA n, base : PrepareData(GetPage(n, base)), m, BasesFrom(from, size))
  IN SetPerms(prepared, from, size, "defined")

\* WRITE of a result to where the program wants it, with a check
WriteOutput(from, size) ==
  IF ~Allowed(Space, from, size, Writable) THEN Report("invalidwrite")
  ELSE /\ Becomes(Fill(ExternWritten(LookUp(Space, from, size), from, size), from, size, 1))
       /\ UNCHANGED <<blocks, locks, reported>>

\* Mutant of FreeArea: what an interval inside the range leaves on its right is forgotten.
FreeAreaLeft(intervals, from, to) ==
  LET meets(i) == ~(i[2] <= from \/ to <= i[1])
      met == SelectSeq(intervals, meets)
  IN IF met = <<>> THEN <<<<from, to>>>>
     ELSE IF met[1][1] > from THEN <<<<from, met[1][1]>>>> ELSE <<>>

\* Intervals.find_free_area: the parts of a range that no other interval covers
FreeArea(intervals, from, to) ==
  LET meets(i) == ~(i[2] <= from \/ to <= i[1])
      covers(i) == i[1] <= from /\ i[2] >= to
      lower(i, j) == i[1] < j[1] \/ (i[1] = j[1] /\ i[2] <= j[2])
      met == SortSeq(SelectSeq(intervals, meets), lower)
      part(area, i) ==
        IF i[2] <= area.start THEN area
        ELSE [found |-> IF i[1] > area.start THEN Append(area.found, <<area.start, i[1]>>) ELSE area.found,
              start |-> i[2]]
      area == FoldLeft(part, [found |-> <<>>, start |-> from], met)
  IN IF \E i \in ToSet(met) : covers(i) THEN <<>>
     ELSE IF area.start < to THEN Append(area.found, <<area.start, to>>) ELSE area.found

\* LOCK: fill_undefined_memory and make_mem_readonly
LockArea(m, i) ==
  LET looked == FoldLeft(LAMBDA n, base : GetPage(n, base), m, BasesFrom(i[1], i[2] - i[1]))
      cleared == [a \in Words |-> IF a \in i[1] .. i[2] - 1 /\ Perm(m, a) = "undefined" THEN 0
                                  ELSE m.live[a]]
  IN SetPerms([looked EXCEPT !.live = cleared], i[1], i[2] - i[1], "readonly")

UnlockArea(m, i) == SetPerms(m, i[1], i[2] - i[1], "defined")

\* State.lock_memory for a request whose buffer was checked (activate_request)
Activate(from, size, kind, perms) ==
  IF ~Allowed(Space, from, size, perms) THEN Report("invalidbuffer")
  ELSE /\ locks' = Append(locks, <<from, from + size, kind>>)
       /\ Becomes(FoldLeft(LockArea, LookUp(Space, from, size), FreeArea(locks, from, from + size)))
       /\ UNCHANGED <<blocks, reported>>

Received(m, from, size) == Fill(ExternWritten(m, from, size), from, size, 1)

\* _close_request: State.unlock_memory and, for a receive, the message.  Of equal intervals it
\* makes no difference which one Intervals.remove takes.
CloseRequest(i) ==
  LET others == RemoveFirst(locks, i)
      unlocked == FoldLeft(UnlockArea, Space, FreeArea(others, i[1], i[2]))
  IN /\ locks' = others
     /\ Becomes(IF i[3] = "irecv" THEN Received(unlocked, i[1], i[2] - i[1]) ELSE unlocked)
     /\ UNCHANGED <<blocks, reported>>

\* A blocking receive locks nothing: the process does not run.
Receive(from, size) ==
  IF ~Allowed(Space, from, size, Writable) THEN Report("invalidbuffer")
  ELSE /\ Becomes(Received(LookUp(Space, from, size), from, size))
       /\ UNCHANGED <<blocks, locks, reported>>

LockedBy(kinds) == UNION {i[1] .. i[2] - 1 : i \in {l \in ToSet(locks) : l[3] \in kinds}}
Locked == LockedBy({"isend", "irecv"})

Accessible == Perms \ {"noaccess"}

\* A program frees no memory in use by MPI and sends from none it is receiving into, which
\* would not be reported.
Perform(op) ==
  \/ op.op = "malloc" /\ Allocate(op.size, op.align, "undefined")
  \/ op.op = "calloc" /\ Allocate(op.size, 1, "defined")
  \/ op.op = "probe" /\ UNCHANGED <<memoryVars, blocks, locks, reported>>
  \/ op.op = "wait" /\ \E i \in ToSet(locks) : CloseRequest(i)
  \/ /\ op.block \in DOMAIN UsedBlocks(blocks)
     /\ LET block == UsedBlocks(blocks)[op.block]
            from == block.address + op.offset
            free(kinds) == WordsFrom(block.address, block.requested) \cap LockedBy(kinds) = {}
        IN \/ op.op = "realloc" /\ op.size >= BlockSize(blocks, block.address) /\ Realloc(block, op.size)
           \/ op.op = "free" /\ free({"isend", "irecv"}) /\ Free(block)
           \/ op.op = "write" /\ TraceWrite(from, op.size, 1)
           \/ op.op = "read" /\ TraceRead(from)
           \/ op.op = "isend" /\ free({"irecv"}) /\ Activate(from, op.size, "isend", Accessible)
           \/ op.op = "irecv" /\ Activate(from, op.size, "irecv", Writable)
           \/ op.op = "recv" /\ Receive(from, op.size)
           \/ op.op = "output" /\ WriteOutput(from, op.size)

Run ==
  /\ loaded /\ reported = "no" /\ position \in DOMAIN program.ops
  /\ position' = position + 1
  /\ \E op \in program.ops[position] : Perform(op)
  /\ UNCHANGED <<images, program, loaded>>

-----------------------------------------------------------------------------
(* Hashes *)

\* What page_hash feeds to MD5: the readable words, and the validity bits unless all are
\* readable.  The base of the page is not part of it.
Digest(m, p, content) ==
  LET bits == Vabits(m, p)
      offsets == SetToSortSeq({o \in Offsets : bits[o] \in Readable}, <)
  IN [words |-> [n \in DOMAIN offsets |-> content[offsets[n]]],
      vabits |-> IF Len(offsets) = PageSize THEN None ELSE bits]

\* The bases in the order of auxmap
PageSeq(m) == SetToSortSeq({base \in Bases : m.auxmap[base] # None}, <)

InMemory(m, p) == [o \in Offsets |-> m.live[m.pages[p].base + o]]

\* page_hash
HashPage(m, base) ==
  LET p == m.auxmap[base]
      digest == Digest(m, p, InMemory(m, p))
  IN IF m.pages[p].status # "invalid" THEN m
     ELSE IF digest.words = <<>> THEN [m EXCEPT !.pages[p].status = "empty"]
     ELSE [m EXCEPT !.pages[p].status = "valid", !.pages[p].hash = digest]

\* memspace_hash
Hashed(m) == FoldLeft(HashPage, m, PageSeq(m))

-----------------------------------------------------------------------------
(* Saved states; the controller sends these commands when the process is stopped in a call of
   MPI or has ended. *)

Stopped ==
  /\ reported = "no"
  /\ position \in DOMAIN program.ops => \A op \in program.ops[position] : op.op \in BlockingOps

\* memimage_save_page_content: the readable words; nothing for a page without access
Content(m, p) ==
  IF m.pages[p].va = Uniform("noaccess") THEN m.pages[p].data
  ELSE [o \in Offsets |-> IF Vabits(m, p)[o] \in Readable THEN m.live[m.pages[p].base + o] ELSE None]

Unsaved == {i \in DOMAIN images : images[i] = None}

\* memimage_save: a page that is shared already has its content.
SavePage(m, base) ==
  LET p == m.auxmap[base]
      counted == [m EXCEPT !.pages[p].ref_count = @ + 1]
  IN IF m.pages[p].ref_count < 2 THEN [counted EXCEPT !.pages[p].data = Content(m, p)] ELSE counted

\* What the program can see of the words when it has these pages, with the value At of a word
Seen(pagesAt, At(_, _)) ==
  [a \in Words |->
     LET p == pagesAt[Base(a)]
         perm == IF p = None THEN "noaccess" ELSE vas[pages[p].va].vabits[a - Base(a)]
     IN [perm |-> perm, value |-> IF perm \in Readable THEN At(p, a) ELSE None]]

Process(words, heap, requests, at) ==
  [words |-> words, blocks |-> heap, locks |-> requests, position |-> at]

Current == Process(Seen(auxmap, LAMBDA p, a : live[a]), blocks, locks, position)

Saved(image) ==
  Process(Seen(image.pages, LAMBDA p, a : pages[p].data[a - Base(a)]),
          image.blocks, image.locks, image.position)

\* The state is in state_cache of the controller.  Equality of hashes is equality of states here.
Cached == \E i \in DOMAIN images \ Unsaved : Saved(images[i]) = Current

\* save_state_with_hash: HASH and, if the state is not in the cache, SAVE, which gives it an id
\* that is not in use.  The process is not run again before it is restored; one that has finished
\* is not saved.
Save ==
  LET m == Hashed(Space)
  IN /\ Stopped /\ loaded /\ position \in DOMAIN program.ops
     /\ \/ Cached /\ Becomes(m) /\ UNCHANGED images
        \/ /\ ~Cached /\ Unsaved # {}
           /\ images' = [images EXCEPT ![Min(Unsaved)] =
                [pages |-> auxmap, blocks |-> blocks, locks |-> locks, position |-> position]]
           /\ Becomes(FoldLeft(SavePage, m, PageSeq(m)))
     /\ loaded' = FALSE
     /\ UNCHANGED <<blocks, locks, program, position, reported>>

\* memimage_restore_page_content
RestoreContent(m, p) ==
  LET page == m.pages[p]
      restored == [a \in Words |->
                     IF a \in WordsOf(page.base) /\ Vabits(m, p)[a - page.base] \in Readable
                     THEN page.data[a - page.base] ELSE m.live[a]]
  IN IF page.va \in {Uniform("noaccess"), Uniform("undefined")} THEN m ELSE [m EXCEPT !.live = restored]

\* memimage_restore: a page that the image has not got becomes empty, one that it shares with
\* the current memory has not been written.
RestorePage(m, image, base) ==
  LET p == image.pages[base]
      old == m.auxmap[base]
      new == EmptyPage(DropPage(m, old), base)
      back == DropPage([RestoreContent(m, p) EXCEPT !.pages[p].ref_count = @ + 1], old)
  IN IF p = None THEN [new EXCEPT !.auxmap[base] = new.page]
     ELSE IF p = old THEN m
     ELSE [back EXCEPT !.auxmap[base] = p]

Restored(i) ==
  FoldLeft(LAMBDA m, base : RestorePage(m, images[i], base), Space, PageSeq(Space))

\* RESTORE; the locks are those of the global state whose process is restored.
Restore(i) ==
  /\ Stopped /\ images[i] # None
  /\ Becomes([Restored(i) EXCEPT !.page_cache = <<>>])
  /\ blocks' = images[i].blocks
  /\ locks' = images[i].locks
  /\ position' = images[i].position
  /\ loaded' = TRUE
  /\ UNCHANGED <<images, program, reported>>

\* memimage_free
Disposed(m, i) ==
  FoldLeft(DropPage, m, SetToSeq({images[i].pages[base] : base \in Bases} \ {None}))

\* FREE
FreeImage(i) ==
  /\ Stopped /\ images[i] # None
  /\ images' = [images EXCEPT ![i] = None]
  /\ Becomes(Disposed(Space, i))
  /\ UNCHANGED <<blocks, locks, program, position, loaded, reported>>

\* pull_page: uniform pages get the common VA, words that cannot be read are cleared.
PullPage(m, p) ==
  LET page == m.pages[p]
      bits == Vabits(m, p)
      known == GetPage(m, page.base)
      pulled == [page EXCEPT !.ref_count = 1, !.status = "invalid", !.hash = None,
                             !.va = Uniform("noaccess"),
                             !.data = [o \in Offsets |-> IF bits[o] \in Readable THEN page.data[o] ELSE None]]
      new == NewPage(known, pulled)
  IN IF \E perm \in Perms : \A o \in Offsets : bits[o] = perm
     THEN ShareVa([new EXCEPT !.pages[new.page].va = Uniform(bits[0])], Uniform(bits[0]))
     ELSE NewVa(new, new.page, bits)

\* push_state and pull_state: a saved state that another client of the same process has sent.
\* As if that had been this client, its own state is replaced by the copy; the sender hashes its
\* memory first.
Transfer(i) ==
  LET bases == SelectSeq(SetToSortSeq(Bases, <), LAMBDA base : images[i].pages[base] # None)
      pull(acc, base) ==
        LET m == PullPage(acc.m, acc.pages[base])
        IN [m |-> m, pages |-> [acc.pages EXCEPT ![base] = m.page]]
      pulled == FoldLeft(pull, [m |-> Hashed(Space), pages |-> images[i].pages], bases)
  IN /\ Stopped /\ images[i] # None
     /\ images' = [images EXCEPT ![i].pages = pulled.pages]
     /\ Becomes(Disposed(pulled.m, i))
     /\ UNCHANGED <<blocks, locks, program, position, loaded, reported>>

-----------------------------------------------------------------------------
Init ==
  /\ auxmap = [base \in Bases |-> None]
  /\ page_cache = <<>>
  /\ blocks = EmptyHeap
  /\ pages = [p \in Ids |-> NoPage]
  /\ vas = [va \in {Uniform(perm) : perm \in Perms} |->
               [ref_count |-> 1, vabits |-> [o \in Offsets |-> va[1]]]]
             @@ [va \in Ids |-> NoVa]
  /\ live = [a \in Words |-> 0]
  /\ program \in Programs
  /\ images = [i \in 1 .. program.saved |-> None]
  /\ locks = <<>>
  /\ position = 1 /\ loaded = TRUE
  /\ reported = "no"

Next ==
  \/ Run
  \/ Save
  \/ \E i \in DOMAIN images : Restore(i) \/ FreeImage(i) \/ Transfer(i)

Spec == Init /\ [][Next]_vars

-----------------------------------------------------------------------------
(* Properties *)

IsCurrent(p) == auxmap[pages[p].base] = p

\* A page counts the current memory and the saved states that have it, a VA the pages that use
\* it: no page is freed or written while a saved state needs it, and none is left behind
\* (page_prepare_for_write_data, page_prepare_for_write_va, page_dispose).
CountsAreExact ==
  /\ \A p \in Ids :
       pages[p].ref_count = (IF auxmap[p[1]] = p THEN 1 ELSE 0)
                            + Cardinality({i \in DOMAIN images : images[i] # None /\ images[i].pages[p[1]] = p})
  /\ \A va \in DOMAIN vas :
       vas[va].ref_count = (IF va \in Ids THEN 0 ELSE 1)
                           + Cardinality({p \in Ids : pages[p].ref_count > 0 /\ pages[p].va = va})

\* What is remembered is current: the cache finds the pages of the map, and a hash that counts
\* as valid is the hash of what the page holds (page_update, page_hash, memimage_restore).
MemoriesAreCurrent ==
  /\ \A i \in DOMAIN page_cache : IsCurrent(page_cache[i])
  /\ \A p \in Ids :
       LET content == IF IsCurrent(p) THEN InMemory(Space, p) ELSE pages[p].data
           digest == Digest(Space, p, content)
       IN pages[p].ref_count > 0 =>
            /\ pages[p].status = "valid" => pages[p].hash = digest
            /\ pages[p].status = "empty" => digest.words = <<>>

\* The program may use exactly the words that it has allocated, and those in use by MPI are
\* read only: blocks, validity bits and locks, which are kept apart, agree, also after a saved
\* state was restored (memspace_alloc, memspace_free, Intervals).
AccessIsAllocated ==
  /\ Tiled(blocks)
  /\ \A a \in Words :
       /\ Perm(Space, a) # "noaccess" <=> a \in Allocated(blocks)
       /\ Perm(Space, a) = "readonly" <=> a \in Locked

\* Saved states stay what they were when they were saved, whatever the process, other saved
\* states and transfers do to the pages they share, and are restored as that (copy on write:
\* page_prepare_for_write_data, memimage_save, memimage_restore, pull_page).
Memory == INSTANCE ClientMemory WITH
  current <- Current,
  saved <- [i \in DOMAIN images |-> IF images[i] = None THEN None ELSE Saved(images[i])]

Implements == Memory!Spec

=============================================================================
