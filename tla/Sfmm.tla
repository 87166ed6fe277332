-------------------------------- MODULE Sfmm --------------------------------
(***************************************************************************)
(* The allocator of hw3: sf_malloc, sf_free and sf_realloc (sfmm.c) over a *)
(* heap of blocks with a header in front and a copy of it, the footer,     *)
(* behind, and ten segregated free lists (sfmm_block.c), and the           *)
(* statistics of the heap (sfmm_analytics.c).                              *)
(*                                                                         *)
(* Addresses and block sizes count units of 16 bytes, SFMM_ALIGNMENT_SIZE; *)
(* requests and payload sizes count bytes.  The two 8-byte words of a unit *)
(* are what struct sf_block calls prev_footer and header, and in the unit  *)
(* after the first of a free block they are its links.  Words are kept     *)
(* wherever they were written, because the code reads stale ones; what the *)
(* program writes to its payloads is followed in whole units.  The lists   *)
(* are sequences of addresses, which their links are as long as nothing    *)
(* overwrites them.                                                        *)
(***************************************************************************)
EXTENDS Integers, FiniteSets, SequencesExt

CONSTANTS PageUnits,  \* units of a page, 256
          MaxPages,   \* pages that sf_mem_grow can add
          Sizes,      \* sizes that are requested
          Data,       \* words that the program writes, read as headers
          MaxHeld     \* how many blocks the program holds at a time

(* A word as a header: payload size, block size, the alloc and prv alloc   *)
(* bits.                                                                   *)
Word == [pay : Nat, size : Nat, alloc : BOOLEAN, prev : BOOLEAN]

ASSUME SfmmAssumption ==
  /\ PageUnits \in 8 .. 256
  /\ {MaxPages, MaxHeld} \subseteq Nat \ {0}
  /\ Sizes \subseteq 1 .. MaxPages * PageUnits * 16
  /\ Data \subseteq Word

VARIABLES
  heap,     \* the memory, the free lists and the number of pages
  held,     \* what the program holds: size, units filled, word they hold
  peak,     \* sfmm_peak_utilization: the most payload found in the heap
  freed,    \* the last pointer it has freed, unless that memory is allocated
  aborted   \* whether sf_free has called abort

vars == <<heap, held, peak, freed, aborted>>

NUM_FREE_LISTS == 10
MIN_BLOCK_SIZE == 2
NoBlock == -1

set_header(pay, size, alloc, prev) ==
  [pay |-> pay, size |-> size, alloc |-> alloc, prev |-> prev]

Zero == set_header(0, 0, FALSE, FALSE)

(* A pointer read as a header has no bit set, and its low 28 bits are      *)
(* taken to be more than the size of the heap.                             *)
Link == set_header(0, MaxPages * PageUnits + 1, FALSE, FALSE)

(* The memory that sf_mem_grow can add.                                    *)
Units == 0 .. MaxPages * PageUnits

End(h) == h.pages * PageUnits
Epilogue(h) == End(h) - 1
InHeap(h, u) == u \in 0 .. End(h)

Footer(h, u) == h.mem[u].foot
Header(h, u) == h.mem[u].head
Write(h, u, foot, head) ==
  [h EXCEPT !.mem[u] = [foot |-> foot, head |-> head]]
SetFoot(h, u, w) == Write(h, u, w, Header(h, u))
SetHead(h, u, w) == Write(h, u, Footer(h, u), w)
SetPrev(h, u, bit) == SetHead(h, u, [Header(h, u) EXCEPT !.prev = bit])

Next(h, b) == b + Header(h, b).size
Prev(h, b) == b - Footer(h, b).size

Init ==
  /\ heap = [mem |-> [u \in Units |-> [foot |-> Zero, head |-> Zero]], pages |-> 0,
             lists |-> [i \in 0 .. NUM_FREE_LISTS - 1 |-> <<>>]]
  /\ held = <<>>
  /\ peak = 0
  /\ freed = {}
  /\ aborted = FALSE

-----------------------------------------------------------------------------
(* Sizes.                                                                  *)

(* Mutant: the sum is not rounded up.                                      *)
SizeRoundedDown(size) == ((IF size < 16 THEN 16 ELSE size) + 16) \div 16

(* Header, footer and at least 16 bytes, rounded up to whole units.        *)
calculate_block_size(size) ==
  ((IF size < 16 THEN 16 ELSE size) + 16 + 15) \div 16

fib[n \in 0 .. NUM_FREE_LISTS - 2] ==
  IF n < 2 THEN n + 1 ELSE fib[n - 1] + fib[n - 2]

(* The first class whose limit is not below n; the wilderness list when    *)
(* there is none.                                                          *)
find_allocation_index(n) ==
  Cardinality({i \in 0 .. NUM_FREE_LISTS - 2 : fib[i] * MIN_BLOCK_SIZE < n})

-----------------------------------------------------------------------------
(* Blocks and lists.                                                       *)

(* b hears from the header of its predecessor p that it is allocated.      *)
CopyFooter(h, b, p) == SetFoot(h, b, Header(h, p))
hear_prev(h, b, p) ==
  IF Header(h, p).alloc THEN CopyFooter(SetPrev(h, b, TRUE), b, p) ELSE h

(* Its successor n gets a copy of its header, and its alloc bit.           *)
mark_next(h, b, n) == IF Header(h, b).alloc THEN SetPrev(h, n, TRUE) ELSE h
tell_next(h, b, n, alloc) ==
  SetPrev(CopyFooter(mark_next(h, b, n), n, b), n, alloc)

(* Mutant: the prv alloc bit of the next block is set and never cleared.   *)
TouchSetsOnly(h, b) ==
  IF InHeap(h, Next(h, b)) /\ Header(h, b).alloc
    THEN SetPrev(CopyFooter(h, Next(h, b), b), Next(h, b), TRUE)
    ELSE h

touch_for_heap_update(h, b) ==
  IF InHeap(h, Next(h, b)) /\ InHeap(h, Prev(h, b))
    THEN tell_next(hear_prev(h, b, Prev(h, b)), b, Next(h, b),
                   Header(h, b).alloc)
    ELSE h

SetLinks(h, b, w) == Write(h, b + 1, w, w)

insert_block(h, b, i) ==
  touch_for_heap_update(
    SetLinks([h EXCEPT !.lists[i] = <<b>> \o @], b, Link), b)

Members(h, i) == ToSet(h.lists[i])

(* b leaves list i, in which it is at k; its successor in it is touched.   *)
unlink(h, b, i, k) ==
  SetLinks([h EXCEPT !.lists[i] = RemoveAt(@, k)], b, Zero)

touch_successor(h, list, k) ==
  IF k < Len(list) THEN touch_for_heap_update(h, list[k + 1]) ELSE h

ListOf(h, b) == CHOOSE i \in DOMAIN h.lists : b \in Members(h, i)
PlaceIn(list, b) == CHOOSE k \in DOMAIN list : list[k] = b

isolate_from(h, b, i, k) ==
  touch_successor(unlink(h, b, i, k), h.lists[i], k)

isolate_block(h, b) ==
  isolate_from(h, b, ListOf(h, b), PlaceIn(h.lists[ListOf(h, b)], b))

(* The blocks that a walk along the headers comes to: it begins at the     *)
(* start of the heap and goes on from the blocks in on.                    *)
Walk(h, on) ==
  LET from[b \in 0 .. End(h)] ==
        IF b \in on THEN {b} \cup from[Next(h, b)] ELSE {b}
  IN  from[0]

(* The walk ends before the epilogue or a size below the minimum.          *)
walk_to_last(h) ==
  Walk(h, {b \in 0 .. End(h) : /\ Next(h, b) < Epilogue(h)
                               /\ Header(h, Next(h, b)).size >= MIN_BLOCK_SIZE})

(* The block before the epilogue.                                          *)
find_last_in_heap(h) == Max(walk_to_last(h))

(* Nothing happens to a block that is allocated or in no list.             *)
place_in_wilderness(h, b) ==
  IF Header(h, b).alloc \/ \A i \in DOMAIN h.lists : b \notin Members(h, i)
  THEN h ELSE insert_block(isolate_block(h, b), b, NUM_FREE_LISTS - 1)

(* Two neighbours become one block of that size, at the front of its list. *)
Move(h, a, from, to) ==
  [[h EXCEPT !.lists[from] = RemoveAt(@, PlaceIn(@, a))]
     EXCEPT !.lists[to] = <<a>> \o @]

join(h, a, size) ==
  SetHead(Move(h, a, ListOf(h, a), find_allocation_index(size)), a,
          set_header(0, size, FALSE, Header(h, a).prev))

coalesce_sized(h, a, b, size) ==
  CopyFooter(touch_for_heap_update(isolate_block(join(h, a, size), b), a),
             a + size, a)

coalesce(h, a, b) ==
  coalesce_sized(h, a, b, Header(h, a).size + Header(h, b).size)

(* can_coalesce also accepts a free block behind a free one, with which    *)
(* coalesce then finds nothing to do.                                      *)
can_coalesce(h, a) ==
  /\ ~ Header(h, a).alloc
  /\ ~ Header(h, Next(h, a)).alloc

(* A turn of the loop: a free block takes in a free block behind it, or    *)
(* the loop moves on, or it is over and nothing happens any more.          *)
coalesce_at(x) ==
  LET b == Next(x.heap, x.at)
  IN  CASE b >= Epilogue(x.heap) -> x
        [] b < Epilogue(x.heap) /\ can_coalesce(x.heap, x.at) ->
             [x EXCEPT !.heap = coalesce(@, x.at, b)]
        [] OTHER -> IF Header(x.heap, b).size < MIN_BLOCK_SIZE THEN x
                    ELSE [x EXCEPT !.at = b]

(* Each turn is done with one more block, so there are no more turns than  *)
(* blocks.                                                                 *)
do_coalesce(h) ==
  LET turns == Cardinality(walk_to_last(h))
      after[n \in 0 .. turns] ==
        IF n = 0 THEN [heap |-> h, at |-> 0] ELSE coalesce_at(after[n - 1])
  IN  after[turns].heap

(* What sf_malloc does to the epilogue, given the last block ...           *)
fix_footer(h, last) ==
  SetPrev(CopyFooter(h, Epilogue(h), last), Epilogue(h),
          \/ Header(h, Epilogue(h)).prev
          \/ last # 0 /\ Header(h, last).alloc)

fix_epilogue(h) == fix_footer(h, find_last_in_heap(h))

(* ... and what sf_free and sf_realloc do to it.                           *)
reset_footer(h, last) ==
  SetPrev(CopyFooter(h, Epilogue(h), last), Epilogue(h),
          Header(h, last).alloc)

reset_wilderness(h, last) == reset_footer(place_in_wilderness(h, last), last)

reset_epilogue(h) == reset_wilderness(h, find_last_in_heap(h))

-----------------------------------------------------------------------------
(* sf_malloc.                                                              *)

(* The first block in the lists from i on that is large enough.            *)
find_fit(h, i, total) ==
  LET fits(j) == {k \in DOMAIN h.lists[j] :
                    /\ ~ Header(h, h.lists[j][k]).alloc
                    /\ Header(h, h.lists[j][k]).size >= total}
      found == {j \in i .. NUM_FREE_LISTS - 1 : fits(j) # {}}
  IN  IF found = {} THEN NoBlock
      ELSE h.lists[Min(found)][Min(fits(Min(found)))]

fitting(h, total) == find_fit(h, find_allocation_index(total), total)

(* The header of b, of size total, and behind it a free block of the rest. *)
cut(h, b, head, rest) ==
  insert_block(Write(SetHead(h, b, head), b + head.size, head,
                     set_header(0, rest, FALSE, TRUE)),
               b + head.size, find_allocation_index(rest))

(* b is allocated, and what is left of it is a block of its own, unless    *)
(* that would be too small.                                                *)
split(h, b, old, pay, total) ==
  IF old.size - total >= MIN_BLOCK_SIZE
    THEN cut(h, b, set_header(pay, total, TRUE, old.prev), old.size - total)
    ELSE SetHead(h, b, set_header(pay, old.size, TRUE, old.prev))

(* Mutant: the block that is allocated stays in its list.                  *)
TakeListed(h, b, pay, total) ==
  fix_epilogue(
    touch_for_heap_update(split(h, b, Header(h, b), pay, total), b))

(* The block after b is touched too; its address is computed from total.   *)
take_block(h, b, pay, total) ==
  fix_epilogue(touch_for_heap_update(
    isolate_block(
      touch_for_heap_update(split(h, b, Header(h, b), pay, total), b), b),
    b + total))

(* sf_mem_grow adds a page; there is a prologue before the first, and an   *)
(* epilogue at the end of every one.                                       *)
set_prologue(h) ==
  IF h.pages = 1 THEN SetHead(h, 0, set_header(0, MIN_BLOCK_SIZE, TRUE, FALSE))
                 ELSE h
set_epilogue(h) == SetHead(h, Epilogue(h), set_header(0, 0, TRUE, FALSE))

get_more_memory(h) ==
  set_epilogue(set_prologue([h EXCEPT !.pages = @ + 1]))

(* A free block from b to the epilogue, which is joined with the block     *)
(* before it.                                                              *)
add_block(h, b) ==
  do_coalesce(fix_epilogue(touch_for_heap_update(
    insert_block(h, b, NUM_FREE_LISTS - 1), b)))

(* The first block lies between prologue and epilogue; a later one begins  *)
(* with the old epilogue.                                                  *)
grow(h) ==
  IF h.pages = 0
    THEN add_block(Write(get_more_memory(h), MIN_BLOCK_SIZE,
                         set_header(0, MIN_BLOCK_SIZE, FALSE, FALSE),
                         set_header(0, PageUnits - 3, FALSE, FALSE)),
                   MIN_BLOCK_SIZE)
    ELSE add_block(SetHead(get_more_memory(h), Epilogue(h),
                           set_header(0, PageUnits, FALSE, FALSE)),
                   Epilogue(h))

(* The heap grows until a block fits or it cannot grow any more.           *)
grow_to_fit(h, total) ==
  IF fitting(h, total) = NoBlock /\ h.pages < MaxPages THEN grow(h) ELSE h

grown(h, total) ==
  LET after[n \in 0 .. MaxPages] ==
        IF n = 0 THEN h ELSE grow_to_fit(after[n - 1], total)
  IN  after[MaxPages]

(* A block, or none.                                                       *)
take_fitting(h, b, pay, total) ==
  IF b = NoBlock THEN [block |-> NoBlock, heap |-> h]
  ELSE [block |-> b, heap |-> take_block(h, b, pay, total)]

get_from(h, pay, total) == take_fitting(h, fitting(h, total), pay, total)

get_free_block(h, pay, total) == get_from(grown(h, total), pay, total)

find_next_free_block(got) ==
  IF got.block = NoBlock THEN got
  ELSE [got EXCEPT !.heap = place_in_wilderness(@, find_last_in_heap(@))]

sf_malloc(h, size) ==
  find_next_free_block(get_free_block(h, size, calculate_block_size(size)))

-----------------------------------------------------------------------------
(* sf_free and sf_realloc.                                                 *)

(* Mutant: a block need not be allocated.                                  *)
is_valid_free(h, b) ==
  /\ b \in MIN_BLOCK_SIZE .. Epilogue(h)
  /\ Header(h, b).prev = Footer(h, b).alloc

(* The checks of free_allocated_block.                                     *)
is_valid(h, b) ==
  /\ Header(h, b).alloc
  /\ b \in MIN_BLOCK_SIZE .. Epilogue(h)
  /\ Header(h, b).prev = Footer(h, b).alloc

(* Mutant: a block that is freed keeps its payload size.                   *)
FreeKeepsPayload(h, b) ==
  reset_epilogue(do_coalesce(touch_for_heap_update(
    SetHead(insert_block(h, b, find_allocation_index(Header(h, b).size)), b,
            [Header(h, b) EXCEPT !.alloc = FALSE]), b)))

free_allocated_block(h, b) ==
  reset_epilogue(do_coalesce(touch_for_heap_update(
    SetHead(insert_block(h, b, find_allocation_index(Header(h, b).size)), b,
            set_header(0, Header(h, b).size, FALSE, Header(h, b).prev)), b)))

(* Mutant: a larger payload is taken for one that needs no new block.      *)
ReallocNeverMoves(h, b, rsize) ==
  IF Header(h, b).pay - rsize < 32 THEN "update" ELSE "split"

(* The case distinction of sf_realloc.                                     *)
can_realloc_without_splinter(h, b, rsize) ==
  LET pay == Header(h, b).pay
  IN  CASE Header(h, b).size = calculate_block_size(rsize) -> "update"
        [] OTHER -> IF rsize > pay THEN "move"
                    ELSE IF rsize = pay THEN "same"
                    ELSE IF pay - rsize < 32 THEN "update"
                    ELSE "split"

(* Mutant: the payload size becomes what is added to it.                   *)
UpdateByDifference(h, b, pay) ==
  CopyFooter(SetHead(h, b, [Header(h, b) EXCEPT !.pay = pay - @]), Next(h, b), b)

update_payload_size(h, b, pay) ==
  CopyFooter(SetHead(h, b, [Header(h, b) EXCEPT !.pay = pay]), Next(h, b), b)

(* The footer of the rest is written before the rest enters its list.      *)
realloc_block(h, b, size, pay) ==
  LET old == Header(h, b)
  IN  reset_epilogue(do_coalesce(
        cut(SetFoot(h, b + old.size,
                    set_header(0, old.size - size, FALSE, TRUE)),
            b, set_header(pay, size, old.alloc, old.prev), old.size - size)))

-----------------------------------------------------------------------------
(* Statistics.                                                             *)

(* The blocks that a walk from the start of the heap comes to: it ends at  *)
(* the end of the heap or at a block of size 0, such as the epilogue.      *)
walk_over(h) ==
  IF h.pages = 0 THEN {}
  ELSE Walk(h, {b \in 0 .. End(h) : /\ Next(h, b) < End(h)
                                    /\ Header(h, Next(h, b)).size # 0})

total_payload(h) ==
  MapThenSumSet(LAMBDA b : Header(h, b).pay, walk_over(h))

(* The new peak, after a walk over the heap.                               *)
get_utilization(h) == Max({peak, total_payload(h)})

(* Payload and size of the allocated blocks, whose ratio is returned, or   *)
(* 0.0 when there is none.                                                 *)
sf_fragmentation(h) ==
  LET counted == {b \in walk_over(h) :
                    Header(h, b).pay # 0 /\ Header(h, b).alloc}
  IN  [payload   |-> MapThenSumSet(LAMBDA b : Header(h, b).pay, counted),
       allocated |-> MapThenSumSet(LAMBDA b : 16 * Header(h, b).size, counted)]

-----------------------------------------------------------------------------
(* A program that uses the allocator.                                      *)

(* The program writes w to the first n units of the payload of b.          *)
Fill(h, b, n, w) ==
  [h EXCEPT !.mem = [u \in Units |-> IF u \in b + 1 .. b + n
                                     THEN [foot |-> w, head |-> w] ELSE @[u]]]

(* memcpy(realloc_block, backup_pp, rsize), which reads more than there is *)
(* to copy: whatever follows the block, and w behind the memory.           *)
Copy(h, from, to, n, w) ==
  [h EXCEPT !.mem =
     [u \in Units |->
        IF u \notin to + 1 .. to + n THEN @[u]
        ELSE IF u - to + from \in Units THEN @[u - to + from]
        ELSE [foot |-> w, head |-> w]]]

With(p, block, blocks) ==
  [q \in {p} \cup DOMAIN blocks |-> IF q = p THEN block ELSE blocks[q]]
Without(p) == [q \in DOMAIN held \ {p} |-> held[q]]

Uncovered(h, b) == freed \ (b .. Next(h, b) - 1)

MallocReturns(got, size, w) ==
  /\ ~ aborted
  /\ Cardinality(DOMAIN held) < MaxHeld
  /\ got.block # NoBlock
  /\ heap' = Fill(got.heap, got.block, size \div 16, w)
  /\ held' = With(got.block, [size |-> size, filled |-> size \div 16,
                              word |-> w], held)
  /\ peak' = get_utilization(got.heap)
  /\ freed' = Uncovered(got.heap, got.block)
  /\ UNCHANGED aborted

Malloc(size, w) == MallocReturns(sf_malloc(heap, size), size, w)

(* ENOMEM; the pages that were added stay.                                 *)
ReturnsNull(got) ==
  /\ ~ aborted
  /\ got.block = NoBlock
  /\ heap' = got.heap
  /\ UNCHANGED <<held, peak, freed, aborted>>

MallocFails(size) == ReturnsNull(sf_malloc(heap, size))

Free(p) ==
  /\ ~ aborted
  /\ is_valid(heap, p)
  /\ heap' = free_allocated_block(heap, p)
  /\ held' = Without(p)
  /\ freed' = {p}
  /\ UNCHANGED <<peak, aborted>>

(* sf_free calls abort.                                                    *)
FreeAborts(p) ==
  /\ ~ aborted
  /\ ~ is_valid(heap, p)
  /\ aborted' = TRUE
  /\ UNCHANGED <<heap, held, peak, freed>>

(* sf_realloc with a size of 0 is sf_free.                                 *)
ReallocInPlace(p, rsize, how) ==
  /\ ~ aborted
  /\ can_realloc_without_splinter(heap, p, rsize) = how
  /\ held' = [held EXCEPT ![p].size = rsize,
                          ![p].filled = IF @ < rsize \div 16 THEN @
                                        ELSE rsize \div 16]
  /\ UNCHANGED <<freed, aborted>>

ReallocUpdate(p, rsize) ==
  /\ ReallocInPlace(p, rsize, "update")
  /\ heap' = update_payload_size(heap, p, rsize)
  /\ UNCHANGED peak

ReallocSplit(p, rsize) ==
  /\ ReallocInPlace(p, rsize, "split")
  /\ heap' = realloc_block(heap, p, calculate_block_size(rsize), rsize)
  /\ peak' = get_utilization(heap')

(* Mutant: the old block is freed before it is copied.                     *)
FreeAndCopy(h, p, q, n, w) ==
  Copy(free_allocated_block(h, p), p, q, n, w)

(* The new block is got, the payload copied, the old block p freed.        *)
CopyAndFree(h, p, q, n, w) ==
  free_allocated_block(Copy(h, p, q, n, w), p)

Moved(got, p, rsize, w) ==
  /\ ~ aborted
  /\ can_realloc_without_splinter(heap, p, rsize) = "move"
  /\ got.block # NoBlock
  /\ is_valid(got.heap, p)
  /\ heap' = CopyAndFree(got.heap, p, got.block, rsize \div 16, w)
  /\ held' = With(got.block, [held[p] EXCEPT !.size = rsize], Without(p))
  /\ peak' = get_utilization(got.heap)
  /\ freed' = {p}
  /\ UNCHANGED aborted

ReallocMove(p, rsize, w) == Moved(sf_malloc(heap, rsize), p, rsize, w)

(* ENOMEM: the block stays as it was.                                      *)
ReallocFails(p, rsize) ==
  /\ can_realloc_without_splinter(heap, p, rsize) = "move"
  /\ ReturnsNull(sf_malloc(heap, rsize))

Step ==
  \/ \E size \in Sizes, w \in Data : Malloc(size, w)
  \/ \E size \in Sizes : MallocFails(size)
  \/ \E p \in DOMAIN held : Free(p)
  \/ \E p \in freed : FreeAborts(p)
  \/ \E p \in DOMAIN held, size \in Sizes :
       \/ ReallocUpdate(p, size)
       \/ ReallocSplit(p, size)
       \/ \E w \in Data : ReallocMove(p, size, w)
       \/ ReallocFails(p, size)

Spec == Init /\ [][Step]_vars

-----------------------------------------------------------------------------
Blocks ==
  IF heap.pages = 0 THEN {}
  ELSE Walk(heap, {b \in 0 .. End(heap) :
                     /\ Next(heap, b) < Epilogue(heap)
                     /\ Header(heap, b).size >= MIN_BLOCK_SIZE})
FreeBlocks == {b \in Blocks : ~ Header(heap, b).alloc}

Heaps ==
  [mem   : [Units -> [foot : Word, head : Word]],
   pages : 0 .. MaxPages,
   lists : [0 .. NUM_FREE_LISTS - 1 -> Seq(Units)]]

(* The sizes in headers are never negative, no link leads out of the       *)
(* memory, and the heap never has more pages than there are.               *)
TypeOK ==
  /\ heap \in Heaps
  /\ DOMAIN held \subseteq Units
  /\ held \in [DOMAIN held -> [size : Nat, filled : Nat, word : Data]]
  /\ freed \subseteq Units
  /\ aborted \in BOOLEAN

(* Whatever is requested next, what is left of the block that is found for *)
(* it is nothing or large enough for a block (sfmm_block.c:463); of a rest *)
(* between the two the code makes a header that is not there.              *)
NothingIsLeftOver ==
  \A size \in Sizes :
    LET total == calculate_block_size(size)
        h     == grown(heap, total)
        b     == fitting(h, total)
    IN  b # NoBlock => Header(h, b).size - total \notin 1 .. MIN_BLOCK_SIZE - 1

(* After any calls of sf_malloc, sf_free and sf_realloc, following the     *)
(* headers from the prologue leads exactly to the epilogue, the allocated  *)
(* blocks on the way are those the program holds, and each is large enough *)
(* for what was requested.                                                 *)
HeapIsTiled ==
  /\ \A b \in Blocks : /\ Header(heap, b).size >= MIN_BLOCK_SIZE
                       /\ Next(heap, b) \in Blocks \cup {Epilogue(heap)}
  /\ Blocks \ (FreeBlocks \cup {0}) = DOMAIN held
  /\ \A p \in DOMAIN held :
       /\ Header(heap, p).pay = held[p].size
       /\ held[p].size + 16 <= 16 * Header(heap, p).size

(* What the code reads of a block through its neighbour is true: the size  *)
(* and the alloc bit in its footer, which free_allocated_block and the     *)
(* next touch_for_heap_update rely on, and the prv alloc bit of the block  *)
(* that follows.                                                           *)
NeighboursAgree ==
  \A b \in Blocks :
    LET foot == Footer(heap, Next(heap, b))
    IN  /\ foot.size = Header(heap, b).size
        /\ foot.alloc = Header(heap, b).alloc
        /\ Header(heap, Next(heap, b)).prev = foot.alloc

(* The free lists hold every free block once and nothing else, each in the *)
(* list of its size or, the last block of the heap, in the wilderness; and *)
(* no two free blocks are neighbours, they are always joined.              *)
ListsHoldFreeBlocks ==
  /\ UNION {Members(heap, i) : i \in DOMAIN heap.lists} = FreeBlocks
  /\ \A i \in DOMAIN heap.lists :
       /\ IsInjective(heap.lists[i])
       /\ \A b \in Members(heap, i) :
            \/ i = find_allocation_index(Header(heap, b).size)
            \/ i = NUM_FREE_LISTS - 1 /\ b = find_last_in_heap(heap)
  /\ \A i, j \in DOMAIN heap.lists :
       i # j => Members(heap, i) \cap Members(heap, j) = {}
  /\ \A b \in FreeBlocks : Next(heap, b) \notin FreeBlocks

(* No call changes what the program has written to a block it holds, and   *)
(* sf_realloc takes it along.                                              *)
ContentsKept ==
  \A p \in DOMAIN held : \A u \in p + 1 .. p + held[p].filled :
    Header(heap, u) = held[p].word /\ Footer(heap, u) = held[p].word

(* sf_free accepts every pointer that the program holds, and calls abort   *)
(* for one that it has freed, as long as the memory has not been given out *)
(* again (tests/sfmm_tests.c:262, free_invalid).                           *)
FreeTellsThemApart ==
  /\ \A p \in DOMAIN held : is_valid(heap, p)
  /\ \A p \in freed : ~ is_valid(heap, p)

(* What the program holds while a call runs: sf_realloc holds the old and  *)
(* the new block until it has copied.                                      *)
HeldMeanwhile ==
  LET meanwhile == [p \in DOMAIN held' \cup DOMAIN held |->
                      IF p \in DOMAIN held' THEN held'[p] ELSE held[p]]
  IN  MapThenSumSet(LAMBDA p : meanwhile[p].size, DOMAIN meanwhile)

(* The walks over the heap find what the program holds: the peak becomes   *)
(* the payload held during a call that gets or cuts a block if that is     *)
(* more, and is otherwise left alone; and the fragmentation is that of the *)
(* blocks held (sfmm.h:224 and sfmm.h:233).                                *)
Measured ==
  /\ \/ peak' = peak
     \/ peak' > peak /\ peak' = HeldMeanwhile
  /\ DOMAIN held' \ DOMAIN held # {} => peak' >= HeldMeanwhile
  /\ sf_fragmentation(heap') =
       [payload   |-> MapThenSumSet(LAMBDA p : held'[p].size, DOMAIN held'),
        allocated |-> MapThenSumSet(LAMBDA p : 16 * Header(heap', p).size,
                                    DOMAIN held')]

(* Every call leaves statistics that are true, whatever the blocks went    *)
(* through before.                                                         *)
StatisticsAreTrue == [][Measured]_<<heap, held, peak>>
=============================================================================
