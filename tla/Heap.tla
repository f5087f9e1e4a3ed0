-------------------------------- MODULE Heap --------------------------------
(***************************************************************************)
(* The kernel heap of heap.c: blocks with a header in front of their       *)
(* payload, an address-ordered free list searched first fit, and a bump    *)
(* pointer into memory never used yet.  kmalloc and kfree are called with  *)
(* interrupts off, never from a driver's interrupt handler, so each is one *)
(* step.  Addresses and sizes are in bytes.                                *)
(***************************************************************************)
EXTENDS Integers, SequencesExt

CONSTANTS
  HEAP_START,
  HEAP_SIZE,
  Requests     \* sizes the kernel asks for

ASSUME HeapAssumption ==
  /\ HEAP_START \in Nat \ {0} /\ HEAP_START % 4 = 0
  /\ HEAP_SIZE \in Nat /\ HEAP_SIZE % 4 = 0 /\ HEAP_SIZE > 12
  /\ Requests \subseteq Nat

VARIABLES
  heap_begin,  \* first byte never handed out
  free_list,   \* addresses of the free blocks, in list order
  size,        \* address of a header -> payload bytes; 0 where no header is
  magic,       \* what the magic word of a header at that address would read
  heap_used,
  halted,      \* err() has been called: the kernel sits in hlt
  asked        \* history: address of a block -> request of its owner, 0 if none

vars == <<heap_begin, free_list, size, magic, heap_used, halted, asked>>

heap_end == HEAP_START + HEAP_SIZE
Header == 12      \* sizeof(struct heap_block)
MinTail == 16     \* smallest payload worth splitting off

ALLOCATED == "ALLOCATED"
FREE == "FREE"    \* or anything else that is not ALLOCATED

Addr == {a \in HEAP_START .. heap_end - 1 : a % 4 = 0}
Owned == {a \in Addr : asked[a] > 0}
Free == {free_list[i] : i \in DOMAIN free_list}
Blocks == Owned \cup Free

align_size(n) == ((n + 3) \div 4) * 4

\* End of a block, where the next one starts.
End(a) == a + Header + size[a]

---------------------------------------------------------------------------
(* kmalloc *)

\* The magic words once block a has a payload of n bytes.  Its owner writes
\* over every header that once stood in it.
Handed(a, n) ==
  [x \in Addr |-> IF x = a THEN ALLOCATED
                  ELSE IF a < x /\ x < a + Header + n THEN FREE
                  ELSE magic[x]]

\* Positions of the free blocks that are large enough.
Fits(requested) == {i \in DOMAIN free_list : size[free_list[i]] >= requested}

\* Mutant: a tail is split off however small it is.
Splits_always(block, requested) == size[block] >= requested

Splits(block, requested) ==
  size[block] >= requested + Header + MinTail

\* First fit.  What is left over goes back in the list, in the block's place,
\* when it is worth a header of its own.
KmallocFree(n) ==
  LET requested == align_size(n)
      i         == CHOOSE k \in Fits(requested) : \A j \in Fits(requested) : k <= j
      block     == free_list[i]
      tail      == block + Header + requested
  IN  /\ ~halted
      /\ n > 0 /\ n <= HEAP_SIZE - Header
      /\ Fits(requested) # {}
      /\ IF Splits(block, requested)
         THEN /\ size' = [size EXCEPT ![tail] = size[block] - requested - Header,
                                      ![block] = requested]
              /\ magic' = [Handed(block, requested) EXCEPT ![tail] = FREE]
              /\ free_list' = [free_list EXCEPT ![i] = tail]
         ELSE /\ magic' = Handed(block, size[block])
              /\ free_list' = RemoveAt(free_list, i)
              /\ UNCHANGED size
      /\ heap_used' = heap_used + Header + size'[block]
      /\ asked' = [asked EXCEPT ![block] = n]
      /\ UNCHANGED <<heap_begin, halted>>

\* Mutant: the header is forgotten in the limit.
OutOfMemory_payload(requested) == heap_begin > heap_end - requested

OutOfMemory(requested) == heap_begin > heap_end - (Header + requested)

\* Nothing in the list is large enough: new memory.
KmallocBump(n) ==
  LET requested == align_size(n)
      total     == Header + requested
  IN  /\ ~halted
      /\ n > 0 /\ n <= HEAP_SIZE - Header
      /\ Fits(requested) = {}
      /\ ~OutOfMemory(requested)
      /\ heap_begin' = heap_begin + total
      /\ size' = [size EXCEPT ![heap_begin] = requested]
      /\ magic' = Handed(heap_begin, requested)
      /\ heap_used' = heap_used + total
      /\ asked' = [asked EXCEPT ![heap_begin] = n]
      /\ UNCHANGED <<free_list, halted>>

\* err() never returns.
KmallocPanics(n) ==
  /\ ~halted
  /\ \/ n > HEAP_SIZE - Header
     \/ n > 0 /\ Fits(align_size(n)) = {} /\ OutOfMemory(align_size(n))
  /\ halted' = TRUE
  /\ UNCHANGED <<heap_begin, free_list, size, magic, heap_used, asked>>

---------------------------------------------------------------------------
(* kfree *)

\* Mutant: the magic word is not looked at.
Accepts_any(block) == block >= HEAP_START /\ block < heap_begin

Accepts(block) ==
  /\ magic[block] = ALLOCATED
  /\ block >= HEAP_START
  /\ block < heap_begin

\* How many free blocks stay in front of the freed one.
Before(block) == Cardinality({i \in DOMAIN free_list : free_list[i] < block})

\* Mutant: neighbours are never joined.
JoinsPrevious_never(list, sz, k) == FALSE

\* Whether the block at position k of the list starts where its predecessor
\* ends.
JoinsPrevious(list, sz, k) ==
  k > 1 /\ list[k - 1] + Header + sz[list[k - 1]] = list[k]

\* The freed block is put in its place and joined with the block behind it,
\* then with the block in front.
Kfree(block) ==
  LET k     == Before(block) + 1
      list0 == InsertAt(free_list, k, block)
      next  == list0[k + 1]
      joins == k < Len(list0) /\ JoinsPrevious(list0, size, k + 1)
      list1 == IF joins THEN RemoveAt(list0, k + 1) ELSE list0
      size1 == IF joins
               THEN [size EXCEPT ![block] = @ + Header + size[next], ![next] = 0]
               ELSE size
      previous == list1[k - 1]
  IN  /\ ~halted
      /\ Accepts(block)
      /\ heap_used' = heap_used - (Header + size[block])
      /\ magic' = [magic EXCEPT ![block] = FREE]
      /\ IF JoinsPrevious(list1, size1, k)
         THEN /\ free_list' = RemoveAt(list1, k)
              /\ size' = [size1 EXCEPT ![previous] = @ + Header + size1[block],
                                       ![block] = 0]
         ELSE /\ free_list' = list1
              /\ size' = size1
      /\ asked' = [asked EXCEPT ![block] = 0]
      /\ UNCHANGED <<heap_begin, halted>>

---------------------------------------------------------------------------

Init ==
  /\ heap_begin = HEAP_START
  /\ free_list = << >>
  /\ size = [a \in Addr |-> 0]
  /\ magic = [a \in Addr |-> FREE]
  /\ heap_used = 0
  /\ halted = FALSE
  /\ asked = [a \in Addr |-> 0]

\* kfree is called with any pointer: a live one, one freed before, or one that
\* points into the middle of a block.
Next ==
  \/ \E n \in Requests : KmallocFree(n) \/ KmallocBump(n) \/ KmallocPanics(n)
  \/ \E a \in Addr : Kfree(a)

Spec == Init /\ [][Next]_vars

---------------------------------------------------------------------------
(* Properties *)

TypeOK ==
  /\ heap_begin \in HEAP_START .. heap_end
  /\ free_list \in Seq(Addr)
  /\ size \in [Addr -> 0 .. HEAP_SIZE]
  /\ magic \in [Addr -> {ALLOCATED, FREE}]
  /\ heap_used \in 0 .. HEAP_SIZE
  /\ halted \in BOOLEAN
  /\ asked \in [Addr -> Nat]

\* Allocated and free blocks tile the heap up to heap_begin: they do not
\* overlap, none is lost between them however they were split and joined, and
\* every owner has at least the bytes it asked for.
HeapTiled ==
  /\ HEAP_START \in Blocks \cup {heap_begin}
  /\ \A a \in Blocks :
       /\ a < heap_begin
       /\ End(a) \in Blocks \cup {heap_begin}
       /\ \A b \in Blocks : b <= a \/ b >= End(a)
       /\ a \in Owned => a \notin Free /\ size[a] >= asked[a]

\* The list is in address order, and no two neighbours in memory are both
\* free: freeing everything always leaves one block.
FreeListOK ==
  /\ \A i, j \in DOMAIN free_list : i < j => free_list[i] < free_list[j]
  /\ \A a, b \in Free : End(a) # b

\* The bytes of the blocks that are handed out, their headers included.
UsedBytes ==
  {x \in HEAP_START .. heap_end - 1 : \E a \in Owned : a <= x /\ x < End(a)}

\* The figure /proc/meminfo is computed from is exact: the headers and
\* payloads of the blocks that are handed out, nothing else.
HeapUsedExact == heap_used = Cardinality(UsedBytes)

\* The magic word tells a live pointer from every other one: kfree of a
\* pointer that was freed before, or that points into a payload, is ignored.
StrayFreeIgnored == [][\A a \in Addr \ Owned : ~Kfree(a)]_vars

============================================================================
