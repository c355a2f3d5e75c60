-------------------------------- MODULE Heap --------------------------------
(***************************************************************************)
(* The application heap (cibos-app/src/heap.rs): a first-fit free list     *)
(* kept in the blocks themselves.  Addresses and sizes count words.  A     *)
(* block keeps its size in its header while it is allocated, and the word  *)
(* before a payload holds the base of its block, which is how dealloc      *)
(* finds it.                                                               *)
(***************************************************************************)
EXTENDS Integers, Sequences, FiniteSets, SequencesExt

CONSTANTS
    HeapBase,    \* where the region handed to init starts
    HeapWords,   \* and its size
    Sizes,       \* the sizes of layouts the application asks for
    Aligns       \* and their alignments, powers of two

BLOCK_HDR == 2
WORD == 1
MIN_ALIGN == 1

VARIABLES
    free,    \* the free list: bases, head first
    size,    \* size[b]: the size word of the block header at b, 0 where there is none
    live     \* the allocated payloads: [payload, base, want], base the stashed word

heapVars == <<free, size, live>>

align_up(v, a) == ((v + a - 1) \div a) * a
Larger(a, b) == IF a > b THEN a ELSE b

heap_init ==
    /\ free = IF HeapWords < BLOCK_HDR THEN <<>> ELSE <<HeapBase>>
    /\ size = [b \in HeapBase..(HeapBase + HeapWords - 1) |-> IF b = HeapBase THEN HeapWords ELSE 0]
    /\ live = {}

(* Where a layout's payload goes in the block at base, and where it ends.  *)
Payload(base, align) == align_up(base + BLOCK_HDR + WORD, Larger(align, MIN_ALIGN))
(* Mutant: the padding an alignment costs is not counted.                  *)
UsedEnd_Unaligned(base, want, align) == base + BLOCK_HDR + WORD + want
UsedEnd(base, want, align) == Payload(base, align) + want
Fits(i, want, align) == UsedEnd(free[i], want, align) <= free[i] + size[free[i]]

heap_alloc(layout_size, align) ==
    LET want == align_up(Larger(layout_size, 1), MIN_ALIGN)
        i == CHOOSE j \in DOMAIN free : Fits(j, want, align) /\ \A k \in 1..(j - 1) : ~Fits(k, want, align)
        base == free[i]
        used == UsedEnd(base, want, align) - base
        leftover == size[base] - used
    IN  /\ \E j \in DOMAIN free : Fits(j, want, align)
        /\ IF leftover >= BLOCK_HDR
           THEN /\ free' = [free EXCEPT ![i] = base + used]
                /\ size' = [size EXCEPT ![base] = used, ![base + used] = leftover]
           ELSE /\ free' = RemoveAt(free, i)
                /\ UNCHANGED size
        /\ live' = live \cup {[payload |-> Payload(base, align), base |-> base, want |-> want]}

(* coalesce: for each block a of the list in turn, the block that starts   *)
(* where a ended when the loop reached it is merged into a.                *)
RECURSIVE coalesce(_, _, _)
coalesce(list, sz, a) ==
    IF a > Len(list) THEN [free |-> list, size |-> sz]
    ELSE LET base == list[a]
             b == {k \in DOMAIN list : k # a /\ list[k] = base + sz[base]}
         IN  IF b = {} THEN coalesce(list, sz, a + 1)
             ELSE LET k == CHOOSE k \in b : TRUE
                  IN  coalesce(RemoveAt(list, k), [sz EXCEPT ![base] = @ + sz[list[k]], ![list[k]] = 0],
                               IF k < a THEN a ELSE a + 1)

heap_dealloc(p) ==
    LET r == coalesce(<<p.base>> \o free, size, 1) IN
    /\ free' = r.free /\ size' = r.size /\ live' = live \ {p}

HeapNext ==
    \/ \E s \in Sizes, a \in Aligns : heap_alloc(s, a)
    \/ \E p \in live : heap_dealloc(p)

HeapSpec == heap_init /\ [][HeapNext]_heapVars

(* The free blocks and the blocks of live payloads tile the heap exactly:  *)
(* no word is in two of them and none is lost, whatever the order of       *)
(* allocations and frees; a payload clears its block's header and its own  *)
(* stashed word, is aligned, and ends inside its block; and no two free    *)
(* blocks are adjacent, so one pass of coalesce always suffices.           *)
HeapTiled ==
    LET bases == Range(free) \cup {p.base : p \in live}
        ends == {b + size[b] : b \in bases}
        top == HeapBase + HeapWords
    IN  /\ Cardinality(bases) = Len(free) + Cardinality(live)
        /\ bases \cup {top} = ends \cup {HeapBase}
        /\ \A p \in live : /\ p.payload >= p.base + BLOCK_HDR + WORD
                           /\ p.payload + p.want <= p.base + size[p.base]
        /\ \A b \in Range(free) : b + size[b] \notin Range(free)
=============================================================================
