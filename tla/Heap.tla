---------------------------------- MODULE Heap ----------------------------------
(***************************************************************************)
(* kernel.xinu/lib/malloc.c.  The heap is a row of chunks, each a header   *)
(* (alloc_t: size and next) with the caller's bytes behind it; free_blocks *)
(* is the chain of those that are free.  malloc() and free() run with      *)
(* interrupts disabled, so each is one step; realloc() and calloc() are    *)
(* the two in sequence.                                                    *)
(*                                                                         *)
(* The chain is the sequence of its chunks' addresses, and size holds the  *)
(* headers that are still part of a chunk of their own.  The field next of *)
(* a chunk in use is 0, so the test in free() lets it pass: callers free   *)
(* only what malloc() gave them, once, which is the history variable used. *)
(***************************************************************************)
EXTENDS Integers, Sequences, SequencesExt

CONSTANTS
    Start,     (* heap_init()'s argument, the address &_end              *)
    Requests,  (* sizes asked for                                        *)
    MaxHeap    (* bound on heap_end, which the code lets grow for ever   *)

ASSUME HeapAssumption ==
    /\ Start \in Nat /\ MaxHeap \in Nat
    /\ Requests \subseteq Nat \ {0}

HEAP_ALIGN == 4
HEADER     == 8     (* sizeof(alloc_t)                                   *)
SPLIT      == 64    (* "TODO why 64..?"                                  *)

VARIABLES
    heap_end,     (* first address behind the last chunk                 *)
    free_blocks,  (* the chain of free chunks                            *)
    size,         (* chunk -> size in its header                         *)
    used          (* history: pointer a caller holds -> bytes asked for  *)

vars == <<heap_end, free_blocks, size, used>>

Put(f, x, v)  == [y \in DOMAIN f \cup {x} |-> IF y = x THEN v ELSE f[y]]
Drop(f, x)    == [y \in DOMAIN f \ {x} |-> f[y]]
First(S)      == CHOOSE i \in S : \A j \in S : i <= j

ChunkOf(ptr) == ptr - HEADER

Init ==
    /\ heap_end = Start
    /\ free_blocks = <<>>
    /\ size = [a \in {} |-> 0]
    /\ used = [p \in {} |-> 0]

--------------------------------------------------------------------------------
(* free() as a function of the chain and the headers.                      *)

Follows(h, a, b) == a + HEADER + h.size[a] = b

(* A bug: alloc is also appended to the chain after it has been merged.    *)
MergeIntoNodeAppended(h, node, alloc) ==
    [list |-> <<alloc>> \o h.list,
     size |-> Drop([h.size EXCEPT ![node] = @ + HEADER + h.size[alloc]], alloc)]

(* "If the node after the current one is ours": node grows by alloc.       *)
MergeIntoNode(h, node, alloc) ==
    [list |-> h.list,
     size |-> Drop([h.size EXCEPT ![node] = @ + HEADER + h.size[alloc]], alloc)]

(* A bug: the node that was merged into alloc stays in the chain.          *)
MergeNodeStays(h, i, alloc) ==
    [list |-> <<alloc>> \o h.list,
     size |-> [h.size EXCEPT ![alloc] = @ + HEADER + h.size[h.list[i]]]]

(* A bug: alloc takes its place in the chain and is appended to it.        *)
MergeNodeAppended(h, i, alloc) ==
    [list |-> <<alloc>> \o [h.list EXCEPT ![i] = alloc],
     size |-> Drop([h.size EXCEPT ![alloc] = @ + HEADER + h.size[h.list[i]]],
                   h.list[i])]

(* "Or, if this current node is the one after ours": alloc grows by it and *)
(* takes its place in the chain.                                           *)
MergeNode(h, i, alloc) ==
    [list |-> [h.list EXCEPT ![i] = alloc],
     size |-> Drop([h.size EXCEPT ![alloc] = @ + HEADER + h.size[h.list[i]]],
                   h.list[i])]

(* The first node that lets it merge ends the search; "If we couldn't      *)
(* merge, simply append to the chain", at its front.                       *)
FreeChunk(h, alloc) ==
    LET hits == {i \in DOMAIN h.list : Follows(h, h.list[i], alloc)
                                       \/ Follows(h, alloc, h.list[i])}
        i    == First(hits)
    IN  IF hits = {} THEN [list |-> <<alloc>> \o h.list, size |-> h.size]
        ELSE IF Follows(h, h.list[i], alloc) THEN MergeIntoNode(h, h.list[i], alloc)
        ELSE MergeNode(h, i, alloc)

Becomes(h) == free_blocks' = h.list /\ size' = h.size

Free(ptr) ==
    /\ ptr \in DOMAIN used
    /\ used' = Drop(used, ptr)
    /\ Becomes(FreeChunk([list |-> free_blocks, size |-> size], ChunkOf(ptr)))
    /\ UNCHANGED heap_end

--------------------------------------------------------------------------------
(* A bug: no room for the header.                                          *)
RoundedNoHeader(n) == ((n + HEAP_ALIGN) \div HEAP_ALIGN) * HEAP_ALIGN

(* "Round size to an aligned value"                                        *)
Rounded(n) == ((n + HEADER + HEAP_ALIGN) \div HEAP_ALIGN) * HEAP_ALIGN

(* A bug: what is left is not given back.                                  *)
SplitKeepsRest(h, node, need) == [h EXCEPT !.size[node] = need]

(* "give back the extra space"                                             *)
Split(h, node, need) ==
    LET leftover == node + HEADER + need
        rest     == h.size[node] - need - HEADER
    IN  FreeChunk([h EXCEPT !.size = Put([@ EXCEPT ![node] = need], leftover, rest)],
                  leftover)

(* malloc() from the chain: the first chunk that is large enough.          *)
MallocReuse(n) ==
    LET need == Rounded(n)
        fits == {i \in DOMAIN free_blocks : size[free_blocks[i]] >= need}
        node == free_blocks[First(fits)]
        rest == [list |-> RemoveAt(free_blocks, First(fits)), size |-> size]
    IN  /\ fits # {}
        /\ Becomes(IF size[node] > need + SPLIT THEN Split(rest, node, need) ELSE rest)
        /\ used' = Put(used, node + HEADER, n)
        /\ UNCHANGED heap_end

(* "No reusable chunks, take from the end of the heap"                     *)
MallocGrow(n) ==
    LET need == Rounded(n)
    IN  /\ \A i \in DOMAIN free_blocks : size[free_blocks[i]] < need
        /\ heap_end + need <= MaxHeap
        /\ heap_end' = heap_end + need
        /\ size' = Put(size, heap_end, need)
        /\ used' = Put(used, heap_end + HEADER, n)
        /\ UNCHANGED free_blocks

Next ==
    \/ \E n \in Requests : MallocReuse(n) \/ MallocGrow(n)
    \/ \E ptr \in DOMAIN used : Free(ptr)

Spec == Init /\ [][Next]_vars

--------------------------------------------------------------------------------
Chunk == DOMAIN size

TypeOK ==
    /\ heap_end \in Nat
    /\ Chunk \subseteq Nat
    /\ size \in [Chunk -> Nat]
    /\ free_blocks \in Seq(Chunk)
    /\ \A ptr \in DOMAIN used : ptr \in Nat /\ used[ptr] \in Requests

(* A chunk is in the chain, once, or in use; none is both or neither.      *)
FreeOrInUse ==
    /\ \A i, j \in DOMAIN free_blocks : i # j => free_blocks[i] # free_blocks[j]
    /\ \A ptr \in DOMAIN used : ChunkOf(ptr) \in Chunk \ Range(free_blocks)
    /\ \A a \in Chunk : a \in Range(free_blocks) \/ a + HEADER \in DOMAIN used

(* Chunks never overlap, whatever is split and merged in which order: as   *)
(* far as a chunk's size reaches from its header on, the memory is its own.*)
ChunksApart ==
    /\ \A a \in Chunk : Start <= a /\ a + size[a] <= heap_end
    /\ \A a, b \in Chunk : a # b => a + size[a] <= b \/ b + size[b] <= a

(* No caller's bytes reach into a header, its own chunk's, another's or    *)
(* that of a free chunk: a caller that keeps to what it asked for cannot   *)
(* damage the chain.                                                       *)
HeadersIntact ==
    \A ptr \in DOMAIN used : \A a \in Chunk :
        ptr + used[ptr] <= a \/ a + HEADER <= ptr

(* No memory is lost: behind each chunk there is the next one or the end   *)
(* of the heap, with a gap of at most a header, which splitting leaves.    *)
NothingLost ==
    /\ heap_end = Start \/ Start \in Chunk
    /\ \A a \in Chunk :
          \E gap \in {0, HEADER} : a + size[a] + gap \in Chunk \cup {heap_end}

(* "see if this free chunk can merge into an adjacent free chunk": no free *)
(* chunk begins where another one ends.                                    *)
AdjacentMerge ==
    \A i, j \in DOMAIN free_blocks :
        free_blocks[i] + size[free_blocks[i]] # free_blocks[j]

(* The heap implements the allocator's promise.                            *)
Promise == INSTANCE Allocator WITH inuse <- used

ImplementsAllocator == Promise!Spec

================================================================================
