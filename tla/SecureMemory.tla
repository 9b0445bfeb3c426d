----------------------------- MODULE SecureMemory -----------------------------
(***************************************************************************)
(* The allocator of locked memory, src/egg/egg-secure-memory.c, used by     *)
(* several threads that share its lock.  A block is an array of words tiled *)
(* by cells; the first and the last word of a cell hold a pointer to the    *)
(* cell's metadata, which is kept elsewhere, and neighbours are found by    *)
(* reading these guards.                                                    *)
(*                                                                          *)
(* Lengths are in bytes and contents are tracked by word: a word holds      *)
(* nothing but zeroes, data of one client, or a pointer to metadata.  Which *)
(* of the fitting cells a ring, and which of the blocks the list, comes to  *)
(* first is left open.                                                      *)
(***************************************************************************)
EXTENDS Integers, FiniteSets

CONSTANTS
    Client,      \* the threads, each with at most one allocation at a time
    Lengths,     \* the lengths they ask for, in bytes
    Insured,     \* the clients that pass EGG_SECURE_USE_FALLBACK
    WordSize,    \* sizeof (void*)
    WASTE,       \* the words a cell may have in excess of what was asked
    PageWords,   \* DEFAULT_BLOCK_SIZE, one page here, in words
    Item,        \* bound: cells whose metadata the pool has room for
    BlockId,     \* bound: blocks that may be locked at a time
    Zero,        \* the contents of a cleared word
    Fallback,    \* in place of a block: memory of the fallback allocator
    NoPtr        \* NULL

ASSUME LengthAssumption ==
    /\ WordSize \in Nat \ {0} /\ WASTE \in Nat \ {0}
    /\ PageWords \in Nat \ {0, 1}         \* a page has room for two guards
    /\ Lengths \subseteq Nat \ {0}
ASSUME ContentsAssumption ==
    /\ Zero \notin Client \cup Item
    /\ Client \cap Item = {}
    /\ Fallback \notin BlockId
    /\ NoPtr \notin [block : BlockId \cup {Fallback}, word : Nat, length : Nat]

VARIABLES
    heap,        \* all_blocks, the cells and the contents of the blocks
    client       \* what each client holds and is in the middle of

vars == <<heap, client>>

\* A block: its length in words, and its number of used allocations.
Block == [n_words : Nat \ {0}, n_used : Nat]

\* A cell, unused when nothing is requested of it.
Cell == [block : BlockId, words : Nat, n_words : Nat, requested : Nat]

\* An allocation as its client knows it.
Ptr == [block : BlockId \cup {Fallback}, word : Nat, length : Nat]

\* filled counts the words the client has written; next is the length asked of
\* a reallocation under way, and new what it has got for it.
Idle == [ptr |-> NoPtr, filled |-> 0, next |-> 0, new |-> NoPtr]

Init ==
    /\ heap = [blocks |-> <<>>, cells |-> <<>>, memory |-> <<>>]
    /\ client = [t \in Client |-> Idle]

-----------------------------------------------------------------------------
(* Words, guards and neighbours.                                           *)

\* sec_size_to_words.
Words(length) == (length + WordSize - 1) \div WordSize

\* f with the value v for k, which may be new.
Put(f, k, v) == [i \in DOMAIN f \cup {k} |-> IF i = k THEN v ELSE f[i]]
Without(f, S) == [i \in DOMAIN f \ S |-> f[i]]

\* memset of n words from the given one.
Fill(m, from, n, v) == [w \in DOMAIN m |-> IF w \in from..(from + n - 1) THEN v ELSE m[w]]

\* memcpy of n words.
Copied(m, from, n, src, at) ==
    [w \in DOMAIN m |-> IF w \in from..(from + n - 1) THEN src[at + (w - from)] ELSE m[w]]

Last(c) == c.words + c.n_words - 1

\* sec_write_guards.
Guarded(m, i, c) == [m EXCEPT ![c.words] = i, ![Last(c)] = i]

\* sec_check_guards.
GuardsOf(h, i) ==
    LET c == h.cells[i] IN h.memory[c.block][c.words] = i /\ h.memory[c.block][Last(c)] = i

\* sec_neighbor_before and sec_neighbor_after: the metadata pointer found in
\* the word next to the cell, as a set that is empty at the end of the block.
Before(m, c) == {m[w] : w \in {c.words - 1} \cap DOMAIN m}
After(m, c) == {m[w] : w \in {Last(c) + 1} \cap DOMAIN m}

\* pool_alloc: an item the pool has left.
FreeItems(h) == Item \ DOMAIN h.cells
NewItem(h) == CHOOSE i \in FreeItems(h) : TRUE

Unused(h, b) == {i \in DOMAIN h.cells : h.cells[i].block = b /\ h.cells[i].requested = 0}

PtrTo(c, length) == [block |-> c.block, word |-> c.words + 1, length |-> length]

-----------------------------------------------------------------------------
(* Within a block.                                                         *)

\* Mutant: room for one guard only.
NeedOneGuard(length) == Words(length) + 1

\* The words that an allocation takes with its guards.
Need(length) == Words(length) + 2

Fits(h, b, length) == {i \in Unused(h, b) : h.cells[i].n_words >= Need(length)}
Splits(h, i, length) == h.cells[i].n_words > Need(length) + WASTE

\* sec_alloc from the unused cell i, which keeps its end if it is too long.
Carve(h, b, i, length) ==
    LET c == h.cells[i]
        split == Splits(h, i, length)
        j == IF split THEN NewItem(h) ELSE i
        n == IF split THEN Need(length) ELSE c.n_words
        taken == [c EXCEPT !.n_words = n, !.requested = length]
        rest == [c EXCEPT !.words = @ + n, !.n_words = @ - n]
        guarded == IF split THEN Guarded(Guarded(h.memory[b], j, taken), i, rest)
                            ELSE h.memory[b]
    IN  [heap |->
            [blocks |-> [h.blocks EXCEPT ![b].n_used = @ + 1],
             cells |-> Put(IF split THEN Put(h.cells, i, rest) ELSE h.cells, j, taken),
             memory |-> [h.memory EXCEPT ![b] =
                            Fill(guarded, taken.words + 1, Words(length), Zero)]],
         ptr |-> PtrTo(taken, length)]

\* sec_alloc.  It fails if no cell fits, or no metadata can be had to split one.
SecAlloc(h, b, length) ==
    {Carve(h, b, i, length) :
        i \in {k \in Fits(h, b, length) : Splits(h, k, length) => FreeItems(h) # {}}}
SecAllocMayFail(h, b, length) ==
    \/ Fits(h, b, length) = {}
    \/ FreeItems(h) = {} /\ \E i \in Fits(h, b, length) : Splits(h, i, length)

\* The cell of an allocation, by the guard before it.
CellAt(h, ptr) == h.memory[ptr.block][ptr.word - 1]

\* sec_free: the allocation is cleared, and its cell merged with an unused one
\* before it, and what that gives with an unused one after it.
SecFree(h, ptr) ==
    LET b == ptr.block
        i == CellAt(h, ptr)
        c == h.cells[i]
        m1 == Fill(h.memory[b], ptr.word, Words(c.requested), Zero)
        before == {k \in Before(m1, c) : h.cells[k].requested = 0}
        j == IF before = {} THEN i ELSE CHOOSE k \in before : TRUE
        d == IF before = {} THEN c ELSE [h.cells[j] EXCEPT !.n_words = @ + c.n_words]
        m2 == IF before = {} THEN m1 ELSE Guarded(m1, j, d)
        after == {k \in After(m2, d) : h.cells[k].requested = 0}
        l == IF after = {} THEN j ELSE CHOOSE k \in after : TRUE
        e == IF after = {} THEN d
             ELSE [h.cells[l] EXCEPT !.words = d.words, !.n_words = @ + d.n_words]
        m3 == IF after = {} THEN m2 ELSE Guarded(m2, l, e)
    IN  [blocks |-> [h.blocks EXCEPT ![b].n_used = @ - 1],
         cells |-> Put(Without(h.cells, {i, j}), l, [e EXCEPT !.requested = 0]),
         memory |-> [h.memory EXCEPT ![b] = m3]]

\* Mutant: what is given up is not cleared.
ResizeNoClear(h, ptr, length) == [h EXCEPT !.cells[CellAt(h, ptr)].requested = length]

\* sec_realloc where the cell is long enough: only what is given up is cleared.
Resize(h, ptr, length) ==
    LET i == CellAt(h, ptr)
        c == h.cells[i]
        kept == Words(length)
    IN  [h EXCEPT !.cells[i].requested = length,
                  !.memory[ptr.block] =
                      IF length < c.requested
                      THEN Fill(@, ptr.word + kept, Words(c.requested) - kept, Zero)
                      ELSE @]

\* sec_realloc's loop: an unused cell after this one is eaten whole, if that
\* leaves not too much, or gives the words that are missing.  It takes one
\* turn at most, because what follows an unused cell is in use.
Grow(h, ptr, length) ==
    LET b == ptr.block
        i == CellAt(h, ptr)
        c == h.cells[i]
        missing == Need(length) - c.n_words
        after == {k \in After(h.memory[b], c) : h.cells[k].requested = 0}
        k == CHOOSE k \in after : TRUE
        o == h.cells[k]
        whole == missing + WASTE >= o.n_words
        grown == [c EXCEPT !.n_words = @ + (IF whole THEN o.n_words ELSE missing)]
        rest == [o EXCEPT !.words = @ + missing, !.n_words = @ - missing]
    IN  IF after = {} THEN h
        ELSE IF whole
        THEN [h EXCEPT !.cells = Put(Without(h.cells, {k}), i, grown),
                       !.memory[b] = Guarded(@, i, grown)]
        ELSE [h EXCEPT !.cells = Put(Put(h.cells, k, rest), i, grown),
                       !.memory[b] = Guarded(Guarded(@, k, rest), i, grown)]

\* sec_realloc: the ways to end, with NoPtr where the block has no room.
SecRealloc(h, ptr, length) ==
    LET b == ptr.block
        i == CellAt(h, ptr)
        valid == h.cells[i].requested
        g == Grow(h, ptr, length)
        extended == [g EXCEPT !.cells[i].requested = length,
                              !.memory[b] = Fill(@, ptr.word + Words(valid),
                                                 Words(length) - Words(valid), Zero)]
        Moved(a) ==
            [heap |-> SecFree([a.heap EXCEPT !.memory[b] =
                         Copied(@, a.ptr.word, Words(valid), @, ptr.word)], ptr),
             ptr |-> a.ptr]
    IN  IF Need(length) <= h.cells[i].n_words
        THEN {[heap |-> Resize(h, ptr, length), ptr |-> [ptr EXCEPT !.length = length]]}
        ELSE IF Need(length) <= g.cells[i].n_words
        THEN {[heap |-> extended, ptr |-> [ptr EXCEPT !.length = length]]}
        ELSE {Moved(a) : a \in SecAlloc(g, b, length)}
             \cup {[heap |-> g, ptr |-> NoPtr] : x \in
                      {y \in {b} : SecAllocMayFail(g, b, length)}}

\* sec_validate, and egg_secure_records' sum: the cells of the block, each
\* between its guards, follow one another to its end, and none is asked for
\* more than it has.
SecValidate(h, b) ==
    LET mine == {i \in DOMAIN h.cells : h.cells[i].block = b} IN
    /\ \A i \in mine : /\ GuardsOf(h, i)
                       /\ h.cells[i].requested <= (h.cells[i].n_words - 2) * WordSize
    /\ \E i \in mine : h.cells[i].words = 0
    /\ \A i \in mine : \/ Last(h.cells[i]) + 1 = h.blocks[b].n_words
                       \/ \E k \in mine : h.cells[k].words = Last(h.cells[i]) + 1
    /\ \A i, k \in mine : i # k => \/ Last(h.cells[i]) < h.cells[k].words
                                   \/ Last(h.cells[k]) < h.cells[i].words

-----------------------------------------------------------------------------
(* Blocks.                                                                 *)

\* sec_block_create: whole pages, one unused cell.
PagesFor(length) ==
    LET page == PageWords * WordSize IN PageWords * ((length + page - 1) \div page)
Create(h, b, length) ==
    LET n == PagesFor(length)
        i == NewItem(h)
        c == [block |-> b, words |-> 0, n_words |-> n, requested |-> 0]
    IN  [blocks |-> Put(h.blocks, b, [n_words |-> n, n_used |-> 0]),
         cells |-> Put(h.cells, i, c),
         memory |-> Put(h.memory, b, Guarded([w \in 0..(n - 1) |-> Zero], i, c))]

\* sec_block_destroy, once nothing in the block is used.
Settled(h, b) ==
    IF h.blocks[b].n_used # 0 THEN h
    ELSE [blocks |-> Without(h.blocks, {b}),
          cells |-> Without(h.cells, {i \in DOMAIN h.cells : h.cells[i].block = b}),
          memory |-> Without(h.memory, {b})]

\* egg_secure_alloc_full: any block with room, else a new block if the system
\* gives the pages (which may not do for what they were asked for), and the
\* fallback allocator for those who ask for it.
AllocFull(h, length, insured) ==
    LET none(g) == [heap |-> g,
                    ptr |-> IF insured THEN [block |-> Fallback, word |-> 0, length |-> length]
                                       ELSE NoPtr]
        spare == {b \in BlockId : b \notin DOMAIN h.blocks /\ FreeItems(h) # {}}
        new == CHOOSE b \in spare : TRUE
        g == Create(h, new, length)
    IN  (UNION {SecAlloc(h, b, length) : b \in DOMAIN h.blocks})
        \cup IF \E b \in DOMAIN h.blocks : ~SecAllocMayFail(h, b, length) THEN {}
             ELSE {none(h)}
                  \cup IF spare = {} THEN {}
                       ELSE SecAlloc(g, new, length)
                            \cup IF SecAllocMayFail(g, new, length) THEN {none(g)} ELSE {}

-----------------------------------------------------------------------------
(* What the clients do.  egg_secure_realloc of NULL is an allocation, and   *)
(* to nothing a free; egg_secure_strdup is an allocation that is written.   *)

Holds(t) == client[t].ptr # NoPtr
InBlock(ptr) == ptr # NoPtr /\ ptr.block # Fallback
AtRest(t) == client[t].next = 0

Set(t, k) == client' = [client EXCEPT ![t] = k]

\* egg_secure_alloc_full, which fails or not.
Alloc(t, length) ==
    /\ ~Holds(t)
    /\ \E a \in AllocFull(heap, length, t \in Insured) :
          /\ heap' = a.heap
          /\ Set(t, [client[t] EXCEPT !.ptr = a.ptr])

\* The client writes to all of its memory.
Write(t) ==
    LET p == client[t].ptr
        n == Words(p.length)
    IN
    /\ Holds(t) /\ AtRest(t)
    /\ client[t].filled # n
    /\ Set(t, [client[t] EXCEPT !.filled = n])
    /\ heap' = IF InBlock(p) THEN [heap EXCEPT !.memory[p.block] = Fill(@, p.word, n, t)]
                             ELSE heap

\* egg_secure_realloc_full under the lock: if the block has no room the rest is
\* done after unlocking.  The fallback's realloc is taken to succeed.
Realloc(t, length) ==
    LET k == client[t]
        shorter(n) == IF n < Words(length) THEN n ELSE Words(length)
    IN
    /\ Holds(t) /\ AtRest(t)
    /\ IF InBlock(k.ptr)
       THEN \E a \in SecRealloc(heap, k.ptr, length) :
               /\ heap' = Settled(a.heap, k.ptr.block)
               /\ Set(t, IF a.ptr = NoPtr THEN [k EXCEPT !.next = length]
                         ELSE [k EXCEPT !.ptr = a.ptr, !.filled = shorter(@)])
       ELSE /\ UNCHANGED heap
            /\ Set(t, [k EXCEPT !.ptr.length = length, !.filled = shorter(@)])

\* egg_secure_realloc_full, without room: an allocation elsewhere, or failure
\* with what there was left as it is.
ReallocNew(t) ==
    LET k == client[t] IN
    /\ ~AtRest(t) /\ k.new = NoPtr
    /\ \E a \in AllocFull(heap, k.next, t \in Insured) :
          /\ heap' = a.heap
          /\ Set(t, IF a.ptr = NoPtr THEN [k EXCEPT !.next = 0] ELSE [k EXCEPT !.new = a.ptr])

\* egg_secure_free_full of memory in a block.
FreeFull(h, ptr) == Settled(SecFree(h, ptr), ptr.block)

\* The end of egg_secure_realloc_full: the data is copied and the old memory
\* freed.
ReallocMove(t) ==
    LET k == client[t]
        n == Words(k.ptr.length)
        moved == IF ~InBlock(k.new) THEN heap
                 ELSE [heap EXCEPT !.memory[k.new.block] =
                         Copied(@, k.new.word, n, heap.memory[k.ptr.block], k.ptr.word)]
    IN
    /\ k.new # NoPtr
    /\ heap' = FreeFull(moved, k.ptr)
    /\ Set(t, [Idle EXCEPT !.ptr = k.new, !.filled = k.filled])

\* egg_secure_free_full and egg_secure_strfree.
Free(t) ==
    LET p == client[t].ptr IN
    /\ Holds(t) /\ AtRest(t)
    /\ heap' = IF InBlock(p) THEN FreeFull(heap, p) ELSE heap
    /\ Set(t, Idle)

Next ==
    \E t \in Client :
        \/ \E length \in Lengths : Alloc(t, length)
        \/ Write(t)
        \/ \E length \in Lengths : Realloc(t, length)
        \/ ReallocNew(t)
        \/ ReallocMove(t)
        \/ Free(t)

Spec == Init /\ [][Next]_vars

-----------------------------------------------------------------------------
(* Properties.                                                             *)

TypeOK ==
    /\ DOMAIN heap.blocks \subseteq BlockId /\ DOMAIN heap.memory = DOMAIN heap.blocks
    /\ DOMAIN heap.cells \subseteq Item
    /\ \A b \in DOMAIN heap.blocks :
          /\ heap.blocks[b] \in Block
          /\ heap.memory[b] \in [0..(heap.blocks[b].n_words - 1) -> {Zero} \cup Client \cup Item]
    /\ \A i \in DOMAIN heap.cells : heap.cells[i] \in Cell
    /\ client \in [Client -> [ptr : Ptr \cup {NoPtr}, filled : Nat, next : Lengths \cup {0},
                              new : Ptr \cup {NoPtr}]]

\* Whatever was allocated, resized, merged and split before, the assertions of
\* sec_validate and egg_secure_records hold of every block.
Valid == \A b \in DOMAIN heap.blocks : SecValidate(heap, b)

\* Unused memory is not left in pieces: no unused cell borders on another.
\* Without this sec_realloc and sec_alloc fail where there is room.
Coalesced ==
    \A i, k \in DOMAIN heap.cells :
        /\ i # k /\ heap.cells[i].block = heap.cells[k].block
        /\ heap.cells[k].words = Last(heap.cells[i]) + 1
        => heap.cells[i].requested # 0 \/ heap.cells[k].requested # 0

\* The words of an allocation that its client may use.
Extent(p) == p.word..(p.word + Words(p.length) - 1)

Pointers(t) == {p \in {client[t].ptr, client[t].new} : InBlock(p)}

\* What a client wrote is nowhere but in memory that is still its own: nothing
\* of a freed, moved or shortened allocation is left in locked memory.
SecretsErased ==
    \A b \in DOMAIN heap.blocks : \A w \in DOMAIN heap.memory[b] :
        heap.memory[b][w] \in Client =>
            \E p \in Pointers(heap.memory[b][w]) : p.block = b /\ w \in Extent(p)

\* And what it wrote is there, through every reallocation of its own and every
\* operation of the others.
DataSurvives ==
    \A t \in Client : InBlock(client[t].ptr) =>
        LET p == client[t].ptr IN
        /\ p.block \in DOMAIN heap.blocks
        /\ \A w \in p.word..(p.word + client[t].filled - 1) : heap.memory[p.block][w] = t

\* The allocations in a block, with their owners.
Holders(b) ==
    {x \in Client \X UNION {Pointers(t) : t \in Client} :
        x[2] \in Pointers(x[1]) /\ x[2].block = b}

\* A block's count is that of the allocations in it, and a block is kept just
\* as long as there are some.  This is claimed where every length leaves room for
\* the guards in a block that is made for it, and metadata items are left for the
\* cells of a new block; otherwise sec_alloc fails in a block that it has just
\* made, and the empty block stays until something else is freed from it.
BlocksCounted ==
    \A b \in DOMAIN heap.blocks :
        /\ heap.blocks[b].n_used = Cardinality(Holders(b))
        /\ heap.blocks[b].n_used # 0

\* The heap stays sound: valid, unused memory in one piece, blocks counted.
HeapSound == TypeOK /\ Valid /\ Coalesced /\ BlocksCounted

\* What clients write is kept as long as it is theirs, and no longer.
SecretsKept == SecretsErased /\ DataSurvives

\* Memory that egg_secure_alloc or egg_secure_realloc hands out is zero but
\* for what its client wrote.
Zeroed ==
    \A t \in Client : InBlock(client[t].ptr) =>
        LET p == client[t].ptr IN
        \A w \in Extent(p) : heap.memory[p.block][w] \in {Zero, t}
=============================================================================
