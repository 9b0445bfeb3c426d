-------------------------- MODULE SecureMemoryProofs --------------------------
(***************************************************************************)
(* Proof that the allocator of SecureMemory keeps its blocks valid and what *)
(* its clients write, for any number of clients, lengths, blocks and items  *)
(* of metadata, any word and page size and any waste.                       *)
(*                                                                          *)
(* Every function of the allocator is taken apart into a few transformations *)
(* of the heap: two neighbouring cells become one (Joined), a cell becomes  *)
(* two (Parted), a cell is asked for another length and its words and the   *)
(* count of its block change (Dressed, Rewritten), a block is made or        *)
(* dropped.  Each is shown to keep the tiling of the blocks (Tiled), unused  *)
(* cells merged (Merged) and what clients hold (Kept); then each function is *)
(* shown to be a composition of them.  The invariant (Good) relates the heap *)
(* to what the clients know of it.                                          *)
(***************************************************************************)
EXTENDS SecureMemory, FiniteSetTheorems, TLAPS

Content == {Zero} \cup Client \cup Item

-----------------------------------------------------------------------------
(* Words.                                                                  *)

\* Division with rest, for natural numbers.
LEMMA Division ==
    ASSUME NEW a \in Nat, NEW d \in Nat \ {0}
    PROVE  /\ a \div d \in Nat
           /\ d * (a \div d) <= a
           /\ a < d * (a \div d) + d
  OBVIOUS

\* Quotients grow with what is divided.
LEMMA QuotientOrder ==
    ASSUME NEW d \in Nat \ {0}, NEW q \in Nat, NEW r \in Nat, d * q < d * r + d
    PROVE  q <= r
<1> SUFFICES ASSUME q >= r + 1
             PROVE  FALSE
  OBVIOUS
<1>1. PICK e \in Nat : q = r + 1 + e
  <2>1. q - r - 1 \in Nat /\ q = r + 1 + (q - r - 1)
    OBVIOUS
  <2> QED
    BY <2>1
<1>2. d * q = d * r + d + d * e /\ d * e \in Nat
  BY <1>1
<1> QED
  BY <1>2

\* sec_size_to_words gives enough words, and more for more.
LEMMA WordsEnough ==
    ASSUME NEW n \in Nat
    PROVE  Words(n) \in Nat /\ n <= Words(n) * WordSize /\ Words(0) = 0
           /\ \A k \in Nat : k <= n => Words(k) <= Words(n)
<1> USE LengthAssumption
<1>1. ASSUME NEW k \in Nat
      PROVE  /\ Words(k) \in Nat /\ k <= Words(k) * WordSize
             /\ WordSize * Words(k) <= k + WordSize - 1
  <2> DEFINE q == (k + WordSize - 1) \div WordSize
  <2>1. k + WordSize - 1 \in Nat
    OBVIOUS
  <2>2. q \in Nat /\ WordSize * q <= k + WordSize - 1 /\ k + WordSize - 1 < WordSize * q + WordSize
    BY <2>1, Division
  <2>3. q * WordSize = WordSize * q /\ WordSize * q \in Nat
    BY <2>2
  <2>4. Words(k) = q
    BY DEF Words
  <2> HIDE DEF q
  <2> QED
    BY <2>2, <2>3, <2>4
<1>2. Words(0) = 0
  <2>1. WordSize * Words(0) < WordSize * 0 + WordSize /\ Words(0) \in Nat
    BY <1>1
  <2> QED
    BY <2>1, QuotientOrder
<1>3. ASSUME NEW k \in Nat, k <= n
      PROVE  Words(k) <= Words(n)
  <2>1. WordSize * Words(k) <= k + WordSize - 1 /\ n <= Words(n) * WordSize
        /\ Words(k) \in Nat /\ Words(n) \in Nat
    BY <1>1
  <2>2. Words(n) * WordSize = WordSize * Words(n) /\ WordSize * Words(n) \in Nat /\ WordSize * Words(k) \in Nat
    BY <2>1
  <2>3. WordSize * Words(k) < WordSize * Words(n) + WordSize
    BY <1>3, <2>1, <2>2
  <2> QED
    BY <2>1, <2>3, QuotientOrder
<1> QED
  BY <1>1, <1>2, <1>3

-----------------------------------------------------------------------------
(* The invariant of the heap.                                              *)

\* Types.
Shape(h) ==
    /\ h = [blocks |-> h.blocks, cells |-> h.cells, memory |-> h.memory]
    /\ DOMAIN h.blocks \subseteq BlockId /\ h.blocks \in [DOMAIN h.blocks -> Block]
    /\ DOMAIN h.cells \subseteq Item /\ h.cells \in [DOMAIN h.cells -> Cell]
    /\ DOMAIN h.memory = DOMAIN h.blocks
    /\ h.memory = [b \in DOMAIN h.memory |-> h.memory[b]]
    /\ \A b \in DOMAIN h.blocks : h.memory[b] \in [0..(h.blocks[b].n_words - 1) -> Content]

\* A cell lies in its block and has room for its guards and for what is asked.
Inside(h) ==
    \A i \in DOMAIN h.cells :
        LET c == h.cells[i] IN
        /\ c.block \in DOMAIN h.blocks
        /\ c.n_words >= 2 /\ c.words + c.n_words <= h.blocks[c.block].n_words
        /\ Words(c.requested) + 2 <= c.n_words

Guards(h) == \A i \in DOMAIN h.cells : GuardsOf(h, i)

\* Cells do not overlap.
Apart(h) ==
    \A i, k \in DOMAIN h.cells :
        i # k /\ h.cells[i].block = h.cells[k].block =>
            Last(h.cells[i]) < h.cells[k].words \/ Last(h.cells[k]) < h.cells[i].words

\* Every word is in a cell.
Covered(h) ==
    \A b \in DOMAIN h.blocks : \A w \in 0..(h.blocks[b].n_words - 1) :
        \E i \in DOMAIN h.cells :
            h.cells[i].block = b /\ h.cells[i].words <= w /\ w <= Last(h.cells[i])

\* Cells tile the blocks, each between its guards.
Tiled(h) == Shape(h) /\ Inside(h) /\ Guards(h) /\ Apart(h) /\ Covered(h)

\* The cell k follows the cell i.
Adjacent(h, i, k) ==
    h.cells[i].block = h.cells[k].block /\ h.cells[k].words = Last(h.cells[i]) + 1

\* No two cells outside of S that follow each other are both unused.
Merged(h, S) ==
    \A i, k \in DOMAIN h.cells \ S :
        Adjacent(h, i, k) => h.cells[i].requested # 0 \/ h.cells[k].requested # 0

\* What comes before, or after, the cell i is in use.
UsedBefore(h, i) == \A k \in DOMAIN h.cells : Adjacent(h, k, i) => h.cells[k].requested # 0
UsedAfter(h, i) == \A k \in DOMAIN h.cells : Adjacent(h, i, k) => h.cells[k].requested # 0

\* The pointer p is to the cell i; a pointer that is good.
To(h, p, i) ==
    /\ h.cells[i].block = p.block /\ h.cells[i].words + 1 = p.word
    /\ h.cells[i].requested = p.length
Held(h, p) ==
    /\ p \in Ptr /\ p.length # 0
    /\ \E i \in DOMAIN h.cells : To(h, p, i)

\* An allocation that g still has, with the contents it had in h.
Kept(h, g, p) ==
    Held(g, p) /\ \A w \in Extent(p) : g.memory[p.block][w] = h.memory[p.block][w]

\* No data of a client that was not there before.
NoMore(h, g) ==
    \A b \in DOMAIN g.memory : \A w \in DOMAIN g.memory[b] :
        g.memory[b][w] \in Client =>
            b \in DOMAIN h.memory /\ w \in DOMAIN h.memory[b] /\ g.memory[b][w] = h.memory[b][w]

\* Pointers to different places.
Distinct(p, q) == p.block # q.block \/ p.word # q.word

\* The place of a cell.
LEMMA CellPlace ==
    ASSUME NEW h, Tiled(h), NEW i \in DOMAIN h.cells
    PROVE  LET c == h.cells[i] IN
           /\ c.words \in Nat /\ c.n_words \in Nat
           /\ c.requested \in Nat /\ Words(c.requested) \in Nat
           /\ c.n_words >= 2
           /\ Words(c.requested) + 2 <= c.n_words
           /\ Last(c) = c.words + c.n_words - 1
           /\ c.block \in DOMAIN h.blocks
           /\ c.block \in DOMAIN h.memory /\ i \in Item
<1>1. h.cells[i] \in Cell /\ i \in Item
  BY DEF Tiled, Shape
<1>2. h.cells[i].requested \in Nat /\ h.cells[i].block \in DOMAIN h.blocks
  BY <1>1 DEF Cell, Tiled, Inside
<1>3. h.cells[i].block \in DOMAIN h.memory
  BY <1>2 DEF Tiled, Shape
<1>4. Words(h.cells[i].requested) \in Nat
  BY <1>2, WordsEnough
<1>5. h.cells[i].words \in Nat /\ h.cells[i].n_words \in Nat
  BY <1>1 DEF Cell
<1>6. h.cells[i].n_words >= 2 /\ Words(h.cells[i].requested) + 2 <= h.cells[i].n_words
  BY DEF Tiled, Inside
<1> QED
  BY <1>1, <1>2, <1>3, <1>4, <1>5, <1>6 DEF Last

\* The memory of a cell.
LEMMA CellMemory ==
    ASSUME NEW h, Tiled(h), NEW i \in DOMAIN h.cells
    PROVE  LET c == h.cells[i]
               n == h.blocks[c.block].n_words
           IN
           /\ n \in Nat /\ c.words + c.n_words <= n
           /\ c.words \in 0..(n - 1) /\ Last(c) \in 0..(n - 1)
           /\ DOMAIN h.memory[c.block] = 0..(n - 1)
           /\ h.memory[c.block][c.words] = i /\ h.memory[c.block][Last(c)] = i
<1> DEFINE c == h.cells[i]
           n == h.blocks[c.block].n_words
<1>1. c.words \in Nat /\ c.n_words \in Nat /\ c.n_words >= 2 /\ c.block \in DOMAIN h.blocks
      /\ Last(c) = c.words + c.n_words - 1
  BY CellPlace
<1>2. n \in Nat
  <2>1. h.blocks[c.block] \in Block
    BY <1>1 DEF Tiled, Shape
  <2> QED
    BY <2>1 DEF Block
<1>3. c.words + c.n_words <= n
  BY DEF Tiled, Inside
<1>4. GuardsOf(h, i)
  BY DEF Tiled, Guards
<1>5. DOMAIN h.memory[c.block] = 0..(n - 1)
  BY <1>1 DEF Tiled, Shape
<1>6. c.words \in 0..(n - 1)
  BY <1>1, <1>2, <1>3
<1>7. Last(c) \in 0..(n - 1)
  BY <1>1, <1>2, <1>3
<1> QED
  BY <1>2, <1>3, <1>4, <1>5, <1>6, <1>7 DEF GuardsOf

\* The guards of a cell are in the memory of its block.
LEMMA CellGuards ==
    ASSUME NEW h, Tiled(h), NEW k \in DOMAIN h.cells
    PROVE  /\ h.cells[k].block \in DOMAIN h.memory
           /\ h.memory[h.cells[k].block][h.cells[k].words] = k
           /\ h.memory[h.cells[k].block][Last(h.cells[k])] = k
           /\ h.cells[k].words \in DOMAIN h.memory[h.cells[k].block]
           /\ Last(h.cells[k]) \in DOMAIN h.memory[h.cells[k].block]
<1>1. h.cells[k].block \in DOMAIN h.memory
  BY CellPlace
<1> QED
  BY <1>1, CellMemory

\* The words of an allocation are strictly inside of its cell, and in no other.
LEMMA ExtentFacts ==
    ASSUME NEW h, Tiled(h), NEW p, NEW i \in DOMAIN h.cells, To(h, p, i),
           NEW w \in Extent(p)
    PROVE  /\ w \in Nat /\ h.cells[i].words < w /\ w < Last(h.cells[i])
           /\ w <= h.cells[i].words + Words(h.cells[i].requested)
           /\ p.block \in DOMAIN h.memory /\ w \in DOMAIN h.memory[p.block]
           /\ \A k \in DOMAIN h.cells : k # i /\ h.cells[k].block = p.block =>
                  w < h.cells[k].words \/ Last(h.cells[k]) < w
<1> DEFINE c == h.cells[i]
<1>1. /\ c.words \in Nat /\ c.n_words \in Nat /\ Words(c.requested) \in Nat
      /\ Words(c.requested) + 2 <= c.n_words
      /\ Last(c) = c.words + c.n_words - 1
  BY CellPlace
<1>2. p.block = c.block /\ p.word = c.words + 1 /\ p.length = c.requested
  BY DEF To
<1>3. w \in (c.words + 1)..(c.words + 1 + Words(c.requested) - 1)
  BY <1>2 DEF Extent
<1> HIDE DEF c
<1>4. w \in Int /\ c.words + 1 <= w /\ w <= c.words + Words(c.requested)
  BY <1>1, <1>3
<1>5. w \in Nat /\ c.words < w /\ w < Last(c)
  BY <1>1, <1>4
<1>6. ASSUME NEW k \in DOMAIN h.cells, k # i, h.cells[k].block = p.block
      PROVE  w < h.cells[k].words \/ Last(h.cells[k]) < w
  <2>1. Last(c) < h.cells[k].words \/ Last(h.cells[k]) < c.words
    BY <1>2, <1>6 DEF Tiled, Apart, c
  <2>2. h.cells[k].words \in Int
    BY <1>6, CellPlace
  <2>3. Last(h.cells[k]) \in Int
    BY <1>6, CellPlace
  <2> QED
    BY <1>1, <1>5, <2>1, <2>2, <2>3
<1>7. p.block \in DOMAIN h.memory
  BY <1>2, CellPlace DEF c
<1>8. w \in DOMAIN h.memory[p.block]
  <2> DEFINE n == h.blocks[c.block].n_words
  <2>1. n \in Nat /\ Last(c) \in 0..(n - 1) /\ DOMAIN h.memory[c.block] = 0..(n - 1)
    BY CellMemory DEF c
  <2> HIDE DEF n
  <2>2. Last(c) \in Int /\ Last(c) <= n - 1
    BY <2>1
  <2>3. w \in 0..(n - 1)
    BY <1>5, <2>1, <2>2
  <2> QED
    BY <1>2, <2>1, <2>3
<1> QED
  BY <1>4, <1>5, <1>6, <1>7, <1>8 DEF c

-----------------------------------------------------------------------------
(* Two neighbouring cells, the second unused, become one.                  *)

JoinedCell(h, x, y) ==
    [block |-> h.cells[x].block, words |-> h.cells[x].words,
     n_words |-> h.cells[x].n_words + h.cells[y].n_words,
     requested |-> h.cells[x].requested]

Joined(h, x, y, z) ==
    [blocks |-> h.blocks,
     cells |-> Put(Without(h.cells, {x, y}), z, JoinedCell(h, x, y)),
     memory |-> [h.memory EXCEPT ![h.cells[x].block] = Guarded(@, z, JoinedCell(h, x, y))]]

CanJoin(h, x, y, z) ==
    /\ x \in DOMAIN h.cells /\ y \in DOMAIN h.cells /\ z \in {x, y}
    /\ Adjacent(h, x, y) /\ h.cells[y].requested = 0

\* What that is, word by word.
JoinView(h, g, x, y, z) ==
    /\ x # y
    /\ g.blocks = h.blocks
    /\ DOMAIN g.cells = (DOMAIN h.cells \ {x, y}) \cup {z}
    /\ g.cells[z].block = h.cells[x].block /\ g.cells[z].words = h.cells[x].words
    /\ g.cells[z].n_words = h.cells[x].n_words + h.cells[y].n_words
    /\ g.cells[z].requested = h.cells[x].requested
    /\ Last(g.cells[z]) = Last(h.cells[y])
    /\ \A k \in DOMAIN h.cells \ {x, y} : g.cells[k] = h.cells[k]
    /\ DOMAIN g.memory = DOMAIN h.memory
    /\ \A d \in DOMAIN h.memory : d # h.cells[x].block => g.memory[d] = h.memory[d]
    /\ DOMAIN g.memory[h.cells[x].block] = DOMAIN h.memory[h.cells[x].block]
    /\ \A w \in DOMAIN h.memory[h.cells[x].block] :
          g.memory[h.cells[x].block][w] =
              IF w = h.cells[x].words \/ w = Last(h.cells[y]) THEN z
              ELSE h.memory[h.cells[x].block][w]

\* What joining two cells gives, item by item and word by word.
LEMMA JoinIs ==
    ASSUME NEW h, Tiled(h), NEW x, NEW y, NEW z, CanJoin(h, x, y, z)
    PROVE  JoinView(h, Joined(h, x, y, z), x, y, z) /\ Shape(Joined(h, x, y, z))
<1> DEFINE g == Joined(h, x, y, z)
           c == JoinedCell(h, x, y)
           b == h.cells[x].block
<1>1. x \in DOMAIN h.cells /\ y \in DOMAIN h.cells /\ z \in DOMAIN h.cells /\ z \in {x, y}
  BY DEF CanJoin
<1>2. /\ h.cells[x].words \in Nat /\ h.cells[x].n_words \in Nat /\ h.cells[x].n_words >= 2
      /\ Last(h.cells[x]) = h.cells[x].words + h.cells[x].n_words - 1
  BY <1>1, CellPlace
<1>3. /\ h.cells[y].words \in Nat /\ h.cells[y].n_words \in Nat
      /\ Last(h.cells[y]) = h.cells[y].words + h.cells[y].n_words - 1
  BY <1>1, CellPlace
<1>4. h.cells[y].block = b /\ h.cells[y].words = Last(h.cells[x]) + 1
  BY DEF CanJoin, Adjacent
<1>5. x # y
  BY <1>2, <1>3, <1>4
<1>6. /\ c.block = b /\ c.words = h.cells[x].words
      /\ c.n_words = h.cells[x].n_words + h.cells[y].n_words
      /\ c.requested = h.cells[x].requested
  BY DEF JoinedCell
<1>7. b \in DOMAIN h.memory /\ b \in BlockId /\ h.cells[x].requested \in Nat /\ x \in Item /\ y \in Item
  BY <1>1, CellPlace DEF Tiled, Shape
<1>a. c \in Cell
  <2>1. h.cells[x].n_words + h.cells[y].n_words \in Nat
    BY <1>2, <1>3
  <2> QED
    BY <1>2, <1>7, <2>1 DEF JoinedCell, Cell
<1>8. Last(c) = Last(h.cells[y])
  <2>1. Last(c) = c.words + c.n_words - 1
    BY DEF Last
  <2> HIDE DEF c
  <2> QED
    BY <1>2, <1>3, <1>4, <1>6, <2>1
<1>9. /\ g.blocks = h.blocks
      /\ g.cells = Put(Without(h.cells, {x, y}), z, c)
      /\ g.memory = [h.memory EXCEPT ![b] = Guarded(@, z, c)]
      /\ g = [blocks |-> g.blocks, cells |-> g.cells, memory |-> g.memory]
  BY DEF Joined
<1> HIDE DEF g, c
<1>10. /\ DOMAIN g.cells = (DOMAIN h.cells \ {x, y}) \cup {z}
       /\ g.cells[z] = c
       /\ \A k \in DOMAIN h.cells \ {x, y} : g.cells[k] = h.cells[k]
  BY <1>1, <1>9 DEF Put, Without
<1>11. g.cells \in [DOMAIN g.cells -> Cell] /\ DOMAIN g.cells \subseteq Item
  <2>1. DOMAIN g.cells \subseteq DOMAIN h.cells /\ DOMAIN h.cells \subseteq Item
    BY <1>1, <1>10 DEF Tiled, Shape
  <2>2. \A k \in DOMAIN g.cells : g.cells[k] \in Cell
    BY <1>a, <1>10 DEF Tiled, Shape
  <2>3. g.cells = [k \in DOMAIN g.cells |-> g.cells[k]]
    BY <1>9, SMTT(30) DEF Put
  <2> QED
    BY <2>1, <2>2, <2>3
<1>12. /\ h.memory[b] \in [0..(h.blocks[b].n_words - 1) -> Content]
       /\ h.cells[x].words \in DOMAIN h.memory[b] /\ Last(h.cells[y]) \in DOMAIN h.memory[b]
       /\ z \in Content
  <2>1. h.memory[b] \in [0..(h.blocks[b].n_words - 1) -> Content]
    BY <1>7 DEF Tiled, Shape
  <2>2. h.cells[x].words \in DOMAIN h.memory[b]
    BY <1>1, CellMemory
  <2>3. Last(h.cells[y]) \in DOMAIN h.memory[b]
    BY <1>1, <1>4, CellMemory
  <2> QED
    BY <1>1, <1>7, <2>1, <2>2, <2>3 DEF Content
<1>13. /\ DOMAIN Guarded(h.memory[b], z, c) = DOMAIN h.memory[b]
       /\ \A w \in DOMAIN h.memory[b] :
             Guarded(h.memory[b], z, c)[w] =
                 IF w = h.cells[x].words \/ w = Last(h.cells[y]) THEN z ELSE h.memory[b][w]
       /\ Guarded(h.memory[b], z, c) \in [0..(h.blocks[b].n_words - 1) -> Content]
  BY <1>6, <1>8, <1>12, Zenon DEF Guarded
<1>14. /\ DOMAIN g.memory = DOMAIN h.memory
       /\ g.memory[b] = Guarded(h.memory[b], z, c)
       /\ \A d \in DOMAIN h.memory : d # b => g.memory[d] = h.memory[d]
       /\ g.memory = [d \in DOMAIN g.memory |-> g.memory[d]]
  <2>1. h.memory = [d \in DOMAIN h.memory |-> h.memory[d]]
    BY DEF Tiled, Shape
  <2> QED
    BY <1>7, <1>9, <2>1
<1>15. JoinView(h, g, x, y, z)
  BY <1>5, <1>6, <1>8, <1>9, <1>10, <1>13, <1>14, Zenon DEF JoinView
<1>16. \A d \in DOMAIN g.blocks : g.memory[d] \in [0..(g.blocks[d].n_words - 1) -> Content]
  <2>1. DOMAIN h.memory = DOMAIN h.blocks
    BY DEF Tiled, Shape
  <2> QED
    BY <1>9, <1>13, <1>14, <2>1, SMTT(30) DEF Tiled, Shape
<1>17. Shape(g)
  <2>1. /\ DOMAIN h.blocks \subseteq BlockId /\ h.blocks \in [DOMAIN h.blocks -> Block]
        /\ DOMAIN h.memory = DOMAIN h.blocks
    BY DEF Tiled, Shape
  <2> QED
    BY <1>9, <1>11, <1>14, <1>16, <2>1, Zenon DEF Shape
<1> QED
  BY <1>15, <1>17 DEF g

\* Two cells of a block that are not the same.
LEMMA CellsApart ==
    ASSUME NEW h, Tiled(h), NEW i \in DOMAIN h.cells, NEW k \in DOMAIN h.cells, i # k,
           h.cells[i].block = h.cells[k].block
    PROVE  /\ Last(h.cells[i]) < h.cells[k].words \/ Last(h.cells[k]) < h.cells[i].words
           /\ h.cells[i].words # h.cells[k].words /\ h.cells[i].words # Last(h.cells[k])
           /\ Last(h.cells[i]) # h.cells[k].words /\ Last(h.cells[i]) # Last(h.cells[k])
<1>1. Last(h.cells[i]) < h.cells[k].words \/ Last(h.cells[k]) < h.cells[i].words
  BY DEF Tiled, Apart
<1>2. /\ h.cells[i].words \in Int /\ h.cells[i].n_words \in Int /\ h.cells[i].n_words >= 2
      /\ Last(h.cells[i]) = h.cells[i].words + h.cells[i].n_words - 1
  BY CellPlace
<1>3. /\ h.cells[k].words \in Int /\ h.cells[k].n_words \in Int /\ h.cells[k].n_words >= 2
      /\ Last(h.cells[k]) = h.cells[k].words + h.cells[k].n_words - 1
  BY CellPlace
<1> QED
  BY <1>1, <1>2, <1>3

\* Joined cells tile the block as the two did.
LEMMA JoinTiled ==
    ASSUME NEW h, Tiled(h), NEW x, NEW y, NEW z, CanJoin(h, x, y, z)
    PROVE  Tiled(Joined(h, x, y, z))
<1> DEFINE g == Joined(h, x, y, z)
           b == h.cells[x].block
<1>1. JoinView(h, g, x, y, z) /\ Shape(g)
  BY JoinIs
<1> HIDE DEF g
<1>2. /\ x \in DOMAIN h.cells /\ y \in DOMAIN h.cells /\ z \in {x, y}
      /\ h.cells[y].block = b /\ h.cells[y].words = Last(h.cells[x]) + 1
  BY DEF CanJoin, Adjacent
<1>3. /\ x # y /\ g.blocks = h.blocks
      /\ DOMAIN g.cells = (DOMAIN h.cells \ {x, y}) \cup {z}
      /\ g.cells[z].block = b /\ g.cells[z].words = h.cells[x].words
      /\ g.cells[z].n_words = h.cells[x].n_words + h.cells[y].n_words
      /\ g.cells[z].requested = h.cells[x].requested
      /\ Last(g.cells[z]) = Last(h.cells[y])
      /\ \A k \in DOMAIN h.cells \ {x, y} : g.cells[k] = h.cells[k]
  BY <1>1 DEF JoinView
<1>4. /\ h.cells[x].words \in Int /\ h.cells[x].n_words \in Int /\ h.cells[x].n_words >= 2
      /\ Last(h.cells[x]) = h.cells[x].words + h.cells[x].n_words - 1
      /\ Words(h.cells[x].requested) \in Int /\ Words(h.cells[x].requested) + 2 <= h.cells[x].n_words
      /\ b \in DOMAIN h.blocks /\ b \in DOMAIN h.memory
  BY <1>2, CellPlace
<1>5. /\ h.cells[y].words \in Int /\ h.cells[y].n_words \in Int /\ h.cells[y].n_words >= 2
      /\ Last(h.cells[y]) = h.cells[y].words + h.cells[y].n_words - 1
  BY <1>2, CellPlace
<1>6. Inside(g)
  <2>1. ASSUME NEW k \in DOMAIN g.cells, k # z
        PROVE  /\ g.cells[k].block \in DOMAIN g.blocks
               /\ g.cells[k].n_words >= 2
               /\ g.cells[k].words + g.cells[k].n_words <= g.blocks[g.cells[k].block].n_words
               /\ Words(g.cells[k].requested) + 2 <= g.cells[k].n_words
    BY <1>3, <2>1 DEF Tiled, Inside
  <2>2. h.cells[y].words + h.cells[y].n_words <= h.blocks[b].n_words
    BY <1>2 DEF Tiled, Inside
  <2>3. h.blocks[b].n_words \in Nat
    BY <1>2, CellMemory
  <2>4. /\ g.cells[z].n_words >= 2
        /\ g.cells[z].words + g.cells[z].n_words <= h.blocks[b].n_words
        /\ Words(g.cells[z].requested) + 2 <= g.cells[z].n_words
    BY <1>2, <1>3, <1>4, <1>5, <2>2, <2>3
  <2> QED
    BY <1>3, <1>4, <2>1, <2>4 DEF Inside
<1>7. Guards(g)
  <2>1. ASSUME NEW k \in DOMAIN g.cells, k # z
        PROVE  GuardsOf(g, k)
    <3>1. k \in DOMAIN h.cells /\ g.cells[k] = h.cells[k] /\ k # x /\ k # y
      BY <1>2, <1>3, <2>1
    <3> DEFINE d == h.cells[k].block
    <3>2. /\ h.memory[d][h.cells[k].words] = k /\ h.memory[d][Last(h.cells[k])] = k
          /\ h.cells[k].words \in DOMAIN h.memory[d] /\ Last(h.cells[k]) \in DOMAIN h.memory[d]
          /\ d \in DOMAIN h.memory
      BY <3>1, CellGuards, SMTT(30)
    <3>3. CASE d # b
      BY <1>1, <3>1, <3>2, <3>3, SMTT(30) DEF JoinView, GuardsOf
    <3>4. CASE d = b
      <4>1. /\ h.cells[k].words # h.cells[x].words /\ h.cells[k].words # Last(h.cells[y])
            /\ Last(h.cells[k]) # h.cells[x].words /\ Last(h.cells[k]) # Last(h.cells[y])
        BY <1>2, <3>1, <3>4, CellsApart
      <4> QED
        BY <1>1, <3>1, <3>2, <3>4, <4>1, SMTT(30) DEF JoinView, GuardsOf
    <3> QED
      BY <3>3, <3>4
  <2>2. h.cells[x].words \in DOMAIN h.memory[b] /\ Last(h.cells[y]) \in DOMAIN h.memory[b]
    BY <1>2, CellMemory, SMTT(30)
  <2>3. GuardsOf(g, z)
    BY <1>1, <1>3, <2>2, SMTT(30) DEF JoinView, GuardsOf
  <2> QED
    BY <2>1, <2>3 DEF Guards
<1>8. Apart(g)
  <2>1. ASSUME NEW k \in DOMAIN g.cells, k # z, g.cells[k].block = b
        PROVE  Last(g.cells[k]) < g.cells[z].words \/ Last(g.cells[z]) < g.cells[k].words
    <3>1. k \in DOMAIN h.cells /\ g.cells[k] = h.cells[k] /\ k # x /\ k # y /\ h.cells[k].block = b
      BY <1>2, <1>3, <2>1
    <3>2. Last(h.cells[x]) < h.cells[k].words \/ Last(h.cells[k]) < h.cells[x].words
      BY <1>2, <3>1, CellsApart
    <3>3. Last(h.cells[y]) < h.cells[k].words \/ Last(h.cells[k]) < h.cells[y].words
      BY <1>2, <3>1, CellsApart
    <3>4. /\ h.cells[k].words \in Int /\ h.cells[k].n_words \in Int /\ h.cells[k].n_words >= 2
          /\ Last(h.cells[k]) = h.cells[k].words + h.cells[k].n_words - 1
      BY <3>1, CellPlace
    <3>5. Last(h.cells[k]) < h.cells[x].words \/ Last(h.cells[y]) < h.cells[k].words
      BY <1>2, <1>4, <1>5, <3>2, <3>3, <3>4
    <3> QED
      BY <1>3, <3>1, <3>5
  <2>2. ASSUME NEW i \in DOMAIN g.cells, NEW k \in DOMAIN g.cells, i # k,
               g.cells[i].block = g.cells[k].block, i # z, k # z
        PROVE  Last(g.cells[i]) < g.cells[k].words \/ Last(g.cells[k]) < g.cells[i].words
    BY <1>3, <2>2 DEF Tiled, Apart
  <2> QED
    BY <1>3, <2>1, <2>2 DEF Apart
<1>9. Covered(g)
  <2>1. ASSUME NEW d \in DOMAIN g.blocks, NEW w \in 0..(g.blocks[d].n_words - 1)
        PROVE  \E i \in DOMAIN g.cells :
                  g.cells[i].block = d /\ g.cells[i].words <= w /\ w <= Last(g.cells[i])
    <3>1. PICK i \in DOMAIN h.cells :
              h.cells[i].block = d /\ h.cells[i].words <= w /\ w <= Last(h.cells[i])
      BY <1>3, <2>1 DEF Tiled, Covered
    <3>2. CASE i \in {x, y}
      <4>1. d = b /\ w \in Int
        BY <1>2, <3>1, <3>2
      <4>2. h.cells[x].words <= w /\ w <= Last(h.cells[y])
        BY <1>2, <1>4, <1>5, <3>1, <3>2, <4>1
      <4> QED
        BY <1>3, <4>1, <4>2
    <3>3. CASE i \notin {x, y}
      BY <1>3, <3>1, <3>3
    <3> QED
      BY <3>2, <3>3
  <2> QED
    BY <2>1 DEF Covered
<1> QED
  BY <1>1, <1>6, <1>7, <1>8, <1>9 DEF Tiled, g

\* Joining cells disturbs no allocation and shows nothing.
LEMMA JoinKeeps ==
    ASSUME NEW h, Tiled(h), NEW x, NEW y, NEW z, CanJoin(h, x, y, z)
    PROVE  /\ \A p : Held(h, p) => Kept(h, Joined(h, x, y, z), p)
           /\ NoMore(h, Joined(h, x, y, z))
<1> DEFINE g == Joined(h, x, y, z)
           b == h.cells[x].block
<1>1. JoinView(h, g, x, y, z)
  BY JoinIs
<1> HIDE DEF g
<1>2. /\ x \in DOMAIN h.cells /\ y \in DOMAIN h.cells /\ z \in {x, y}
      /\ h.cells[y].block = b /\ h.cells[y].words = Last(h.cells[x]) + 1
      /\ h.cells[y].requested = 0
  BY DEF CanJoin, Adjacent
<1>3. ASSUME NEW p, Held(h, p)
      PROVE  Kept(h, g, p)
  <2>1. PICK i \in DOMAIN h.cells : To(h, p, i)
    BY <1>3 DEF Held
  <2>2. i # y
    BY <1>2, <1>3, <2>1 DEF Held, To
  <2>3. Held(g, p)
    <3>1. CASE i = x
      BY <1>1, <1>3, <2>1, <3>1 DEF JoinView, Held, To
    <3>2. CASE i # x
      BY <1>1, <1>3, <2>1, <2>2, <3>2 DEF JoinView, Held, To
    <3> QED
      BY <3>1, <3>2
  <2>4. ASSUME NEW w \in Extent(p)
        PROVE  g.memory[p.block][w] = h.memory[p.block][w]
    <3>1. /\ w \in Nat /\ h.cells[i].words < w /\ w < Last(h.cells[i])
          /\ p.block \in DOMAIN h.memory /\ w \in DOMAIN h.memory[p.block]
          /\ \A k \in DOMAIN h.cells : k # i /\ h.cells[k].block = p.block =>
                  w < h.cells[k].words \/ Last(h.cells[k]) < w
      BY <2>1, <2>4, ExtentFacts
    <3>2. CASE p.block # b
      BY <1>1, <3>1, <3>2 DEF JoinView
    <3>3. CASE p.block = b
      <4>1. w < h.cells[y].words \/ Last(h.cells[y]) < w
        BY <1>2, <2>2, <3>1, <3>3
      <4>2. /\ h.cells[y].words \in Int /\ h.cells[y].n_words \in Int /\ h.cells[y].n_words >= 2
            /\ Last(h.cells[y]) = h.cells[y].words + h.cells[y].n_words - 1
        BY <1>2, CellPlace
      <4>3. /\ h.cells[x].words \in Int /\ h.cells[x].n_words \in Int /\ h.cells[x].n_words >= 2
            /\ Last(h.cells[x]) = h.cells[x].words + h.cells[x].n_words - 1
        BY <1>2, CellPlace
      <4>4. w # Last(h.cells[y])
        BY <3>1, <4>1, <4>2
      <4>5. w # h.cells[x].words
        <5>1. CASE i = x
          BY <3>1, <4>3, <5>1
        <5>2. CASE i # x
          <6>1. w < h.cells[x].words \/ Last(h.cells[x]) < w
            BY <1>2, <3>1, <3>3, <5>2
          <6> QED
            BY <3>1, <4>3, <6>1
        <5> QED
          BY <5>1, <5>2
      <4> QED
        BY <1>1, <3>1, <3>3, <4>4, <4>5 DEF JoinView
    <3> QED
      BY <3>2, <3>3
  <2> QED
    BY <2>3, <2>4 DEF Kept
<1>4. NoMore(h, g)
  <2>1. z \notin Client
    BY <1>2, CellPlace, ContentsAssumption
  <2>2. ASSUME NEW d \in DOMAIN g.memory, NEW w \in DOMAIN g.memory[d], g.memory[d][w] \in Client
        PROVE  d \in DOMAIN h.memory /\ w \in DOMAIN h.memory[d] /\ g.memory[d][w] = h.memory[d][w]
    BY <1>1, <2>1, <2>2 DEF JoinView
  <2> QED
    BY <2>2 DEF NoMore
<1> QED
  BY <1>3, <1>4 DEF g

-----------------------------------------------------------------------------
(* A cell becomes two, the second unused.                                  *)

FirstCell(h, x, n) ==
    [block |-> h.cells[x].block, words |-> h.cells[x].words, n_words |-> n,
     requested |-> h.cells[x].requested]
RestCell(h, x, n) ==
    [block |-> h.cells[x].block, words |-> h.cells[x].words + n,
     n_words |-> h.cells[x].n_words - n, requested |-> 0]

Parted(h, x, n, f, r) ==
    [blocks |-> h.blocks,
     cells |-> Put(Put(Without(h.cells, {x}), r, RestCell(h, x, n)), f, FirstCell(h, x, n)),
     memory |-> [h.memory EXCEPT ![h.cells[x].block] =
                    Guarded(Guarded(@, f, FirstCell(h, x, n)), r, RestCell(h, x, n))]]

CanPart(h, x, n, f, r) ==
    /\ x \in DOMAIN h.cells /\ f # r
    /\ f \in Item /\ (f \in DOMAIN h.cells => f = x)
    /\ r \in Item /\ (r \in DOMAIN h.cells => r = x)
    /\ n \in Nat /\ n + 2 <= h.cells[x].n_words
    /\ Words(h.cells[x].requested) + 2 <= n

\* What that is, word by word.
PartView(h, g, x, n, f, r) ==
    /\ g.blocks = h.blocks
    /\ DOMAIN g.cells = (DOMAIN h.cells \ {x}) \cup {f, r}
    /\ g.cells[f].block = h.cells[x].block /\ g.cells[f].words = h.cells[x].words
    /\ g.cells[f].n_words = n /\ g.cells[f].requested = h.cells[x].requested
    /\ Last(g.cells[f]) = h.cells[x].words + n - 1
    /\ g.cells[r].block = h.cells[x].block /\ g.cells[r].words = h.cells[x].words + n
    /\ g.cells[r].n_words = h.cells[x].n_words - n /\ g.cells[r].requested = 0
    /\ Last(g.cells[r]) = Last(h.cells[x])
    /\ \A k \in DOMAIN h.cells \ {x} : k # f /\ k # r /\ g.cells[k] = h.cells[k]
    /\ DOMAIN g.memory = DOMAIN h.memory
    /\ \A d \in DOMAIN h.memory : d # h.cells[x].block => g.memory[d] = h.memory[d]
    /\ DOMAIN g.memory[h.cells[x].block] = DOMAIN h.memory[h.cells[x].block]
    /\ \A w \in DOMAIN h.memory[h.cells[x].block] :
          g.memory[h.cells[x].block][w] =
              IF w = h.cells[x].words + n \/ w = Last(h.cells[x]) THEN r
              ELSE IF w = h.cells[x].words \/ w = h.cells[x].words + n - 1 THEN f
              ELSE h.memory[h.cells[x].block][w]

\* What parting a cell gives, item by item and word by word.
LEMMA PartIs ==
    ASSUME NEW h, Tiled(h), NEW x, NEW n, NEW f, NEW r, CanPart(h, x, n, f, r)
    PROVE  PartView(h, Parted(h, x, n, f, r), x, n, f, r) /\ Shape(Parted(h, x, n, f, r))
<1> DEFINE g == Parted(h, x, n, f, r)
           c == FirstCell(h, x, n)
           e == RestCell(h, x, n)
           b == h.cells[x].block
<1>1. /\ x \in DOMAIN h.cells /\ f # r /\ f \in Item /\ r \in Item
      /\ f \in DOMAIN h.cells => f = x
      /\ r \in DOMAIN h.cells => r = x
  BY DEF CanPart
<1>2. /\ h.cells[x].words \in Nat /\ h.cells[x].n_words \in Nat /\ h.cells[x].n_words >= 2
      /\ Last(h.cells[x]) = h.cells[x].words + h.cells[x].n_words - 1
      /\ Words(h.cells[x].requested) \in Nat
  BY <1>1, CellPlace
<1>3. n \in Nat /\ n + 2 <= h.cells[x].n_words /\ n >= 2
  BY <1>2 DEF CanPart
<1>4. /\ c.block = b /\ c.words = h.cells[x].words /\ c.n_words = n
      /\ c.requested = h.cells[x].requested
      /\ Last(c) = h.cells[x].words + n - 1
  BY DEF FirstCell, Last
<1>5. /\ e.block = b /\ e.words = h.cells[x].words + n
      /\ e.n_words = h.cells[x].n_words - n /\ e.requested = 0
  BY DEF RestCell
<1>6. Last(e) = Last(h.cells[x])
  <2>1. Last(e) = e.words + e.n_words - 1
    BY DEF Last
  <2> HIDE DEF e
  <2> QED
    BY <1>2, <1>3, <1>5, <2>1
<1>7. b \in DOMAIN h.memory /\ b \in BlockId /\ h.cells[x].requested \in Nat
  BY <1>1, CellPlace DEF Tiled, Shape
<1>8. c \in Cell /\ e \in Cell
  <2>1. h.cells[x].n_words - n \in Nat /\ h.cells[x].words + n \in Nat
    BY <1>2, <1>3
  <2> QED
    BY <1>2, <1>3, <1>7, <2>1 DEF FirstCell, RestCell, Cell
<1>9. /\ g.blocks = h.blocks
      /\ g.cells = Put(Put(Without(h.cells, {x}), r, e), f, c)
      /\ g.memory = [h.memory EXCEPT ![b] = Guarded(Guarded(@, f, c), r, e)]
      /\ g = [blocks |-> g.blocks, cells |-> g.cells, memory |-> g.memory]
  BY DEF Parted
<1> HIDE DEF g, c, e
<1>10. /\ DOMAIN g.cells = (DOMAIN h.cells \ {x}) \cup {f, r}
       /\ g.cells[f] = c /\ g.cells[r] = e
       /\ \A k \in DOMAIN h.cells \ {x} : k # f /\ k # r /\ g.cells[k] = h.cells[k]
  BY <1>1, <1>9 DEF Put, Without
<1>11. g.cells \in [DOMAIN g.cells -> Cell] /\ DOMAIN g.cells \subseteq Item
  <2>1. DOMAIN g.cells \subseteq Item
    BY <1>1, <1>10 DEF Tiled, Shape
  <2>2. \A k \in DOMAIN g.cells : g.cells[k] \in Cell
    BY <1>8, <1>10 DEF Tiled, Shape
  <2>3. g.cells = [k \in DOMAIN g.cells |-> g.cells[k]]
    BY <1>9 DEF Put
  <2> QED
    BY <2>1, <2>2, <2>3
<1>12. /\ h.memory[b] \in [0..(h.blocks[b].n_words - 1) -> Content]
       /\ h.cells[x].words \in DOMAIN h.memory[b] /\ Last(h.cells[x]) \in DOMAIN h.memory[b]
       /\ h.cells[x].words + n \in DOMAIN h.memory[b]
       /\ h.cells[x].words + n - 1 \in DOMAIN h.memory[b]
       /\ f \in Content /\ r \in Content
  <2> DEFINE m == h.blocks[b].n_words
  <2>1. h.memory[b] \in [0..(m - 1) -> Content]
    BY <1>7 DEF Tiled, Shape
  <2>2. /\ h.cells[x].words \in 0..(m - 1) /\ Last(h.cells[x]) \in 0..(m - 1)
        /\ DOMAIN h.memory[b] = 0..(m - 1)
    BY <1>1, CellMemory
  <2>a. m \in Nat /\ h.cells[x].words + h.cells[x].n_words <= m
    BY <1>1, CellMemory
  <2> HIDE DEF m
  <2>3. h.cells[x].words + n \in 0..(m - 1) /\ h.cells[x].words + n - 1 \in 0..(m - 1)
    BY <1>2, <1>3, <2>a
  <2> QED
    BY <1>1, <2>1, <2>2, <2>3, Zenon DEF Content, m
<1>13. /\ DOMAIN Guarded(h.memory[b], f, c) = DOMAIN h.memory[b]
       /\ \A w \in DOMAIN h.memory[b] :
             Guarded(h.memory[b], f, c)[w] =
                 IF w = h.cells[x].words \/ w = h.cells[x].words + n - 1 THEN f
                 ELSE h.memory[b][w]
       /\ Guarded(h.memory[b], f, c) \in [0..(h.blocks[b].n_words - 1) -> Content]
  BY <1>4, <1>12, Zenon DEF Guarded
<1> DEFINE m1 == Guarded(h.memory[b], f, c)
           m2 == Guarded(m1, r, e)
<1>14. /\ DOMAIN m2 = DOMAIN h.memory[b]
       /\ \A w \in DOMAIN h.memory[b] :
             m2[w] = IF w = h.cells[x].words + n \/ w = Last(h.cells[x]) THEN r ELSE m1[w]
       /\ m2 \in [0..(h.blocks[b].n_words - 1) -> Content]
  <2> HIDE DEF m1
  <2>1. DOMAIN m1 = DOMAIN h.memory[b] /\ m1 \in [0..(h.blocks[b].n_words - 1) -> Content]
    BY <1>13 DEF m1
  <2> QED
    BY <1>5, <1>6, <1>12, <2>1, ZenonT(30) DEF Guarded
<1>15. /\ DOMAIN g.memory = DOMAIN h.memory
       /\ g.memory[b] = m2
       /\ \A d \in DOMAIN h.memory : d # b => g.memory[d] = h.memory[d]
       /\ g.memory = [d \in DOMAIN g.memory |-> g.memory[d]]
  <2>1. h.memory = [d \in DOMAIN h.memory |-> h.memory[d]]
    BY DEF Tiled, Shape
  <2> QED
    BY <1>7, <1>9, <2>1
<1> HIDE DEF m1, m2
<1>16. PartView(h, g, x, n, f, r)
  <2>1. \A w \in DOMAIN h.memory[b] :
            g.memory[b][w] = IF w = h.cells[x].words + n \/ w = Last(h.cells[x]) THEN r
                             ELSE IF w = h.cells[x].words \/ w = h.cells[x].words + n - 1 THEN f
                             ELSE h.memory[b][w]
    BY <1>13, <1>14, <1>15, ZenonT(30) DEF m1
  <2>2. DOMAIN g.memory[b] = DOMAIN h.memory[b]
    BY <1>14, <1>15, Zenon
  <2> QED
    BY <1>4, <1>5, <1>6, <1>9, <1>10, <1>15, <2>1, <2>2, Zenon DEF PartView
<1>17. \A d \in DOMAIN g.blocks : g.memory[d] \in [0..(g.blocks[d].n_words - 1) -> Content]
  <2>1. DOMAIN h.memory = DOMAIN h.blocks
        /\ \A d \in DOMAIN h.blocks : h.memory[d] \in [0..(h.blocks[d].n_words - 1) -> Content]
    BY DEF Tiled, Shape
  <2>2. ASSUME NEW d \in DOMAIN g.blocks
        PROVE  g.memory[d] \in [0..(h.blocks[d].n_words - 1) -> Content]
    <3>1. CASE d = b
      BY <1>14, <1>15, <3>1, Zenon
    <3>2. CASE d # b
      BY <1>9, <1>15, <2>1, <2>2, <3>2, SMTT(30)
    <3> QED
      BY <3>1, <3>2
  <2> QED
    BY <1>9, <2>2
<1>18. Shape(g)
  <2>1. /\ DOMAIN h.blocks \subseteq BlockId /\ h.blocks \in [DOMAIN h.blocks -> Block]
        /\ DOMAIN h.memory = DOMAIN h.blocks
    BY DEF Tiled, Shape
  <2> QED
    BY <1>9, <1>11, <1>15, <1>17, <2>1 DEF Shape
<1> QED
  BY <1>16, <1>18 DEF g

\* The two cells tile the block as the one did.
LEMMA PartTiled ==
    ASSUME NEW h, Tiled(h), NEW x, NEW n, NEW f, NEW r, CanPart(h, x, n, f, r)
    PROVE  Tiled(Parted(h, x, n, f, r))
<1> DEFINE g == Parted(h, x, n, f, r)
           b == h.cells[x].block
<1>1. PartView(h, g, x, n, f, r) /\ Shape(g)
  BY PartIs
<1> HIDE DEF g
<1>2. x \in DOMAIN h.cells /\ f # r
  BY DEF CanPart
<1>3. /\ g.blocks = h.blocks
      /\ DOMAIN g.cells = (DOMAIN h.cells \ {x}) \cup {f, r}
      /\ g.cells[f].block = b /\ g.cells[f].words = h.cells[x].words
      /\ g.cells[f].n_words = n /\ g.cells[f].requested = h.cells[x].requested
      /\ Last(g.cells[f]) = h.cells[x].words + n - 1
      /\ g.cells[r].block = b /\ g.cells[r].words = h.cells[x].words + n
      /\ g.cells[r].n_words = h.cells[x].n_words - n /\ g.cells[r].requested = 0
      /\ Last(g.cells[r]) = Last(h.cells[x])
      /\ \A k \in DOMAIN h.cells \ {x} : k # f /\ k # r /\ g.cells[k] = h.cells[k]
  BY <1>1 DEF PartView
<1>4. /\ h.cells[x].words \in Nat /\ h.cells[x].n_words \in Nat
      /\ Last(h.cells[x]) = h.cells[x].words + h.cells[x].n_words - 1
      /\ Words(h.cells[x].requested) \in Nat
      /\ b \in DOMAIN h.blocks /\ b \in DOMAIN h.memory
  BY <1>2, CellPlace
<1>5. n \in Int /\ n + 2 <= h.cells[x].n_words /\ n >= 2 /\ Words(h.cells[x].requested) + 2 <= n
  BY <1>4 DEF CanPart
<1>6. Inside(g)
  <2>1. ASSUME NEW k \in DOMAIN g.cells, k # f, k # r
        PROVE  /\ g.cells[k].block \in DOMAIN g.blocks
               /\ g.cells[k].n_words >= 2
               /\ g.cells[k].words + g.cells[k].n_words <= g.blocks[g.cells[k].block].n_words
               /\ Words(g.cells[k].requested) + 2 <= g.cells[k].n_words
    BY <1>3, <2>1 DEF Tiled, Inside
  <2>2. h.cells[x].words + h.cells[x].n_words <= h.blocks[b].n_words /\ h.blocks[b].n_words \in Nat
    BY <1>2, CellMemory
  <2>3. /\ g.cells[f].n_words >= 2
        /\ g.cells[f].words + g.cells[f].n_words <= h.blocks[b].n_words
        /\ Words(g.cells[f].requested) + 2 <= g.cells[f].n_words
    BY <1>3, <1>4, <1>5, <2>2
  <2>4. Words(0) = 0
    BY WordsEnough
  <2>5. /\ g.cells[r].n_words >= 2
        /\ g.cells[r].words + g.cells[r].n_words <= h.blocks[b].n_words
        /\ Words(g.cells[r].requested) + 2 <= g.cells[r].n_words
    BY <1>3, <1>4, <1>5, <2>2, <2>4
  <2> QED
    BY <1>3, <1>4, <2>1, <2>3, <2>5 DEF Inside
<1>7. /\ h.cells[x].words \in DOMAIN h.memory[b] /\ Last(h.cells[x]) \in DOMAIN h.memory[b]
      /\ h.cells[x].words + n \in DOMAIN h.memory[b]
      /\ h.cells[x].words + n - 1 \in DOMAIN h.memory[b]
  <2> DEFINE m == h.blocks[b].n_words
  <2>2. /\ h.cells[x].words \in 0..(m - 1) /\ Last(h.cells[x]) \in 0..(m - 1)
        /\ DOMAIN h.memory[b] = 0..(m - 1)
    BY <1>2, CellMemory
  <2>a. m \in Nat /\ h.cells[x].words + h.cells[x].n_words <= m
    BY <1>2, CellMemory
  <2> HIDE DEF m
  <2>3. h.cells[x].words + n \in 0..(m - 1) /\ h.cells[x].words + n - 1 \in 0..(m - 1)
    BY <1>4, <1>5, <2>a
  <2> QED
    BY <2>2, <2>3
<1>8. Guards(g)
  <2>1. ASSUME NEW k \in DOMAIN g.cells, k # f, k # r
        PROVE  GuardsOf(g, k)
    <3>1. k \in DOMAIN h.cells /\ g.cells[k] = h.cells[k] /\ k # x
      BY <1>3, <2>1
    <3> DEFINE d == h.cells[k].block
    <3>2. /\ h.memory[d][h.cells[k].words] = k /\ h.memory[d][Last(h.cells[k])] = k
          /\ h.cells[k].words \in DOMAIN h.memory[d] /\ Last(h.cells[k]) \in DOMAIN h.memory[d]
          /\ d \in DOMAIN h.memory
      BY <3>1, CellGuards, SMTT(30)
    <3>3. CASE d # b
      BY <1>1, <3>1, <3>2, <3>3, SMTT(30) DEF PartView, GuardsOf
    <3>4. CASE d = b
      <4>1. Last(h.cells[k]) < h.cells[x].words \/ Last(h.cells[x]) < h.cells[k].words
        BY <1>2, <3>1, <3>4, CellsApart
      <4>2. /\ h.cells[k].words \in Int /\ h.cells[k].n_words \in Int /\ h.cells[k].n_words >= 2
            /\ Last(h.cells[k]) = h.cells[k].words + h.cells[k].n_words - 1
        BY <3>1, CellPlace
      <4>3. ASSUME NEW w \in {h.cells[k].words, Last(h.cells[k])}
            PROVE  /\ w # h.cells[x].words /\ w # h.cells[x].words + n - 1
                   /\ w # h.cells[x].words + n /\ w # Last(h.cells[x])
        BY <1>4, <1>5, <4>1, <4>2, <4>3, SMTT(30)
      <4> QED
        BY <1>1, <3>1, <3>2, <3>4, <4>3 DEF PartView, GuardsOf
    <3> QED
      BY <3>3, <3>4
  <2>2. h.cells[x].words # h.cells[x].words + n /\ h.cells[x].words # Last(h.cells[x])
        /\ h.cells[x].words + n - 1 # h.cells[x].words + n
        /\ h.cells[x].words + n - 1 # Last(h.cells[x])
    BY <1>4, <1>5
  <2>3. GuardsOf(g, f)
    BY <1>1, <1>3, <1>7, <2>2, SMTT(30) DEF PartView, GuardsOf
  <2>4. GuardsOf(g, r)
    BY <1>1, <1>3, <1>7 DEF PartView, GuardsOf
  <2> QED
    BY <2>1, <2>3, <2>4 DEF Guards
<1>9. Apart(g)
  <2>1. ASSUME NEW k \in DOMAIN g.cells, k # f, k # r, g.cells[k].block = b
        PROVE  /\ Last(g.cells[k]) < g.cells[f].words \/ Last(g.cells[f]) < g.cells[k].words
               /\ Last(g.cells[k]) < g.cells[r].words \/ Last(g.cells[r]) < g.cells[k].words
    <3>1. k \in DOMAIN h.cells /\ g.cells[k] = h.cells[k] /\ k # x /\ h.cells[k].block = b
      BY <1>3, <2>1
    <3>2. Last(h.cells[x]) < h.cells[k].words \/ Last(h.cells[k]) < h.cells[x].words
      BY <1>2, <3>1, CellsApart
    <3>3. /\ h.cells[k].words \in Int /\ h.cells[k].n_words \in Int
          /\ Last(h.cells[k]) = h.cells[k].words + h.cells[k].n_words - 1
      BY <3>1, CellPlace
    <3>4. /\ Last(h.cells[k]) < h.cells[x].words \/ h.cells[x].words + n - 1 < h.cells[k].words
          /\ Last(h.cells[k]) < h.cells[x].words + n \/ Last(h.cells[x]) < h.cells[k].words
      BY <1>4, <1>5, <3>2, <3>3
    <3> QED
      BY <1>3, <3>1, <3>4
  <2>2. ASSUME NEW i \in DOMAIN g.cells, NEW k \in DOMAIN g.cells, i # k,
               g.cells[i].block = g.cells[k].block, i \notin {f, r}, k \notin {f, r}
        PROVE  Last(g.cells[i]) < g.cells[k].words \/ Last(g.cells[k]) < g.cells[i].words
    BY <1>3, <2>2 DEF Tiled, Apart
  <2>3. Last(g.cells[f]) < g.cells[r].words
    BY <1>3, <1>4, <1>5
  <2> QED
    BY <1>3, <2>1, <2>2, <2>3 DEF Apart
<1>10. Covered(g)
  <2>1. ASSUME NEW d \in DOMAIN g.blocks, NEW w \in 0..(g.blocks[d].n_words - 1)
        PROVE  \E i \in DOMAIN g.cells :
                  g.cells[i].block = d /\ g.cells[i].words <= w /\ w <= Last(g.cells[i])
    <3>1. PICK i \in DOMAIN h.cells :
              h.cells[i].block = d /\ h.cells[i].words <= w /\ w <= Last(h.cells[i])
      BY <1>3, <2>1 DEF Tiled, Covered
    <3>2. CASE i = x
      <4>1. d = b /\ w \in Int
        BY <3>1, <3>2
      <4>2. \/ h.cells[x].words <= w /\ w <= h.cells[x].words + n - 1
            \/ h.cells[x].words + n <= w /\ w <= Last(h.cells[x])
        BY <1>4, <1>5, <3>1, <3>2, <4>1
      <4> QED
        BY <1>3, <4>1, <4>2
    <3>3. CASE i # x
      BY <1>3, <3>1, <3>3
    <3> QED
      BY <3>2, <3>3
  <2> QED
    BY <2>1 DEF Covered
<1> QED
  BY <1>1, <1>6, <1>8, <1>9, <1>10 DEF Tiled, g

\* Parting a cell disturbs no allocation and shows nothing.
LEMMA PartKeeps ==
    ASSUME NEW h, Tiled(h), NEW x, NEW n, NEW f, NEW r, CanPart(h, x, n, f, r)
    PROVE  /\ \A p : Held(h, p) => Kept(h, Parted(h, x, n, f, r), p)
           /\ NoMore(h, Parted(h, x, n, f, r))
<1> DEFINE g == Parted(h, x, n, f, r)
           b == h.cells[x].block
<1>1. PartView(h, g, x, n, f, r)
  BY PartIs
<1> HIDE DEF g
<1>2. x \in DOMAIN h.cells /\ f # r /\ f \in Item /\ r \in Item
  BY DEF CanPart
<1>3. /\ h.cells[x].words \in Int /\ h.cells[x].n_words \in Int
      /\ Last(h.cells[x]) = h.cells[x].words + h.cells[x].n_words - 1
      /\ Words(h.cells[x].requested) \in Nat
  BY <1>2, CellPlace
<1>4. n \in Int /\ n + 2 <= h.cells[x].n_words /\ Words(h.cells[x].requested) + 2 <= n
  BY DEF CanPart
<1>5. ASSUME NEW p, Held(h, p)
      PROVE  Kept(h, g, p)
  <2>1. PICK i \in DOMAIN h.cells : To(h, p, i)
    BY <1>5 DEF Held
  <2>2. Held(g, p)
    <3>1. CASE i = x
      BY <1>1, <1>5, <2>1, <3>1 DEF PartView, Held, To
    <3>2. CASE i # x
      BY <1>1, <1>5, <2>1, <3>2 DEF PartView, Held, To
    <3> QED
      BY <3>1, <3>2
  <2>3. ASSUME NEW w \in Extent(p)
        PROVE  g.memory[p.block][w] = h.memory[p.block][w]
    <3>1. /\ w \in Nat /\ h.cells[i].words < w /\ w < Last(h.cells[i])
          /\ w <= h.cells[i].words + Words(h.cells[i].requested)
          /\ p.block \in DOMAIN h.memory /\ w \in DOMAIN h.memory[p.block]
          /\ \A k \in DOMAIN h.cells : k # i /\ h.cells[k].block = p.block =>
                  w < h.cells[k].words \/ Last(h.cells[k]) < w
      BY <2>1, <2>3, ExtentFacts
    <3>2. CASE p.block # b
      BY <1>1, <3>1, <3>2 DEF PartView
    <3>3. CASE p.block = b
      <4>1. /\ w # h.cells[x].words /\ w # h.cells[x].words + n - 1
            /\ w # h.cells[x].words + n /\ w # Last(h.cells[x])
        <5>1. CASE i = x
          BY <1>3, <1>4, <3>1, <5>1
        <5>2. CASE i # x
          <6>1. w < h.cells[x].words \/ Last(h.cells[x]) < w
            BY <1>2, <3>1, <3>3, <5>2
          <6> QED
            BY <1>3, <1>4, <3>1, <6>1
        <5> QED
          BY <5>1, <5>2
      <4> QED
        BY <1>1, <3>1, <3>3, <4>1 DEF PartView
    <3> QED
      BY <3>2, <3>3
  <2> QED
    BY <2>2, <2>3 DEF Kept
<1>6. NoMore(h, g)
  <2>1. f \notin Client /\ r \notin Client
    BY <1>2, ContentsAssumption
  <2>2. ASSUME NEW d \in DOMAIN g.memory, NEW w \in DOMAIN g.memory[d], g.memory[d][w] \in Client
        PROVE  d \in DOMAIN h.memory /\ w \in DOMAIN h.memory[d] /\ g.memory[d][w] = h.memory[d][w]
    BY <1>1, <2>1, <2>2 DEF PartView
  <2> QED
    BY <2>2 DEF NoMore
<1> QED
  BY <1>5, <1>6 DEF g

-----------------------------------------------------------------------------
(* A cell is asked for q bytes instead, the memory of its block becomes m,  *)
(* and the block's count u: allocating, freeing, resizing and writing, once *)
(* the cell is there.                                                       *)

Dressed(h, i, q, m, u) ==
    [blocks |-> [h.blocks EXCEPT ![h.cells[i].block] = [@ EXCEPT !.n_used = u]],
     cells |-> [h.cells EXCEPT ![i] = [@ EXCEPT !.requested = q]],
     memory |-> [h.memory EXCEPT ![h.cells[i].block] = m]]

\* The cell has room, and only what is between its guards is written.
CanDress(h, i, q, m, u) ==
    /\ i \in DOMAIN h.cells
    /\ q \in Nat /\ Words(q) + 2 <= h.cells[i].n_words
    /\ u \in Nat
    /\ m \in [DOMAIN h.memory[h.cells[i].block] -> Content]
    /\ \A w \in DOMAIN h.memory[h.cells[i].block] :
          w <= h.cells[i].words \/ Last(h.cells[i]) <= w => m[w] = h.memory[h.cells[i].block][w]

DressView(h, g, i, q, m, u) ==
    /\ DOMAIN g.blocks = DOMAIN h.blocks
    /\ \A d \in DOMAIN h.blocks : g.blocks[d].n_words = h.blocks[d].n_words
    /\ \A d \in DOMAIN h.blocks : d # h.cells[i].block => g.blocks[d] = h.blocks[d]
    /\ g.blocks[h.cells[i].block].n_used = u
    /\ DOMAIN g.cells = DOMAIN h.cells
    /\ g.cells[i].block = h.cells[i].block /\ g.cells[i].words = h.cells[i].words
    /\ g.cells[i].n_words = h.cells[i].n_words /\ g.cells[i].requested = q
    /\ Last(g.cells[i]) = Last(h.cells[i])
    /\ \A k \in DOMAIN h.cells : k # i => g.cells[k] = h.cells[k]
    /\ DOMAIN g.memory = DOMAIN h.memory
    /\ \A d \in DOMAIN h.memory : d # h.cells[i].block => g.memory[d] = h.memory[d]
    /\ g.memory[h.cells[i].block] = m

\* What asking a cell for another length gives, with its words and the count.
LEMMA DressIs ==
    ASSUME NEW h, Tiled(h), NEW i, NEW q, NEW m, NEW u, CanDress(h, i, q, m, u)
    PROVE  DressView(h, Dressed(h, i, q, m, u), i, q, m, u) /\ Shape(Dressed(h, i, q, m, u))
<1> DEFINE g == Dressed(h, i, q, m, u)
           b == h.cells[i].block
           c == [h.cells[i] EXCEPT !.requested = q]
           k == [h.blocks[b] EXCEPT !.n_used = u]
<1>1. i \in DOMAIN h.cells /\ q \in Nat /\ u \in Nat /\ m \in [DOMAIN h.memory[b] -> Content]
  BY DEF CanDress
<1>2. h.cells[i] \in Cell /\ b \in DOMAIN h.blocks /\ b \in DOMAIN h.memory
  BY <1>1, CellPlace DEF Tiled, Shape
<1>3. h.blocks[b] \in Block
  BY <1>2 DEF Tiled, Shape
<1>4. /\ c \in Cell /\ c.block = b /\ c.words = h.cells[i].words
      /\ c.n_words = h.cells[i].n_words /\ c.requested = q
  BY <1>1, <1>2 DEF Cell
<1>5. k \in Block /\ k.n_words = h.blocks[b].n_words /\ k.n_used = u
  BY <1>1, <1>3 DEF Block
<1>6. /\ g.blocks = [h.blocks EXCEPT ![b] = k]
      /\ g.cells = [h.cells EXCEPT ![i] = c]
      /\ g.memory = [h.memory EXCEPT ![b] = m]
      /\ g = [blocks |-> g.blocks, cells |-> g.cells, memory |-> g.memory]
  BY DEF Dressed
<1> HIDE DEF g, c, k
<1>7. Last(c) = Last(h.cells[i])
  BY <1>4 DEF Last
<1>8. /\ h.blocks \in [DOMAIN h.blocks -> Block] /\ DOMAIN h.blocks \subseteq BlockId
      /\ h.cells \in [DOMAIN h.cells -> Cell] /\ DOMAIN h.cells \subseteq Item
      /\ h.memory = [d \in DOMAIN h.memory |-> h.memory[d]]
      /\ DOMAIN h.memory = DOMAIN h.blocks
  BY DEF Tiled, Shape
<1>9. /\ DOMAIN g.blocks = DOMAIN h.blocks /\ g.blocks[b] = k
      /\ \A d \in DOMAIN h.blocks : d # b => g.blocks[d] = h.blocks[d]
      /\ g.blocks \in [DOMAIN h.blocks -> Block]
  BY <1>2, <1>5, <1>6, <1>8
<1>10. /\ DOMAIN g.cells = DOMAIN h.cells /\ g.cells[i] = c
       /\ \A j \in DOMAIN h.cells : j # i => g.cells[j] = h.cells[j]
       /\ g.cells \in [DOMAIN h.cells -> Cell]
  BY <1>1, <1>4, <1>6, <1>8
<1>11. /\ DOMAIN g.memory = DOMAIN h.memory /\ g.memory[b] = m
       /\ \A d \in DOMAIN h.memory : d # b => g.memory[d] = h.memory[d]
       /\ g.memory = [d \in DOMAIN g.memory |-> g.memory[d]]
  BY <1>2, <1>6, <1>8
<1>12. \A d \in DOMAIN h.blocks : g.blocks[d].n_words = h.blocks[d].n_words
  BY <1>5, <1>9
<1>13. DressView(h, g, i, q, m, u)
  BY <1>4, <1>5, <1>7, <1>9, <1>10, <1>11, <1>12 DEF DressView
<1>14. ASSUME NEW d \in DOMAIN g.blocks
       PROVE  g.memory[d] \in [0..(g.blocks[d].n_words - 1) -> Content]
  <2>1. h.memory[d] \in [0..(h.blocks[d].n_words - 1) -> Content] /\ d \in DOMAIN h.memory
    BY <1>9, <1>14 DEF Tiled, Shape
  <2>2. CASE d # b
    BY <1>9, <1>11, <1>12, <1>14, <2>1, <2>2, SMTT(30)
  <2>3. CASE d = b
    BY <1>1, <1>9, <1>11, <1>12, <1>14, <2>1, <2>3
  <2> QED
    BY <2>2, <2>3
<1>15. Shape(g)
  BY <1>6, <1>8, <1>9, <1>10, <1>11, <1>14 DEF Shape
<1> QED
  BY <1>13, <1>15 DEF g

\* The cells are where they were.
LEMMA DressTiled ==
    ASSUME NEW h, Tiled(h), NEW i, NEW q, NEW m, NEW u, CanDress(h, i, q, m, u)
    PROVE  Tiled(Dressed(h, i, q, m, u))
<1> DEFINE g == Dressed(h, i, q, m, u)
           b == h.cells[i].block
<1>1. DressView(h, g, i, q, m, u) /\ Shape(g)
  BY DressIs
<1> HIDE DEF g
<1>2. /\ i \in DOMAIN h.cells /\ Words(q) + 2 <= h.cells[i].n_words
      /\ \A w \in DOMAIN h.memory[b] :
            w <= h.cells[i].words \/ Last(h.cells[i]) <= w => m[w] = h.memory[b][w]
  BY DEF CanDress
<1>3. /\ DOMAIN g.cells = DOMAIN h.cells
      /\ \A k \in DOMAIN h.cells : /\ g.cells[k].block = h.cells[k].block
                                   /\ g.cells[k].words = h.cells[k].words
                                   /\ g.cells[k].n_words = h.cells[k].n_words
                                   /\ Last(g.cells[k]) = Last(h.cells[k])
                                   /\ k # i => g.cells[k] = h.cells[k]
      /\ g.cells[i].requested = q
      /\ DOMAIN g.blocks = DOMAIN h.blocks
      /\ \A d \in DOMAIN h.blocks : g.blocks[d].n_words = h.blocks[d].n_words
  BY <1>1 DEF DressView
<1>4. Inside(g)
  <2>1. ASSUME NEW k \in DOMAIN g.cells
        PROVE  /\ g.cells[k].block \in DOMAIN g.blocks
               /\ g.cells[k].n_words >= 2
               /\ g.cells[k].words + g.cells[k].n_words <= g.blocks[g.cells[k].block].n_words
               /\ Words(g.cells[k].requested) + 2 <= g.cells[k].n_words
    <3>1. /\ h.cells[k].block \in DOMAIN h.blocks /\ h.cells[k].n_words >= 2
          /\ h.cells[k].words + h.cells[k].n_words <= h.blocks[h.cells[k].block].n_words
          /\ Words(h.cells[k].requested) + 2 <= h.cells[k].n_words
      BY <1>3, <2>1 DEF Tiled, Inside
    <3> QED
      BY <1>2, <1>3, <2>1, <3>1
  <2> QED
    BY <2>1 DEF Inside
<1>5. Guards(g)
  <2>1. ASSUME NEW k \in DOMAIN h.cells
        PROVE  GuardsOf(g, k)
    <3> DEFINE d == h.cells[k].block
    <3>1. /\ h.memory[d][h.cells[k].words] = k /\ h.memory[d][Last(h.cells[k])] = k
          /\ h.cells[k].words \in DOMAIN h.memory[d] /\ Last(h.cells[k]) \in DOMAIN h.memory[d]
      BY CellMemory
    <3>2. d \in DOMAIN h.memory
      BY CellPlace
    <3>3. CASE d # b
      BY <1>1, <1>3, <3>1, <3>2, <3>3 DEF DressView, GuardsOf
    <3>4. CASE d = b
      <4>1. /\ h.cells[k].words \in Int /\ h.cells[k].n_words \in Int /\ h.cells[k].n_words >= 2
            /\ Last(h.cells[k]) = h.cells[k].words + h.cells[k].n_words - 1
        BY CellPlace
      <4>2. /\ h.cells[i].words \in Int /\ h.cells[i].n_words \in Int /\ h.cells[i].n_words >= 2
            /\ Last(h.cells[i]) = h.cells[i].words + h.cells[i].n_words - 1
        BY <1>2, CellPlace
      <4>3. k = i \/ Last(h.cells[i]) < h.cells[k].words \/ Last(h.cells[k]) < h.cells[i].words
        BY <1>2, <3>4, CellsApart
      <4>4. /\ h.cells[k].words <= h.cells[i].words \/ Last(h.cells[i]) <= h.cells[k].words
            /\ Last(h.cells[k]) <= h.cells[i].words \/ Last(h.cells[i]) <= Last(h.cells[k])
        BY <4>1, <4>2, <4>3
      <4>5. m[h.cells[k].words] = k /\ m[Last(h.cells[k])] = k
        BY <1>2, <3>1, <3>4, <4>4
      <4> QED
        BY <1>1, <1>3, <3>4, <4>5 DEF DressView, GuardsOf
    <3> QED
      BY <3>3, <3>4
  <2> QED
    BY <1>3, <2>1 DEF Guards
<1>6. Apart(g)
  BY <1>3 DEF Tiled, Apart
<1>7. Covered(g)
  <2>1. ASSUME NEW d \in DOMAIN g.blocks, NEW w \in 0..(g.blocks[d].n_words - 1)
        PROVE  \E k \in DOMAIN g.cells :
                  g.cells[k].block = d /\ g.cells[k].words <= w /\ w <= Last(g.cells[k])
    <3>1. PICK k \in DOMAIN h.cells :
              h.cells[k].block = d /\ h.cells[k].words <= w /\ w <= Last(h.cells[k])
      BY <1>3, <2>1 DEF Tiled, Covered
    <3> QED
      BY <1>3, <3>1
  <2> QED
    BY <2>1 DEF Covered
<1> QED
  BY <1>1, <1>4, <1>5, <1>6, <1>7 DEF Tiled, g

\* Other allocations are not disturbed, and the cell is now that of a pointer
\* with the new length.
LEMMA DressKeeps ==
    ASSUME NEW h, Tiled(h), NEW i, NEW q, NEW m, NEW u, CanDress(h, i, q, m, u)
    PROVE  /\ \A p : Held(h, p) /\ ~(p.block = h.cells[i].block /\ p.word = h.cells[i].words + 1)
                       => Kept(h, Dressed(h, i, q, m, u), p)
           /\ \A p \in Ptr : /\ p.block = h.cells[i].block /\ p.word = h.cells[i].words + 1
                             /\ p.length = q /\ q # 0
                       => Held(Dressed(h, i, q, m, u), p)
<1> DEFINE g == Dressed(h, i, q, m, u)
           b == h.cells[i].block
<1>1. DressView(h, g, i, q, m, u)
  BY DressIs
<1> HIDE DEF g
<1>2. /\ i \in DOMAIN h.cells
      /\ \A w \in DOMAIN h.memory[b] :
            w <= h.cells[i].words \/ Last(h.cells[i]) <= w => m[w] = h.memory[b][w]
  BY DEF CanDress
<1>3. ASSUME NEW p, Held(h, p), ~(p.block = b /\ p.word = h.cells[i].words + 1)
      PROVE  Kept(h, g, p)
  <2>1. PICK k \in DOMAIN h.cells : To(h, p, k)
    BY <1>3 DEF Held
  <2>2. k # i
    BY <1>3, <2>1 DEF To
  <2>3. Held(g, p)
    BY <1>1, <1>3, <2>1, <2>2 DEF DressView, Held, To
  <2>4. ASSUME NEW w \in Extent(p)
        PROVE  g.memory[p.block][w] = h.memory[p.block][w]
    <3>1. /\ p.block \in DOMAIN h.memory /\ w \in DOMAIN h.memory[p.block] /\ w \in Int
          /\ \A j \in DOMAIN h.cells : j # k /\ h.cells[j].block = p.block =>
                  w < h.cells[j].words \/ Last(h.cells[j]) < w
      BY <2>1, <2>4, ExtentFacts
    <3>2. CASE p.block # b
      BY <1>1, <3>1, <3>2 DEF DressView
    <3>3. CASE p.block = b
      <4>1. w < h.cells[i].words \/ Last(h.cells[i]) < w
        BY <1>2, <2>2, <3>1, <3>3
      <4>2. /\ h.cells[i].words \in Int /\ h.cells[i].n_words \in Int
            /\ Last(h.cells[i]) = h.cells[i].words + h.cells[i].n_words - 1
        BY <1>2, CellPlace
      <4>3. w <= h.cells[i].words \/ Last(h.cells[i]) <= w
        BY <3>1, <4>1, <4>2
      <4> QED
        BY <1>1, <1>2, <3>1, <3>3, <4>3 DEF DressView
    <3> QED
      BY <3>2, <3>3
  <2> QED
    BY <2>3, <2>4 DEF Kept
<1>4. ASSUME NEW p \in Ptr, p.block = b, p.word = h.cells[i].words + 1, p.length = q, q # 0
      PROVE  Held(g, p)
  BY <1>1, <1>2, <1>4 DEF DressView, Held, To
<1> QED
  BY <1>3, <1>4 DEF g

-----------------------------------------------------------------------------
(* A block is made, and dropped.                                           *)

\* sec_acquire_pages gives room for two guards at least.
LEMMA PagesEnough ==
    ASSUME NEW length \in Nat \ {0}
    PROVE  PagesFor(length) \in Nat /\ PagesFor(length) >= 2
<1> DEFINE page == PageWords * WordSize
           q == (length + page - 1) \div page
<1>1. PageWords \in Nat /\ PageWords >= 2 /\ WordSize \in Nat /\ WordSize >= 1
  BY LengthAssumption
<1>2. page \in Nat \ {0}
  <2>1. PICK e \in Nat : WordSize = 1 + e
    <3>1. WordSize - 1 \in Nat /\ WordSize = 1 + (WordSize - 1)
      BY <1>1
    <3> QED
      BY <3>1
  <2>2. PageWords * WordSize = PageWords + PageWords * e /\ PageWords * e \in Nat
    BY <1>1, <2>1
  <2> QED
    BY <1>1, <2>2
<1>3. PagesFor(length) = PageWords * q
  BY DEF PagesFor
<1> HIDE DEF page
<1>4. length + page - 1 \in Nat
  BY <1>2
<1>5. q \in Nat /\ length + page - 1 < page * q + page
  BY <1>2, <1>4, Division
<1> HIDE DEF q
<1>6. q # 0
  <2> SUFFICES ASSUME q = 0
               PROVE  FALSE
    OBVIOUS
  <2>1. page * q = 0
    BY <1>2
  <2> QED
    BY <1>2, <1>5, <2>1
<1>7. PICK e \in Nat : q = 1 + e
  <2>1. q - 1 \in Nat /\ q = 1 + (q - 1)
    BY <1>5, <1>6
  <2> QED
    BY <2>1
<1>8. PageWords * q = PageWords + PageWords * e /\ PageWords * e \in Nat
  BY <1>1, <1>7
<1> QED
  BY <1>1, <1>3, <1>8

CreateView(h, g, b, i, n) ==
    /\ n \in Nat /\ n >= 2 /\ i \in Item \ DOMAIN h.cells
    /\ DOMAIN g.blocks = DOMAIN h.blocks \cup {b}
    /\ g.blocks[b].n_words = n /\ g.blocks[b].n_used = 0
    /\ \A d \in DOMAIN h.blocks : g.blocks[d] = h.blocks[d]
    /\ DOMAIN g.cells = DOMAIN h.cells \cup {i}
    /\ g.cells[i].block = b /\ g.cells[i].words = 0 /\ g.cells[i].n_words = n
    /\ g.cells[i].requested = 0 /\ Last(g.cells[i]) = n - 1
    /\ \A k \in DOMAIN h.cells : g.cells[k] = h.cells[k]
    /\ DOMAIN g.memory = DOMAIN h.memory \cup {b}
    /\ \A d \in DOMAIN h.memory : g.memory[d] = h.memory[d]
    /\ DOMAIN g.memory[b] = 0..(n - 1)
    /\ \A w \in 0..(n - 1) : g.memory[b][w] = IF w = 0 \/ w = n - 1 THEN i ELSE Zero

CanCreate(h, b, length) ==
    b \in BlockId /\ b \notin DOMAIN h.blocks /\ FreeItems(h) # {} /\ length \in Nat \ {0}

\* What sec_block_create gives.
LEMMA CreateIs ==
    ASSUME NEW h, Tiled(h), NEW b, NEW length, CanCreate(h, b, length)
    PROVE  /\ CreateView(h, Create(h, b, length), b, NewItem(h), PagesFor(length))
           /\ Shape(Create(h, b, length))
<1> DEFINE g == Create(h, b, length)
           n == PagesFor(length)
           i == NewItem(h)
           c == [block |-> b, words |-> 0, n_words |-> n, requested |-> 0]
           k == [n_words |-> n, n_used |-> 0]
           z == [w \in 0..(n - 1) |-> Zero]
<1>1. n \in Nat /\ n >= 2 /\ b \in BlockId /\ b \notin DOMAIN h.blocks
  BY PagesEnough DEF CanCreate
<1>2. i \in Item \ DOMAIN h.cells
  BY DEF CanCreate, NewItem, FreeItems
<1>3. /\ g.blocks = Put(h.blocks, b, k)
      /\ g.cells = Put(h.cells, i, c)
      /\ g.memory = Put(h.memory, b, Guarded(z, i, c))
      /\ g = [blocks |-> g.blocks, cells |-> g.cells, memory |-> g.memory]
  BY DEF Create
<1> HIDE DEF n, i
<1>4. c \in Cell /\ c.block = b /\ c.words = 0 /\ c.n_words = n /\ c.requested = 0
  BY <1>1 DEF Cell
<1>5. Last(c) = n - 1
  BY <1>1 DEF Last
<1>6. k \in Block /\ k.n_words = n /\ k.n_used = 0
  BY <1>1 DEF Block
<1> HIDE DEF g, c, k
<1>7. /\ h.blocks \in [DOMAIN h.blocks -> Block] /\ DOMAIN h.blocks \subseteq BlockId
      /\ h.cells \in [DOMAIN h.cells -> Cell] /\ DOMAIN h.cells \subseteq Item
      /\ h.memory = [d \in DOMAIN h.memory |-> h.memory[d]]
      /\ DOMAIN h.memory = DOMAIN h.blocks
  BY DEF Tiled, Shape
<1>8. /\ DOMAIN g.blocks = DOMAIN h.blocks \cup {b} /\ g.blocks[b] = k
      /\ \A d \in DOMAIN h.blocks : g.blocks[d] = h.blocks[d]
      /\ g.blocks \in [DOMAIN g.blocks -> Block]
  BY <1>1, <1>3, <1>6, <1>7 DEF Put
<1>9. /\ DOMAIN g.cells = DOMAIN h.cells \cup {i} /\ g.cells[i] = c
      /\ \A j \in DOMAIN h.cells : g.cells[j] = h.cells[j]
      /\ g.cells \in [DOMAIN g.cells -> Cell]
  BY <1>2, <1>3, <1>4, <1>7 DEF Put
<1>10. /\ DOMAIN g.memory = DOMAIN h.memory \cup {b} /\ g.memory[b] = Guarded(z, i, c)
       /\ \A d \in DOMAIN h.memory : g.memory[d] = h.memory[d]
       /\ g.memory = [d \in DOMAIN g.memory |-> g.memory[d]]
  <2> HIDE DEF z
  <2> QED
    BY <1>1, <1>3, <1>7 DEF Put
<1>11. 0 \in 0..(n - 1) /\ n - 1 \in 0..(n - 1) /\ i \in Content /\ Zero \in Content
  BY <1>1, <1>2 DEF Content
<1>12. /\ DOMAIN Guarded(z, i, c) = 0..(n - 1)
       /\ \A w \in 0..(n - 1) : Guarded(z, i, c)[w] = IF w = 0 \/ w = n - 1 THEN i ELSE Zero
       /\ Guarded(z, i, c) \in [0..(n - 1) -> Content]
  BY <1>4, <1>5, <1>11 DEF Guarded
<1>13. CreateView(h, g, b, i, n)
  BY <1>1, <1>2, <1>4, <1>5, <1>6, <1>8, <1>9, <1>10, <1>12, ZenonT(30) DEF CreateView
<1>14. ASSUME NEW d \in DOMAIN g.blocks
       PROVE  g.memory[d] \in [0..(g.blocks[d].n_words - 1) -> Content]
  <2>1. CASE d = b
    BY <1>6, <1>8, <1>10, <1>12, <2>1
  <2>2. CASE d # b
    <3>1. d \in DOMAIN h.blocks /\ d \in DOMAIN h.memory
      BY <1>7, <1>8, <1>14, <2>2
    <3>2. h.memory[d] \in [0..(h.blocks[d].n_words - 1) -> Content]
      BY <3>1 DEF Tiled, Shape
    <3> QED
      BY <1>8, <1>10, <3>1, <3>2
  <2> QED
    BY <2>1, <2>2
<1>15. DOMAIN g.blocks \subseteq BlockId /\ DOMAIN g.cells \subseteq Item
       /\ DOMAIN g.memory = DOMAIN g.blocks
  BY <1>1, <1>2, <1>7, <1>8, <1>9, <1>10
<1>16. Shape(g)
  BY <1>3, <1>8, <1>9, <1>10, <1>14, <1>15 DEF Shape
<1> QED
  BY <1>13, <1>16 DEF g, i, n

\* The new block is tiled by its one cell, and the others are as they were.
LEMMA CreateTiled ==
    ASSUME NEW h, Tiled(h), NEW b, NEW length, CanCreate(h, b, length)
    PROVE  /\ Tiled(Create(h, b, length))
           /\ \A p : Held(h, p) => Kept(h, Create(h, b, length), p) /\ p.block # b
           /\ NoMore(h, Create(h, b, length))
<1> DEFINE g == Create(h, b, length)
           n == PagesFor(length)
           i == NewItem(h)
<1>1. CreateView(h, g, b, i, n) /\ Shape(g)
  BY CreateIs
<1>2. b \notin DOMAIN h.blocks /\ b \notin DOMAIN h.memory
  BY DEF CanCreate, Tiled, Shape
<1> HIDE DEF g, n, i
<1>3. /\ n \in Nat /\ n >= 2 /\ i \in Item \ DOMAIN h.cells
      /\ DOMAIN g.blocks = DOMAIN h.blocks \cup {b}
      /\ g.blocks[b].n_words = n
      /\ \A d \in DOMAIN h.blocks : g.blocks[d] = h.blocks[d]
      /\ DOMAIN g.cells = DOMAIN h.cells \cup {i}
      /\ g.cells[i].block = b /\ g.cells[i].words = 0 /\ g.cells[i].n_words = n
      /\ g.cells[i].requested = 0 /\ Last(g.cells[i]) = n - 1
      /\ \A k \in DOMAIN h.cells : g.cells[k] = h.cells[k]
  BY <1>1 DEF CreateView
<1>4. \A k \in DOMAIN h.cells : h.cells[k].block # b /\ h.cells[k].block \in DOMAIN h.blocks
  BY <1>2, CellPlace
<1>5. Inside(g)
  <2>1. Words(0) = 0
    BY WordsEnough
  <2>2. ASSUME NEW k \in DOMAIN h.cells
        PROVE  /\ g.cells[k].block \in DOMAIN g.blocks
               /\ g.cells[k].n_words >= 2
               /\ g.cells[k].words + g.cells[k].n_words <= g.blocks[g.cells[k].block].n_words
               /\ Words(g.cells[k].requested) + 2 <= g.cells[k].n_words
    BY <1>3, <1>4, <2>2 DEF Tiled, Inside
  <2>3. /\ g.cells[i].n_words >= 2
        /\ g.cells[i].words + g.cells[i].n_words <= g.blocks[b].n_words
        /\ Words(g.cells[i].requested) + 2 <= g.cells[i].n_words
    BY <1>3, <2>1
  <2> QED
    BY <1>3, <2>2, <2>3 DEF Inside
<1>6. Guards(g)
  <2>1. ASSUME NEW k \in DOMAIN h.cells
        PROVE  GuardsOf(g, k)
    <3>1. h.cells[k].block \in DOMAIN h.memory /\ GuardsOf(h, k)
      BY CellPlace DEF Tiled, Guards
    <3> QED
      BY <1>1, <3>1 DEF CreateView, GuardsOf
  <2>2. 0 \in 0..(n - 1) /\ n - 1 \in 0..(n - 1)
    BY <1>3
  <2>3. GuardsOf(g, i)
    BY <1>1, <1>3, <2>2 DEF CreateView, GuardsOf
  <2> QED
    BY <1>3, <2>1, <2>3 DEF Guards
<1>7. Apart(g)
  BY <1>3, <1>4 DEF Tiled, Apart
<1>8. Covered(g)
  <2>1. ASSUME NEW d \in DOMAIN g.blocks, NEW w \in 0..(g.blocks[d].n_words - 1)
        PROVE  \E k \in DOMAIN g.cells :
                  g.cells[k].block = d /\ g.cells[k].words <= w /\ w <= Last(g.cells[k])
    <3>1. CASE d = b
      <4>1. 0 <= w /\ w <= n - 1
        BY <1>3, <2>1, <3>1
      <4> QED
        BY <1>3, <3>1, <4>1
    <3>2. CASE d # b
      <4>1. d \in DOMAIN h.blocks /\ g.blocks[d] = h.blocks[d]
        BY <1>3, <2>1, <3>2
      <4>2. PICK k \in DOMAIN h.cells :
                h.cells[k].block = d /\ h.cells[k].words <= w /\ w <= Last(h.cells[k])
        BY <2>1, <4>1 DEF Tiled, Covered
      <4> QED
        BY <1>3, <4>2
    <3> QED
      BY <3>1, <3>2
  <2> QED
    BY <2>1 DEF Covered
<1>9. ASSUME NEW p, Held(h, p)
      PROVE  Kept(h, g, p) /\ p.block # b
  <2>1. PICK k \in DOMAIN h.cells : To(h, p, k)
    BY <1>9 DEF Held
  <2>2. p.block = h.cells[k].block /\ p.block \in DOMAIN h.memory
    BY <2>1, CellPlace DEF To
  <2>3. Held(g, p)
    BY <1>3, <1>9, <2>1 DEF Held, To
  <2> QED
    BY <1>1, <1>2, <2>2, <2>3 DEF Kept, CreateView
<1>10. NoMore(h, g)
  <2>1. i \notin Client /\ Zero \notin Client
    BY <1>3, ContentsAssumption
  <2> QED
    BY <1>1, <2>1 DEF NoMore, CreateView
<1> QED
  BY <1>1, <1>5, <1>6, <1>7, <1>8, <1>9, <1>10 DEF Tiled, g

\* A block is dropped.
Dropped(h, b) ==
    [blocks |-> Without(h.blocks, {b}),
     cells |-> Without(h.cells, {i \in DOMAIN h.cells : h.cells[i].block = b}),
     memory |-> Without(h.memory, {b})]

\* sec_block_destroy takes the cells of the block and nothing else.
LEMMA DropTiled ==
    ASSUME NEW h, Tiled(h), NEW b
    PROVE  /\ Tiled(Dropped(h, b))
           /\ \A p : Held(h, p) /\ p.block # b => Kept(h, Dropped(h, b), p)
           /\ NoMore(h, Dropped(h, b))
           /\ DOMAIN Dropped(h, b).blocks = DOMAIN h.blocks \ {b}
           /\ \A d \in DOMAIN h.blocks \ {b} : Dropped(h, b).blocks[d] = h.blocks[d]
           /\ Merged(h, {}) => Merged(Dropped(h, b), {})
<1> DEFINE g == Dropped(h, b)
           S == {i \in DOMAIN h.cells : h.cells[i].block = b}
<1>1. /\ g.blocks = Without(h.blocks, {b}) /\ g.cells = Without(h.cells, S)
      /\ g.memory = Without(h.memory, {b})
      /\ g = [blocks |-> g.blocks, cells |-> g.cells, memory |-> g.memory]
  BY DEF Dropped
<1> HIDE DEF g
<1>2. /\ h.blocks \in [DOMAIN h.blocks -> Block] /\ DOMAIN h.blocks \subseteq BlockId
      /\ h.cells \in [DOMAIN h.cells -> Cell] /\ DOMAIN h.cells \subseteq Item
      /\ DOMAIN h.memory = DOMAIN h.blocks
  BY DEF Tiled, Shape
<1>3. /\ DOMAIN g.blocks = DOMAIN h.blocks \ {b}
      /\ \A d \in DOMAIN h.blocks \ {b} : g.blocks[d] = h.blocks[d]
      /\ g.blocks \in [DOMAIN g.blocks -> Block]
  BY <1>1, <1>2 DEF Without
<1>4. /\ DOMAIN g.cells = {i \in DOMAIN h.cells : h.cells[i].block # b}
      /\ \A i \in DOMAIN g.cells : g.cells[i] = h.cells[i]
      /\ g.cells \in [DOMAIN g.cells -> Cell]
  BY <1>1, <1>2 DEF Without
<1>5. /\ DOMAIN g.memory = DOMAIN h.memory \ {b}
      /\ \A d \in DOMAIN h.memory \ {b} : g.memory[d] = h.memory[d]
      /\ g.memory = [d \in DOMAIN g.memory |-> g.memory[d]]
  BY <1>1, <1>2 DEF Without
<1>6. Shape(g)
  <2>1. \A d \in DOMAIN g.blocks : g.memory[d] \in [0..(g.blocks[d].n_words - 1) -> Content]
    BY <1>2, <1>3, <1>5 DEF Tiled, Shape
  <2>2. /\ DOMAIN g.blocks \subseteq BlockId /\ DOMAIN g.cells \subseteq Item
        /\ DOMAIN g.memory = DOMAIN g.blocks
    BY <1>2, <1>3, <1>4, <1>5
  <2> QED
    BY <1>1, <1>3, <1>4, <1>5, <2>1, <2>2 DEF Shape
<1>7. Inside(g)
  BY <1>3, <1>4 DEF Tiled, Inside
<1>8. Guards(g)
  <2>1. ASSUME NEW i \in DOMAIN g.cells
        PROVE  GuardsOf(g, i)
    <3>1. i \in DOMAIN h.cells /\ h.cells[i].block # b
      BY <1>4, <2>1
    <3>2. h.cells[i].block \in DOMAIN h.memory /\ GuardsOf(h, i)
      BY <3>1, CellPlace DEF Tiled, Guards
    <3> QED
      BY <1>4, <1>5, <2>1, <3>1, <3>2 DEF GuardsOf
  <2> QED
    BY <2>1 DEF Guards
<1>9. Apart(g)
  BY <1>4 DEF Tiled, Apart
<1>10. Covered(g)
  BY <1>3, <1>4 DEF Tiled, Covered
<1>11. ASSUME NEW p, Held(h, p), p.block # b
       PROVE  Kept(h, g, p)
  <2>1. PICK i \in DOMAIN h.cells : To(h, p, i)
    BY <1>11 DEF Held
  <2>2. i \in DOMAIN g.cells /\ p.block \in DOMAIN h.memory
    BY <1>4, <1>11, <2>1, CellPlace DEF To
  <2> QED
    BY <1>4, <1>5, <1>11, <2>1, <2>2 DEF Held, To, Kept
<1>12. NoMore(h, g)
  BY <1>5 DEF NoMore
<1>13. Merged(h, {}) => Merged(g, {})
  BY <1>4 DEF Merged, Adjacent
<1> QED
  BY <1>3, <1>6, <1>7, <1>8, <1>9, <1>10, <1>11, <1>12, <1>13 DEF Tiled, g

-----------------------------------------------------------------------------
(* sec_neighbor_before and sec_neighbor_after find the neighbours.         *)

\* A neighbour that is found is the adjacent cell, and an adjacent cell is found.
LEMMA Neighbours ==
    ASSUME NEW h, Tiled(h), NEW i \in DOMAIN h.cells
    PROVE  LET m == h.memory[h.cells[i].block] IN
           /\ Before(m, h.cells[i]) = {k \in DOMAIN h.cells : Adjacent(h, k, i)}
           /\ After(m, h.cells[i]) = {k \in DOMAIN h.cells : Adjacent(h, i, k)}
<1> DEFINE c == h.cells[i]
           b == c.block
           m == h.memory[b]
           n == h.blocks[b].n_words
<1>1. /\ c.words \in Nat /\ c.n_words \in Nat /\ c.n_words >= 2 /\ b \in DOMAIN h.blocks
      /\ Last(c) = c.words + c.n_words - 1
  BY CellPlace
<1>2. n \in Nat /\ DOMAIN m = 0..(n - 1)
  BY CellMemory
<1>3. ASSUME NEW k \in DOMAIN h.cells, h.cells[k].block = b
      PROVE  /\ h.cells[k].words \in Int /\ h.cells[k].n_words \in Int /\ h.cells[k].n_words >= 2
             /\ Last(h.cells[k]) = h.cells[k].words + h.cells[k].n_words - 1
             /\ k # i => Last(h.cells[k]) < c.words \/ Last(c) < h.cells[k].words
  BY <1>3, CellPlace, CellsApart
<1>4. ASSUME NEW k \in DOMAIN h.cells, h.cells[k].block = b
      PROVE  /\ m[h.cells[k].words] = k /\ m[Last(h.cells[k])] = k
             /\ h.cells[k].words \in DOMAIN m /\ Last(h.cells[k]) \in DOMAIN m
  BY <1>4, CellMemory, SMTT(30)
<1>5. ASSUME NEW w \in DOMAIN m
      PROVE  \E k \in DOMAIN h.cells :
                h.cells[k].block = b /\ h.cells[k].words <= w /\ w <= Last(h.cells[k])
  BY <1>1, <1>2, <1>5 DEF Tiled, Covered
<1> HIDE DEF c, m, n
<1>6. ASSUME NEW w \in DOMAIN m, w = c.words - 1
      PROVE  \E k \in DOMAIN h.cells : m[w] = k /\ h.cells[k].block = b /\ c.words = Last(h.cells[k]) + 1
  <2>1. PICK k \in DOMAIN h.cells :
            h.cells[k].block = b /\ h.cells[k].words <= w /\ w <= Last(h.cells[k])
    BY <1>5
  <2>2. k # i
    BY <1>1, <1>6, <2>1 DEF c
  <2>3. Last(h.cells[k]) = w /\ Last(h.cells[k]) \in Int
    BY <1>1, <1>3, <1>6, <2>1, <2>2
  <2>4. m[w] = k
    BY <1>4, <2>1, <2>3
  <2>5. c.words = Last(h.cells[k]) + 1
    BY <1>1, <1>6, <2>3
  <2> QED
    BY <2>1, <2>4, <2>5
<1>7. ASSUME NEW w \in DOMAIN m, w = Last(c) + 1
      PROVE  \E k \in DOMAIN h.cells : m[w] = k /\ h.cells[k].block = b /\ h.cells[k].words = w
  <2>1. PICK k \in DOMAIN h.cells :
            h.cells[k].block = b /\ h.cells[k].words <= w /\ w <= Last(h.cells[k])
    BY <1>5
  <2>2. k # i
    BY <1>1, <1>7, <2>1 DEF c
  <2>3. h.cells[k].words = w
    BY <1>1, <1>3, <1>7, <2>1, <2>2
  <2> QED
    BY <1>4, <2>1, <2>3
<1>8. Before(m, c) = {k \in DOMAIN h.cells : Adjacent(h, k, i)}
  <2>1. ASSUME NEW k \in Before(m, c)
        PROVE  k \in DOMAIN h.cells /\ Adjacent(h, k, i)
    <3>1. PICK w \in {c.words - 1} \cap DOMAIN m : k = m[w]
      BY <2>1 DEF Before
    <3> QED
      BY <1>6, <3>1 DEF Adjacent, c
  <2>2. ASSUME NEW k \in DOMAIN h.cells, Adjacent(h, k, i)
        PROVE  k \in Before(m, c)
    <3>1. h.cells[k].block = b /\ c.words = Last(h.cells[k]) + 1
      BY <2>2 DEF Adjacent, c
    <3>2. c.words - 1 = Last(h.cells[k])
      BY <1>3, <3>1
    <3> QED
      BY <1>4, <3>1, <3>2 DEF Before
  <2> QED
    BY <2>1, <2>2
<1>9. After(m, c) = {k \in DOMAIN h.cells : Adjacent(h, i, k)}
  <2>1. ASSUME NEW k \in After(m, c)
        PROVE  k \in DOMAIN h.cells /\ Adjacent(h, i, k)
    <3>1. PICK w \in {Last(c) + 1} \cap DOMAIN m : k = m[w]
      BY <2>1 DEF After
    <3> QED
      BY <1>7, <3>1 DEF Adjacent, c
  <2>2. ASSUME NEW k \in DOMAIN h.cells, Adjacent(h, i, k)
        PROVE  k \in After(m, c)
    <3>1. h.cells[k].block = b /\ h.cells[k].words = Last(c) + 1
      BY <2>2 DEF Adjacent, c
    <3> QED
      BY <1>4, <3>1 DEF After
  <2> QED
    BY <2>1, <2>2
<1> QED
  BY <1>8, <1>9 DEF c, m

\* Of two cells that follow each other neither is the other, and a cell has one
\* neighbour on either side.
LEMMA AdjacentFacts ==
    ASSUME NEW h, Tiled(h), NEW i \in DOMAIN h.cells, NEW k \in DOMAIN h.cells, Adjacent(h, i, k)
    PROVE  i # k
<1>1. h.cells[i].words \in Int /\ h.cells[i].n_words \in Int /\ h.cells[i].n_words >= 2
      /\ Last(h.cells[i]) = h.cells[i].words + h.cells[i].n_words - 1
  BY CellPlace
<1>2. h.cells[k].words = Last(h.cells[i]) + 1
  BY DEF Adjacent
<1> QED
  BY <1>1, <1>2

\* What is kept, and what is not added, in two steps.
LEMMA KeptTwice ==
    ASSUME NEW h, NEW g, NEW f
    PROVE  /\ \A p : Kept(h, g, p) /\ Kept(g, f, p) => Kept(h, f, p)
           /\ NoMore(h, g) /\ NoMore(g, f) => NoMore(h, f)
<1>1. ASSUME NEW p, Kept(h, g, p), Kept(g, f, p)
      PROVE  Kept(h, f, p)
  BY <1>1 DEF Kept
<1>2. ASSUME NoMore(h, g), NoMore(g, f)
      PROVE  NoMore(h, f)
  BY <1>2 DEF NoMore
<1> QED
  BY <1>1, <1>2

\* Where nothing changes nothing is lost.
LEMMA KeptSame ==
    ASSUME NEW h
    PROVE  /\ \A p : Held(h, p) => Kept(h, h, p)
           /\ NoMore(h, h)
BY DEF Kept, NoMore

\* The guard before an allocation tells its cell.
LEMMA CellAtIs ==
    ASSUME NEW h, Tiled(h), NEW p, NEW i \in DOMAIN h.cells, To(h, p, i)
    PROVE  CellAt(h, p) = i
<1>1. h.cells[i].words \in Nat /\ p.block = h.cells[i].block /\ p.word = h.cells[i].words + 1
  BY CellPlace DEF To
<1>2. p.word - 1 = h.cells[i].words
  BY <1>1
<1>3. h.memory[h.cells[i].block][h.cells[i].words] = i
  BY CellMemory
<1> QED
  BY <1>1, <1>2, <1>3 DEF CellAt

-----------------------------------------------------------------------------
(* Unused cells in one piece.                                              *)

\* Next to an unused cell that is beside the only exception, all is used.
LEMMA BesideUnused ==
    ASSUME NEW h, Tiled(h), NEW x \in DOMAIN h.cells, NEW y \in DOMAIN h.cells,
           Merged(h, {x}), h.cells[y].requested = 0
    PROVE  /\ Adjacent(h, x, y) => UsedAfter(h, y)
           /\ Adjacent(h, y, x) => UsedBefore(h, y)
<1>1. \A k \in DOMAIN h.cells : /\ h.cells[k].words \in Int /\ h.cells[k].n_words \in Int
                                /\ h.cells[k].n_words >= 2
                                /\ Last(h.cells[k]) = h.cells[k].words + h.cells[k].n_words - 1
  BY CellPlace
<1>2. ASSUME NEW i \in DOMAIN h.cells, NEW k \in DOMAIN h.cells, Adjacent(h, i, k)
      PROVE  h.cells[i].words < h.cells[k].words
  BY <1>1, <1>2 DEF Adjacent
<1>3. ASSUME Adjacent(h, x, y), NEW k \in DOMAIN h.cells, Adjacent(h, y, k)
      PROVE  h.cells[k].requested # 0
  <2>1. h.cells[x].words < h.cells[y].words /\ h.cells[y].words < h.cells[k].words
    BY <1>2, <1>3
  <2>2. y # x /\ k # x
    BY <1>1, <2>1
  <2> QED
    BY <1>3, <2>2 DEF Merged
<1>4. ASSUME Adjacent(h, y, x), NEW k \in DOMAIN h.cells, Adjacent(h, k, y)
      PROVE  h.cells[k].requested # 0
  <2>1. h.cells[k].words < h.cells[y].words /\ h.cells[y].words < h.cells[x].words
    BY <1>2, <1>4
  <2>2. y # x /\ k # x
    BY <1>1, <2>1
  <2> QED
    BY <1>4, <2>2 DEF Merged
<1> QED
  BY <1>3, <1>4 DEF UsedBefore, UsedAfter

\* An exception between used cells is none.
LEMMA BetweenUsed ==
    ASSUME NEW h, NEW x, Merged(h, {x}), UsedBefore(h, x), UsedAfter(h, x)
    PROVE  Merged(h, {})
<1>1. ASSUME NEW i \in DOMAIN h.cells, NEW k \in DOMAIN h.cells, Adjacent(h, i, k)
      PROVE  h.cells[i].requested # 0 \/ h.cells[k].requested # 0
  <2>1. CASE i = x
    BY <1>1, <2>1 DEF UsedAfter
  <2>2. CASE k = x
    BY <1>1, <2>2 DEF UsedBefore
  <2>3. CASE i # x /\ k # x
    BY <1>1, <2>3 DEF Merged
  <2> QED
    BY <2>1, <2>2, <2>3
<1> QED
  BY <1>1 DEF Merged

\* Joined cells are beside what they were beside.
LEMMA JoinMerged ==
    ASSUME NEW h, Tiled(h), NEW x, NEW y, NEW z, CanJoin(h, x, y, z)
    PROVE  LET g == Joined(h, x, y, z) IN
           /\ Merged(h, {x, y}) => Merged(g, {z})
           /\ UsedBefore(h, x) => UsedBefore(g, z)
           /\ UsedAfter(h, y) => UsedAfter(g, z)
<1> DEFINE g == Joined(h, x, y, z)
<1>1. JoinView(h, g, x, y, z)
  BY JoinIs
<1>2. z \in {x, y}
  BY DEF CanJoin
<1> HIDE DEF g
<1>3. /\ DOMAIN g.cells = (DOMAIN h.cells \ {x, y}) \cup {z}
      /\ g.cells[z].block = h.cells[x].block /\ g.cells[z].words = h.cells[x].words
      /\ Last(g.cells[z]) = Last(h.cells[y])
      /\ \A k \in DOMAIN h.cells \ {x, y} : g.cells[k] = h.cells[k]
      /\ h.cells[y].block = h.cells[x].block
  BY <1>1 DEF JoinView, CanJoin, Adjacent
<1>4. ~Adjacent(g, z, z)
  <2>1. Tiled(g) /\ z \in DOMAIN g.cells
    BY <1>3, JoinTiled DEF g
  <2> QED
    BY <2>1, AdjacentFacts
<1>5. ASSUME NEW k \in DOMAIN g.cells, k # z
      PROVE  /\ k \in DOMAIN h.cells \ {x, y} /\ g.cells[k] = h.cells[k]
             /\ Adjacent(g, k, z) => Adjacent(h, k, x)
             /\ Adjacent(g, z, k) => Adjacent(h, y, k)
  BY <1>3, <1>5 DEF Adjacent
<1>6. ASSUME Merged(h, {x, y})
      PROVE  Merged(g, {z})
  BY <1>5, <1>6 DEF Merged, Adjacent
<1>7. ASSUME UsedBefore(h, x)
      PROVE  UsedBefore(g, z)
  BY <1>4, <1>5, <1>7 DEF UsedBefore
<1>8. ASSUME UsedAfter(h, y)
      PROVE  UsedAfter(g, z)
  BY <1>4, <1>5, <1>8, SMTT(30) DEF UsedAfter
<1> QED
  BY <1>6, <1>7, <1>8 DEF g

-----------------------------------------------------------------------------
(* sec_free.                                                               *)

\* memset between the guards of a cell, word by word.
FillView(h, i, f, from, n, v) ==
    LET m == h.memory[h.cells[i].block] IN
    /\ f \in [DOMAIN m -> Content]
    /\ \A w \in DOMAIN m : w \in Int
    /\ \A w \in DOMAIN m : f[w] = IF from <= w /\ w < from + n THEN v ELSE m[w]
    /\ \A w \in DOMAIN m : w <= h.cells[i].words \/ Last(h.cells[i]) <= w => f[w] = m[w]

\* memset of words between the guards of a cell leaves all the others.
LEMMA FillIs ==
    ASSUME NEW h, Tiled(h), NEW i \in DOMAIN h.cells, NEW from \in Nat, NEW n \in Int,
           h.cells[i].words < from, from + n <= Last(h.cells[i]), NEW v \in Content
    PROVE  FillView(h, i, Fill(h.memory[h.cells[i].block], from, n, v), from, n, v)
<1> DEFINE m == h.memory[h.cells[i].block]
           f == Fill(m, from, n, v)
<1>1. h.cells[i].words \in Nat /\ h.cells[i].n_words \in Nat /\ h.cells[i].block \in DOMAIN h.blocks
      /\ Last(h.cells[i]) = h.cells[i].words + h.cells[i].n_words - 1
  BY CellPlace
<1>2. m \in [DOMAIN m -> Content]
  BY <1>1 DEF Tiled, Shape
<1>3. ASSUME NEW w \in DOMAIN m
      PROVE  w \in Int
  BY <1>3, CellMemory
<1>4. f = [w \in DOMAIN m |-> IF w \in from..(from + n - 1) THEN v ELSE m[w]]
  BY DEF Fill
<1> HIDE DEF m, f
<1>5. f \in [DOMAIN m -> Content]
  BY <1>2, <1>4
<1>6. ASSUME NEW w \in DOMAIN m
      PROVE  f[w] = IF from <= w /\ w < from + n THEN v ELSE m[w]
  <2>1. w \in Int
    BY <1>3
  <2>2. w \in from..(from + n - 1) <=> from <= w /\ w < from + n
    BY <2>1
  <2>3. f[w] = IF w \in from..(from + n - 1) THEN v ELSE m[w]
    BY <1>4
  <2> QED
    BY <2>2, <2>3
<1>7. ASSUME NEW w \in DOMAIN m, w <= h.cells[i].words \/ Last(h.cells[i]) <= w
      PROVE  f[w] = m[w]
  <2>1. w \in Int
    BY <1>3
  <2>2. ~(from <= w /\ w < from + n)
    BY <1>1, <1>7, <2>1
  <2> QED
    BY <1>6, <2>2
<1> QED
  BY <1>3, <1>5, <1>6, <1>7 DEF m, f, FillView

\* The allocation p in the cell i cleared and given back, nothing merged yet.
Released(h, p, i) ==
    Dressed(h, i, 0, Fill(h.memory[p.block], p.word, Words(p.length), Zero),
            h.blocks[p.block].n_used - 1)

\* sec_free's first part: the words are cleared and the cell is unused.
LEMMA ReleaseIs ==
    ASSUME NEW h, Tiled(h), NEW p, NEW i \in DOMAIN h.cells, To(h, p, i),
           h.blocks[p.block].n_used > 0
    PROVE  LET m == Fill(h.memory[p.block], p.word, Words(p.length), Zero) IN
           /\ Tiled(Released(h, p, i))
           /\ DressView(h, Released(h, p, i), i, 0, m, h.blocks[p.block].n_used - 1)
           /\ \A q : Held(h, q) /\ Distinct(p, q) => Kept(h, Released(h, p, i), q)
           /\ NoMore(h, Released(h, p, i))
           /\ \A w \in Extent(p) : Released(h, p, i).memory[p.block][w] = Zero
<1> DEFINE c == h.cells[i]
           b == p.block
           n == Words(p.length)
           m == Fill(h.memory[b], p.word, n, Zero)
           u == h.blocks[b].n_used - 1
           g == Released(h, p, i)
<1>1. /\ c.words \in Nat /\ c.n_words \in Nat /\ Words(c.requested) \in Nat /\ c.n_words >= 2
      /\ Words(c.requested) + 2 <= c.n_words /\ Last(c) = c.words + c.n_words - 1
      /\ c.block \in DOMAIN h.blocks
  BY CellPlace
<1>2. b = c.block /\ p.word = c.words + 1 /\ p.length = c.requested
  BY DEF To
<1>3. u \in Nat
  <2>1. h.blocks[b] \in Block
    BY <1>1, <1>2 DEF Tiled, Shape
  <2>2. h.blocks[b].n_used \in Nat
    BY <2>1 DEF Block
  <2> QED
    BY <2>2
<1>4. Zero \in Content /\ Zero \notin Client
  BY ContentsAssumption DEF Content
<1>5. /\ n \in Nat /\ p.word \in Nat /\ c.words < p.word /\ p.word + n <= Last(c)
      /\ Words(0) = 0 /\ Words(0) + 2 <= c.n_words
  <2>1. Words(0) = 0
    BY WordsEnough, SMTT(30)
  <2> HIDE DEF c
  <2> QED
    BY <1>1, <1>2, <2>1
<1>6. /\ m \in [DOMAIN h.memory[b] -> Content]
      /\ \A w \in DOMAIN h.memory[b] : w \in Int
      /\ \A w \in DOMAIN h.memory[b] :
            m[w] = IF p.word <= w /\ w < p.word + n THEN Zero ELSE h.memory[b][w]
      /\ \A w \in DOMAIN h.memory[b] : w <= c.words \/ Last(c) <= w => m[w] = h.memory[b][w]
  <2> HIDE DEF n
  <2>1. n \in Int
    BY <1>5
  <2>2. FillView(h, i, Fill(h.memory[h.cells[i].block], p.word, n, Zero), p.word, n, Zero)
    BY <1>4, <1>5, <2>1, FillIs
  <2>3. FillView(h, i, m, p.word, n, Zero)
    BY <1>2, <2>2, SMTT(30)
  <2> HIDE DEF m
  <2> QED
    BY <1>2, <2>3 DEF FillView
<1> HIDE DEF m, n, u
<1>7. CanDress(h, i, 0, m, u)
  BY <1>2, <1>3, <1>5, <1>6 DEF CanDress
<1>8. g = Dressed(h, i, 0, m, u)
  BY DEF Released, m, u, n
<1>9. Tiled(g) /\ DressView(h, g, i, 0, m, u)
  BY <1>7, <1>8, DressTiled, DressIs
<1>10. ASSUME NEW q, Held(h, q), Distinct(p, q)
       PROVE  Kept(h, g, q)
  BY <1>2, <1>7, <1>8, <1>10, DressKeeps DEF Distinct
<1> HIDE DEF g
<1>11. NoMore(h, g)
  <2>1. ASSUME NEW d \in DOMAIN g.memory, NEW w \in DOMAIN g.memory[d], g.memory[d][w] \in Client
        PROVE  d \in DOMAIN h.memory /\ w \in DOMAIN h.memory[d] /\ g.memory[d][w] = h.memory[d][w]
    <3>1. d \in DOMAIN h.memory
      BY <1>9, <2>1 DEF DressView
    <3>2. CASE d = b
      <4>1. g.memory[d] = m
        BY <1>2, <1>9, <3>2 DEF DressView
      <4>2. w \in DOMAIN h.memory[b]
        BY <1>6, <2>1, <4>1
      <4> QED
        BY <1>4, <1>6, <2>1, <3>1, <3>2, <4>1, <4>2
    <3>3. CASE d # b
      BY <1>2, <1>9, <2>1, <3>1, <3>3 DEF DressView
    <3> QED
      BY <3>2, <3>3
  <2> QED
    BY <2>1 DEF NoMore
<1>12. ASSUME NEW w \in Extent(p)
       PROVE  g.memory[b][w] = Zero
  <2>1. w \in DOMAIN h.memory[b]
    BY ExtentFacts
  <2>2. w \in p.word..(p.word + n - 1)
    BY DEF Extent, n
  <2>3. p.word <= w /\ w < p.word + n
    BY <1>5, <2>2
  <2>4. g.memory[b] = m
    BY <1>2, <1>9 DEF DressView
  <2> QED
    BY <1>6, <2>1, <2>3, <2>4
<1> QED
  BY <1>9, <1>10, <1>11, <1>12 DEF g, m, n, u

\* The unused cell i merged with an unused one before it, if there is one; and
\* that, j, with an unused one after it.
JoinedBefore(h, g, i, j) ==
    \/ j = i /\ g = h /\ UsedBefore(h, i)
    \/ CanJoin(h, j, i, j) /\ h.cells[j].requested = 0 /\ g = Joined(h, j, i, j)
JoinedAfter(h, g, j, l) ==
    \/ g = h /\ UsedAfter(h, j)
    \/ CanJoin(h, j, l, l) /\ g = Joined(h, j, l, l)

\* A record with another request and another length, either way it is written.
LEMMA CellExcept ==
    ASSUME NEW o \in Cell, NEW a, NEW n
    PROVE  [o EXCEPT !.words = a, !.n_words = @ + n]
             = [block |-> o.block, words |-> a, n_words |-> o.n_words + n, requested |-> o.requested]
<1> DEFINE f == [o EXCEPT !.words = a]
           r == [f EXCEPT !.n_words = f.n_words + n]
<1>1. /\ f = [block |-> o.block, words |-> a, n_words |-> o.n_words, requested |-> o.requested]
      /\ f.n_words = o.n_words
  BY DEF Cell
<1> HIDE DEF f
<1>2. r = [block |-> o.block, words |-> a, n_words |-> o.n_words + n, requested |-> o.requested]
  BY <1>1
<1> QED
  BY <1>2 DEF f

\* sec_free gives the allocation back, and merges on both sides.
LEMMA FreeIs ==
    ASSUME NEW h, Tiled(h), NEW p, NEW x \in DOMAIN h.cells, To(h, p, x),
           h.blocks[p.block].n_used > 0
    PROVE  \E h2, j, l : /\ JoinedBefore(Released(h, p, x), h2, x, j)
                         /\ JoinedAfter(h2, SecFree(h, p), j, l)
<1> DEFINE b == p.block
           i == CellAt(h, p)
           c == h.cells[i]
           m1 == Fill(h.memory[b], p.word, Words(c.requested), Zero)
           before == {k \in Before(m1, c) : h.cells[k].requested = 0}
           j == IF before = {} THEN i ELSE CHOOSE k \in before : TRUE
           d == IF before = {} THEN c ELSE [h.cells[j] EXCEPT !.n_words = @ + c.n_words]
           m2 == IF before = {} THEN m1 ELSE Guarded(m1, j, d)
           after == {k \in After(m2, d) : h.cells[k].requested = 0}
           l == IF after = {} THEN j ELSE CHOOSE k \in after : TRUE
           e == IF after = {} THEN d
                ELSE [h.cells[l] EXCEPT !.words = d.words, !.n_words = @ + d.n_words]
           m3 == IF after = {} THEN m2 ELSE Guarded(m2, l, e)
           bs == [h.blocks EXCEPT ![b].n_used = @ - 1]
           cs == Put(Without(h.cells, {i, j}), l, [e EXCEPT !.requested = 0])
           ms == [h.memory EXCEPT ![b] = m3]
           h1 == Released(h, p, x)
           h2 == IF before = {} THEN h1 ELSE Joined(h1, j, i, j)
<1>1. SecFree(h, p) = [blocks |-> bs, cells |-> cs, memory |-> ms]
  BY DEF SecFree
<1>2. i = x
  BY CellAtIs
<1>3. i \in DOMAIN h.cells /\ c.block = b /\ c.words + 1 = p.word /\ c.requested = p.length
      /\ c \in Cell /\ h.cells \in [DOMAIN h.cells -> Cell] /\ b \in DOMAIN h.memory
      /\ h.blocks \in [DOMAIN h.blocks -> Block] /\ b \in DOMAIN h.blocks
      /\ h.memory = [y \in DOMAIN h.memory |-> h.memory[y]]
  BY <1>2, CellPlace DEF To, Tiled, Shape
<1>4. Tiled(h1) /\ DressView(h, h1, i, 0, m1, h.blocks[b].n_used - 1)
  BY <1>2, <1>3, ReleaseIs
<1>5. /\ h1.blocks = bs
      /\ h1.cells = [h.cells EXCEPT ![i] = [@ EXCEPT !.requested = 0]]
      /\ h1.memory = [h.memory EXCEPT ![b] = m1]
      /\ h1 = [blocks |-> h1.blocks, cells |-> h1.cells, memory |-> h1.memory]
  BY <1>2, <1>3 DEF Released, Dressed
<1> HIDE DEF h1, bs, m1, i
<1>6. /\ DOMAIN h1.cells = DOMAIN h.cells
      /\ h1.cells[i] = [c EXCEPT !.requested = 0]
      /\ h1.cells[i].block = b /\ h1.cells[i].words = c.words /\ h1.cells[i].n_words = c.n_words
      /\ h1.cells[i].requested = 0 /\ Last(h1.cells[i]) = Last(c)
      /\ \A k \in DOMAIN h.cells : k # i => h1.cells[k] = h.cells[k]
      /\ h1.memory[b] = m1 /\ DOMAIN h1.memory = DOMAIN h.memory
  <2> HIDE DEF c
  <2>1. h1.memory[b] = m1 /\ DOMAIN h1.memory = DOMAIN h.memory
    BY <1>3, <1>5
  <2>2. h1.cells[i] = [c EXCEPT !.requested = 0]
    BY <1>3, <1>5 DEF c
  <2>3. /\ DOMAIN h1.cells = DOMAIN h.cells
        /\ \A k \in DOMAIN h.cells : k # i => h1.cells[k] = h.cells[k]
    BY <1>3, <1>5
  <2> QED
    BY <1>3, <2>1, <2>2, <2>3 DEF Cell, Last
<1>7. before = {k \in DOMAIN h1.cells : Adjacent(h1, k, i) /\ h1.cells[k].requested = 0}
  <2>1. Before(m1, c) = Before(m1, h1.cells[i])
    BY <1>6 DEF Before
  <2>2. Before(m1, h1.cells[i]) = {k \in DOMAIN h1.cells : Adjacent(h1, k, i)}
    <3>1. i \in DOMAIN h1.cells
      BY <1>3, <1>6
    <3>2. Before(h1.memory[h1.cells[i].block], h1.cells[i])
             = {k \in DOMAIN h1.cells : Adjacent(h1, k, i)}
      BY <1>4, <3>1, Neighbours
    <3> QED
      BY <1>6, <3>2
  <2>3. \A k \in DOMAIN h1.cells : Adjacent(h1, k, i) => k # i
    BY <1>3, <1>4, <1>6, AdjacentFacts
  <2> QED
    BY <1>6, <2>1, <2>2, <2>3
<1> HIDE DEF before
<1>8. /\ JoinedBefore(h1, h2, i, j) /\ Tiled(h2)
      /\ j \in DOMAIN h.cells /\ j \in DOMAIN h2.cells
      /\ h2 = [blocks |-> h2.blocks, cells |-> h2.cells, memory |-> h2.memory]
      /\ h2.blocks = bs /\ DOMAIN h2.cells = (DOMAIN h.cells \ {i, j}) \cup {j}
      /\ h2.cells = [k \in DOMAIN h2.cells |-> h2.cells[k]]
      /\ h2.cells[j] = [d EXCEPT !.requested = 0] /\ d \in Cell /\ d.block = b
      /\ \A k \in DOMAIN h2.cells : k # j => h2.cells[k] = h.cells[k]
      /\ h2.memory = [h.memory EXCEPT ![b] = m2]
  <2>1. CASE before = {}
    <3>1. j = i /\ d = c /\ m2 = m1 /\ h2 = h1
      BY <2>1
    <3>2. UsedBefore(h1, i)
      BY <1>7, <2>1 DEF UsedBefore
    <3> HIDE DEF j, d, m2, h2, c
    <3>3. JoinedBefore(h1, h2, i, j)
      BY <3>1, <3>2 DEF JoinedBefore
    <3>4. h1.cells = [k \in DOMAIN h1.cells |-> h1.cells[k]]
      BY <1>4, SMTT(30) DEF Tiled, Shape
    <3> QED
      BY <1>3, <1>4, <1>5, <1>6, <3>1, <3>3, <3>4
  <2>2. CASE before # {}
    <3>1. /\ j = CHOOSE k \in before : TRUE
          /\ d = [h.cells[j] EXCEPT !.n_words = @ + c.n_words]
          /\ m2 = Guarded(m1, j, d) /\ h2 = Joined(h1, j, i, j)
      BY <2>2
    <3> HIDE DEF j, d, m2, h2, c
    <3>2. j \in before
      BY <2>2, <3>1
    <3>3. j \in DOMAIN h1.cells /\ Adjacent(h1, j, i) /\ h1.cells[j].requested = 0
      BY <1>7, <3>2
    <3>4. j # i
      BY <1>3, <1>4, <1>6, <3>3, AdjacentFacts
    <3>5. h1.cells[j] = h.cells[j] /\ j \in DOMAIN h.cells /\ h.cells[j] \in Cell
      BY <1>3, <1>6, <3>3, <3>4
    <3>6. CanJoin(h1, j, i, j)
      BY <1>3, <1>6, <3>3 DEF CanJoin
    <3>7. h.cells[j].block = b
      BY <1>6, <3>3, <3>5 DEF Adjacent
    <3>8. /\ d.block = b /\ d.words = h.cells[j].words /\ d.requested = 0
          /\ d.n_words = h.cells[j].n_words + c.n_words
          /\ d = [block |-> b, words |-> h.cells[j].words,
                  n_words |-> h.cells[j].n_words + c.n_words, requested |-> 0]
      BY <3>1, <3>3, <3>5, <3>7 DEF Cell
    <3>9. JoinedCell(h1, j, i) = d /\ [d EXCEPT !.requested = 0] = d
      BY <1>6, <3>3, <3>5, <3>7, <3>8 DEF JoinedCell
    <3>10. d \in Cell
      <4>1. h.cells[j].words \in Nat /\ h.cells[j].n_words \in Nat /\ c.n_words \in Nat /\ b \in BlockId
        BY <1>3, <3>5, <3>7 DEF Cell
      <4>2. h.cells[j].n_words + c.n_words \in Nat
        BY <4>1
      <4> QED
        BY <3>8, <4>1, <4>2 DEF Cell
    <3>11. Tiled(h2) /\ JoinView(h1, h2, j, i, j)
      BY <1>4, <3>1, <3>6, JoinTiled, JoinIs
    <3>12. /\ h2 = [blocks |-> h2.blocks, cells |-> h2.cells, memory |-> h2.memory]
           /\ h2.cells = [k \in DOMAIN h2.cells |-> h2.cells[k]]
      BY <3>11 DEF Tiled, Shape
    <3>13. /\ h2.blocks = h1.blocks
           /\ h2.cells = Put(Without(h1.cells, {j, i}), j, d)
           /\ h2.memory = [h1.memory EXCEPT ![b] = Guarded(@, j, d)]
      BY <3>1, <3>5, <3>7, <3>9 DEF Joined
    <3>14. h2.memory = [h.memory EXCEPT ![b] = m2]
      BY <1>3, <1>5, <1>6, <3>1, <3>13
    <3>15. /\ DOMAIN h2.cells = (DOMAIN h.cells \ {i, j}) \cup {j} /\ h2.cells[j] = d
           /\ \A k \in DOMAIN h2.cells : k # j => h2.cells[k] = h.cells[k]
      BY <1>6, <3>5, <3>13 DEF Put, Without
    <3>16. JoinedBefore(h1, h2, i, j)
      BY <3>1, <3>3, <3>6 DEF JoinedBefore
    <3> QED
      BY <1>5, <3>5, <3>8, <3>9, <3>10, <3>11, <3>12, <3>13, <3>14, <3>15, <3>16
  <2> QED
    BY <2>1, <2>2
<1> HIDE DEF j, d, m2, h2, c
<1>9. /\ h2.cells[j].block = b /\ h2.cells[j].words = d.words /\ h2.cells[j].n_words = d.n_words
      /\ h2.cells[j].requested = 0 /\ Last(h2.cells[j]) = Last(d) /\ h2.memory[b] = m2
  <2>1. h2.memory[b] = m2
    BY <1>3, <1>8
  <2> QED
    BY <1>8, <2>1 DEF Cell, Last
<1>10. after = {k \in DOMAIN h2.cells : Adjacent(h2, j, k) /\ h2.cells[k].requested = 0}
  <2>1. After(m2, d) = After(m2, h2.cells[j])
    BY <1>9 DEF After
  <2>2. After(m2, h2.cells[j]) = {k \in DOMAIN h2.cells : Adjacent(h2, j, k)}
    <3>1. After(h2.memory[h2.cells[j].block], h2.cells[j])
             = {k \in DOMAIN h2.cells : Adjacent(h2, j, k)}
      BY <1>8, Neighbours
    <3> QED
      BY <1>9, <3>1
  <2>3. \A k \in DOMAIN h2.cells : Adjacent(h2, j, k) => k # j
    BY <1>8, AdjacentFacts
  <2> QED
    BY <1>8, <2>1, <2>2, <2>3
<1> HIDE DEF after
<1>11. JoinedAfter(h2, SecFree(h, p), j, l)
  <2>1. CASE after = {}
    <3>1. l = j /\ e = d /\ m3 = m2
      BY <2>1
    <3>2. UsedAfter(h2, j)
      BY <1>10, <2>1 DEF UsedAfter
    <3> HIDE DEF l, e, m3
    <3>3. ms = h2.memory
      BY <1>8, <3>1
    <3>4. cs = h2.cells
      <4>1. h2.cells = [k \in DOMAIN h2.cells |-> h2.cells[k]]
        BY <1>8
      <4>2. cs = [k \in (DOMAIN h.cells \ {i, j}) \cup {j} |->
                     IF k = j THEN [d EXCEPT !.requested = 0] ELSE Without(h.cells, {i, j})[k]]
        BY <3>1 DEF Put, Without
      <4>3. \A k \in DOMAIN h2.cells : k # j => k \in DOMAIN h.cells \ {i, j}
        BY <1>8
      <4>4. \A k \in DOMAIN h2.cells :
               h2.cells[k] = IF k = j THEN [d EXCEPT !.requested = 0] ELSE Without(h.cells, {i, j})[k]
        BY <1>8, <4>3 DEF Without
      <4> QED
        BY <1>8, <4>1, <4>2, <4>4
    <3> HIDE DEF cs, ms
    <3>5. SecFree(h, p) = h2
      BY <1>1, <1>8, <3>3, <3>4
    <3> QED
      BY <3>2, <3>5 DEF JoinedAfter
  <2>2. CASE after # {}
    <3>1. /\ l = CHOOSE k \in after : TRUE
          /\ e = [h.cells[l] EXCEPT !.words = d.words, !.n_words = @ + d.n_words]
          /\ m3 = Guarded(m2, l, e)
      BY <2>2
    <3> HIDE DEF l, e, m3
    <3>2. l \in DOMAIN h2.cells /\ Adjacent(h2, j, l) /\ h2.cells[l].requested = 0
      <4>1. l \in after
        BY <2>2, <3>1
      <4> QED
        BY <1>10, <4>1
    <3>3. l # j
      BY <1>8, <3>2, AdjacentFacts
    <3>4. h2.cells[l] = h.cells[l] /\ l \in DOMAIN h.cells \ {i, j} /\ h.cells[l] \in Cell
      BY <1>3, <1>8, <3>2, <3>3
    <3>5. CanJoin(h2, j, l, l)
      BY <1>8, <3>2 DEF CanJoin
    <3>6. h.cells[l].block = b
      BY <1>9, <3>2, <3>4 DEF Adjacent
    <3>7. /\ e = [block |-> b, words |-> d.words,
                  n_words |-> h.cells[l].n_words + d.n_words, requested |-> 0]
          /\ [e EXCEPT !.requested = 0] = e
      <4>1. e = [block |-> h.cells[l].block, words |-> d.words,
                 n_words |-> h.cells[l].n_words + d.n_words, requested |-> h.cells[l].requested]
        BY <3>1, <3>4, CellExcept
      <4> QED
        BY <3>2, <3>4, <3>6, <4>1
    <3>8. JoinedCell(h2, j, l) = e
      <4>1. h.cells[l].n_words + d.n_words = d.n_words + h.cells[l].n_words
        BY <1>8, <3>4 DEF Cell
      <4> QED
        BY <1>9, <3>4, <3>7, <4>1 DEF JoinedCell
    <3>9. Joined(h2, j, l, l) = [blocks |-> bs, cells |-> Put(Without(h2.cells, {j, l}), l, e),
                                 memory |-> [h2.memory EXCEPT ![b] = Guarded(@, l, e)]]
      BY <1>8, <1>9, <3>8 DEF Joined
    <3>10. [h2.memory EXCEPT ![b] = Guarded(@, l, e)] = ms
      BY <1>3, <1>8, <1>9, <3>1
    <3>11. Put(Without(h2.cells, {j, l}), l, e) = cs
      <4>1. Put(Without(h2.cells, {j, l}), l, e)
              = [k \in (DOMAIN h2.cells \ {j, l}) \cup {l} |->
                     IF k = l THEN e ELSE Without(h2.cells, {j, l})[k]]
        BY DEF Put, Without
      <4>2. cs = [k \in (DOMAIN h.cells \ {i, j}) \cup {l} |->
                     IF k = l THEN e ELSE Without(h.cells, {i, j})[k]]
        BY <3>7 DEF Put, Without
      <4>3. (DOMAIN h2.cells \ {j, l}) \cup {l} = (DOMAIN h.cells \ {i, j}) \cup {l}
        BY <1>8, <3>4
      <4>4. \A k \in (DOMAIN h.cells \ {i, j}) \cup {l} :
               k # l => Without(h2.cells, {j, l})[k] = Without(h.cells, {i, j})[k]
        BY <1>8, <3>4 DEF Without
      <4> QED
        BY <4>1, <4>2, <4>3, <4>4
    <3> HIDE DEF cs, ms
    <3>12. SecFree(h, p) = Joined(h2, j, l, l)
      BY <1>1, <3>9, <3>10, <3>11
    <3> QED
      BY <3>5, <3>12 DEF JoinedAfter
  <2> QED
    BY <2>1, <2>2
<1> HIDE DEF l
<1>12. JoinedBefore(Released(h, p, x), h2, x, j)
  BY <1>2, <1>8 DEF h1
<1> QED
  BY <1>11, <1>12

\* What sec_free does for the others, and for the block.
FreeView(h, g, p) ==
    /\ Tiled(g)
    /\ Merged(h, {}) => Merged(g, {})
    /\ \A q : Held(h, q) /\ Distinct(p, q) => Kept(h, g, q)
    /\ NoMore(h, g)
    /\ \A w \in Extent(p) : g.memory[p.block][w] \notin Client
    /\ DOMAIN g.blocks = DOMAIN h.blocks
    /\ \A d \in DOMAIN h.blocks : d # p.block => g.blocks[d] = h.blocks[d]
    /\ g.blocks[p.block].n_used = h.blocks[p.block].n_used - 1

\* Merging with the cell before keeps what all clients hold.
LEMMA BeforeKeeps ==
    ASSUME NEW h, Tiled(h), NEW i \in DOMAIN h.cells, h.cells[i].requested = 0,
           NEW g, NEW j, JoinedBefore(h, g, i, j)
    PROVE  /\ Tiled(g) /\ g.blocks = h.blocks /\ NoMore(h, g) /\ j \in DOMAIN g.cells
           /\ \A q : Held(h, q) => Kept(h, g, q)
           /\ Merged(h, {i}) => Merged(g, {j}) /\ UsedBefore(g, j)
<1>1. CASE j = i /\ g = h /\ UsedBefore(h, i)
  BY <1>1, KeptSame
<1>2. CASE CanJoin(h, j, i, j) /\ h.cells[j].requested = 0 /\ g = Joined(h, j, i, j)
  <2>1. Tiled(g) /\ JoinView(h, g, j, i, j) /\ j \in DOMAIN h.cells /\ Adjacent(h, j, i)
    BY <1>2, JoinTiled, JoinIs DEF CanJoin
  <2>2. NoMore(h, g) /\ \A q : Held(h, q) => Kept(h, g, q)
    BY <1>2, JoinKeeps
  <2>3. g.blocks = h.blocks /\ j \in DOMAIN g.cells
    BY <2>1 DEF JoinView
  <2>4. ASSUME Merged(h, {i})
        PROVE  Merged(g, {j}) /\ UsedBefore(g, j)
    <3>1. UsedBefore(h, j)
      BY <1>2, <2>1, <2>4, BesideUnused
    <3>2. Merged(h, {j, i})
      BY <2>4 DEF Merged
    <3> QED
      BY <1>2, <3>1, <3>2, JoinMerged
  <2> QED
    BY <2>1, <2>2, <2>3, <2>4
<1> QED
  BY <1>1, <1>2 DEF JoinedBefore

\* Merging with the cell after keeps what all clients hold.
LEMMA AfterKeeps ==
    ASSUME NEW h, Tiled(h), NEW j \in DOMAIN h.cells,
           NEW g, NEW l, JoinedAfter(h, g, j, l)
    PROVE  /\ Tiled(g) /\ g.blocks = h.blocks /\ NoMore(h, g)
           /\ \A q : Held(h, q) => Kept(h, g, q)
           /\ Merged(h, {j}) /\ UsedBefore(h, j) => Merged(g, {})
<1>1. CASE g = h /\ UsedAfter(h, j)
  BY <1>1, KeptSame, BetweenUsed
<1>2. CASE CanJoin(h, j, l, l) /\ g = Joined(h, j, l, l)
  <2>1. Tiled(g) /\ JoinView(h, g, j, l, l) /\ l \in DOMAIN h.cells /\ Adjacent(h, j, l)
        /\ h.cells[l].requested = 0
    BY <1>2, JoinTiled, JoinIs DEF CanJoin
  <2>2. NoMore(h, g) /\ \A q : Held(h, q) => Kept(h, g, q)
    BY <1>2, JoinKeeps
  <2>3. g.blocks = h.blocks
    BY <2>1 DEF JoinView
  <2>4. ASSUME Merged(h, {j}), UsedBefore(h, j)
        PROVE  Merged(g, {})
    <3>1. UsedAfter(h, l)
      BY <2>1, <2>4, BesideUnused
    <3>2. Merged(h, {j, l})
      BY <2>4 DEF Merged
    <3>3. Merged(g, {l}) /\ UsedBefore(g, l) /\ UsedAfter(g, l)
      BY <1>2, <2>4, <3>1, <3>2, JoinMerged
    <3> QED
      BY <3>3, BetweenUsed
  <2> QED
    BY <2>1, <2>2, <2>3, <2>4
<1> QED
  BY <1>1, <1>2 DEF JoinedAfter

\* sec_free as a whole.
LEMMA FreeDoes ==
    ASSUME NEW h, Tiled(h), NEW p, Held(h, p), h.blocks[p.block].n_used > 0
    PROVE  FreeView(h, SecFree(h, p), p)
<1>1. PICK x \in DOMAIN h.cells : To(h, p, x)
  BY DEF Held
<1>2. PICK h2, j, l : /\ JoinedBefore(Released(h, p, x), h2, x, j)
                      /\ JoinedAfter(h2, SecFree(h, p), j, l)
  BY <1>1, FreeIs
<1> DEFINE h1 == Released(h, p, x)
           g == SecFree(h, p)
           m == Fill(h.memory[p.block], p.word, Words(p.length), Zero)
           u == h.blocks[p.block].n_used - 1
<1>3. /\ Tiled(h1) /\ DressView(h, h1, x, 0, m, u) /\ NoMore(h, h1)
      /\ \A q : Held(h, q) /\ Distinct(p, q) => Kept(h, h1, q)
      /\ \A w \in Extent(p) : h1.memory[p.block][w] = Zero
  BY <1>1, ReleaseIs
<1> HIDE DEF h1, g, m, u
<1>4. /\ DOMAIN h1.blocks = DOMAIN h.blocks /\ DOMAIN h1.memory = DOMAIN h.memory
      /\ \A d \in DOMAIN h.blocks : d # p.block => h1.blocks[d] = h.blocks[d]
      /\ h1.blocks[p.block].n_used = u
      /\ DOMAIN h1.cells = DOMAIN h.cells /\ h1.cells[x].requested = 0
      /\ h1.cells[x].block = h.cells[x].block /\ h1.cells[x].words = h.cells[x].words
      /\ Last(h1.cells[x]) = Last(h.cells[x])
      /\ \A k \in DOMAIN h.cells : k # x => h1.cells[k] = h.cells[k]
  BY <1>1, <1>3 DEF DressView, To
<1>5. Merged(h, {}) => Merged(h1, {x})
  BY <1>4 DEF Merged, Adjacent
<1>6. /\ Tiled(h2) /\ h2.blocks = h1.blocks /\ NoMore(h1, h2) /\ j \in DOMAIN h2.cells
      /\ \A q : Held(h1, q) => Kept(h1, h2, q)
      /\ Merged(h1, {x}) => Merged(h2, {j}) /\ UsedBefore(h2, j)
  <2>1. x \in DOMAIN h1.cells /\ JoinedBefore(h1, h2, x, j)
    BY <1>2, <1>4 DEF h1
  <2> QED
    BY <1>3, <1>4, <2>1, BeforeKeeps
<1>7. /\ Tiled(g) /\ g.blocks = h2.blocks /\ NoMore(h2, g)
      /\ \A q : Held(h2, q) => Kept(h2, g, q)
      /\ Merged(h2, {j}) /\ UsedBefore(h2, j) => Merged(g, {})
  <2>1. JoinedAfter(h2, g, j, l)
    BY <1>2 DEF g
  <2> QED
    BY <1>6, <2>1, AfterKeeps
<1>8. NoMore(h1, g) /\ NoMore(h, g)
  <2>1. NoMore(h1, g)
    BY <1>6, <1>7, KeptTwice
  <2> QED
    BY <1>3, <2>1, KeptTwice
<1>9. ASSUME NEW q, Held(h, q), Distinct(p, q)
      PROVE  Kept(h, g, q)
  <2>1. Kept(h, h1, q)
    BY <1>3, <1>9
  <2>2. Kept(h1, h2, q)
    BY <1>6, <2>1 DEF Kept
  <2>3. Kept(h2, g, q)
    BY <1>7, <2>2 DEF Kept
  <2> QED
    BY <2>1, <2>2, <2>3, KeptTwice
<1>10. ASSUME NEW w \in Extent(p)
       PROVE  g.memory[p.block][w] \notin Client
  <2>1. Zero \notin Client
    BY ContentsAssumption
  <2>2. p.block \in DOMAIN h.memory /\ w \in DOMAIN h.memory[p.block]
    BY <1>1, ExtentFacts
  <2>3. p.block \in DOMAIN g.memory
    BY <1>4, <1>6, <1>7, <2>2 DEF Tiled, Shape
  <2>4. w \in DOMAIN g.memory[p.block]
    <3>1. DOMAIN g.memory[p.block] = 0..(g.blocks[p.block].n_words - 1)
      BY <1>7, <2>3 DEF Tiled, Shape
    <3>2. DOMAIN h.memory[p.block] = 0..(h.blocks[p.block].n_words - 1)
      BY <2>2 DEF Tiled, Shape
    <3>3. p.block \in DOMAIN h.blocks
      BY <2>2 DEF Tiled, Shape
    <3>4. g.blocks[p.block].n_words = h.blocks[p.block].n_words
      BY <1>3, <1>6, <1>7, <3>3 DEF DressView
    <3> QED
      BY <2>2, <3>1, <3>2, <3>4
  <2> QED
    BY <1>3, <1>8, <2>1, <2>3, <2>4 DEF NoMore
<1> QED
  BY <1>4, <1>5, <1>6, <1>7, <1>8, <1>9, <1>10 DEF FreeView, g, u

-----------------------------------------------------------------------------
(* sec_alloc.                                                              *)

\* A cell in use is no reason for an exception.
LEMMA UsedMerged ==
    ASSUME NEW h, NEW i, Merged(h, {i}), h.cells[i].requested # 0
    PROVE  Merged(h, {})
BY DEF Merged

\* The rest of a cell is beside what the cell was beside.
LEMMA PartMerged ==
    ASSUME NEW h, Tiled(h), NEW x, NEW n, NEW f, NEW r, CanPart(h, x, n, f, r),
           Merged(h, {x}), UsedAfter(h, x)
    PROVE  Merged(Parted(h, x, n, f, r), {f})
<1> DEFINE g == Parted(h, x, n, f, r)
<1>1. PartView(h, g, x, n, f, r) /\ Tiled(g)
  BY PartIs, PartTiled
<1> HIDE DEF g
<1>2. /\ DOMAIN g.cells = (DOMAIN h.cells \ {x}) \cup {f, r} /\ f # r /\ n \in Nat
      /\ g.cells[f].block = h.cells[x].block /\ g.cells[r].block = h.cells[x].block
      /\ Last(g.cells[f]) = h.cells[x].words + n - 1 /\ g.cells[r].words = h.cells[x].words + n
      /\ Last(g.cells[r]) = Last(h.cells[x])
      /\ \A k \in DOMAIN h.cells \ {x} : g.cells[k] = h.cells[k]
      /\ x \in DOMAIN h.cells
  BY <1>1 DEF PartView, CanPart
<1>3. h.cells[x].words \in Nat
  BY <1>2, CellPlace
<1>4. ASSUME NEW k \in DOMAIN g.cells, k # f, Adjacent(g, k, r)
      PROVE  FALSE
  <2>1. g.cells[k].block = g.cells[r].block /\ g.cells[r].words = Last(g.cells[k]) + 1
    BY <1>4 DEF Adjacent
  <2>2. Last(g.cells[k]) \in Int
    BY <1>1, CellPlace
  <2>3. Last(g.cells[k]) = Last(g.cells[f])
    <3>1. /\ n \in Nat /\ Last(g.cells[f]) = h.cells[x].words + n - 1
          /\ g.cells[r].words = h.cells[x].words + n
      BY <1>2
    <3> QED
      BY <1>3, <2>1, <2>2, <3>1
  <2>4. f \in DOMAIN g.cells /\ g.cells[k].block = g.cells[f].block
    BY <1>2, <2>1
  <2> QED
    BY <1>1, <1>4, <2>3, <2>4, CellsApart
<1>5. ASSUME NEW k \in DOMAIN g.cells, k # f, Adjacent(g, r, k)
      PROVE  g.cells[k].requested # 0
  <2>1. k # r
    BY <1>1, <1>2, <1>5, AdjacentFacts
  <2>2. k \in DOMAIN h.cells /\ k # x /\ g.cells[k] = h.cells[k]
    BY <1>2, <1>5, <2>1
  <2>3. Adjacent(h, x, k)
    BY <1>2, <1>5, <2>2 DEF Adjacent
  <2> QED
    BY <2>2, <2>3 DEF UsedAfter
<1>6. ASSUME NEW i \in DOMAIN g.cells, NEW k \in DOMAIN g.cells, i # f, k # f, i # r, k # r,
             Adjacent(g, i, k)
      PROVE  g.cells[i].requested # 0 \/ g.cells[k].requested # 0
  <2>1. i \in DOMAIN h.cells \ {x} /\ k \in DOMAIN h.cells \ {x}
        /\ g.cells[i] = h.cells[i] /\ g.cells[k] = h.cells[k]
    BY <1>2, <1>6
  <2> QED
    BY <1>6, <2>1 DEF Merged, Adjacent
<1>7. ASSUME NEW i \in DOMAIN g.cells \ {f}, NEW k \in DOMAIN g.cells \ {f}, Adjacent(g, i, k)
      PROVE  g.cells[i].requested # 0 \/ g.cells[k].requested # 0
  BY <1>4, <1>5, <1>6, <1>7
<1> QED
  BY <1>7 DEF Merged, g

\* What sec_alloc does for the others, for the block, and for who asked.
AllocView(h, g, b, p, length) ==
    /\ Tiled(g)
    /\ Merged(h, {}) => Merged(g, {})
    /\ \A q : Held(h, q) => Kept(h, g, q) /\ Distinct(p, q)
    /\ NoMore(h, g)
    /\ Held(g, p) /\ p.block = b /\ p.length = length
    /\ \A w \in Extent(p) : g.memory[b][w] = Zero
    /\ DOMAIN g.blocks = DOMAIN h.blocks /\ b \in DOMAIN h.blocks
    /\ \A d \in DOMAIN h.blocks : d # b => g.blocks[d] = h.blocks[d]
    /\ g.blocks[b].n_used = h.blocks[b].n_used + 1

\* The unused cell i taken as it is.
Taken(h, i, length) ==
    Dressed(h, i, length,
            Fill(h.memory[h.cells[i].block], h.cells[i].words + 1, Words(length), Zero),
            h.blocks[h.cells[i].block].n_used + 1)

\* sec_alloc from a cell that is not split.
LEMMA TakeDoes ==
    ASSUME NEW h, Tiled(h), NEW i \in DOMAIN h.cells, h.cells[i].requested = 0,
           NEW length \in Nat \ {0}, Need(length) <= h.cells[i].n_words
    PROVE  /\ Taken(h, i, length).cells[i].requested = length
           /\ Merged(h, {i}) => Merged(Taken(h, i, length), {})
           /\ AllocView(h, Taken(h, i, length), h.cells[i].block, PtrTo(h.cells[i], length), length)
<1> DEFINE c == h.cells[i]
           b == c.block
           n == Words(length)
           o == h.memory[b]
           m == Fill(o, c.words + 1, n, Zero)
           u == h.blocks[b].n_used + 1
           g == Taken(h, i, length)
           p == PtrTo(c, length)
<1>1. /\ c.words \in Nat /\ c.n_words \in Nat /\ c.n_words >= 2
      /\ Last(c) = c.words + c.n_words - 1
      /\ c.block \in DOMAIN h.blocks /\ c.block \in DOMAIN h.memory
  BY CellPlace
<1>2. p.block = b /\ p.word = c.words + 1 /\ p.length = length /\ p \in Ptr
  <2>1. b \in BlockId /\ c.words + 1 \in Nat
    BY <1>1 DEF Tiled, Shape
  <2> QED
    BY <2>1 DEF PtrTo, Ptr
<1>3. u \in Nat
  <2>1. h.blocks[b] \in Block
    BY <1>1 DEF Tiled, Shape
  <2>2. h.blocks[b].n_used \in Nat
    BY <2>1 DEF Block
  <2> QED
    BY <2>2
<1>4. Zero \in Content /\ Zero \notin Client
  BY ContentsAssumption DEF Content
<1>5. n \in Nat /\ n + 2 <= c.n_words
  BY WordsEnough DEF Need
<1> HIDE DEF c, n, m, u, p, g
<1>6. c.words + 1 \in Nat /\ n \in Int /\ c.words < c.words + 1 /\ c.words + 1 + n <= Last(c)
  BY <1>1, <1>5
<1>7. FillView(h, i, m, c.words + 1, n, Zero)
  BY <1>4, <1>6, FillIs, SMTT(30) DEF c, m
<1> HIDE DEF o
<1>8. /\ m \in [DOMAIN o -> Content]
      /\ \A w \in DOMAIN o : w \in Int
      /\ \A w \in DOMAIN o : m[w] = IF c.words + 1 <= w /\ w < c.words + 1 + n THEN Zero ELSE o[w]
      /\ \A w \in DOMAIN o : w <= c.words \/ Last(c) <= w => m[w] = o[w]
  BY <1>7, SMTT(30) DEF FillView, c, o
<1>9. CanDress(h, i, length, m, u)
  BY <1>3, <1>5, <1>8 DEF CanDress, c, o, n
<1>10. g = Dressed(h, i, length, m, u)
  BY DEF Taken, g, m, u, n, c, o
<1>11. Tiled(g) /\ DressView(h, g, i, length, m, u)
  BY <1>9, <1>10, DressTiled, DressIs
<1>12. ASSUME NEW q, Held(h, q)
       PROVE  Kept(h, g, q) /\ Distinct(p, q)
  <2>1. PICK k \in DOMAIN h.cells : To(h, q, k)
    BY <1>12 DEF Held
  <2>2. k # i
    BY <1>12, <2>1 DEF Held, To
  <2>3. ~(q.block = b /\ q.word = c.words + 1)
    <3> SUFFICES ASSUME q.block = b, q.word = c.words + 1
                 PROVE  FALSE
      OBVIOUS
    <3>1. h.cells[k].words \in Nat /\ h.cells[k].words + 1 = c.words + 1
      BY <2>1, CellPlace DEF To
    <3>2. h.cells[k].words = c.words
      BY <1>1, <3>1
    <3>3. h.cells[k].block = h.cells[i].block
      BY <2>1 DEF To, c
    <3> QED
      BY <2>2, <3>2, <3>3, CellsApart DEF c
  <2>4. Kept(h, g, q)
    BY <1>9, <1>10, <1>12, <2>3, DressKeeps DEF c
  <2> QED
    BY <1>2, <2>3, <2>4 DEF Distinct
<1>13. Held(g, p)
  BY <1>2, <1>9, <1>10, DressKeeps DEF c
<1>14. NoMore(h, g)
  <2>1. ASSUME NEW d \in DOMAIN g.memory, NEW w \in DOMAIN g.memory[d], g.memory[d][w] \in Client
        PROVE  d \in DOMAIN h.memory /\ w \in DOMAIN h.memory[d] /\ g.memory[d][w] = h.memory[d][w]
    <3>1. d \in DOMAIN h.memory
      BY <1>11, <2>1 DEF DressView
    <3>2. CASE d = b
      <4>1. g.memory[d] = m
        BY <1>11, <3>2 DEF DressView, c
      <4>2. w \in DOMAIN o
        BY <1>8, <2>1, <4>1
      <4> QED
        BY <1>4, <1>8, <2>1, <3>1, <3>2, <4>1, <4>2 DEF o
    <3>3. CASE d # b
      BY <1>11, <2>1, <3>1, <3>3 DEF DressView, c
    <3> QED
      BY <3>2, <3>3
  <2> QED
    BY <2>1 DEF NoMore
<1>15. ASSUME NEW w \in Extent(p)
       PROVE  g.memory[b][w] = Zero
  <2>1. w \in (c.words + 1)..(c.words + 1 + n - 1)
    BY <1>2 DEF Extent, n
  <2>2. w \in Int /\ c.words + 1 <= w /\ w < c.words + 1 + n
    BY <1>1, <1>5, <2>1
  <2>3. w \in DOMAIN o
    <3> DEFINE s == h.blocks[b].n_words
    <3>1. s \in Nat /\ c.words + c.n_words <= s /\ DOMAIN o = 0..(s - 1)
      BY CellMemory DEF c, o
    <3> HIDE DEF s
    <3>2. w \in 0..(s - 1)
      BY <1>1, <1>5, <2>2, <3>1, SMTT(30)
    <3> QED
      BY <3>1, <3>2
  <2>4. g.memory[b] = m
    BY <1>11 DEF DressView, c
  <2> QED
    BY <1>8, <2>2, <2>3, <2>4
<1>16. /\ DOMAIN g.blocks = DOMAIN h.blocks /\ g.cells[i].requested = length
       /\ \A d \in DOMAIN h.blocks : d # b => g.blocks[d] = h.blocks[d]
       /\ g.blocks[b].n_used = u
       /\ DOMAIN g.cells = DOMAIN h.cells
       /\ g.cells[i].block = h.cells[i].block /\ g.cells[i].words = h.cells[i].words
       /\ Last(g.cells[i]) = Last(h.cells[i])
       /\ \A k \in DOMAIN h.cells : k # i => g.cells[k] = h.cells[k]
  BY <1>11 DEF DressView, c
<1>17. Merged(h, {i}) => Merged(g, {})
  <2>1. Merged(h, {i}) => Merged(g, {i})
    BY <1>16 DEF Merged, Adjacent
  <2> QED
    BY <1>16, <2>1, UsedMerged
<1>18. Merged(h, {}) => Merged(h, {i})
  BY DEF Merged
<1>19. AllocView(h, g, b, p, length)
  BY <1>1, <1>2, <1>11, <1>12, <1>13, <1>14, <1>15, <1>16, <1>17, <1>18 DEF AllocView, u
<1> QED
  BY <1>16, <1>17, <1>19 DEF g, p, c

\* A cell is taken as it is, or cut first.
LEMMA CarveWhole ==
    ASSUME NEW h, Tiled(h), NEW b, NEW length, NEW i \in DOMAIN h.cells, h.cells[i].block = b,
           ~Splits(h, i, length)
    PROVE  Carve(h, b, i, length)
             = [heap |-> Taken(h, i, length), ptr |-> PtrTo(h.cells[i], length)]
<1> DEFINE c == h.cells[i]
           taken == [c EXCEPT !.n_words = c.n_words, !.requested = length]
<1>1. c \in Cell /\ h.cells \in [DOMAIN h.cells -> Cell]
  BY DEF Tiled, Shape
<1>2. /\ taken = [c EXCEPT !.requested = length]
      /\ taken.words = c.words /\ taken.block = b
  BY <1>1 DEF Cell
<1>3. Carve(h, b, i, length)
        = [heap |-> [blocks |-> [h.blocks EXCEPT ![b].n_used = @ + 1],
                     cells |-> Put(h.cells, i, taken),
                     memory |-> [h.memory EXCEPT ![b] =
                                    Fill(h.memory[b], taken.words + 1, Words(length), Zero)]],
           ptr |-> PtrTo(taken, length)]
  BY DEF Carve
<1> HIDE DEF taken
<1>4. PtrTo(taken, length) = PtrTo(c, length)
  BY <1>2 DEF PtrTo
<1>5. Put(h.cells, i, taken) = [h.cells EXCEPT ![i] = [@ EXCEPT !.requested = length]]
  BY <1>1, <1>2 DEF Put
<1>6. Taken(h, i, length)
        = [blocks |-> [h.blocks EXCEPT ![b].n_used = @ + 1],
           cells |-> [h.cells EXCEPT ![i] = [@ EXCEPT !.requested = length]],
           memory |-> [h.memory EXCEPT ![b] =
                          Fill(h.memory[b], c.words + 1, Words(length), Zero)]]
  BY DEF Taken, Dressed
<1> QED
  BY <1>2, <1>3, <1>4, <1>5, <1>6

\* sec_alloc from a cell that is too long: part it, then take.
LEMMA CarveCut ==
    ASSUME NEW h, Tiled(h), NEW b, NEW length, NEW i \in DOMAIN h.cells, h.cells[i].block = b,
           h.cells[i].requested = 0, Splits(h, i, length), NEW j, j = NewItem(h),
           CanPart(h, i, Need(length), j, i)
    PROVE  Carve(h, b, i, length)
             = [heap |-> Taken(Parted(h, i, Need(length), j, i), j, length),
                ptr |-> PtrTo(Parted(h, i, Need(length), j, i).cells[j], length)]
<1> DEFINE c == h.cells[i]
           n == Need(length)
           taken == [c EXCEPT !.n_words = n, !.requested = length]
           rest == [c EXCEPT !.words = @ + n, !.n_words = @ - n]
           m == Guarded(Guarded(h.memory[b], j, taken), i, rest)
           h1 == Parted(h, i, n, j, i)
           first == FirstCell(h, i, n)
<1>1. c \in Cell /\ h.cells \in [DOMAIN h.cells -> Cell] /\ j # i /\ b \in DOMAIN h.memory
      /\ h.memory = [y \in DOMAIN h.memory |-> h.memory[y]]
  BY CellPlace DEF Tiled, Shape, CanPart
<1>2. Carve(h, b, i, length)
        = [heap |-> [blocks |-> [h.blocks EXCEPT ![b].n_used = @ + 1],
                     cells |-> Put(Put(h.cells, i, rest), j, taken),
                     memory |-> [h.memory EXCEPT ![b] =
                                    Fill(m, taken.words + 1, Words(length), Zero)]],
           ptr |-> PtrTo(taken, length)]
  BY DEF Carve
<1>3. /\ taken = [block |-> b, words |-> c.words, n_words |-> n, requested |-> length]
      /\ taken.words = c.words /\ taken.block = b /\ taken.n_words = n
  <2> DEFINE f == [c EXCEPT !.n_words = n]
  <2>1. f = [block |-> b, words |-> c.words, n_words |-> n, requested |-> c.requested]
    BY <1>1 DEF Cell
  <2>2. taken = [f EXCEPT !.requested = length]
    OBVIOUS
  <2> HIDE DEF f, taken
  <2>3. taken = [block |-> b, words |-> c.words, n_words |-> n, requested |-> length]
    BY <2>1, <2>2
  <2> QED
    BY <2>3
<1>4. rest = RestCell(h, i, n)
  <2> DEFINE f == [c EXCEPT !.words = c.words + n]
  <2>1. /\ f = [block |-> b, words |-> c.words + n, n_words |-> c.n_words, requested |-> 0]
        /\ f.n_words = c.n_words
    BY <1>1 DEF Cell
  <2>2. rest = [f EXCEPT !.n_words = f.n_words - n]
    OBVIOUS
  <2> HIDE DEF f, rest
  <2>3. rest = [block |-> b, words |-> c.words + n, n_words |-> c.n_words - n, requested |-> 0]
    BY <2>1, <2>2
  <2> QED
    BY <2>3 DEF RestCell
<1>5. /\ first = [block |-> b, words |-> c.words, n_words |-> n, requested |-> 0]
      /\ first.words = c.words /\ first.block = b /\ first.n_words = n
  BY DEF FirstCell
<1>6. /\ h1.blocks = h.blocks
      /\ h1.cells = Put(Put(Without(h.cells, {i}), i, rest), j, first)
      /\ h1.memory = [h.memory EXCEPT ![b] = Guarded(Guarded(@, j, first), i, rest)]
  BY <1>4 DEF Parted
<1> HIDE DEF taken, rest, first, h1, m
<1>7. Guarded(h.memory[b], j, first) = Guarded(h.memory[b], j, taken)
  BY <1>3, <1>5 DEF Guarded, Last
<1>8. h1.memory[b] = m /\ h1.memory = [h.memory EXCEPT ![b] = m]
  BY <1>1, <1>6, <1>7 DEF m
<1>9. h1.cells[j] = first /\ DOMAIN h1.cells = DOMAIN h.cells \cup {j}
  BY <1>6 DEF Put, Without
<1>10. [h1.cells EXCEPT ![j] = [@ EXCEPT !.requested = length]] = Put(Put(h.cells, i, rest), j, taken)
  <2>1. [first EXCEPT !.requested = length] = taken
    BY <1>3, <1>5
  <2>2. [h1.cells EXCEPT ![j] = taken]
          = [k \in DOMAIN h.cells \cup {j} |->
                IF k = j THEN taken ELSE IF k = i THEN rest ELSE h.cells[k]]
    BY <1>1, <1>6, <1>9, ZenonT(30) DEF Put, Without
  <2>3. Put(Put(h.cells, i, rest), j, taken)
          = [k \in DOMAIN h.cells \cup {j} |->
                IF k = j THEN taken ELSE IF k = i THEN rest ELSE h.cells[k]]
    BY DEF Put
  <2> QED
    BY <1>9, <2>1, <2>2, <2>3
<1>11. Taken(h1, j, length)
        = [blocks |-> [h1.blocks EXCEPT ![b].n_used = @ + 1],
           cells |-> [h1.cells EXCEPT ![j] = [@ EXCEPT !.requested = length]],
           memory |-> [h1.memory EXCEPT ![b] =
                          Fill(h1.memory[b], first.words + 1, Words(length), Zero)]]
  BY <1>5, <1>9 DEF Taken, Dressed
<1>12. [h1.memory EXCEPT ![b] = Fill(m, c.words + 1, Words(length), Zero)]
        = [h.memory EXCEPT ![b] = Fill(m, c.words + 1, Words(length), Zero)]
  BY <1>1, <1>8
<1>13. PtrTo(h1.cells[j], length) = PtrTo(taken, length)
  BY <1>3, <1>5, <1>9 DEF PtrTo
<1>14. Taken(h1, j, length)
        = [blocks |-> [h.blocks EXCEPT ![b].n_used = @ + 1],
           cells |-> Put(Put(h.cells, i, rest), j, taken),
           memory |-> [h.memory EXCEPT ![b] = Fill(m, taken.words + 1, Words(length), Zero)]]
  BY <1>3, <1>5, <1>6, <1>8, <1>10, <1>11, <1>12
<1> QED
  BY <1>2, <1>13, <1>14 DEF h1

\* sec_alloc.
LEMMA SecAllocDoes ==
    ASSUME NEW h, Tiled(h), NEW b, NEW length \in Nat \ {0}, NEW a \in SecAlloc(h, b, length)
    PROVE  /\ AllocView(h, a.heap, b, a.ptr, length)
           /\ a = [heap |-> a.heap, ptr |-> a.ptr]
<1>1. PICK i \in Fits(h, b, length) : /\ Splits(h, i, length) => FreeItems(h) # {}
                                      /\ a = Carve(h, b, i, length)
  BY DEF SecAlloc
<1>2. /\ i \in DOMAIN h.cells /\ h.cells[i].block = b /\ h.cells[i].requested = 0
      /\ h.cells[i].n_words >= Need(length)
  BY DEF Fits, Unused
<1> DEFINE n == Need(length)
<1>3. n \in Nat /\ n >= 2
  BY WordsEnough DEF Need
<1>4. h.cells[i].n_words \in Nat /\ i \in Item
  BY <1>2, CellPlace
<1>5. CASE ~Splits(h, i, length)
  <2>1. a = [heap |-> Taken(h, i, length), ptr |-> PtrTo(h.cells[i], length)]
    BY <1>1, <1>2, <1>5, CarveWhole
  <2>2. n <= h.cells[i].n_words
    BY <1>2, <1>3, <1>4
  <2>3. AllocView(h, Taken(h, i, length), h.cells[i].block, PtrTo(h.cells[i], length), length)
    BY <1>2, <2>2, TakeDoes
  <2> QED
    BY <1>2, <2>1, <2>3
<1>6. CASE Splits(h, i, length)
  <2> DEFINE j == NewItem(h)
             g == Parted(h, i, n, j, i)
             f == Taken(g, j, length)
             p == PtrTo(g.cells[j], length)
  <2>1. j \in Item \ DOMAIN h.cells
    BY <1>1, <1>6 DEF NewItem, FreeItems
  <2>2. n + 2 <= h.cells[i].n_words
    <3>1. h.cells[i].n_words > n + WASTE
      BY <1>6 DEF Splits
    <3> HIDE DEF n
    <3> QED
      BY <1>3, <1>4, <3>1, LengthAssumption
  <2>3. Words(h.cells[i].requested) + 2 <= n
    BY <1>2, <1>3, WordsEnough
  <2> HIDE DEF j, n
  <2>4. CanPart(h, i, n, j, i)
    BY <1>2, <1>3, <1>4, <2>1, <2>2, <2>3 DEF CanPart
  <2>5. a = [heap |-> f, ptr |-> p]
    BY <1>1, <1>2, <1>6, <2>4, CarveCut DEF j, n
  <2>6. Tiled(g) /\ PartView(h, g, i, n, j, i)
    BY <2>4, PartTiled, PartIs
  <2>7. NoMore(h, g) /\ \A q : Held(h, q) => Kept(h, g, q)
    BY <2>4, PartKeeps
  <2> HIDE DEF g
  <2>8. /\ j \in DOMAIN g.cells /\ g.cells[j].requested = 0 /\ g.cells[j].block = b
        /\ g.cells[j].n_words = n /\ g.blocks = h.blocks
    BY <1>2, <2>6 DEF PartView
  <2>9. Need(length) <= g.cells[j].n_words
    BY <1>3, <2>8 DEF n
  <2>10. AllocView(g, f, b, p, length) /\ (Merged(g, {j}) => Merged(f, {}))
    BY <2>6, <2>8, <2>9, TakeDoes
  <2>11. Merged(h, {}) => Merged(f, {})
    <3>1. Merged(h, {}) => Merged(h, {i}) /\ UsedAfter(h, i)
      BY <1>2 DEF Merged, UsedAfter
    <3> QED
      BY <2>4, <2>10, <3>1, PartMerged DEF g
  <2> HIDE DEF f, p
  <2>12. NoMore(h, f)
    BY <2>7, <2>10, KeptTwice DEF AllocView
  <2>13. ASSUME NEW q, Held(h, q)
         PROVE  Kept(h, f, q) /\ Distinct(p, q)
    <3>1. Kept(h, g, q)
      BY <2>7, <2>13
    <3>2. Held(g, q)
      BY <3>1 DEF Kept
    <3>3. Kept(g, f, q) /\ Distinct(p, q)
      BY <2>10, <3>2 DEF AllocView
    <3> QED
      BY <3>1, <3>3, KeptTwice
  <2>14. AllocView(h, f, b, p, length)
    BY <2>8, <2>10, <2>11, <2>12, <2>13 DEF AllocView
  <2> QED
    BY <2>5, <2>14
<1> QED
  BY <1>5, <1>6

-----------------------------------------------------------------------------
(* egg_secure_alloc_full.                                                  *)

\* The count of a block, which is none for one that is not there.
Used(h, b) == IF b \in DOMAIN h.blocks THEN h.blocks[b].n_used ELSE 0

\* A good pointer is into a block.
LEMMA HeldInBlock ==
    ASSUME NEW h, Tiled(h), NEW p, Held(h, p)
    PROVE  InBlock(p) /\ p \in Ptr /\ p.block \in DOMAIN h.blocks /\ Used(h, p.block) = h.blocks[p.block].n_used
<1>1. PICK i \in DOMAIN h.cells : To(h, p, i)
  BY DEF Held
<1>2. p \in Ptr /\ p.block \in DOMAIN h.blocks
  BY <1>1, CellPlace DEF Held, To
<1>3. p.block \in BlockId
  BY <1>2 DEF Tiled, Shape
<1>4. p # NoPtr /\ p.block # Fallback
  BY <1>2, <1>3, ContentsAssumption DEF Ptr
<1> QED
  BY <1>2, <1>4 DEF InBlock, Used

\* What an allocation does, in a block or not.
FullView(h, g, p, length) ==
    /\ Tiled(g)
    /\ Merged(h, {}) => Merged(g, {})
    /\ \A q : Held(h, q) => Kept(h, g, q)
    /\ NoMore(h, g)
    /\ p = NoPtr \/ (p \in Ptr /\ p.length = length)
    /\ InBlock(p) => /\ Held(g, p)
                     /\ \A w \in Extent(p) : g.memory[p.block][w] = Zero
                     /\ \A q : Held(h, q) => Distinct(p, q)
    /\ \A b \in BlockId : Used(g, b) = Used(h, b) + IF InBlock(p) /\ p.block = b THEN 1 ELSE 0

\* Counts are natural numbers.
LEMMA UsedType ==
    ASSUME NEW h, Tiled(h), NEW b
    PROVE  Used(h, b) \in Nat
BY DEF Tiled, Shape, Used, Block

\* An allocation in a block, as egg_secure_alloc_full sees it.
LEMMA BlockFull ==
    ASSUME NEW h, Tiled(h), NEW g, NEW b, NEW p, NEW length, AllocView(h, g, b, p, length)
    PROVE  FullView(h, g, p, length)
<1>1. Tiled(g) /\ Held(g, p) /\ p.block = b /\ p.length = length
  BY DEF AllocView
<1>2. InBlock(p) /\ p \in Ptr
  BY <1>1, HeldInBlock
<1>3. ASSUME NEW d \in BlockId
      PROVE  Used(g, d) = Used(h, d) + IF InBlock(p) /\ p.block = d THEN 1 ELSE 0
  <2>1. Used(h, d) \in Nat
    BY UsedType
  <2>2. CASE d = b
    BY <1>1, <1>2, <2>2 DEF AllocView, Used
  <2>3. CASE d # b
    <3>1. Used(g, d) = Used(h, d)
      BY <2>3 DEF AllocView, Used
    <3> QED
      BY <1>1, <2>1, <2>3, <3>1
  <2> QED
    BY <2>2, <2>3
<1> QED
  BY <1>1, <1>2, <1>3 DEF AllocView, FullView

\* No allocation in a block.
LEMMA NoneFull ==
    ASSUME NEW h, Tiled(h), NEW length \in Nat, NEW p,
           p = NoPtr \/ p = [block |-> Fallback, word |-> 0, length |-> length]
    PROVE  FullView(h, h, p, length)
<1>1. ~InBlock(p)
  BY DEF InBlock
<1>2. p = NoPtr \/ (p \in Ptr /\ p.length = length)
  BY DEF Ptr
<1>3. \A d \in BlockId : Used(h, d) \in Nat
  BY UsedType
<1>4. \A d \in BlockId : Used(h, d) = Used(h, d) + IF InBlock(p) /\ p.block = d THEN 1 ELSE 0
  BY <1>1, <1>3
<1>5. /\ \A q : Held(h, q) => Kept(h, h, q)
      /\ NoMore(h, h)
  BY KeptSame
<1> QED
  BY <1>1, <1>2, <1>4, <1>5 DEF FullView

\* A block that is made is empty.
LEMMA CreateFull ==
    ASSUME NEW h, Tiled(h), NEW b, NEW length, CanCreate(h, b, length),
           NEW f, NEW p, NEW n, FullView(Create(h, b, length), f, p, n)
    PROVE  FullView(h, f, p, n)
<1> DEFINE g == Create(h, b, length)
<1>1. /\ Tiled(g) /\ NoMore(h, g)
      /\ \A q : Held(h, q) => Kept(h, g, q) /\ q.block # b
  BY CreateTiled
<1>2. CreateView(h, g, b, NewItem(h), PagesFor(length))
  BY CreateIs
<1>3. FullView(g, f, p, n)
  OBVIOUS
<1> HIDE DEF g
<1>4. Merged(h, {}) => Merged(g, {})
  <2> DEFINE i == NewItem(h)
  <2>1. /\ DOMAIN g.cells = DOMAIN h.cells \cup {i} /\ g.cells[i].block = b
        /\ \A k \in DOMAIN h.cells : g.cells[k] = h.cells[k]
    BY <1>2 DEF CreateView
  <2> HIDE DEF i
  <2>2. \A k \in DOMAIN h.cells : h.cells[k].block # b
    BY CellPlace DEF CanCreate
  <2>3. ~Adjacent(g, i, i)
    BY <1>1, <2>1, AdjacentFacts
  <2>4. ASSUME NEW x \in DOMAIN g.cells, NEW y \in DOMAIN g.cells, Adjacent(g, x, y), Merged(h, {})
        PROVE  g.cells[x].requested # 0 \/ g.cells[y].requested # 0
    <3>1. x \in DOMAIN h.cells /\ y \in DOMAIN h.cells
      BY <2>1, <2>2, <2>3, <2>4 DEF Adjacent
    <3> QED
      BY <2>1, <2>4, <3>1 DEF Merged, Adjacent
  <2> QED
    BY <2>4 DEF Merged
<1>5. \A d \in BlockId : Used(g, d) = Used(h, d)
  BY <1>2 DEF CreateView, Used, CanCreate
<1>6. ASSUME NEW q, Held(h, q)
      PROVE  Kept(h, f, q) /\ (InBlock(p) => Distinct(p, q))
  <2>1. Kept(h, g, q)
    BY <1>1, <1>6
  <2>2. Held(g, q)
    BY <2>1 DEF Kept
  <2>3. Kept(g, f, q) /\ (InBlock(p) => Distinct(p, q))
    BY <1>3, <2>2 DEF FullView
  <2> QED
    BY <2>1, <2>3, KeptTwice
<1>7. NoMore(h, f)
  BY <1>1, <1>3, KeptTwice DEF FullView
<1> QED
  BY <1>3, <1>4, <1>5, <1>6, <1>7 DEF FullView

\* egg_secure_alloc_full as a whole.
LEMMA AllocFullDoes ==
    ASSUME NEW h, Tiled(h), NEW length \in Nat \ {0}, NEW insured,
           NEW a \in AllocFull(h, length, insured)
    PROVE  FullView(h, a.heap, a.ptr, length)
<1> DEFINE none(g) == [heap |-> g,
                       ptr |-> IF insured THEN [block |-> Fallback, word |-> 0, length |-> length]
                                          ELSE NoPtr]
           spare == {b \in BlockId : b \notin DOMAIN h.blocks /\ FreeItems(h) # {}}
           new == CHOOSE b \in spare : TRUE
           g == Create(h, new, length)
<1>1. \/ \E b \in DOMAIN h.blocks : a \in SecAlloc(h, b, length)
      \/ a = none(h)
      \/ spare # {} /\ a \in SecAlloc(g, new, length)
      \/ spare # {} /\ a = none(g)
  <2> DEFINE A == UNION {SecAlloc(h, b, length) : b \in DOMAIN h.blocks}
             E == SecAlloc(g, new, length)
                    \cup IF SecAllocMayFail(g, new, length) THEN {none(g)} ELSE {}
             D == {none(h)} \cup IF spare = {} THEN {} ELSE E
  <2>1. a \in A \cup IF \E b \in DOMAIN h.blocks : ~SecAllocMayFail(h, b, length) THEN {} ELSE D
    BY Zenon DEF AllocFull
  <2> HIDE DEF none, g, new, spare
  <2>2. a \in A \/ a \in D
    <3> HIDE DEF A, D
    <3> QED
      BY <2>1
  <2>3. a \in A => \E b \in DOMAIN h.blocks : a \in SecAlloc(h, b, length)
    BY Zenon
  <2>4. a \in D => a = none(h) \/ (spare # {} /\ a \in E)
    <3> HIDE DEF E
    <3> QED
      OBVIOUS
  <2>5. a \in E => a \in SecAlloc(g, new, length) \/ a = none(g)
    OBVIOUS
  <2> QED
    BY <2>2, <2>3, <2>4, <2>5, Zenon
<1>2. \A f : /\ none(f).heap = f
             /\ \/ none(f).ptr = NoPtr
                \/ none(f).ptr = [block |-> Fallback, word |-> 0, length |-> length]
  OBVIOUS
<1> HIDE DEF none
<1>3. ASSUME spare # {}
      PROVE  CanCreate(h, new, length)
  BY <1>3 DEF CanCreate
<1> HIDE DEF spare, new
<1>4. CASE \E b \in DOMAIN h.blocks : a \in SecAlloc(h, b, length)
  BY <1>4, SecAllocDoes, BlockFull
<1>5. CASE a = none(h)
  BY <1>2, <1>5, NoneFull
<1>6. CASE spare # {} /\ (a \in SecAlloc(g, new, length) \/ a = none(g))
  <2>1. CanCreate(h, new, length) /\ Tiled(g)
    BY <1>3, <1>6, CreateTiled
  <2> HIDE DEF g
  <2>2. FullView(g, a.heap, a.ptr, length)
    <3>1. CASE a \in SecAlloc(g, new, length)
      BY <2>1, <3>1, SecAllocDoes, BlockFull
    <3>2. CASE a = none(g)
      BY <1>2, <2>1, <3>2, NoneFull
    <3> QED
      BY <1>6, <3>1, <3>2
  <2> QED
    BY <2>1, <2>2, CreateFull DEF g
<1> QED
  BY <1>1, <1>4, <1>5, <1>6

-----------------------------------------------------------------------------
(* Writing to an allocation, and asking its cell for another length.       *)

Rewritten(h, i, length, m) ==
    [h EXCEPT !.cells[i].requested = length, !.memory[h.cells[i].block] = m]

\* The allocation p, of the cell i, is now q and the memory of its block m.
RewriteView(h, g, p, q, m) ==
    /\ Tiled(g)
    /\ Merged(h, {}) => Merged(g, {})
    /\ g.blocks = h.blocks
    /\ Held(g, q)
    /\ \A r : Held(h, r) /\ Distinct(p, r) => Kept(h, g, r)
    /\ DOMAIN g.memory = DOMAIN h.memory
    /\ \A d \in DOMAIN h.memory : d # p.block => g.memory[d] = h.memory[d]
    /\ g.memory[p.block] = m

Longer(p, length) == [p EXCEPT !.length = length]

CanRewrite(h, p, i, length, m) ==
    /\ i \in DOMAIN h.cells /\ To(h, p, i) /\ p \in Ptr /\ p.length # 0
    /\ length \in Nat \ {0} /\ Words(length) + 2 <= h.cells[i].n_words
    /\ m \in [DOMAIN h.memory[p.block] -> Content]
    /\ \A w \in DOMAIN h.memory[p.block] :
          w < p.word \/ Last(h.cells[i]) <= w => m[w] = h.memory[p.block][w]

\* Words between the guards of a used cell may change, and its length.
LEMMA RewriteDoes ==
    ASSUME NEW h, Tiled(h), NEW p, NEW i, NEW length, NEW m, CanRewrite(h, p, i, length, m)
    PROVE  /\ RewriteView(h, Rewritten(h, i, length, m), p, Longer(p, length), m)
           /\ DOMAIN Rewritten(h, i, length, m).cells = DOMAIN h.cells
           /\ To(Rewritten(h, i, length, m), Longer(p, length), i)
<1> DEFINE c == h.cells[i]
           b == p.block
           u == h.blocks[b].n_used
           g == Rewritten(h, i, length, m)
           q == Longer(p, length)
<1>1. i \in DOMAIN h.cells /\ To(h, p, i) /\ p \in Ptr /\ p.length # 0 /\ length \in Nat \ {0}
      /\ Words(length) + 2 <= c.n_words
      /\ m \in [DOMAIN h.memory[b] -> Content]
  BY DEF CanRewrite
<1>2. /\ c.words \in Nat /\ c.block = b /\ p.word = c.words + 1 /\ c.requested = p.length
      /\ b \in DOMAIN h.blocks /\ b \in DOMAIN h.memory
  BY <1>1, CellPlace DEF To
<1>3. q \in Ptr /\ q.block = b /\ q.word = c.words + 1 /\ q.length = length
  BY <1>1, <1>2 DEF Longer, Ptr
<1>4. u \in Nat /\ h.blocks[b] \in Block
  <2>1. h.blocks[b] \in Block
    BY <1>2 DEF Tiled, Shape
  <2> QED
    BY <2>1 DEF Block
<1>5. ASSUME NEW w \in DOMAIN h.memory[b], w <= c.words \/ Last(c) <= w
      PROVE  m[w] = h.memory[b][w]
  <2>1. w \in Int
    BY <1>1, <1>2, <1>5, CellMemory
  <2>2. w < p.word \/ Last(c) <= w
    BY <1>2, <1>5, <2>1
  <2> QED
    BY <1>5, <2>2, SMTT(30) DEF CanRewrite
<1>6. CanDress(h, i, length, m, u)
  BY <1>1, <1>2, <1>4, <1>5 DEF CanDress
<1>7. g = Dressed(h, i, length, m, u)
  <2>1. h = [blocks |-> h.blocks, cells |-> h.cells, memory |-> h.memory]
    BY DEF Tiled, Shape
  <2>2. [h.blocks EXCEPT ![b] = [@ EXCEPT !.n_used = u]] = h.blocks
    <3>1. [h.blocks[b] EXCEPT !.n_used = u] = h.blocks[b]
      BY <1>4 DEF Block
    <3>2. h.blocks \in [DOMAIN h.blocks -> Block]
      BY DEF Tiled, Shape
    <3> QED
      BY <1>2, <3>1, <3>2
  <2> DEFINE f == [h EXCEPT !.cells = [h.cells EXCEPT ![i] = [h.cells[i] EXCEPT !.requested = length]]]
  <2>3. /\ f = [blocks |-> h.blocks,
                cells |-> [h.cells EXCEPT ![i] = [h.cells[i] EXCEPT !.requested = length]],
                memory |-> h.memory]
        /\ f.memory = h.memory
    BY <2>1
  <2>4. g = [f EXCEPT !.memory = [f.memory EXCEPT ![b] = m]]
    BY <1>2 DEF Rewritten
  <2> HIDE DEF f, g
  <2>5. g = [blocks |-> h.blocks,
             cells |-> [h.cells EXCEPT ![i] = [h.cells[i] EXCEPT !.requested = length]],
             memory |-> [h.memory EXCEPT ![b] = m]]
    BY <2>3, <2>4
  <2> QED
    BY <1>2, <2>2, <2>5 DEF Dressed
<1> HIDE DEF g, q
<1>8. Tiled(g) /\ DressView(h, g, i, length, m, u)
  BY <1>6, <1>7, DressTiled, DressIs
<1>9. Held(g, q)
  BY <1>1, <1>2, <1>3, <1>6, <1>7, DressKeeps
<1>10. ASSUME NEW r, Held(h, r), Distinct(p, r)
       PROVE  Kept(h, g, r)
  <2>1. ~(r.block = c.block /\ r.word = c.words + 1)
    BY <1>2, <1>10 DEF Distinct
  <2> QED
    BY <1>6, <1>7, <1>10, <2>1, DressKeeps
<1>11. /\ DOMAIN g.cells = DOMAIN h.cells /\ g.cells[i].requested = length
       /\ g.cells[i].block = h.cells[i].block /\ g.cells[i].words = h.cells[i].words
       /\ Last(g.cells[i]) = Last(h.cells[i])
       /\ \A k \in DOMAIN h.cells : k # i => g.cells[k] = h.cells[k]
       /\ DOMAIN g.memory = DOMAIN h.memory
       /\ \A d \in DOMAIN h.memory : d # b => g.memory[d] = h.memory[d]
       /\ g.memory[b] = m
       /\ DOMAIN g.blocks = DOMAIN h.blocks
       /\ \A d \in DOMAIN h.blocks : g.blocks[d].n_words = h.blocks[d].n_words
       /\ \A d \in DOMAIN h.blocks : d # b => g.blocks[d] = h.blocks[d]
       /\ g.blocks[b].n_used = u
  BY <1>2, <1>8 DEF DressView
<1>12. g.blocks = h.blocks
  <2>1. [h.blocks EXCEPT ![b] = [@ EXCEPT !.n_used = u]] = h.blocks
    <3>1. [h.blocks[b] EXCEPT !.n_used = u] = h.blocks[b]
      BY <1>4 DEF Block
    <3>2. h.blocks \in [DOMAIN h.blocks -> Block]
      BY DEF Tiled, Shape
    <3> QED
      BY <1>2, <3>1, <3>2
  <2> QED
    BY <1>2, <1>7, <2>1 DEF Dressed
<1>13. Merged(h, {}) => Merged(g, {})
  <2>1. Merged(h, {}) => Merged(g, {i})
    BY <1>11 DEF Merged, Adjacent
  <2> QED
    BY <1>1, <1>11, <2>1, UsedMerged
<1>14. To(g, q, i)
  BY <1>2, <1>3, <1>11 DEF To
<1>15. RewriteView(h, g, p, q, m)
  BY <1>8, <1>9, <1>10, <1>11, <1>12, <1>13 DEF RewriteView
<1> QED
  BY <1>11, <1>14, <1>15 DEF g, q

\* The words of an allocation by its cell.
LEMMA ExtentIs ==
    ASSUME NEW h, Tiled(h), NEW p, NEW i \in DOMAIN h.cells, To(h, p, i)
    PROVE  /\ p.word \in Nat /\ Words(p.length) \in Nat
           /\ h.cells[i].words < p.word /\ p.word + Words(p.length) <= Last(h.cells[i])
           /\ p.block = h.cells[i].block /\ p.block \in DOMAIN h.memory
           /\ \A w \in Int : w \in Extent(p) <=> p.word <= w /\ w < p.word + Words(p.length)
<1>1. /\ h.cells[i].words \in Nat /\ h.cells[i].n_words \in Nat
      /\ Words(h.cells[i].requested) \in Nat
      /\ Words(h.cells[i].requested) + 2 <= h.cells[i].n_words
      /\ Last(h.cells[i]) = h.cells[i].words + h.cells[i].n_words - 1
  BY CellPlace
<1>2. p.block = h.cells[i].block /\ p.word = h.cells[i].words + 1 /\ p.length = h.cells[i].requested
      /\ p.block \in DOMAIN h.memory
  BY CellPlace DEF To
<1>3. /\ p.word \in Nat /\ Words(p.length) \in Nat
      /\ h.cells[i].words < p.word /\ p.word + Words(p.length) <= Last(h.cells[i])
  BY <1>1, <1>2
<1>4. ASSUME NEW w \in Int
      PROVE  w \in Extent(p) <=> p.word <= w /\ w < p.word + Words(p.length)
  BY <1>3 DEF Extent
<1> QED
  BY <1>2, <1>3, <1>4

\* Words of different allocations are different.
LEMMA ExtentsApart ==
    ASSUME NEW h, Tiled(h), NEW p, NEW q, Held(h, p), Held(h, q), Distinct(p, q),
           p.block = q.block, NEW w \in Extent(p)
    PROVE  w \notin Extent(q)
<1>1. PICK i \in DOMAIN h.cells : To(h, p, i)
  BY DEF Held
<1>2. PICK k \in DOMAIN h.cells : To(h, q, k)
  BY DEF Held
<1>3. i # k
  BY <1>1, <1>2 DEF To, Distinct
<1>4. w \in Nat /\ (w < h.cells[k].words \/ Last(h.cells[k]) < w)
  BY <1>1, <1>2, <1>3, ExtentFacts DEF To
<1>5. /\ q.word \in Nat /\ Words(q.length) \in Nat
      /\ h.cells[k].words < q.word /\ q.word + Words(q.length) <= Last(h.cells[k])
      /\ \A v \in Int : v \in Extent(q) <=> q.word <= v /\ v < q.word + Words(q.length)
  BY <1>2, ExtentIs
<1>6. h.cells[k].words \in Int
  BY <1>2, CellPlace
<1>7. Last(h.cells[k]) \in Int
  BY <1>2, CellPlace
<1>8. ~(q.word <= w /\ w < q.word + Words(q.length))
  BY <1>4, <1>5, <1>6, <1>7
<1> QED
  BY <1>4, <1>5, <1>8

\* The memory of a block alone.
LEMMA MemoryIs ==
    ASSUME NEW h, Tiled(h), NEW p \in Ptr, NEW i \in DOMAIN h.cells, To(h, p, i), NEW m
    PROVE  [h EXCEPT !.memory[p.block] = m] = Rewritten(h, i, p.length, m) /\ Longer(p, p.length) = p
<1>1. h = [blocks |-> h.blocks, cells |-> h.cells, memory |-> h.memory]
      /\ h.cells \in [DOMAIN h.cells -> Cell]
  BY DEF Tiled, Shape
<1>2. p.block = h.cells[i].block /\ p.length = h.cells[i].requested /\ h.cells[i] \in Cell
  BY <1>1 DEF To
<1>3. [h.cells[i] EXCEPT !.requested = p.length] = h.cells[i]
  BY <1>2 DEF Cell
<1>4. [h.cells EXCEPT ![i] = [h.cells[i] EXCEPT !.requested = p.length]] = h.cells
  BY <1>1, <1>3
<1> DEFINE f == [h EXCEPT !.cells = [h.cells EXCEPT ![i] = [h.cells[i] EXCEPT !.requested = p.length]]]
<1>5. f = h
  BY <1>1, <1>4
<1>6. Rewritten(h, i, p.length, m) = [f EXCEPT !.memory = [f.memory EXCEPT ![p.block] = m]]
  BY <1>2 DEF Rewritten
<1>7. Longer(p, p.length) = p
  BY DEF Longer, Ptr
<1> HIDE DEF f
<1> QED
  BY <1>5, <1>6, <1>7

\* The client's own writing.
LEMMA WriteDoes ==
    ASSUME NEW h, Tiled(h), NEW p, Held(h, p), NEW v \in Client
    PROVE  LET m == Fill(h.memory[p.block], p.word, Words(p.length), v)
               g == [h EXCEPT !.memory[p.block] = m]
           IN  /\ RewriteView(h, g, p, p, m)
               /\ \A w \in Extent(p) : m[w] = v
               /\ DOMAIN m = DOMAIN h.memory[p.block]
               /\ \A w \in DOMAIN h.memory[p.block] : w \notin Extent(p) => m[w] = h.memory[p.block][w]
<1> DEFINE n == Words(p.length)
           o == h.memory[p.block]
           m == Fill(o, p.word, n, v)
           g == [h EXCEPT !.memory[p.block] = m]
<1>1. PICK i \in DOMAIN h.cells : To(h, p, i)
  BY DEF Held
<1>2. /\ p.word \in Nat /\ n \in Nat
      /\ h.cells[i].words < p.word /\ p.word + n <= Last(h.cells[i])
      /\ p.block = h.cells[i].block /\ p.block \in DOMAIN h.memory
      /\ \A w \in Int : w \in Extent(p) <=> p.word <= w /\ w < p.word + n
  BY <1>1, ExtentIs
<1>3. p \in Ptr /\ p.length # 0 /\ p.length \in Nat
  BY DEF Held, Ptr
<1>4. v \in Content
  BY DEF Content
<1>5. FillView(h, i, m, p.word, n, v)
  <2>1. n \in Int
    BY <1>2
  <2> HIDE DEF n
  <2>2. FillView(h, i, Fill(h.memory[h.cells[i].block], p.word, n, v), p.word, n, v)
    BY <1>2, <1>4, <2>1, FillIs, SMTT(30)
  <2> QED
    BY <1>2, <2>2
<1> HIDE DEF m
<1>6. /\ m \in [DOMAIN o -> Content]
      /\ \A w \in DOMAIN o : w \in Int
      /\ \A w \in DOMAIN o : m[w] = IF p.word <= w /\ w < p.word + n THEN v ELSE o[w]
      /\ \A w \in DOMAIN o : w <= h.cells[i].words \/ Last(h.cells[i]) <= w => m[w] = o[w]
  BY <1>2, <1>5 DEF FillView
<1>7. CanRewrite(h, p, i, p.length, m)
  <2>1. Words(p.length) + 2 <= h.cells[i].n_words
    BY <1>1, CellPlace DEF To
  <2>2. ASSUME NEW w \in DOMAIN o, w < p.word \/ Last(h.cells[i]) <= w
        PROVE  m[w] = o[w]
    <3>1. w \in Int
      BY <1>6, <2>2
    <3>2. h.cells[i].words \in Int /\ p.word = h.cells[i].words + 1
      BY <1>1, CellPlace DEF To
    <3>3. w <= h.cells[i].words \/ Last(h.cells[i]) <= w
      BY <2>2, <3>1, <3>2
    <3> QED
      BY <1>6, <2>2, <3>3
  <2> QED
    BY <1>1, <1>3, <1>6, <2>1, <2>2 DEF CanRewrite
<1>8. g = Rewritten(h, i, p.length, m) /\ Longer(p, p.length) = p
  BY <1>1, <1>3, MemoryIs
<1>9. RewriteView(h, g, p, p, m)
  BY <1>7, <1>8, RewriteDoes, SMTT(30)
<1>10. ASSUME NEW w \in Extent(p)
       PROVE  m[w] = v
  <2>1. w \in DOMAIN o
    BY <1>1, ExtentFacts, SMTT(30)
  <2> QED
    BY <1>2, <1>6, <2>1
<1>11. ASSUME NEW w \in DOMAIN o, w \notin Extent(p)
       PROVE  m[w] = o[w]
  BY <1>2, <1>6, <1>11
<1>12. DOMAIN m = DOMAIN o
  BY <1>6
<1> QED
  BY <1>9, <1>10, <1>11, <1>12 DEF m

-----------------------------------------------------------------------------
(* memcpy to a new allocation, and freeing the old one.                    *)

CopiedTo(h, p, q) ==
    [h EXCEPT !.memory[q.block] = Copied(@, q.word, Words(p.length), h.memory[p.block], p.word)]

CopyView(h, g, p, q) ==
    /\ Tiled(g)
    /\ Merged(h, {}) => Merged(g, {})
    /\ g.blocks = h.blocks
    /\ Held(g, q)
    /\ \A r : Held(h, r) /\ Distinct(q, r) => Kept(h, g, r)
    /\ DOMAIN g.memory = DOMAIN h.memory
    /\ \A d \in DOMAIN h.memory : d # q.block => g.memory[d] = h.memory[d]
    /\ DOMAIN g.memory[q.block] = DOMAIN h.memory[q.block]
    /\ \A w \in DOMAIN h.memory[q.block] :
          /\ w \in Int
          /\ g.memory[q.block][w] = IF q.word <= w /\ w < q.word + Words(p.length)
                                    THEN h.memory[p.block][p.word + (w - q.word)]
                                    ELSE h.memory[q.block][w]

\* memcpy_with_vbits from one allocation to another.
LEMMA CopyDoes ==
    ASSUME NEW h, Tiled(h), NEW p, NEW q, Held(h, p), Held(h, q),
           Words(p.length) <= Words(q.length)
    PROVE  CopyView(h, CopiedTo(h, p, q), p, q)
<1> DEFINE n == Words(p.length)
           o == h.memory[q.block]
           src == h.memory[p.block]
           m == Copied(o, q.word, n, src, p.word)
           g == CopiedTo(h, p, q)
<1>1. PICK i \in DOMAIN h.cells : To(h, q, i)
  BY DEF Held
<1>2. PICK k \in DOMAIN h.cells : To(h, p, k)
  BY DEF Held
<1>3. /\ q.word \in Nat /\ Words(q.length) \in Nat
      /\ h.cells[i].words < q.word /\ q.word + Words(q.length) <= Last(h.cells[i])
      /\ q.block = h.cells[i].block /\ q.block \in DOMAIN h.memory
  BY <1>1, ExtentIs
<1>4. /\ p.word \in Nat /\ n \in Nat /\ p.block \in DOMAIN h.memory
      /\ \A w \in Int : w \in Extent(p) <=> p.word <= w /\ w < p.word + n
  BY <1>2, ExtentIs
<1>5. q \in Ptr /\ q.length # 0 /\ q.length \in Nat
  BY DEF Held, Ptr
<1>6. ASSUME NEW w \in DOMAIN o
      PROVE  w \in Int
  BY <1>1, <1>3, <1>6, CellMemory
<1>7. o \in [DOMAIN o -> Content] /\ src \in [DOMAIN src -> Content]
  BY <1>3, <1>4 DEF Tiled, Shape
<1>8. m = [w \in DOMAIN o |-> IF w \in q.word..(q.word + n - 1) THEN src[p.word + (w - q.word)] ELSE o[w]]
  BY DEF Copied
<1>9. g = [h EXCEPT !.memory[q.block] = m]
  BY DEF CopiedTo
<1> HIDE DEF m, g, n
<1>10. ASSUME NEW w \in DOMAIN o
       PROVE  m[w] = IF q.word <= w /\ w < q.word + n THEN src[p.word + (w - q.word)] ELSE o[w]
  <2>1. w \in Int
    BY <1>6
  <2>2. w \in q.word..(q.word + n - 1) <=> q.word <= w /\ w < q.word + n
    BY <1>3, <1>4, <2>1
  <2>3. m[w] = IF w \in q.word..(q.word + n - 1) THEN src[p.word + (w - q.word)] ELSE o[w]
    BY <1>8
  <2> QED
    BY <2>2, <2>3
<1>11. ASSUME NEW w \in DOMAIN o, q.word <= w, w < q.word + n
       PROVE  src[p.word + (w - q.word)] \in Content
  <2>1. w \in Int
    BY <1>6
  <2>2. p.word + (w - q.word) \in Int /\ p.word <= p.word + (w - q.word)
        /\ p.word + (w - q.word) < p.word + n
    BY <1>3, <1>4, <1>11, <2>1
  <2>3. p.word + (w - q.word) \in Extent(p)
    BY <1>4, <2>2
  <2>4. p.word + (w - q.word) \in DOMAIN src
    BY <1>2, <2>3, ExtentFacts
  <2> QED
    BY <1>7, <2>4
<1>12. m \in [DOMAIN o -> Content]
  <2>1. \A w \in DOMAIN o : m[w] \in Content
    BY <1>7, <1>10, <1>11
  <2>2. m = [w \in DOMAIN o |-> m[w]]
    BY <1>8
  <2> QED
    BY <2>1, <2>2
<1>13. CanRewrite(h, q, i, q.length, m)
  <2>1. Words(q.length) + 2 <= h.cells[i].n_words
    BY <1>1, CellPlace DEF To
  <2>2. ASSUME NEW w \in DOMAIN o, w < q.word \/ Last(h.cells[i]) <= w
        PROVE  m[w] = o[w]
    <3>1. w \in Int
      BY <1>6, <2>2
    <3>2. Last(h.cells[i]) \in Int
      BY <1>1, CellPlace
    <3>3. n <= Words(q.length)
      BY DEF n
    <3>4. ~(q.word <= w /\ w < q.word + n)
      BY <1>3, <1>4, <2>2, <3>1, <3>2, <3>3
    <3> QED
      BY <1>10, <2>2, <3>4
  <2> QED
    BY <1>1, <1>5, <1>12, <2>1, <2>2 DEF CanRewrite
<1>14. g = Rewritten(h, i, q.length, m) /\ Longer(q, q.length) = q
  BY <1>1, <1>5, <1>9, MemoryIs
<1>15. RewriteView(h, g, q, q, m)
  BY <1>13, <1>14, RewriteDoes
<1>16. DOMAIN m = DOMAIN o
  BY <1>12
<1> QED
  BY <1>6, <1>10, <1>15, <1>16 DEF RewriteView, CopyView, g, n

\* Data of clients is what there was outside of p, or is in q and was in p.
Only(h, g, p, q) ==
    \A b \in DOMAIN g.memory : \A w \in DOMAIN g.memory[b] :
        g.memory[b][w] \in Client =>
            \/ /\ b \in DOMAIN h.memory /\ w \in DOMAIN h.memory[b]
               /\ g.memory[b][w] = h.memory[b][w]
               /\ ~(b = p.block /\ w \in Extent(p))
            \/ /\ b = q.block /\ w \in Extent(q)
               /\ \E v \in Extent(p) : g.memory[b][w] = h.memory[p.block][v]

\* What p had is at the beginning of q.
Carried(h, g, p, q) ==
    \A k \in Nat : k < Words(p.length) /\ k < Words(q.length) =>
        g.memory[q.block][q.word + k] = h.memory[p.block][p.word + k]

MoveView(h, g, p, q) ==
    /\ Tiled(g)
    /\ Merged(h, {}) => Merged(g, {})
    /\ Held(g, q)
    /\ \A r : Held(h, r) /\ Distinct(p, r) /\ Distinct(q, r) => Kept(h, g, r)
    /\ DOMAIN g.blocks = DOMAIN h.blocks
    /\ \A b \in BlockId : Used(g, b) = Used(h, b) - IF p.block = b THEN 1 ELSE 0
    /\ Carried(h, g, p, q)
    /\ Only(h, g, p, q)

\* Copying and then freeing.
LEMMA MoveDoes ==
    ASSUME NEW h, Tiled(h), NEW p, NEW q, Held(h, p), Held(h, q), Distinct(p, q),
           Words(p.length) <= Words(q.length), h.blocks[p.block].n_used > 0
    PROVE  MoveView(h, SecFree(CopiedTo(h, p, q), p), p, q)
<1> DEFINE f == CopiedTo(h, p, q)
           g == SecFree(f, p)
           n == Words(p.length)
<1>1. CopyView(h, f, p, q)
  BY CopyDoes
<1>2. Distinct(q, p)
  BY DEF Distinct
<1> HIDE DEF f
<1>3. Kept(h, f, p) /\ Held(f, p) /\ Tiled(f) /\ f.blocks = h.blocks
  BY <1>1, <1>2 DEF CopyView, Kept
<1>4. FreeView(f, g, p)
  BY <1>3, FreeDoes
<1> HIDE DEF g
<1>5. /\ p.block \in DOMAIN h.blocks /\ q.block \in DOMAIN h.blocks
      /\ DOMAIN h.memory = DOMAIN h.blocks
  BY HeldInBlock DEF Tiled, Shape
<1>6. PICK i \in DOMAIN h.cells : To(h, q, i)
  BY DEF Held
<1>7. PICK j \in DOMAIN h.cells : To(h, p, j)
  BY DEF Held
<1>8. /\ q.word \in Nat /\ Words(q.length) \in Nat
      /\ \A w \in Int : w \in Extent(q) <=> q.word <= w /\ w < q.word + Words(q.length)
  BY <1>6, ExtentIs
<1>9. /\ p.word \in Nat /\ n \in Nat
      /\ \A w \in Int : w \in Extent(p) <=> p.word <= w /\ w < p.word + n
  BY <1>7, ExtentIs
<1>10. Kept(f, g, q)
  BY <1>1, <1>4 DEF CopyView, FreeView
<1>11. ASSUME NEW r, Held(h, r), Distinct(p, r), Distinct(q, r)
       PROVE  Kept(h, g, r)
  <2>1. Kept(h, f, r) /\ Held(f, r)
    BY <1>1, <1>11 DEF CopyView, Kept
  <2>2. Kept(f, g, r)
    BY <1>4, <1>11, <2>1 DEF FreeView
  <2> QED
    BY <2>1, <2>2, KeptTwice
<1>12. ASSUME NEW k \in Nat, k < n, k < Words(q.length)
       PROVE  g.memory[q.block][q.word + k] = h.memory[p.block][p.word + k]
  <2>1. q.word + k \in Int /\ q.word <= q.word + k /\ q.word + k < q.word + Words(q.length)
        /\ q.word + k < q.word + n /\ p.word + ((q.word + k) - q.word) = p.word + k
    BY <1>8, <1>9, <1>12
  <2>2. q.word + k \in Extent(q)
    BY <1>8, <2>1
  <2>3. q.word + k \in DOMAIN h.memory[q.block]
    BY <1>6, <2>2, ExtentFacts
  <2>4. f.memory[q.block][q.word + k] = h.memory[p.block][p.word + ((q.word + k) - q.word)]
    BY <1>1, <2>1, <2>3 DEF CopyView
  <2> QED
    BY <1>10, <2>1, <2>2, <2>4 DEF Kept
<1>13. ASSUME NEW b \in DOMAIN g.memory, NEW w \in DOMAIN g.memory[b], g.memory[b][w] \in Client
       PROVE  \/ /\ b \in DOMAIN h.memory /\ w \in DOMAIN h.memory[b]
                 /\ g.memory[b][w] = h.memory[b][w]
                 /\ ~(b = p.block /\ w \in Extent(p))
              \/ /\ b = q.block /\ w \in Extent(q)
                 /\ \E v \in Extent(p) : g.memory[b][w] = h.memory[p.block][v]
  <2>1. b \in DOMAIN f.memory /\ w \in DOMAIN f.memory[b] /\ g.memory[b][w] = f.memory[b][w]
    BY <1>4, <1>13 DEF FreeView, NoMore
  <2>2. ~(b = p.block /\ w \in Extent(p))
    BY <1>4, <1>13 DEF FreeView
  <2>3. b \in DOMAIN h.memory /\ w \in DOMAIN h.memory[b]
    BY <1>1, <2>1 DEF CopyView
  <2>4. CASE b = q.block /\ q.word <= w /\ w < q.word + n
    <3>1. w \in Int /\ f.memory[b][w] = h.memory[p.block][p.word + (w - q.word)]
      BY <1>1, <2>3, <2>4 DEF CopyView
    <3>2. p.word + (w - q.word) \in Int /\ p.word <= p.word + (w - q.word)
          /\ p.word + (w - q.word) < p.word + n
      BY <1>8, <1>9, <2>4, <3>1
    <3>3. p.word + (w - q.word) \in Extent(p)
      BY <1>9, <3>2
    <3>4. n <= Words(q.length)
      OBVIOUS
    <3>5. q.word <= w /\ w < q.word + Words(q.length)
      <4> HIDE DEF n
      <4> QED
        BY <1>8, <1>9, <2>4, <3>1, <3>4
    <3>6. w \in Extent(q)
      BY <1>8, <3>1, <3>5
    <3> QED
      BY <2>1, <2>4, <3>1, <3>3, <3>6
  <2>5. CASE ~(b = q.block /\ q.word <= w /\ w < q.word + n)
    <3>1. f.memory[b][w] = h.memory[b][w]
      BY <1>1, <2>3, <2>5 DEF CopyView
    <3> QED
      BY <2>1, <2>2, <2>3, <3>1
  <2> QED
    BY <2>4, <2>5
<1>14. ASSUME NEW b \in BlockId
       PROVE  Used(g, b) = Used(h, b) - IF p.block = b THEN 1 ELSE 0
  <2>1. Used(h, b) \in Nat
    BY UsedType
  <2>2. CASE p.block = b
    BY <1>3, <1>4, <1>5, <2>2 DEF FreeView, Used
  <2>3. CASE p.block # b
    <3>1. Used(g, b) = Used(h, b)
      BY <1>3, <1>4, <2>3 DEF FreeView, Used
    <3> QED
      BY <2>1, <2>3, <3>1
  <2> QED
    BY <2>2, <2>3
<1>15. Held(g, q)
  BY <1>10 DEF Kept
<1>16. Tiled(g) /\ DOMAIN g.blocks = DOMAIN h.blocks /\ (Merged(h, {}) => Merged(g, {}))
  BY <1>1, <1>3, <1>4 DEF FreeView, CopyView
<1>17. MoveView(h, g, p, q)
  BY <1>11, <1>12, <1>13, <1>14, <1>15, <1>16 DEF MoveView, Only, Carried
<1> QED
  BY <1>17 DEF g, f

-----------------------------------------------------------------------------
(* sec_realloc's loop.                                                     *)

\* Nothing is lost, and the cell i is still that of p.
GrowView(h, g, p, i) ==
    /\ Tiled(g)
    /\ Merged(h, {}) => Merged(g, {})
    /\ g.blocks = h.blocks
    /\ NoMore(h, g)
    /\ \A r : Held(h, r) => Kept(h, g, r)
    /\ i \in DOMAIN g.cells /\ To(g, p, i)

\* A cell eaten whole.
LEMMA EatDoes ==
    ASSUME NEW h, Tiled(h), NEW p, NEW i \in DOMAIN h.cells, To(h, p, i), p.length # 0,
           NEW k, CanJoin(h, i, k, i)
    PROVE  /\ GrowView(h, Joined(h, i, k, i), p, i)
           /\ Merged(h, {}) => Merged(Joined(h, i, k, i), {i}) /\ UsedAfter(Joined(h, i, k, i), i)
<1> DEFINE g == Joined(h, i, k, i)
<1>1. Tiled(g) /\ JoinView(h, g, i, k, i)
  BY JoinTiled, JoinIs
<1>2. NoMore(h, g) /\ \A r : Held(h, r) => Kept(h, g, r)
  BY JoinKeeps
<1>3. k \in DOMAIN h.cells /\ Adjacent(h, i, k) /\ h.cells[k].requested = 0
  BY DEF CanJoin
<1>4. Merged(h, {}) => Merged(h, {i}) /\ Merged(h, {i, k})
  BY DEF Merged
<1>5. Merged(h, {}) => UsedAfter(h, k)
  BY <1>3, <1>4, BesideUnused
<1>6. Merged(h, {}) => Merged(g, {i}) /\ UsedAfter(g, i)
  BY <1>4, <1>5, JoinMerged
<1> HIDE DEF g
<1>7. i \in DOMAIN g.cells /\ To(g, p, i) /\ g.cells[i].requested # 0 /\ g.blocks = h.blocks
  BY <1>1 DEF JoinView, To
<1>8. Merged(h, {}) => Merged(g, {})
  BY <1>6, <1>7, UsedMerged
<1>9. GrowView(h, g, p, i)
  BY <1>1, <1>2, <1>7, <1>8 DEF GrowView
<1> QED
  BY <1>6, <1>9 DEF g

\* A cell that gives what is missing.
LEMMA NibbleDoes ==
    ASSUME NEW h, Tiled(h), NEW p, NEW i \in DOMAIN h.cells, To(h, p, i), p.length # 0,
           NEW k, CanJoin(h, i, k, i), NEW n, CanPart(Joined(h, i, k, i), i, n, i, k)
    PROVE  GrowView(h, Parted(Joined(h, i, k, i), i, n, i, k), p, i)
<1> DEFINE f == Joined(h, i, k, i)
           g == Parted(f, i, n, i, k)
<1>1. /\ GrowView(h, f, p, i)
      /\ Merged(h, {}) => Merged(f, {i}) /\ UsedAfter(f, i)
  BY EatDoes
<1> HIDE DEF f
<1>2. Tiled(f) /\ CanPart(f, i, n, i, k) /\ i \in DOMAIN f.cells /\ To(f, p, i)
  BY <1>1 DEF GrowView, f
<1>3. Tiled(g) /\ PartView(f, g, i, n, i, k)
  BY <1>2, PartTiled, PartIs
<1>4. NoMore(f, g) /\ \A r : Held(f, r) => Kept(f, g, r)
  BY <1>2, PartKeeps
<1>5. Merged(h, {}) => Merged(g, {i})
  BY <1>1, <1>2, PartMerged
<1> HIDE DEF g
<1>6. i \in DOMAIN g.cells /\ To(g, p, i) /\ g.cells[i].requested # 0 /\ g.blocks = h.blocks
  BY <1>1, <1>2, <1>3 DEF PartView, To, GrowView
<1>7. Merged(h, {}) => Merged(g, {})
  BY <1>5, <1>6, UsedMerged
<1>8. NoMore(h, g)
  BY <1>1, <1>4, KeptTwice DEF GrowView
<1>9. ASSUME NEW r, Held(h, r)
      PROVE  Kept(h, g, r)
  <2>1. Kept(h, f, r) /\ Held(f, r)
    BY <1>1, <1>9 DEF GrowView, Kept
  <2> QED
    BY <1>4, <2>1, KeptTwice
<1>10. GrowView(h, g, p, i)
  BY <1>3, <1>6, <1>7, <1>8, <1>9 DEF GrowView
<1> QED
  BY <1>10 DEF g, f

\* The loop of sec_realloc as a whole.
LEMMA GrowDoes ==
    ASSUME NEW h, Tiled(h), NEW p, Held(h, p), NEW i \in DOMAIN h.cells, To(h, p, i),
           NEW length \in Nat \ {0}, h.cells[i].n_words < Need(length)
    PROVE  GrowView(h, Grow(h, p, length), p, i)
<1> DEFINE b == p.block
           c == h.cells[i]
           N == Need(length)
           missing == N - c.n_words
           after == {y \in After(h.memory[b], c) : h.cells[y].requested = 0}
           k == CHOOSE y \in after : TRUE
           o == h.cells[k]
           whole == missing + WASTE >= o.n_words
           grown == [c EXCEPT !.n_words = @ + (IF whole THEN o.n_words ELSE missing)]
           rest == [o EXCEPT !.words = @ + missing, !.n_words = @ - missing]
           eaten == [h EXCEPT !.cells = Put(Without(h.cells, {k}), i, grown),
                              !.memory[b] = Guarded(@, i, grown)]
           nibbled == [h EXCEPT !.cells = Put(Put(h.cells, k, rest), i, grown),
                                !.memory[b] = Guarded(Guarded(@, k, rest), i, grown)]
<1>1. CellAt(h, p) = i
  BY CellAtIs
<1>2. Grow(h, p, length) = IF after = {} THEN h ELSE IF whole THEN eaten ELSE nibbled
  BY <1>1 DEF Grow
<1>3. /\ c.block = b /\ c \in Cell /\ c.words \in Nat /\ c.n_words \in Nat /\ c.n_words >= 2
      /\ Last(c) = c.words + c.n_words - 1 /\ b \in DOMAIN h.memory
      /\ Words(c.requested) + 2 <= c.n_words /\ Words(c.requested) \in Nat /\ i \in Item
      /\ h.cells \in [DOMAIN h.cells -> Cell]
      /\ h.memory = [y \in DOMAIN h.memory |-> h.memory[y]]
      /\ DOMAIN h.cells \subseteq Item
      /\ h = [blocks |-> h.blocks, cells |-> h.cells, memory |-> h.memory]
  BY CellPlace DEF To, Tiled, Shape
<1>4. after = {y \in DOMAIN h.cells : Adjacent(h, i, y) /\ h.cells[y].requested = 0}
  <2>1. After(h.memory[h.cells[i].block], h.cells[i]) = {y \in DOMAIN h.cells : Adjacent(h, i, y)}
    BY Neighbours
  <2> QED
    BY <1>3, <2>1
<1>5. p.length # 0 /\ N \in Nat /\ N >= 2
  BY WordsEnough DEF Held, Need
<1>6. CASE after = {}
  <2>1. Grow(h, p, length) = h
    BY <1>2, <1>6, Zenon
  <2> QED
    BY <2>1, KeptSame DEF GrowView
<1>7. CASE after # {}
  <2>1. k \in after
    BY <1>7
  <2> HIDE DEF k
  <2>2. k \in DOMAIN h.cells /\ Adjacent(h, i, k) /\ o.requested = 0
    BY <1>4, <2>1
  <2> HIDE DEF after
  <2>3. CanJoin(h, i, k, i)
    BY <2>2 DEF CanJoin
  <2>4. i # k
    BY <2>2, AdjacentFacts
  <2>5. /\ o.block = b /\ o.words = Last(c) + 1 /\ o.words \in Nat /\ o.n_words \in Nat
        /\ o \in Cell /\ Last(o) = o.words + o.n_words - 1 /\ k \in Item /\ o.n_words >= 2
    BY <1>3, <2>2, CellPlace DEF Adjacent
  <2>6. JoinedCell(h, i, k)
          = [block |-> b, words |-> c.words, n_words |-> c.n_words + o.n_words, requested |-> c.requested]
    BY <1>3 DEF JoinedCell
  <2>7. CASE whole
    <3>1. Grow(h, p, length) = eaten
      BY <1>2, <1>7, <2>7
    <3>2. grown = JoinedCell(h, i, k)
      <4>1. grown = [c EXCEPT !.n_words = c.n_words + o.n_words]
        BY <2>7
      <4> HIDE DEF grown
      <4> QED
        BY <1>3, <2>6, <4>1 DEF Cell
    <3> DEFINE f == [h EXCEPT !.cells = Put(Without(h.cells, {k}), i, grown)]
    <3>3. f.memory = h.memory /\ eaten = [f EXCEPT !.memory = [f.memory EXCEPT ![b] = Guarded(f.memory[b], i, grown)]]
      <4>1. f.memory = h.memory
        BY <1>3
      <4> QED
        BY <4>1
    <3> HIDE DEF grown, eaten
    <3>4. eaten = [blocks |-> h.blocks, cells |-> Put(Without(h.cells, {k}), i, grown),
                   memory |-> [h.memory EXCEPT ![b] = Guarded(h.memory[b], i, grown)]]
      <4>1. f = [blocks |-> h.blocks, cells |-> Put(Without(h.cells, {k}), i, grown),
                 memory |-> h.memory]
        BY <1>3
      <4> HIDE DEF f
      <4> QED
        BY <3>3, <4>1
    <3>5. Put(Without(h.cells, {k}), i, grown) = Put(Without(h.cells, {i, k}), i, grown)
      BY <2>4 DEF Put, Without
    <3>6. eaten = Joined(h, i, k, i)
      BY <1>3, <3>2, <3>4, <3>5 DEF Joined
    <3> QED
      BY <1>5, <2>3, <3>1, <3>6, EatDoes
  <2>8. CASE ~whole
    <3> DEFINE f == Joined(h, i, k, i)
    <3>1. Grow(h, p, length) = nibbled
      BY <1>2, <1>7, <2>8
    <3>2. Tiled(f) /\ JoinView(h, f, i, k, i)
      BY <2>3, JoinTiled, JoinIs
    <3>3. missing \in Nat /\ missing + 2 <= o.n_words /\ c.n_words + missing = N
      <4>1. ~(missing + WASTE >= o.n_words) /\ c.n_words < N
        BY <2>8
      <4> HIDE DEF c, o, N
      <4>2. missing \in Nat /\ c.n_words + missing = N
        BY <1>3, <1>5, <4>1
      <4> HIDE DEF missing
      <4> QED
        BY <2>5, <4>1, <4>2, LengthAssumption
    <3> HIDE DEF N
    <3>4. grown = [block |-> b, words |-> c.words, n_words |-> N, requested |-> c.requested]
      <4>1. grown = [c EXCEPT !.n_words = c.n_words + missing]
        BY <2>8
      <4> HIDE DEF grown, missing
      <4> QED
        BY <1>3, <3>3, <4>1 DEF Cell
    <3>5. rest = [block |-> b, words |-> o.words + missing, n_words |-> o.n_words - missing, requested |-> 0]
      <4> DEFINE r == [o EXCEPT !.words = o.words + missing]
      <4>1. /\ r = [block |-> b, words |-> o.words + missing, n_words |-> o.n_words, requested |-> 0]
            /\ r.n_words = o.n_words
        BY <2>2, <2>5 DEF Cell
      <4>2. rest = [r EXCEPT !.n_words = r.n_words - missing]
        OBVIOUS
      <4> HIDE DEF r, rest
      <4> QED
        BY <4>1, <4>2
    <3> HIDE DEF grown, rest, missing, f, c, o
    <3>6. /\ f.blocks = h.blocks /\ DOMAIN f.cells = DOMAIN h.cells \ {k}
          /\ f.cells[i].block = b /\ f.cells[i].words = c.words
          /\ f.cells[i].n_words = c.n_words + o.n_words
          /\ f.cells[i].requested = c.requested
          /\ Last(f.cells[i]) = Last(o)
          /\ \A y \in DOMAIN h.cells \ {i, k} : f.cells[y] = h.cells[y]
      BY <1>3, <2>4, <3>2 DEF JoinView, c, o
    <3>7. CanPart(f, i, N, i, k)
      <4>1. N + 2 <= f.cells[i].n_words /\ Words(c.requested) + 2 <= N
        BY <1>3, <1>5, <2>5, <3>3, <3>6
      <4> QED
        BY <1>3, <1>5, <2>4, <2>5, <3>6, <4>1 DEF CanPart
    <3>8. FirstCell(f, i, N) = grown
      BY <3>4, <3>6 DEF FirstCell
    <3>9. RestCell(f, i, N) = rest
      <4>1. c.words + N = o.words + missing /\ (c.n_words + o.n_words) - N = o.n_words - missing
        BY <1>3, <1>5, <2>5, <3>3
      <4>2. RestCell(f, i, N) = [block |-> b, words |-> c.words + N,
                                 n_words |-> (c.n_words + o.n_words) - N, requested |-> 0]
        BY <3>6 DEF RestCell
      <4> QED
        BY <3>5, <4>1, <4>2
    <3> DEFINE cs == Put(Put(h.cells, k, rest), i, grown)
               m == Guarded(Guarded(h.memory[b], k, rest), i, grown)
               m1 == Guarded(Guarded(f.memory[b], i, grown), k, rest)
    <3>10. nibbled = [blocks |-> h.blocks, cells |-> cs, memory |-> [h.memory EXCEPT ![b] = m]]
      <4> DEFINE e == [h EXCEPT !.cells = cs]
      <4>1. e.memory = h.memory
        BY <1>3
      <4>2. nibbled = [e EXCEPT !.memory = [h.memory EXCEPT ![b] = m]]
        BY <4>1
      <4> HIDE DEF nibbled, cs, m
      <4>3. e = [blocks |-> h.blocks, cells |-> cs, memory |-> h.memory]
        BY <1>3
      <4> HIDE DEF e
      <4> QED
        BY <4>2, <4>3
    <3> HIDE DEF nibbled
    <3>11. Parted(f, i, N, i, k)
             = [blocks |-> h.blocks,
                cells |-> Put(Put(Without(f.cells, {i}), k, rest), i, grown),
                memory |-> [f.memory EXCEPT ![b] = m1]]
      BY <3>6, <3>8, <3>9 DEF Parted
    <3>12. Put(Put(Without(f.cells, {i}), k, rest), i, grown) = cs
      <4>1. Put(Put(Without(f.cells, {i}), k, rest), i, grown)
              = [y \in DOMAIN h.cells |-> IF y = i THEN grown ELSE IF y = k THEN rest ELSE h.cells[y]]
        BY <2>2, <2>4, <3>6 DEF Put, Without
      <4>2. cs = [y \in DOMAIN h.cells |-> IF y = i THEN grown ELSE IF y = k THEN rest ELSE h.cells[y]]
        BY <2>2, <2>4 DEF Put
      <4> QED
        BY <4>1, <4>2
    <3>13. m1 = m
      <4>1. /\ DOMAIN f.memory[b] = DOMAIN h.memory[b]
            /\ \A w \in DOMAIN h.memory[b] :
                  f.memory[b][w] = IF w = c.words \/ w = Last(o) THEN i ELSE h.memory[b][w]
        BY <1>3, <3>2 DEF JoinView, c, o
      <4>2. /\ grown.words = c.words /\ Last(grown) = c.words + N - 1
            /\ rest.words = c.words + N /\ Last(rest) = Last(o)
        <5>1. grown.words = c.words /\ grown.n_words = N
          BY <3>4
        <5>2. rest.words = o.words + missing /\ rest.n_words = o.n_words - missing
          BY <3>5
        <5>3. Last(grown) = c.words + N - 1
          BY <5>1 DEF Last
        <5>4. Last(rest) = rest.words + rest.n_words - 1
          BY DEF Last
        <5> QED
          BY <1>3, <1>5, <2>5, <3>3, <5>1, <5>2, <5>3, <5>4
      <4>3. /\ c.words # c.words + N - 1 /\ c.words # c.words + N /\ c.words # Last(o)
            /\ c.words + N - 1 # c.words + N /\ c.words + N - 1 # Last(o)
            /\ c.words + N # Last(o)
        BY <1>3, <1>5, <2>5, <3>3
      <4>4. h.memory[b] = [w \in DOMAIN h.memory[b] |-> h.memory[b][w]]
            /\ f.memory[b] = [w \in DOMAIN h.memory[b] |-> f.memory[b][w]]
        <5>1. h.memory[b] \in [0..(h.blocks[b].n_words - 1) -> Content]
          BY <1>3 DEF Tiled, Shape
        <5>2. f.memory[b] \in [0..(f.blocks[b].n_words - 1) -> Content]
          BY <1>3, <3>2 DEF Tiled, Shape, JoinView
        <5>3. DOMAIN f.memory[b] = DOMAIN h.memory[b]
          BY <4>1
        <5> QED
          BY <5>1, <5>2, <5>3
      <4> DEFINE P == c.words
                 Q == c.words + N - 1
                 R == c.words + N
                 S == Last(o)
                 hm == h.memory[b]
                 fm == f.memory[b]
      <4>5. m = [[[[hm EXCEPT ![R] = k] EXCEPT ![S] = k] EXCEPT ![P] = i] EXCEPT ![Q] = i]
        BY <4>2 DEF Guarded
      <4>6. m1 = [[[[fm EXCEPT ![P] = i] EXCEPT ![Q] = i] EXCEPT ![R] = k] EXCEPT ![S] = k]
        BY <4>2 DEF Guarded
      <4> HIDE DEF m, m1, P, Q, R, S, hm, fm
      <4>7. /\ P # Q /\ P # R /\ P # S /\ Q # R /\ Q # S /\ R # S
            /\ DOMAIN fm = DOMAIN hm
            /\ \A w \in DOMAIN hm : fm[w] = IF w = P \/ w = S THEN i ELSE hm[w]
            /\ hm = [w \in DOMAIN hm |-> hm[w]] /\ fm = [w \in DOMAIN hm |-> fm[w]]
        BY <4>1, <4>3, <4>4 DEF P, Q, R, S, hm, fm
      <4>8. m = [w \in DOMAIN hm |-> IF w = R \/ w = S THEN k ELSE IF w = P \/ w = Q THEN i ELSE hm[w]]
        BY <4>5, <4>7
      <4>9. m1 = [w \in DOMAIN hm |-> IF w = R \/ w = S THEN k ELSE IF w = P \/ w = Q THEN i ELSE hm[w]]
        BY <4>6, <4>7
      <4> QED
        BY <4>8, <4>9
    <3>14. [f.memory EXCEPT ![b] = m1] = [h.memory EXCEPT ![b] = m]
      <4>1. /\ DOMAIN f.memory = DOMAIN h.memory
            /\ \A d \in DOMAIN h.memory : d # b => f.memory[d] = h.memory[d]
        BY <1>3, <3>2 DEF JoinView, c
      <4>2. f.memory = [y \in DOMAIN f.memory |-> f.memory[y]]
        BY <3>2 DEF Tiled, Shape
      <4> HIDE DEF m, m1
      <4> QED
        BY <1>3, <3>13, <4>1, <4>2
    <3>15. nibbled = Parted(f, i, N, i, k)
      <4> HIDE DEF m, m1, cs
      <4> QED
        BY <3>10, <3>11, <3>12, <3>14
    <3> QED
      BY <1>5, <2>3, <3>1, <3>7, <3>15, NibbleDoes DEF f
  <2> QED
    BY <2>7, <2>8
<1> QED
  BY <1>6, <1>7

-----------------------------------------------------------------------------
(* sec_realloc.                                                            *)

\* The allocation p has become q.
ReallocView(h, g, p, q, length) ==
    /\ Tiled(g)
    /\ Merged(h, {}) => Merged(g, {})
    /\ Held(g, q) /\ q.length = length /\ q.block = p.block
    /\ \A r : Held(h, r) /\ Distinct(p, r) => Kept(h, g, r) /\ Distinct(q, r)
    /\ DOMAIN g.blocks = DOMAIN h.blocks
    /\ \A b \in BlockId : Used(g, b) = Used(h, b)
    /\ Carried(h, g, p, q)
    /\ Only(h, g, p, q)

\* In place, in a cell that may have grown: of the words of p the ones that are
\* in q as well are left alone and the others cleared.
LEMMA InPlace ==
    ASSUME NEW h, Tiled(h), NEW g, NEW p, Held(h, p), NEW i, GrowView(h, g, p, i),
           NEW length, NEW m, CanRewrite(g, p, i, length, m),
           \A w \in DOMAIN g.memory[p.block] :
              /\ m[w] \in Client => /\ m[w] = g.memory[p.block][w]
                                    /\ w \in Extent(p) => w \in Extent(Longer(p, length))
              /\ w \in Extent(p) /\ w \in Extent(Longer(p, length)) => m[w] = g.memory[p.block][w]
    PROVE  ReallocView(h, Rewritten(g, i, length, m), p, Longer(p, length), length)
<1> DEFINE f == Rewritten(g, i, length, m)
           q == Longer(p, length)
           b == p.block
<1>1. /\ Tiled(g) /\ NoMore(h, g) /\ g.blocks = h.blocks /\ i \in DOMAIN g.cells /\ To(g, p, i)
      /\ \A r : Held(h, r) => Kept(h, g, r)
      /\ Merged(h, {}) => Merged(g, {})
  BY DEF GrowView
<1>2. RewriteView(g, f, p, q, m)
  BY <1>1, RewriteDoes
<1>3. p \in Ptr /\ length \in Nat \ {0} /\ DOMAIN m = DOMAIN g.memory[b]
  BY DEF CanRewrite
<1>4. q.block = b /\ q.word = p.word /\ q.length = length
  BY <1>3 DEF Longer, Ptr
<1> HIDE DEF f, q
<1>5. Kept(h, g, p)
  BY <1>1
<1>6. ASSUME NEW r, Held(h, r), Distinct(p, r)
      PROVE  Kept(h, f, r) /\ Distinct(q, r)
  <2>1. Kept(h, g, r) /\ Held(g, r)
    BY <1>1, <1>6 DEF Kept
  <2>2. Kept(g, f, r)
    BY <1>2, <1>6, <2>1 DEF RewriteView
  <2> QED
    BY <1>4, <1>6, <2>1, <2>2, KeptTwice DEF Distinct
<1>7. Held(f, q) /\ Tiled(f) /\ f.blocks = h.blocks /\ f.memory[b] = m
  BY <1>1, <1>2 DEF RewriteView
<1>8. /\ p.word \in Nat /\ Words(p.length) \in Nat
      /\ \A w \in Int : w \in Extent(p) <=> p.word <= w /\ w < p.word + Words(p.length)
  BY <1>1, ExtentIs
<1>9. PICK j \in DOMAIN f.cells : To(f, q, j)
  BY <1>7 DEF Held
<1>10. /\ Words(q.length) \in Nat
       /\ \A w \in Int : w \in Extent(q) <=> q.word <= w /\ w < q.word + Words(q.length)
  BY <1>7, <1>9, ExtentIs
<1>11. Carried(h, f, p, q)
  <2>1. ASSUME NEW k \in Nat, k < Words(p.length), k < Words(q.length)
        PROVE  f.memory[q.block][q.word + k] = h.memory[p.block][p.word + k]
    <3>1. p.word + k \in Int /\ p.word <= p.word + k /\ p.word + k < p.word + Words(p.length)
          /\ p.word + k < p.word + Words(q.length)
      BY <1>8, <1>10, <2>1
    <3>2. p.word + k \in Extent(p) /\ p.word + k \in Extent(q)
      BY <1>4, <1>8, <1>10, <3>1
    <3>3. p.word + k \in DOMAIN g.memory[b]
      BY <1>1, <3>2, ExtentFacts
    <3>4. m[p.word + k] = g.memory[b][p.word + k]
      BY <3>2, <3>3 DEF q
    <3>5. g.memory[b][p.word + k] = h.memory[b][p.word + k]
      BY <1>5, <3>2 DEF Kept
    <3> QED
      BY <1>4, <1>7, <3>4, <3>5
  <2> QED
    BY <2>1 DEF Carried
<1>12. Only(h, f, p, q)
  <2>1. ASSUME NEW d \in DOMAIN f.memory, NEW w \in DOMAIN f.memory[d], f.memory[d][w] \in Client
        PROVE  \/ /\ d \in DOMAIN h.memory /\ w \in DOMAIN h.memory[d]
                  /\ f.memory[d][w] = h.memory[d][w]
                  /\ ~(d = p.block /\ w \in Extent(p))
               \/ /\ d = q.block /\ w \in Extent(q)
                  /\ \E v \in Extent(p) : f.memory[d][w] = h.memory[p.block][v]
    <3>1. d \in DOMAIN g.memory
      BY <1>2, <2>1 DEF RewriteView
    <3>2. w \in DOMAIN g.memory[d] /\ f.memory[d][w] = g.memory[d][w]
          /\ (d = b /\ w \in Extent(p) => w \in Extent(q))
      <4>1. CASE d = b
        <5>1. w \in DOMAIN g.memory[b] /\ m[w] \in Client
          BY <1>3, <1>7, <2>1, <4>1
        <5> QED
          BY <1>7, <4>1, <5>1 DEF q
      <4>2. CASE d # b
        BY <1>2, <2>1, <3>1, <4>2 DEF RewriteView
      <4> QED
        BY <4>1, <4>2
    <3>3. d \in DOMAIN h.memory /\ w \in DOMAIN h.memory[d] /\ g.memory[d][w] = h.memory[d][w]
      BY <1>1, <2>1, <3>1, <3>2 DEF NoMore
    <3>4. CASE d = b /\ w \in Extent(p)
      <4>1. w \in Extent(q) /\ f.memory[d][w] = h.memory[p.block][w]
        BY <3>2, <3>3, <3>4
      <4> QED
        BY <1>4, <3>4, <4>1
    <3>5. CASE ~(d = b /\ w \in Extent(p))
      BY <3>2, <3>3, <3>5
    <3> QED
      BY <3>4, <3>5
  <2> QED
    BY <2>1 DEF Only
<1>13. Merged(h, {}) => Merged(f, {})
  BY <1>1, <1>2 DEF RewriteView
<1>14. \A d \in BlockId : Used(f, d) = Used(h, d)
  BY <1>7 DEF Used
<1>15. ReallocView(h, f, p, q, length)
  BY <1>4, <1>6, <1>7, <1>11, <1>12, <1>13, <1>14 DEF ReallocView
<1> QED
  BY <1>15 DEF f, q

\* sec_realloc where the cell is long enough.
LEMMA ResizeDoes ==
    ASSUME NEW h, Tiled(h), NEW p, Held(h, p), NEW i \in DOMAIN h.cells, To(h, p, i),
           NEW length \in Nat \ {0}, Need(length) <= h.cells[i].n_words
    PROVE  ReallocView(h, Resize(h, p, length), p, Longer(p, length), length)
<1> DEFINE b == p.block
           o == h.memory[b]
           n == Words(length)
           N == Words(p.length)
           e == Fill(o, p.word + n, N - n, Zero)
           m == IF length < p.length THEN e ELSE o
           q == Longer(p, length)
<1>1. CellAt(h, p) = i /\ h.cells[i].requested = p.length /\ h.cells[i].block = b
  BY CellAtIs DEF To
<1>2. Resize(h, p, length) = Rewritten(h, i, length, m)
  <2> DEFINE f == [h EXCEPT !.cells = [h.cells EXCEPT ![i] = [h.cells[i] EXCEPT !.requested = length]]]
  <2>1. h = [blocks |-> h.blocks, cells |-> h.cells, memory |-> h.memory]
    BY DEF Tiled, Shape
  <2>2. f.memory = h.memory
    BY <2>1
  <2>3. Rewritten(h, i, length, m) = [f EXCEPT !.memory = [f.memory EXCEPT ![b] = m]]
    BY <1>1 DEF Rewritten
  <2>4. Resize(h, p, length)
          = [f EXCEPT !.memory = [f.memory EXCEPT ![b] =
                IF length < p.length THEN Fill(f.memory[b], p.word + n, N - n, Zero) ELSE f.memory[b]]]
    BY <1>1 DEF Resize
  <2> HIDE DEF f, n, N
  <2> QED
    BY <2>2, <2>3, <2>4
<1>3. /\ p.word \in Nat /\ N \in Nat
      /\ h.cells[i].words < p.word /\ p.word + N <= Last(h.cells[i])
      /\ b \in DOMAIN h.memory
      /\ \A w \in Int : w \in Extent(p) <=> p.word <= w /\ w < p.word + N
  BY ExtentIs
<1>4. p \in Ptr /\ p.length \in Nat \ {0}
  BY DEF Held, Ptr
<1>5. n \in Nat /\ n + 2 <= h.cells[i].n_words
  BY WordsEnough DEF Need
<1>6. /\ length < p.length => n <= N
      /\ ~(length < p.length) => N <= n
  BY <1>4, WordsEnough
<1>7. q.block = b /\ q.word = p.word /\ q.length = length
  BY <1>4 DEF Longer, Ptr
<1>8. \A w \in Int : w \in Extent(q) <=> p.word <= w /\ w < p.word + n
  <2> HIDE DEF q
  <2> QED
    BY <1>3, <1>5, <1>7 DEF Extent
<1>9. Zero \in Content /\ Zero \notin Client
  BY ContentsAssumption DEF Content
<1>10. \A w \in DOMAIN o : w \in Int
  BY <1>1, CellMemory
<1> HIDE DEF n, N, m, q, e, o
<1>11. o \in [DOMAIN o -> Content]
  BY <1>3 DEF Tiled, Shape, o
<1>12. ASSUME length < p.length
       PROVE  FillView(h, i, e, p.word + n, N - n, Zero)
  <2>1. /\ p.word + n \in Nat /\ N - n \in Int /\ h.cells[i].words < p.word + n
        /\ (p.word + n) + (N - n) <= Last(h.cells[i])
    <3>1. h.cells[i].words \in Int
      BY CellPlace
    <3>2. (p.word + n) + (N - n) = p.word + N
      BY <1>3, <1>5
    <3> QED
      BY <1>3, <1>5, <3>1, <3>2
  <2>2. FillView(h, i, Fill(h.memory[h.cells[i].block], p.word + n, N - n, Zero), p.word + n, N - n, Zero)
    BY <1>9, <2>1, FillIs
  <2> QED
    BY <1>1, <2>2 DEF e, o
<1>13. /\ m \in [DOMAIN o -> Content]
       /\ \A w \in DOMAIN o : w < p.word \/ Last(h.cells[i]) <= w => m[w] = o[w]
       /\ \A w \in DOMAIN o : m[w] \in Client => m[w] = o[w] /\ (w \in Extent(p) => w \in Extent(q))
       /\ \A w \in DOMAIN o : w \in Extent(p) /\ w \in Extent(q) => m[w] = o[w]
  <2>1. CASE ~(length < p.length)
    <3>1. m = o
      BY <2>1 DEF m
    <3>2. ASSUME NEW w \in DOMAIN o, w \in Extent(p)
          PROVE  w \in Extent(q)
      <4>1. w \in Int
        BY <1>10
      <4>2. p.word <= w /\ w < p.word + N
        BY <1>3, <3>2, <4>1
      <4>3. w < p.word + n
        BY <1>3, <1>5, <1>6, <2>1, <4>1, <4>2
      <4> QED
        BY <1>8, <4>1, <4>2, <4>3
    <3> QED
      BY <1>11, <3>1, <3>2
  <2>2. CASE length < p.length
    <3>1. m = e
      BY <2>2 DEF m
    <3>2. e \in [DOMAIN o -> Content]
      BY <1>1, <1>12, <2>2 DEF FillView, o
    <3>3. ASSUME NEW w \in DOMAIN o
          PROVE  /\ p.word + n <= w /\ w < p.word + N => e[w] = Zero
                 /\ ~(p.word + n <= w /\ w < p.word + N) => e[w] = o[w]
      <4>1. e[w] = IF p.word + n <= w /\ w < (p.word + n) + (N - n) THEN Zero ELSE o[w]
        BY <1>1, <1>12, <2>2 DEF FillView, o
      <4>2. (p.word + n) + (N - n) = p.word + N
        BY <1>3, <1>5
      <4> QED
        BY <4>1, <4>2
    <3>4. ASSUME NEW w \in DOMAIN o
          PROVE  /\ w < p.word \/ Last(h.cells[i]) <= w => e[w] = o[w]
                 /\ w \in Extent(q) => e[w] = o[w]
                 /\ w \in Extent(p) => w \in Extent(q) \/ e[w] = Zero
                 /\ e[w] \in Client => e[w] = o[w]
      <4>1. w \in Int
        BY <1>10
      <4>2. Last(h.cells[i]) \in Int
        BY CellPlace
      <4>3. w < p.word \/ Last(h.cells[i]) <= w => ~(p.word + n <= w /\ w < p.word + N)
        BY <1>3, <1>5, <4>1, <4>2
      <4>4. w \in Extent(q) => ~(p.word + n <= w /\ w < p.word + N)
        BY <1>3, <1>5, <1>8, <4>1
      <4>5. w \in Extent(p) => w \in Extent(q) \/ (p.word + n <= w /\ w < p.word + N)
        BY <1>3, <1>5, <1>8, <4>1
      <4> QED
        BY <1>9, <3>3, <4>3, <4>4, <4>5
    <3> QED
      BY <1>9, <3>1, <3>2, <3>4
  <2> QED
    BY <2>1, <2>2
<1>14. CanRewrite(h, p, i, length, m)
  BY <1>4, <1>5, <1>13 DEF CanRewrite, o, n
<1>15. GrowView(h, h, p, i)
  BY KeptSame DEF GrowView
<1>16. ReallocView(h, Rewritten(h, i, length, m), p, Longer(p, length), length)
  BY <1>13, <1>14, <1>15, InPlace DEF q, o
<1> QED
  BY <1>2, <1>16

\* sec_realloc where the cell has grown to be long enough.
Extended(g, p, i, length) ==
    Rewritten(g, i, length,
              Fill(g.memory[p.block], p.word + Words(p.length), Words(length) - Words(p.length), Zero))

\* The length asked for fits into the grown cell.
LEMMA ExtendDoes ==
    ASSUME NEW h, Tiled(h), NEW p, Held(h, p), NEW g, NEW i, GrowView(h, g, p, i),
           NEW length \in Nat \ {0}, Need(length) <= g.cells[i].n_words,
           Words(p.length) <= Words(length)
    PROVE  ReallocView(h, Extended(g, p, i, length), p, Longer(p, length), length)
<1> DEFINE b == p.block
           o == g.memory[b]
           n == Words(length)
           N == Words(p.length)
           m == Fill(o, p.word + N, n - N, Zero)
           q == Longer(p, length)
<1>1. Tiled(g) /\ i \in DOMAIN g.cells /\ To(g, p, i) /\ g.cells[i].block = b
  BY DEF GrowView, To
<1>2. /\ p.word \in Nat /\ N \in Nat
      /\ g.cells[i].words < p.word /\ p.word + N <= Last(g.cells[i])
      /\ b \in DOMAIN g.memory
      /\ \A w \in Int : w \in Extent(p) <=> p.word <= w /\ w < p.word + N
  BY <1>1, ExtentIs
<1>3. p \in Ptr /\ p.length \in Nat \ {0}
  BY DEF Held, Ptr
<1>4. n \in Nat /\ n + 2 <= g.cells[i].n_words /\ N <= n
  BY WordsEnough DEF Need
<1>5. q.block = b /\ q.word = p.word /\ q.length = length
  BY <1>3 DEF Longer, Ptr
<1>6. \A w \in Int : w \in Extent(q) <=> p.word <= w /\ w < p.word + n
  <2> HIDE DEF q
  <2> QED
    BY <1>2, <1>4, <1>5 DEF Extent
<1>7. Zero \in Content /\ Zero \notin Client
  BY ContentsAssumption DEF Content
<1>8. \A w \in DOMAIN o : w \in Int
  BY <1>1, CellMemory
<1> HIDE DEF n, N, m, q
<1>9. /\ g.cells[i].words \in Nat /\ g.cells[i].n_words \in Nat
      /\ Last(g.cells[i]) = g.cells[i].words + g.cells[i].n_words - 1
      /\ p.word = g.cells[i].words + 1
  BY <1>1, CellPlace DEF To
<1>10. (p.word + N) + (n - N) = p.word + n
  BY <1>2, <1>4
<1>11. FillView(g, i, m, p.word + N, n - N, Zero)
  <2>1. /\ p.word + N \in Nat /\ n - N \in Int /\ g.cells[i].words < p.word + N
        /\ (p.word + N) + (n - N) <= Last(g.cells[i])
    BY <1>2, <1>4, <1>9, <1>10
  <2>2. FillView(g, i, Fill(g.memory[g.cells[i].block], p.word + N, n - N, Zero), p.word + N, n - N, Zero)
    BY <1>1, <1>7, <2>1, FillIs
  <2> QED
    BY <1>1, <2>2 DEF m
<1> HIDE DEF o
<1>12. /\ m \in [DOMAIN o -> Content]
       /\ \A w \in DOMAIN o : m[w] = IF p.word + N <= w /\ w < p.word + n THEN Zero ELSE o[w]
  BY <1>1, <1>10, <1>11 DEF FillView, o
<1>13. ASSUME NEW w \in DOMAIN o
       PROVE  /\ w < p.word \/ Last(g.cells[i]) <= w => m[w] = o[w]
              /\ m[w] \in Client => m[w] = o[w] /\ (w \in Extent(p) => w \in Extent(q))
              /\ w \in Extent(p) /\ w \in Extent(q) => m[w] = o[w]
  <2>1. w \in Int
    BY <1>8 DEF o
  <2>2. w < p.word \/ Last(g.cells[i]) <= w => ~(p.word + N <= w /\ w < p.word + n)
    BY <1>2, <1>4, <1>9, <2>1
  <2>3. w \in Extent(p) => ~(p.word + N <= w /\ w < p.word + n) /\ w \in Extent(q)
    BY <1>2, <1>4, <1>6, <2>1
  <2> QED
    BY <1>7, <1>12, <2>2, <2>3
<1>14. CanRewrite(g, p, i, length, m)
  BY <1>1, <1>3, <1>4, <1>12, <1>13 DEF CanRewrite, o, n
<1>15. ReallocView(h, Rewritten(g, i, length, m), p, Longer(p, length), length)
  BY <1>13, <1>14, InPlace DEF q, o
<1> QED
  BY <1>15 DEF Extended, m, o, n, N

\* sec_realloc to another cell of the block.
LEMMA ElsewhereDoes ==
    ASSUME NEW h, Tiled(h), NEW p, Held(h, p), NEW g, NEW i, GrowView(h, g, p, i),
           NEW length \in Nat \ {0}, Words(p.length) <= Words(length),
           NEW f, NEW q, AllocView(g, f, p.block, q, length)
    PROVE  ReallocView(h, SecFree(CopiedTo(f, p, q), p), p, q, length)
<1> DEFINE e == SecFree(CopiedTo(f, p, q), p)
<1>1. /\ Tiled(g) /\ NoMore(h, g) /\ g.blocks = h.blocks
      /\ \A r : Held(h, r) => Kept(h, g, r)
      /\ Merged(h, {}) => Merged(g, {})
  BY DEF GrowView
<1>2. /\ Tiled(f) /\ NoMore(g, f) /\ Held(f, q) /\ q.block = p.block /\ q.length = length
      /\ \A r : Held(g, r) => Kept(g, f, r) /\ Distinct(q, r)
      /\ Merged(g, {}) => Merged(f, {})
      /\ DOMAIN f.blocks = DOMAIN g.blocks
      /\ f.blocks[p.block].n_used = g.blocks[p.block].n_used + 1
  BY DEF AllocView
<1>3. ASSUME NEW r, Held(h, r)
      PROVE  Kept(h, f, r) /\ Distinct(q, r)
  <2>1. Kept(h, g, r) /\ Held(g, r)
    BY <1>1, <1>3 DEF Kept
  <2> QED
    BY <1>2, <2>1, KeptTwice
<1>4. Held(f, p) /\ Distinct(p, q)
  BY <1>3 DEF Kept, Distinct
<1>5. FullView(g, f, q, length)
  BY <1>1, BlockFull
<1>6. InBlock(q)
  BY <1>2, HeldInBlock
<1>7. f.blocks[p.block].n_used > 0
  <2>1. p.block \in DOMAIN h.blocks
    BY HeldInBlock
  <2>2. g.blocks[p.block].n_used \in Nat
    BY <1>1, <2>1 DEF Tiled, Shape, Block
  <2> QED
    BY <1>2, <2>2
<1>8. MoveView(f, e, p, q)
  BY <1>2, <1>4, <1>7, MoveDoes
<1> HIDE DEF e
<1>9. ASSUME NEW r, Held(h, r), Distinct(p, r)
      PROVE  Kept(h, e, r) /\ Distinct(q, r)
  <2>1. Kept(h, f, r) /\ Distinct(q, r) /\ Held(f, r)
    BY <1>3, <1>9 DEF Kept
  <2>2. Kept(f, e, r)
    BY <1>8, <1>9, <2>1 DEF MoveView
  <2> QED
    BY <2>1, <2>2, KeptTwice
<1>10. ASSUME NEW d \in BlockId
       PROVE  Used(e, d) = Used(h, d)
  <2>1. Used(h, d) \in Nat /\ Used(g, d) = Used(h, d)
    BY <1>1, UsedType DEF Used
  <2>2. Used(f, d) = Used(g, d) + IF p.block = d THEN 1 ELSE 0
    BY <1>2, <1>5, <1>6 DEF FullView
  <2>3. Used(e, d) = Used(f, d) - IF p.block = d THEN 1 ELSE 0
    BY <1>8 DEF MoveView
  <2> QED
    BY <2>1, <2>2, <2>3
<1>11. Kept(h, f, p)
  BY <1>3
<1>12. PICK j \in DOMAIN h.cells : To(h, p, j)
  BY DEF Held
<1>13. /\ p.word \in Nat /\ Words(p.length) \in Nat
       /\ \A w \in Int : w \in Extent(p) <=> p.word <= w /\ w < p.word + Words(p.length)
  BY <1>12, ExtentIs
<1>14. Carried(h, e, p, q)
  <2>1. ASSUME NEW k \in Nat, k < Words(p.length), k < Words(q.length)
        PROVE  e.memory[q.block][q.word + k] = h.memory[p.block][p.word + k]
    <3>1. e.memory[q.block][q.word + k] = f.memory[p.block][p.word + k]
      BY <1>8, <2>1 DEF MoveView, Carried
    <3>2. p.word + k \in Int /\ p.word <= p.word + k /\ p.word + k < p.word + Words(p.length)
      BY <1>13, <2>1
    <3>3. p.word + k \in Extent(p)
      BY <1>13, <3>2
    <3> QED
      BY <1>11, <3>1, <3>3 DEF Kept
  <2> QED
    BY <2>1 DEF Carried
<1>15. Only(h, e, p, q)
  <2>1. NoMore(h, f)
    BY <1>1, <1>2, KeptTwice
  <2>2. ASSUME NEW d \in DOMAIN e.memory, NEW w \in DOMAIN e.memory[d], e.memory[d][w] \in Client
        PROVE  \/ /\ d \in DOMAIN h.memory /\ w \in DOMAIN h.memory[d]
                  /\ e.memory[d][w] = h.memory[d][w]
                  /\ ~(d = p.block /\ w \in Extent(p))
               \/ /\ d = q.block /\ w \in Extent(q)
                  /\ \E v \in Extent(p) : e.memory[d][w] = h.memory[p.block][v]
    <3>1. \/ /\ d \in DOMAIN f.memory /\ w \in DOMAIN f.memory[d]
             /\ e.memory[d][w] = f.memory[d][w]
             /\ ~(d = p.block /\ w \in Extent(p))
          \/ /\ d = q.block /\ w \in Extent(q)
             /\ \E v \in Extent(p) : e.memory[d][w] = f.memory[p.block][v]
      BY <1>8, <2>2 DEF MoveView, Only
    <3>2. CASE /\ d \in DOMAIN f.memory /\ w \in DOMAIN f.memory[d]
               /\ e.memory[d][w] = f.memory[d][w]
               /\ ~(d = p.block /\ w \in Extent(p))
      BY <2>1, <2>2, <3>2 DEF NoMore
    <3>3. CASE /\ d = q.block /\ w \in Extent(q)
               /\ \E v \in Extent(p) : e.memory[d][w] = f.memory[p.block][v]
      BY <1>11, <3>3 DEF Kept
    <3> QED
      BY <3>1, <3>2, <3>3
  <2> QED
    BY <2>2 DEF Only
<1>16. /\ Tiled(e) /\ Held(e, q) /\ DOMAIN e.blocks = DOMAIN h.blocks
       /\ Merged(h, {}) => Merged(e, {})
  BY <1>1, <1>2, <1>8 DEF MoveView
<1>17. ReallocView(h, e, p, q, length)
  BY <1>2, <1>9, <1>10, <1>14, <1>15, <1>16 DEF ReallocView
<1> QED
  BY <1>17 DEF e

\* No room: the cell may have grown, and that is all.
RefusedView(h, g, p, length) ==
    /\ Tiled(g)
    /\ Merged(h, {}) => Merged(g, {})
    /\ g.blocks = h.blocks
    /\ NoMore(h, g)
    /\ \A r : Held(h, r) => Kept(h, g, r)
    /\ Words(p.length) < Words(length)

\* sec_realloc as a whole.
LEMMA SecReallocDoes ==
    ASSUME NEW h, Tiled(h), NEW p, Held(h, p), NEW length \in Nat \ {0},
           NEW a \in SecRealloc(h, p, length)
    PROVE  \/ a.ptr = NoPtr /\ RefusedView(h, a.heap, p, length)
           \/ a.ptr # NoPtr /\ ReallocView(h, a.heap, p, a.ptr, length)
<1>1. PICK i \in DOMAIN h.cells : To(h, p, i)
  BY DEF Held
<1>2. /\ CellAt(h, p) = i /\ h.cells[i].requested = p.length /\ p \in Ptr /\ p.length # 0
      /\ Words(p.length) + 2 <= h.cells[i].n_words /\ h.cells[i].n_words \in Nat
      /\ Words(p.length) \in Nat
  BY <1>1, CellAtIs, CellPlace DEF To, Held
<1>3. Words(length) \in Nat /\ Need(length) = Words(length) + 2
  BY WordsEnough DEF Need
<1> DEFINE b == p.block
           g == Grow(h, p, length)
           q == [p EXCEPT !.length = length]
           extended == [g EXCEPT !.cells[i].requested = length,
                                 !.memory[b] = Fill(@, p.word + Words(p.length),
                                                    Words(length) - Words(p.length), Zero)]
           Moved(x) ==
               [heap |-> SecFree([x.heap EXCEPT !.memory[b] =
                            Copied(@, x.ptr.word, Words(p.length), @, p.word)], p),
                ptr |-> x.ptr]
<1>4. \/ Need(length) <= h.cells[i].n_words /\ a = [heap |-> Resize(h, p, length), ptr |-> q]
      \/ /\ ~(Need(length) <= h.cells[i].n_words)
         /\ \/ Need(length) <= g.cells[i].n_words /\ a = [heap |-> extended, ptr |-> q]
            \/ \E x \in SecAlloc(g, b, length) : a = Moved(x)
            \/ a = [heap |-> g, ptr |-> NoPtr]
  BY <1>2, Zenon DEF SecRealloc
<1>5. q = Longer(p, length) /\ q \in Ptr /\ q # NoPtr
  <2>1. q = Longer(p, length)
    BY DEF Longer
  <2>2. q \in Ptr
    BY <1>2 DEF Ptr
  <2> QED
    BY <2>1, <2>2, ContentsAssumption DEF Ptr
<1> HIDE DEF q
<1>6. CASE Need(length) <= h.cells[i].n_words /\ a = [heap |-> Resize(h, p, length), ptr |-> q]
  <2>1. ReallocView(h, Resize(h, p, length), p, Longer(p, length), length)
    BY <1>1, <1>6, ResizeDoes
  <2> QED
    BY <1>5, <1>6, <2>1
<1>7. CASE ~(Need(length) <= h.cells[i].n_words)
  <2>1. h.cells[i].n_words < Need(length)
    BY <1>2, <1>3, <1>7
  <2>2. GrowView(h, g, p, i)
    BY <1>1, <2>1, GrowDoes
  <2>3. Words(p.length) < Words(length) /\ Words(p.length) <= Words(length)
    BY <1>2, <1>3, <2>1
  <2> HIDE DEF g
  <2>4. Tiled(g) /\ g.cells[i].block = b
    BY <2>2 DEF GrowView, To
  <2>5. CASE Need(length) <= g.cells[i].n_words /\ a = [heap |-> extended, ptr |-> q]
    <3>1. extended = Extended(g, p, i, length)
      <4> DEFINE f == [g EXCEPT !.cells = [g.cells EXCEPT ![i] = [g.cells[i] EXCEPT !.requested = length]]]
      <4>1. g = [blocks |-> g.blocks, cells |-> g.cells, memory |-> g.memory]
        BY <2>4 DEF Tiled, Shape
      <4>2. f.memory = g.memory
        BY <4>1
      <4> DEFINE m == Fill(g.memory[b], p.word + Words(p.length), Words(length) - Words(p.length), Zero)
      <4>3. Extended(g, p, i, length) = [f EXCEPT !.memory = [f.memory EXCEPT ![b] = m]]
        BY <2>4 DEF Rewritten, Extended
      <4>4. extended = [f EXCEPT !.memory = [f.memory EXCEPT ![b] =
                  Fill(f.memory[b], p.word + Words(p.length), Words(length) - Words(p.length), Zero)]]
        OBVIOUS
      <4> HIDE DEF f, extended
      <4> QED
        BY <4>2, <4>3, <4>4
    <3> HIDE DEF extended
    <3>2. ReallocView(h, Extended(g, p, i, length), p, Longer(p, length), length)
      BY <2>2, <2>3, <2>5, ExtendDoes
    <3> QED
      BY <1>5, <2>5, <3>1, <3>2
  <2>6. CASE \E x \in SecAlloc(g, b, length) : a = Moved(x)
    <3>1. PICK x \in SecAlloc(g, b, length) : a = Moved(x)
      BY <2>6
    <3>2. AllocView(g, x.heap, b, x.ptr, length)
      BY <2>4, SecAllocDoes
    <3>3. x.ptr.block = b /\ Tiled(x.heap) /\ Held(x.heap, x.ptr)
      BY <3>2 DEF AllocView
    <3>4. a.heap = SecFree(CopiedTo(x.heap, p, x.ptr), p) /\ a.ptr = x.ptr
      BY <3>1, <3>3 DEF CopiedTo
    <3>5. ReallocView(h, a.heap, p, a.ptr, length)
      BY <2>2, <2>3, <3>2, <3>4, ElsewhereDoes
    <3>6. a.ptr # NoPtr
      BY <3>3, <3>4, HeldInBlock DEF InBlock
    <3> QED
      BY <3>5, <3>6
  <2>7. CASE a = [heap |-> g, ptr |-> NoPtr]
    BY <2>2, <2>3, <2>7 DEF GrowView, RefusedView
  <2> QED
    BY <1>4, <1>7, <2>5, <2>6, <2>7
<1> QED
  BY <1>4, <1>6, <1>7

-----------------------------------------------------------------------------
(* The inductive invariant.                                                *)

ClientState ==
    [ptr : Ptr \cup {NoPtr}, filled : Nat, next : Lengths \cup {0}, new : Ptr \cup {NoPtr}]

Pts(k) == {p \in {k.ptr, k.new} : InBlock(p)}

\* What a client has noted fits together.
GoodClient(k) ==
    /\ k \in ClientState
    /\ k.ptr = NoPtr => k.filled = 0 /\ k.next = 0
    /\ k.ptr # NoPtr => k.filled <= Words(k.ptr.length)
    /\ k.next = 0 => k.new = NoPtr
    /\ k.next # 0 => InBlock(k.ptr) /\ Words(k.ptr.length) < Words(k.next)
    /\ k.new # NoPtr => k.new.length = k.next
    /\ InBlock(k.ptr) /\ InBlock(k.new) => Distinct(k.ptr, k.new)

\* Its pointers are good, and what it wrote is there.
Owns(h, k, t) ==
    /\ \A p \in Pts(k) : Held(h, p)
    /\ InBlock(k.ptr) =>
          \A w \in k.ptr.word..(k.ptr.word + k.filled - 1) : h.memory[k.ptr.block][w] = t

Separate(k, l) == \A p \in Pts(k), q \in Pts(l) : Distinct(p, q)

Erased(h, cl) ==
    \A b \in DOMAIN h.memory : \A w \in DOMAIN h.memory[b] :
        h.memory[b][w] \in Client =>
            \E p \in Pts(cl[h.memory[b][w]]) : p.block = b /\ w \in Extent(p)

Pairs(cl, b) ==
    {x \in Client \X UNION {Pts(cl[t]) : t \in Client} :
        x[2] \in Pts(cl[x[1]]) /\ x[2].block = b}

Counted(h, cl) ==
    \A b \in BlockId : IsFiniteSet(Pairs(cl, b)) /\ Used(h, b) = Cardinality(Pairs(cl, b))

Good(h, cl) ==
    /\ Tiled(h) /\ Merged(h, {})
    /\ cl \in [Client -> ClientState]
    /\ \A t \in Client : GoodClient(cl[t]) /\ Owns(h, cl[t], t)
    /\ \A t, u \in Client : t # u => Separate(cl[t], cl[u])
    /\ Erased(h, cl)
    /\ Counted(h, cl)

\* The data of clients after a step of t: as it was, and where t gave up memory
\* that is still its own; or what t wrote or moved.
Secrets(h, g, old, k, t) ==
    \A b \in DOMAIN g.memory : \A w \in DOMAIN g.memory[b] :
        g.memory[b][w] \in Client =>
            \/ /\ b \in DOMAIN h.memory /\ w \in DOMAIN h.memory[b]
               /\ g.memory[b][w] = h.memory[b][w]
               /\ \A p \in Pts(old) : p.block = b /\ w \in Extent(p) =>
                     \E q \in Pts(k) : q.block = b /\ w \in Extent(q)
            \/ g.memory[b][w] = t /\ \E q \in Pts(k) : q.block = b /\ w \in Extent(q)

\* Whatever a client does leaves the others alone.
Aside(h, g, old, k) ==
    \A r : Held(h, r) /\ (\A p \in Pts(old) : Distinct(p, r)) =>
        Kept(h, g, r) /\ \A q \in Pts(k) : Distinct(q, r)

\* The invariant holds after a step that does right by the client and leaves the
\* others alone.
LEMMA StepGood ==
    ASSUME NEW h, NEW cl, Good(h, cl), NEW t \in Client, NEW g, NEW k,
           Tiled(g), Merged(g, {}), GoodClient(k), Owns(g, k, t),
           Aside(h, g, cl[t], k), Secrets(h, g, cl[t], k, t),
           Counted(g, [cl EXCEPT ![t] = k])
    PROVE  Good(g, [cl EXCEPT ![t] = k])
<1> DEFINE dl == [cl EXCEPT ![t] = k]
<1>1. /\ Tiled(h) /\ cl \in [Client -> ClientState] /\ k \in ClientState
      /\ \A u \in Client : GoodClient(cl[u]) /\ Owns(h, cl[u], u)
      /\ \A u, v \in Client : u # v => Separate(cl[u], cl[v])
      /\ Erased(h, cl)
  BY DEF Good, GoodClient
<1>2. dl \in [Client -> ClientState] /\ dl[t] = k /\ \A u \in Client : u # t => dl[u] = cl[u]
  BY <1>1
<1> HIDE DEF dl
<1>3. ASSUME NEW u \in Client, u # t, NEW p \in Pts(cl[u])
      PROVE  Held(h, p) /\ Kept(h, g, p) /\ Held(g, p) /\ \A q \in Pts(k) : Distinct(q, p)
  <2>1. Held(h, p)
    BY <1>1, <1>3 DEF Owns
  <2>2. \A q \in Pts(cl[t]) : Distinct(q, p)
    BY <1>1, <1>3 DEF Separate
  <2> QED
    BY <2>1, <2>2 DEF Aside, Kept
<1>4. ASSUME NEW u \in Client, u # t
      PROVE  GoodClient(cl[u]) /\ Owns(g, cl[u], u)
  <2>1. GoodClient(cl[u]) /\ Owns(h, cl[u], u)
    BY <1>1
  <2>2. ASSUME InBlock(cl[u].ptr), NEW w \in cl[u].ptr.word..(cl[u].ptr.word + cl[u].filled - 1)
        PROVE  g.memory[cl[u].ptr.block][w] = u
    <3> DEFINE p == cl[u].ptr
    <3>1. p \in Pts(cl[u])
      BY <2>2 DEF Pts
    <3>2. Held(h, p) /\ Kept(h, g, p)
      BY <1>3, <1>4, <3>1
    <3>3. cl[u].filled \in Nat /\ cl[u].filled <= Words(p.length)
      BY <2>1, <2>2 DEF GoodClient, ClientState, InBlock
    <3>4. p.word \in Nat /\ Words(p.length) \in Nat
      BY <3>2, WordsEnough DEF Held, Ptr
    <3>5. w \in Extent(p)
      BY <2>2, <3>3, <3>4 DEF Extent
    <3>6. h.memory[p.block][w] = u
      BY <2>1, <2>2 DEF Owns
    <3> QED
      BY <3>2, <3>5, <3>6 DEF Kept
  <2> QED
    BY <1>3, <1>4, <2>1, <2>2 DEF Owns
<1>5. ASSUME NEW u \in Client
      PROVE  GoodClient(dl[u]) /\ Owns(g, dl[u], u)
  BY <1>2, <1>4
<1>6. ASSUME NEW u \in Client, NEW v \in Client, u # v
      PROVE  Separate(dl[u], dl[v])
  <2>1. CASE u = t
    BY <1>2, <1>3, <1>6, <2>1 DEF Separate
  <2>2. CASE v = t
    BY <1>2, <1>3, <1>6, <2>2 DEF Separate, Distinct
  <2>3. CASE u # t /\ v # t
    BY <1>1, <1>2, <1>6, <2>3
  <2> QED
    BY <2>1, <2>2, <2>3
<1>7. Erased(g, dl)
  <2>1. ASSUME NEW b \in DOMAIN g.memory, NEW w \in DOMAIN g.memory[b], g.memory[b][w] \in Client
        PROVE  \E p \in Pts(dl[g.memory[b][w]]) : p.block = b /\ w \in Extent(p)
    <3> DEFINE v == g.memory[b][w]
    <3>1. CASE v = t /\ \E q \in Pts(k) : q.block = b /\ w \in Extent(q)
      BY <1>2, <3>1
    <3>2. CASE /\ b \in DOMAIN h.memory /\ w \in DOMAIN h.memory[b]
               /\ g.memory[b][w] = h.memory[b][w]
               /\ \A p \in Pts(cl[t]) : p.block = b /\ w \in Extent(p) =>
                     \E q \in Pts(k) : q.block = b /\ w \in Extent(q)
      <4>1. PICK p \in Pts(cl[v]) : p.block = b /\ w \in Extent(p)
        BY <1>1, <2>1, <3>2 DEF Erased
      <4>2. CASE v = t
        <5>1. \E q \in Pts(k) : q.block = b /\ w \in Extent(q)
          BY <3>2, <4>1, <4>2
        <5> QED
          BY <1>2, <4>2, <5>1
      <4>3. CASE v # t
        BY <1>2, <2>1, <4>1, <4>3
      <4> QED
        BY <4>2, <4>3
    <3> QED
      BY <2>1, <3>1, <3>2 DEF Secrets
  <2> QED
    BY <2>1 DEF Erased
<1>8. Counted(g, dl)
  BY DEF dl
<1>9. Good(g, dl)
  BY <1>2, <1>5, <1>6, <1>7, <1>8 DEF Good
<1> QED
  BY <1>9 DEF dl

\* The holders of a block, one by one.
LEMMA PairsAre ==
    ASSUME NEW cl, NEW b
    PROVE  /\ \A u \in Client : \A p : <<u, p>> \in Pairs(cl, b) <=> p \in Pts(cl[u]) /\ p.block = b
           /\ \A x \in Pairs(cl, b) : x = <<x[1], x[2]>> /\ x[1] \in Client
<1>1. ASSUME NEW u \in Client, NEW p
      PROVE  <<u, p>> \in Pairs(cl, b) <=> p \in Pts(cl[u]) /\ p.block = b
  <2>1. p \in Pts(cl[u]) => p \in UNION {Pts(cl[t]) : t \in Client}
    OBVIOUS
  <2> QED
    BY <2>1 DEF Pairs
<1>2. ASSUME NEW x \in Pairs(cl, b)
      PROVE  x = <<x[1], x[2]>> /\ x[1] \in Client
  <2>1. x \in Client \X UNION {Pts(cl[t]) : t \in Client}
    BY DEF Pairs
  <2> QED
    BY <2>1
<1> QED
  BY <1>1, <1>2

\* Counting after a step: the same pointers, one more, one fewer, one for another.
LEMMA CountSame ==
    ASSUME NEW h, NEW g, NEW cl \in [Client -> ClientState], NEW t \in Client, NEW k,
           Counted(h, cl), Pts(k) = Pts(cl[t]),
           \A b \in BlockId : Used(g, b) = Used(h, b)
    PROVE  Counted(g, [cl EXCEPT ![t] = k])
<1> DEFINE dl == [cl EXCEPT ![t] = k]
<1>1. \A u \in Client : Pts(dl[u]) = Pts(cl[u])
  OBVIOUS
<1> HIDE DEF dl
<1>2. ASSUME NEW b \in BlockId
      PROVE  Pairs(dl, b) = Pairs(cl, b)
  <2>1. \A x \in Pairs(dl, b) : x \in Pairs(cl, b)
    BY <1>1, PairsAre
  <2>2. \A x \in Pairs(cl, b) : x \in Pairs(dl, b)
    BY <1>1, PairsAre
  <2> QED
    BY <2>1, <2>2
<1>3. Counted(g, dl)
  BY <1>2 DEF Counted
<1> QED
  BY <1>3 DEF dl

\* The count after an allocation.
LEMMA CountMore ==
    ASSUME NEW h, NEW g, NEW cl \in [Client -> ClientState], NEW t \in Client, NEW k, NEW q,
           Counted(h, cl), Pts(k) = Pts(cl[t]) \cup {q}, q \notin Pts(cl[t]),
           \A b \in BlockId : Used(g, b) = Used(h, b) + IF q.block = b THEN 1 ELSE 0
    PROVE  Counted(g, [cl EXCEPT ![t] = k])
<1> DEFINE dl == [cl EXCEPT ![t] = k]
<1>1. dl[t] = k /\ \A u \in Client : u # t => Pts(dl[u]) = Pts(cl[u])
  OBVIOUS
<1> HIDE DEF dl
<1>2. ASSUME NEW b \in BlockId
      PROVE  IsFiniteSet(Pairs(dl, b)) /\ Used(g, b) = Cardinality(Pairs(dl, b))
  <2>1. IsFiniteSet(Pairs(cl, b)) /\ Used(h, b) = Cardinality(Pairs(cl, b))
        /\ Cardinality(Pairs(cl, b)) \in Nat
    BY FS_CardinalityType DEF Counted
  <2>2. CASE q.block = b
    <3>1. <<t, q>> \notin Pairs(cl, b)
      BY PairsAre
    <3>2. \A x \in Pairs(dl, b) : x \in Pairs(cl, b) \cup {<<t, q>>}
      BY <1>1, PairsAre
    <3>3. \A x \in Pairs(cl, b) : x \in Pairs(dl, b)
      BY <1>1, PairsAre
    <3>4. <<t, q>> \in Pairs(dl, b)
      BY <1>1, <2>2, PairsAre
    <3>5. Pairs(dl, b) = Pairs(cl, b) \cup {<<t, q>>}
      BY <3>2, <3>3, <3>4
    <3>6. /\ IsFiniteSet(Pairs(cl, b) \cup {<<t, q>>})
          /\ Cardinality(Pairs(cl, b) \cup {<<t, q>>}) = Cardinality(Pairs(cl, b)) + 1
      BY <2>1, <3>1, FS_AddElement
    <3> QED
      BY <2>1, <2>2, <3>5, <3>6
  <2>3. CASE q.block # b
    <3>1. \A x \in Pairs(dl, b) : x \in Pairs(cl, b)
      BY <1>1, <2>3, PairsAre
    <3>2. \A x \in Pairs(cl, b) : x \in Pairs(dl, b)
      BY <1>1, PairsAre
    <3>3. Pairs(dl, b) = Pairs(cl, b)
      BY <3>1, <3>2
    <3> QED
      BY <2>1, <2>3, <3>3
  <2> QED
    BY <2>2, <2>3
<1>3. Counted(g, dl)
  BY <1>2 DEF Counted
<1> QED
  BY <1>3 DEF dl

\* The count after a free.
LEMMA CountFewer ==
    ASSUME NEW h, NEW g, NEW cl \in [Client -> ClientState], NEW t \in Client, NEW k, NEW p,
           Counted(h, cl), Pts(k) = Pts(cl[t]) \ {p}, p \in Pts(cl[t]),
           \A b \in BlockId : Used(g, b) = Used(h, b) - IF p.block = b THEN 1 ELSE 0
    PROVE  Counted(g, [cl EXCEPT ![t] = k])
<1> DEFINE dl == [cl EXCEPT ![t] = k]
<1>1. dl[t] = k /\ \A u \in Client : u # t => Pts(dl[u]) = Pts(cl[u])
  OBVIOUS
<1> HIDE DEF dl
<1>2. ASSUME NEW b \in BlockId
      PROVE  IsFiniteSet(Pairs(dl, b)) /\ Used(g, b) = Cardinality(Pairs(dl, b))
  <2>1. IsFiniteSet(Pairs(cl, b)) /\ Used(h, b) = Cardinality(Pairs(cl, b))
        /\ Cardinality(Pairs(cl, b)) \in Nat
    BY FS_CardinalityType DEF Counted
  <2>2. CASE p.block = b
    <3>1. <<t, p>> \in Pairs(cl, b)
      BY <2>2, PairsAre
    <3>2. <<t, p>> \notin Pairs(dl, b)
      BY <1>1, PairsAre
    <3>3. \A x \in Pairs(dl, b) : x \in Pairs(cl, b)
      BY <1>1, PairsAre
    <3>4. \A x \in Pairs(cl, b) : x = <<t, p>> \/ x \in Pairs(dl, b)
      BY <1>1, PairsAre
    <3>5. Pairs(dl, b) = Pairs(cl, b) \ {<<t, p>>}
      BY <3>2, <3>3, <3>4
    <3>6. /\ IsFiniteSet(Pairs(cl, b) \ {<<t, p>>})
          /\ Cardinality(Pairs(cl, b) \ {<<t, p>>}) = Cardinality(Pairs(cl, b)) - 1
      BY <2>1, <3>1, FS_RemoveElement
    <3> QED
      BY <2>1, <2>2, <3>5, <3>6
  <2>3. CASE p.block # b
    <3>1. \A x \in Pairs(dl, b) : x \in Pairs(cl, b)
      BY <1>1, PairsAre
    <3>2. \A x \in Pairs(cl, b) : x \in Pairs(dl, b)
      BY <1>1, <2>3, PairsAre
    <3>3. Pairs(dl, b) = Pairs(cl, b)
      BY <3>1, <3>2
    <3> QED
      BY <2>1, <2>3, <3>3
  <2> QED
    BY <2>2, <2>3
<1>3. Counted(g, dl)
  BY <1>2 DEF Counted
<1> QED
  BY <1>3 DEF dl

\* The count after a reallocation within the block.
LEMMA CountSwap ==
    ASSUME NEW h, NEW g, NEW cl \in [Client -> ClientState], NEW t \in Client, NEW k, NEW p, NEW q,
           Counted(h, cl), Pts(cl[t]) = {p}, Pts(k) = {q}, p.block = q.block,
           \A b \in BlockId : Used(g, b) = Used(h, b)
    PROVE  Counted(g, [cl EXCEPT ![t] = k])
<1> DEFINE dl == [cl EXCEPT ![t] = k]
<1>1. dl[t] = k /\ \A u \in Client : u # t => Pts(dl[u]) = Pts(cl[u])
  OBVIOUS
<1> HIDE DEF dl
<1>2. ASSUME NEW b \in BlockId
      PROVE  IsFiniteSet(Pairs(dl, b)) /\ Used(g, b) = Cardinality(Pairs(dl, b))
  <2> DEFINE S == Pairs(cl, b)
             R == S \ {<<t, p>>}
  <2>1. IsFiniteSet(S) /\ Used(h, b) = Cardinality(S) /\ Cardinality(S) \in Nat
    BY FS_CardinalityType DEF Counted
  <2>2. CASE q.block = b
    <3>1. <<t, p>> \in S
      BY <2>2, PairsAre
    <3>2. <<t, q>> \notin R
      BY PairsAre
    <3>3. \A x \in Pairs(dl, b) : x \in R \cup {<<t, q>>}
      BY <1>1, PairsAre
    <3>4. \A x \in R : x \in Pairs(dl, b)
      <4>1. ASSUME NEW x \in R
            PROVE  x \in Pairs(dl, b)
        <5>1. x = <<x[1], x[2]>> /\ x[1] \in Client /\ x[2] \in Pts(cl[x[1]]) /\ x[2].block = b
          BY <4>1, PairsAre
        <5>2. x[1] # t
          BY <4>1, <5>1
        <5> QED
          BY <1>1, <5>1, <5>2, PairsAre
      <4> QED
        BY <4>1
    <3>5. <<t, q>> \in Pairs(dl, b)
      BY <1>1, <2>2, PairsAre
    <3> HIDE DEF S
    <3>6. IsFiniteSet(R) /\ Cardinality(R) = Cardinality(S) - 1
      BY <2>1, <3>1, FS_RemoveElement
    <3> HIDE DEF R
    <3>7. Pairs(dl, b) = R \cup {<<t, q>>}
      BY <3>3, <3>4, <3>5
    <3>8. IsFiniteSet(R \cup {<<t, q>>}) /\ Cardinality(R \cup {<<t, q>>}) = Cardinality(R) + 1
      BY <3>2, <3>6, FS_AddElement
    <3> QED
      BY <2>1, <3>6, <3>7, <3>8
  <2>3. CASE q.block # b
    <3>1. \A x \in Pairs(dl, b) : x \in S
      BY <1>1, <2>3, PairsAre
    <3>2. \A x \in S : x \in Pairs(dl, b)
      BY <1>1, <2>3, PairsAre
    <3>3. Pairs(dl, b) = S
      BY <3>1, <3>2
    <3> QED
      BY <2>1, <3>3
  <2> QED
    BY <2>2, <2>3
<1>3. Counted(g, dl)
  BY <1>2 DEF Counted
<1> QED
  BY <1>3 DEF dl

\* Where there is an allocation the count is not zero.
LEMMA CountPositive ==
    ASSUME NEW h, NEW cl, Good(h, cl), NEW t \in Client, NEW p \in Pts(cl[t])
    PROVE  Held(h, p) /\ h.blocks[p.block].n_used > 0
<1>1. Held(h, p) /\ Tiled(h)
  BY DEF Good, Owns
<1>2. p.block \in DOMAIN h.blocks /\ Used(h, p.block) = h.blocks[p.block].n_used
  BY <1>1, HeldInBlock
<1>3. p.block \in BlockId
  BY <1>1, <1>2 DEF Tiled, Shape
<1>4. IsFiniteSet(Pairs(cl, p.block)) /\ Used(h, p.block) = Cardinality(Pairs(cl, p.block))
  BY <1>3 DEF Good, Counted
<1>5. <<t, p>> \in Pairs(cl, p.block)
  BY PairsAre
<1>6. Cardinality(Pairs(cl, p.block)) # 0
  BY <1>4, <1>5, FS_EmptySet
<1>7. Used(h, p.block) \in Nat
  BY <1>1, UsedType
<1> QED
  BY <1>1, <1>2, <1>4, <1>6, <1>7

\* A block without allocations may go.
LEMMA SettledGood ==
    ASSUME NEW h, NEW cl, Good(h, cl), NEW b \in DOMAIN h.blocks
    PROVE  Good(Settled(h, b), cl)
<1>1. CASE h.blocks[b].n_used # 0
  BY <1>1 DEF Settled
<1>2. CASE h.blocks[b].n_used = 0
  <2> DEFINE g == Dropped(h, b)
  <2>1. Settled(h, b) = g
    BY <1>2 DEF Settled, Dropped
  <2>2. Tiled(h) /\ Merged(h, {}) /\ b \in BlockId /\ DOMAIN h.memory = DOMAIN h.blocks
    BY DEF Good, Tiled, Shape
  <2>3. /\ Tiled(g) /\ NoMore(h, g) /\ Merged(g, {})
        /\ \A p : Held(h, p) /\ p.block # b => Kept(h, g, p)
        /\ DOMAIN g.blocks = DOMAIN h.blocks \ {b}
        /\ \A d \in DOMAIN h.blocks \ {b} : g.blocks[d] = h.blocks[d]
    BY <2>2, DropTiled
  <2> HIDE DEF g
  <2>4. \A d \in BlockId : Used(g, d) = Used(h, d)
    BY <1>2, <2>3 DEF Used
  <2>5. ASSUME NEW t \in Client, NEW p \in Pts(cl[t])
        PROVE  Held(h, p) /\ p.block # b /\ Kept(h, g, p)
    <3>1. Held(h, p) /\ h.blocks[p.block].n_used > 0
      BY CountPositive
    <3>2. p.block # b
      BY <1>2, <3>1
    <3> QED
      BY <2>3, <3>1, <3>2
  <2>6. ASSUME NEW t \in Client
        PROVE  Owns(g, cl[t], t)
    <3>1. ASSUME InBlock(cl[t].ptr), NEW w \in cl[t].ptr.word..(cl[t].ptr.word + cl[t].filled - 1)
          PROVE  g.memory[cl[t].ptr.block][w] = t
      <4> DEFINE p == cl[t].ptr
      <4>1. p \in Pts(cl[t])
        BY <3>1 DEF Pts
      <4>2. Held(h, p) /\ Kept(h, g, p)
        BY <2>5, <4>1
      <4>3. cl[t].filled \in Nat /\ cl[t].filled <= Words(p.length)
        BY <3>1 DEF Good, GoodClient, ClientState, InBlock
      <4>4. p.word \in Nat /\ Words(p.length) \in Nat
        BY <4>2, WordsEnough DEF Held, Ptr
      <4>5. w \in Extent(p)
        BY <3>1, <4>3, <4>4 DEF Extent
      <4>6. h.memory[p.block][w] = t
        BY <3>1 DEF Good, Owns
      <4> QED
        BY <4>2, <4>5, <4>6 DEF Kept
    <3> QED
      BY <2>5, <3>1 DEF Owns, Kept
  <2>7. Erased(g, cl)
    <3>1. Erased(h, cl)
      BY DEF Good
    <3> QED
      BY <2>3, <3>1 DEF Erased, NoMore
  <2>8. Counted(g, cl)
    BY <2>4 DEF Good, Counted
  <2>9. Good(g, cl)
    BY <2>3, <2>6, <2>7, <2>8 DEF Good
  <2> QED
    BY <2>1, <2>9
<1> QED
  BY <1>1, <1>2

-----------------------------------------------------------------------------
(* The steps of the clients.                                               *)

\* What is kept stays the client's.
LEMMA OwnsKept ==
    ASSUME NEW h, NEW g, NEW k, NEW t, GoodClient(k), Owns(h, k, t),
           \A p \in Pts(k) : Kept(h, g, p)
    PROVE  Owns(g, k, t)
<1>1. ASSUME InBlock(k.ptr), NEW w \in k.ptr.word..(k.ptr.word + k.filled - 1)
      PROVE  g.memory[k.ptr.block][w] = t
  <2> DEFINE p == k.ptr
  <2>1. p \in Pts(k)
    BY <1>1 DEF Pts
  <2>2. Held(h, p) /\ Kept(h, g, p)
    BY <2>1 DEF Owns
  <2>3. k.filled \in Nat /\ k.filled <= Words(p.length)
    BY <1>1 DEF GoodClient, ClientState, InBlock
  <2>4. p.word \in Nat /\ Words(p.length) \in Nat
    BY <2>2, WordsEnough DEF Held, Ptr
  <2>5. w \in Extent(p)
    BY <1>1, <2>3, <2>4 DEF Extent
  <2>6. h.memory[p.block][w] = t
    BY <1>1 DEF Owns
  <2> QED
    BY <2>2, <2>5, <2>6 DEF Kept
<1> QED
  BY <1>1 DEF Owns, Kept

\* Data in the memory of a client is its own.
LEMMA OwnExtent ==
    ASSUME NEW h, NEW cl, Good(h, cl), NEW t \in Client, NEW p \in Pts(cl[t]), NEW w \in Extent(p),
           h.memory[p.block][w] \in Client
    PROVE  h.memory[p.block][w] = t
<1> DEFINE u == h.memory[p.block][w]
<1>1. Tiled(h) /\ Held(h, p)
  BY DEF Good, Owns
<1>2. PICK i \in DOMAIN h.cells : To(h, p, i)
  BY <1>1 DEF Held
<1>3. p.block \in DOMAIN h.memory /\ w \in DOMAIN h.memory[p.block]
  BY <1>1, <1>2, ExtentFacts
<1>4. PICK r \in Pts(cl[u]) : r.block = p.block /\ w \in Extent(r)
  BY <1>3 DEF Good, Erased
<1>5. Held(h, r)
  BY <1>4 DEF Good, Owns
<1> HIDE DEF u
<1> SUFFICES ASSUME u # t
             PROVE  FALSE
  BY DEF u
<1>6. u \in Client
  BY DEF u
<1>7. Distinct(r, p)
  BY <1>4, <1>6 DEF Good, Separate
<1> QED
  BY <1>1, <1>4, <1>5, <1>7, ExtentsApart

\* An allocation into ptr.
LEMMA AllocStep ==
    ASSUME NEW h, NEW cl, Good(h, cl), NEW t \in Client, NEW g, NEW p, NEW length \in Nat \ {0},
           FullView(h, g, p, length), cl[t].ptr = NoPtr
    PROVE  Good(g, [cl EXCEPT ![t] = [cl[t] EXCEPT !.ptr = p]])
<1> DEFINE k == cl[t]
           l == [k EXCEPT !.ptr = p]
<1>1. GoodClient(k) /\ k \in ClientState /\ Tiled(h) /\ cl \in [Client -> ClientState]
  BY DEF Good, GoodClient
<1>2. k.filled = 0 /\ k.next = 0 /\ k.new = NoPtr
  BY <1>1 DEF GoodClient
<1>3. /\ Tiled(g) /\ NoMore(h, g)
      /\ p = NoPtr \/ (p \in Ptr /\ p.length = length)
      /\ \A r : Held(h, r) => Kept(h, g, r)
      /\ InBlock(p) => Held(g, p) /\ \A r : Held(h, r) => Distinct(p, r)
  BY DEF FullView
<1>4. Merged(g, {}) /\ Counted(h, cl)
  BY DEF FullView, Good
<1>5. /\ l \in ClientState /\ l.ptr = p /\ l.filled = 0 /\ l.next = 0 /\ l.new = NoPtr
  BY <1>1, <1>2, <1>3 DEF ClientState
<1> HIDE DEF l
<1>6. ~InBlock(NoPtr)
  BY DEF InBlock
<1>7. Pts(k) = {} /\ Pts(l) = IF InBlock(p) THEN {p} ELSE {}
  BY <1>2, <1>5, <1>6 DEF Pts
<1>8. GoodClient(l)
  <2>1. p # NoPtr => 0 <= Words(p.length)
    BY <1>3, WordsEnough
  <2> QED
    BY <1>5, <1>6, <2>1 DEF GoodClient
<1>9. Owns(g, l, t)
  <2>1. InBlock(p) => p.word \in Nat
    BY <1>3 DEF Ptr, InBlock
  <2>2. InBlock(p) => p.word..(p.word + 0 - 1) = {}
    BY <2>1
  <2> QED
    BY <1>3, <1>5, <1>7, <2>2 DEF Owns
<1>10. Aside(h, g, k, l)
  BY <1>3, <1>7 DEF Aside
<1>11. Secrets(h, g, k, l, t)
  BY <1>3, <1>7 DEF Secrets, NoMore
<1>12. Counted(g, [cl EXCEPT ![t] = l])
  <2>1. \A b \in BlockId : Used(g, b) = Used(h, b) + IF InBlock(p) /\ p.block = b THEN 1 ELSE 0
    BY DEF FullView
  <2>2. \A b \in BlockId : Used(h, b) \in Nat
    BY <1>1, UsedType
  <2>3. CASE InBlock(p)
    <3>1. \A b \in BlockId : Used(g, b) = Used(h, b) + IF p.block = b THEN 1 ELSE 0
      BY <2>1, <2>3
    <3>2. Pts(l) = Pts(cl[t]) \cup {p} /\ p \notin Pts(cl[t])
      BY <1>7, <2>3
    <3> QED
      BY <1>1, <1>4, <3>1, <3>2, CountMore
  <2>4. CASE ~InBlock(p)
    <3>1. \A b \in BlockId : Used(g, b) = Used(h, b)
      BY <2>1, <2>2, <2>4
    <3>2. Pts(l) = Pts(cl[t])
      BY <1>7, <2>4
    <3> QED
      BY <1>1, <1>4, <3>1, <3>2, CountSame
  <2> QED
    BY <2>3, <2>4
<1>13. Good(g, [cl EXCEPT ![t] = l])
  BY <1>3, <1>4, <1>8, <1>9, <1>10, <1>11, <1>12, StepGood
<1> QED
  BY <1>13 DEF l

\* Nothing happens to what the client holds; l differs from its old state in
\* what it is about to do.
LEMMA PlanStep ==
    ASSUME NEW h, NEW cl, Good(h, cl), NEW t \in Client, NEW g, NEW l,
           GoodClient(l), l.ptr = cl[t].ptr, l.filled = cl[t].filled, l.new = cl[t].new,
           Tiled(g), Merged(g, {}), NoMore(h, g), \A r : Held(h, r) => Kept(h, g, r),
           \A b \in BlockId : Used(g, b) = Used(h, b)
    PROVE  Good(g, [cl EXCEPT ![t] = l])
<1> DEFINE k == cl[t]
<1>1. GoodClient(k) /\ Owns(h, k, t) /\ Counted(h, cl) /\ cl \in [Client -> ClientState]
  BY DEF Good
<1>2. Pts(l) = Pts(k)
  BY DEF Pts
<1>3. Owns(h, l, t)
  <2>1. l.ptr = k.ptr /\ l.filled = k.filled
    OBVIOUS
  <2> QED
    BY <1>1, <1>2, <2>1 DEF Owns
<1>4. Owns(g, l, t)
  <2>1. \A p \in Pts(l) : Held(h, p)
    BY <1>3 DEF Owns
  <2>2. \A p \in Pts(l) : Kept(h, g, p)
    BY <2>1
  <2> QED
    BY <1>3, <2>2, OwnsKept
<1>5. Aside(h, g, k, l)
  BY <1>2 DEF Aside
<1>6. Secrets(h, g, k, l, t)
  BY <1>2 DEF Secrets, NoMore
<1>7. Counted(g, [cl EXCEPT ![t] = l])
  BY <1>1, <1>2, CountSame
<1> QED
  BY <1>4, <1>5, <1>6, <1>7, StepGood

\* An allocation into new.
LEMMA NewStep ==
    ASSUME NEW h, NEW cl, Good(h, cl), NEW t \in Client, NEW g, NEW p,
           cl[t].next # 0, cl[t].new = NoPtr, p # NoPtr, FullView(h, g, p, cl[t].next)
    PROVE  Good(g, [cl EXCEPT ![t] = [cl[t] EXCEPT !.new = p]])
<1> DEFINE k == cl[t]
           l == [k EXCEPT !.new = p]
<1>1. GoodClient(k) /\ k \in ClientState /\ Tiled(h) /\ cl \in [Client -> ClientState]
      /\ Owns(h, k, t) /\ Counted(h, cl)
  BY DEF Good, GoodClient
<1>2. InBlock(k.ptr) /\ Words(k.ptr.length) < Words(k.next) /\ k.ptr # NoPtr
  BY <1>1 DEF GoodClient, InBlock
<1>3. /\ Tiled(g) /\ NoMore(h, g) /\ p \in Ptr /\ p.length = k.next
      /\ \A r : Held(h, r) => Kept(h, g, r)
      /\ InBlock(p) => Held(g, p) /\ \A r : Held(h, r) => Distinct(p, r)
  BY DEF FullView
<1>4. Merged(g, {})
  BY DEF FullView, Good
<1>5. /\ l \in ClientState /\ l.ptr = k.ptr /\ l.filled = k.filled /\ l.next = k.next /\ l.new = p
  BY <1>1, <1>3 DEF ClientState
<1> HIDE DEF l
<1>6. ~InBlock(NoPtr)
  BY DEF InBlock
<1>7. Pts(k) = {k.ptr} /\ Pts(l) = Pts(k) \cup IF InBlock(p) THEN {p} ELSE {}
  BY <1>2, <1>5, <1>6 DEF Pts
<1>8. Held(h, k.ptr)
  BY <1>1, <1>7 DEF Owns
<1>9. InBlock(p) => Distinct(k.ptr, p) /\ p \notin Pts(k)
  BY <1>3, <1>7, <1>8 DEF Distinct
<1>10. GoodClient(l)
  BY <1>1, <1>2, <1>3, <1>5, <1>9 DEF GoodClient
<1>11. Owns(g, k, t)
  BY <1>1, <1>3, <1>7, <1>8, OwnsKept
<1>12. Owns(g, l, t)
  BY <1>3, <1>5, <1>7, <1>11 DEF Owns
<1>13. Aside(h, g, k, l)
  BY <1>3, <1>7 DEF Aside
<1>14. Secrets(h, g, k, l, t)
  BY <1>3, <1>7 DEF Secrets, NoMore
<1>15. Counted(g, [cl EXCEPT ![t] = l])
  <2>1. \A b \in BlockId : Used(g, b) = Used(h, b) + IF InBlock(p) /\ p.block = b THEN 1 ELSE 0
    BY DEF FullView
  <2>2. \A b \in BlockId : Used(h, b) \in Nat
    BY <1>1, UsedType
  <2>3. CASE InBlock(p)
    <3>1. \A b \in BlockId : Used(g, b) = Used(h, b) + IF p.block = b THEN 1 ELSE 0
      BY <2>1, <2>3
    <3>2. Pts(l) = Pts(cl[t]) \cup {p} /\ p \notin Pts(cl[t])
      BY <1>7, <1>9, <2>3
    <3> QED
      BY <1>1, <3>1, <3>2, CountMore
  <2>4. CASE ~InBlock(p)
    <3>1. \A b \in BlockId : Used(g, b) = Used(h, b)
      BY <2>1, <2>2, <2>4
    <3>2. Pts(l) = Pts(cl[t])
      BY <1>7, <2>4
    <3> QED
      BY <1>1, <3>1, <3>2, CountSame
  <2> QED
    BY <2>3, <2>4
<1>16. Good(g, [cl EXCEPT ![t] = l])
  BY <1>3, <1>4, <1>10, <1>12, <1>13, <1>14, <1>15, StepGood
<1> QED
  BY <1>16 DEF l

\* A step of a client that has nothing in a block, before and after.
LEMMA OutsideStep ==
    ASSUME NEW h, NEW cl, Good(h, cl), NEW t \in Client, NEW l,
           GoodClient(l), Pts(cl[t]) = {}, Pts(l) = {}
    PROVE  Good(h, [cl EXCEPT ![t] = l])
<1> DEFINE k == cl[t]
<1>1. Tiled(h) /\ Merged(h, {}) /\ Counted(h, cl) /\ cl \in [Client -> ClientState]
  BY DEF Good
<1>2. Owns(h, l, t)
  BY DEF Owns, Pts
<1>3. Aside(h, h, k, l)
  BY DEF Aside, Kept
<1>4. Secrets(h, h, k, l, t)
  BY DEF Secrets
<1>5. Counted(h, [cl EXCEPT ![t] = l])
  BY <1>1, CountSame
<1> QED
  BY <1>1, <1>2, <1>3, <1>4, <1>5, StepGood

\* Pts of a client at rest.
LEMMA PtsAtRest ==
    ASSUME NEW k, GoodClient(k), k.next = 0
    PROVE  Pts(k) = IF InBlock(k.ptr) THEN {k.ptr} ELSE {}
BY DEF GoodClient, Pts, InBlock

\* A client writes to memory in a block.
LEMMA WriteStep ==
    ASSUME NEW h, NEW cl, Good(h, cl), NEW t \in Client, cl[t].next = 0, InBlock(cl[t].ptr),
           NEW g, g = [h EXCEPT !.memory[cl[t].ptr.block] =
                          Fill(h.memory[cl[t].ptr.block], cl[t].ptr.word, Words(cl[t].ptr.length), t)]
    PROVE  Good(g, [cl EXCEPT ![t] = [cl[t] EXCEPT !.filled = Words(cl[t].ptr.length)]])
<1> DEFINE k == cl[t]
           p == k.ptr
           l == [k EXCEPT !.filled = Words(p.length)]
           m == Fill(h.memory[p.block], p.word, Words(p.length), t)
<1>1. GoodClient(k) /\ k \in ClientState /\ Tiled(h) /\ Merged(h, {}) /\ Counted(h, cl)
      /\ cl \in [Client -> ClientState] /\ Owns(h, k, t)
  BY DEF Good, GoodClient
<1>2. Pts(k) = {p}
  BY <1>1, PtsAtRest
<1>3. Held(h, p)
  BY <1>1, <1>2 DEF Owns
<1>4. /\ RewriteView(h, [h EXCEPT !.memory[p.block] = m], p, p, m)
      /\ \A w \in Extent(p) : m[w] = t
      /\ DOMAIN m = DOMAIN h.memory[p.block]
      /\ \A w \in DOMAIN h.memory[p.block] : w \notin Extent(p) => m[w] = h.memory[p.block][w]
  BY <1>1, <1>3, WriteDoes, SMTT(30)
<1>5. RewriteView(h, g, p, p, m)
  BY <1>4
<1> HIDE DEF m
<1>6. Words(p.length) \in Nat /\ p \in Ptr /\ p.word \in Nat
  BY <1>3, WordsEnough DEF Held, Ptr
<1>7. l \in ClientState /\ l.ptr = p /\ l.filled = Words(p.length) /\ l.next = k.next /\ l.new = k.new
  BY <1>1, <1>6 DEF ClientState
<1> HIDE DEF l
<1>8. GoodClient(l)
  <2>1. p # NoPtr /\ k.next = 0 /\ k.new = NoPtr /\ ~InBlock(NoPtr)
    BY <1>1 DEF GoodClient, InBlock
  <2> QED
    BY <1>6, <1>7, <2>1 DEF GoodClient
<1>9. Pts(l) = {p}
  BY <1>2, <1>7, SMTT(30) DEF Pts
<1>10. Tiled(g) /\ Merged(g, {}) /\ Held(g, p) /\ g.memory[p.block] = m /\ g.blocks = h.blocks
       /\ DOMAIN g.memory = DOMAIN h.memory
       /\ (\A d \in DOMAIN h.memory : d # p.block => g.memory[d] = h.memory[d])
       /\ (\A r : Held(h, r) /\ Distinct(p, r) => Kept(h, g, r))
  BY <1>1, <1>5 DEF RewriteView
<1>11. Owns(g, l, t)
  BY <1>4, <1>7, <1>9, <1>10, Zenon DEF Owns, Extent
<1>12. Aside(h, g, k, l)
  BY <1>2, <1>9, <1>10 DEF Aside
<1>13. Secrets(h, g, k, l, t)
  <2>1. ASSUME NEW b \in DOMAIN g.memory, NEW w \in DOMAIN g.memory[b], g.memory[b][w] \in Client
        PROVE  \/ /\ b \in DOMAIN h.memory /\ w \in DOMAIN h.memory[b]
                  /\ g.memory[b][w] = h.memory[b][w]
                  /\ \A r \in Pts(k) : r.block = b /\ w \in Extent(r) =>
                        \E q \in Pts(l) : q.block = b /\ w \in Extent(q)
               \/ g.memory[b][w] = t /\ \E q \in Pts(l) : q.block = b /\ w \in Extent(q)
    <3>1. CASE b # p.block
      BY <1>2, <1>9, <1>10, <2>1, <3>1
    <3>2. CASE b = p.block /\ w \in Extent(p)
      BY <1>4, <1>9, <1>10, <3>2, Zenon
    <3>3. CASE b = p.block /\ w \notin Extent(p)
      BY <1>2, <1>4, <1>10, <2>1, <3>3, Zenon
    <3> QED
      BY <3>1, <3>2, <3>3
  <2> QED
    BY <2>1 DEF Secrets
<1>14. Counted(g, [cl EXCEPT ![t] = l])
  <2>1. \A b \in BlockId : Used(g, b) = Used(h, b)
    BY <1>10 DEF Used
  <2>2. Pts(l) = Pts(cl[t])
    BY <1>2, <1>9, SMTT(30)
  <2> QED
    BY <1>1, <2>1, <2>2, CountSame
<1>15. Good(g, [cl EXCEPT ![t] = l])
  BY <1>8, <1>10, <1>11, <1>12, <1>13, <1>14, StepGood
<1> QED
  BY <1>15 DEF l

\* What sec_realloc carried over is the client's, and all there is of it.
LEMMA CarriedOwns ==
    ASSUME NEW h, NEW k, NEW t, GoodClient(k), Owns(h, k, t), InBlock(k.ptr),
           NEW g, NEW q, Held(g, q), Carried(h, g, k.ptr, q),
           NEW l, GoodClient(l), l.ptr = q, Pts(l) = {q}, l.filled <= k.filled
    PROVE  Owns(g, l, t)
<1> DEFINE p == k.ptr
<1>1. k.filled \in Nat /\ l.filled \in Nat /\ k.filled <= Words(p.length)
  BY DEF GoodClient, ClientState, InBlock
<1>2. p \in Ptr /\ q \in Ptr /\ InBlock(q)
  <2>1. p \in Ptr /\ q \in Ptr
    BY DEF GoodClient, ClientState, InBlock, Held
  <2>2. q \in Pts(l)
    OBVIOUS
  <2> QED
    BY <2>1, <2>2 DEF Pts
<1>3. /\ p.word \in Nat /\ q.word \in Nat /\ p.length \in Nat /\ q.length \in Nat
  BY <1>2 DEF Ptr
<1>4. Words(p.length) \in Nat /\ Words(q.length) \in Nat /\ l.filled <= Words(q.length)
  BY <1>2, <1>3, WordsEnough DEF GoodClient, InBlock
<1>5. ASSUME NEW w \in q.word..(q.word + l.filled - 1)
      PROVE  g.memory[q.block][w] = t
  <2> DEFINE n == w - q.word
  <2>1. n \in Nat /\ n < l.filled /\ q.word + n = w
    BY <1>1, <1>3, <1>5
  <2>2. n < Words(p.length) /\ n < Words(q.length) /\ n < k.filled
    BY <1>1, <1>4, <2>1
  <2>3. p.word + n \in p.word..(p.word + k.filled - 1)
    BY <1>1, <1>3, <2>1, <2>2
  <2>4. h.memory[p.block][p.word + n] = t
    BY <2>3 DEF Owns
  <2>5. g.memory[q.block][q.word + n] = h.memory[p.block][p.word + n]
    BY <2>1, <2>2 DEF Carried
  <2> QED
    BY <2>1, <2>4, <2>5
<1> QED
  BY <1>5 DEF Owns

\* The same for where it is.
LEMMA OnlySecrets ==
    ASSUME NEW h, NEW cl, Good(h, cl), NEW t \in Client, NEW p \in Pts(cl[t]),
           NEW g, NEW q, Only(h, g, p, q), NEW l, Pts(l) = {q},
           \A r \in Pts(cl[t]) : r = p \/ r = q
    PROVE  Secrets(h, g, cl[t], l, t)
<1>1. ASSUME NEW b \in DOMAIN g.memory, NEW w \in DOMAIN g.memory[b], g.memory[b][w] \in Client
      PROVE  \/ /\ b \in DOMAIN h.memory /\ w \in DOMAIN h.memory[b]
                /\ g.memory[b][w] = h.memory[b][w]
                /\ \A r \in Pts(cl[t]) : r.block = b /\ w \in Extent(r) =>
                      \E s \in Pts(l) : s.block = b /\ w \in Extent(s)
             \/ g.memory[b][w] = t /\ \E s \in Pts(l) : s.block = b /\ w \in Extent(s)
  <2>1. CASE /\ b \in DOMAIN h.memory /\ w \in DOMAIN h.memory[b]
             /\ g.memory[b][w] = h.memory[b][w]
             /\ ~(b = p.block /\ w \in Extent(p))
    BY <2>1
  <2>2. CASE /\ b = q.block /\ w \in Extent(q)
             /\ \E v \in Extent(p) : g.memory[b][w] = h.memory[p.block][v]
    <3>1. PICK v \in Extent(p) : g.memory[b][w] = h.memory[p.block][v]
      BY <2>2
    <3>2. h.memory[p.block][v] = t
      BY <1>1, <3>1, OwnExtent
    <3> QED
      BY <2>2, <3>1, <3>2
  <2> QED
    BY <1>1, <2>1, <2>2 DEF Only
<1> QED
  BY <1>1 DEF Secrets

\* sec_realloc found the room, or did not and the rest is put off.
LEMMA ReallocStep ==
    ASSUME NEW h, NEW cl, Good(h, cl), NEW t \in Client, cl[t].next = 0, InBlock(cl[t].ptr),
           NEW length \in Lengths, NEW a \in SecRealloc(h, cl[t].ptr, length), NEW n,
           n = IF cl[t].filled < Words(length) THEN cl[t].filled ELSE Words(length)
    PROVE  /\ cl[t].ptr.block \in DOMAIN a.heap.blocks
           /\ Good(a.heap, [cl EXCEPT ![t] =
                              IF a.ptr = NoPtr THEN [cl[t] EXCEPT !.next = length]
                              ELSE [cl[t] EXCEPT !.ptr = a.ptr, !.filled = n]])
<1> DEFINE k == cl[t]
           p == k.ptr
           g == a.heap
           q == a.ptr
<1>1. GoodClient(k) /\ k \in ClientState /\ Tiled(h) /\ Merged(h, {}) /\ Counted(h, cl)
      /\ cl \in [Client -> ClientState] /\ Owns(h, k, t)
  BY DEF Good, GoodClient
<1>2. Pts(k) = {p} /\ p \in Pts(k)
  BY <1>1, PtsAtRest
<1>3. Held(h, p) /\ p.block \in DOMAIN h.blocks
  BY <1>1, <1>2, HeldInBlock DEF Owns
<1>4. length \in Nat \ {0} /\ Words(length) \in Nat
  BY LengthAssumption, WordsEnough
<1>5. k.new = NoPtr /\ ~InBlock(NoPtr) /\ p # NoPtr /\ k.filled \in Nat
  BY <1>1 DEF GoodClient, InBlock, ClientState
<1>6. CASE q = NoPtr
  <2> DEFINE l == [k EXCEPT !.next = length]
  <2>1. RefusedView(h, g, p, length)
    BY <1>1, <1>3, <1>4, <1>6, SecReallocDoes
  <2>2. /\ l \in ClientState /\ l.ptr = p /\ l.filled = k.filled /\ l.next = length /\ l.new = k.new
    BY <1>1 DEF ClientState
  <2> HIDE DEF l
  <2>3. GoodClient(l)
    <3>1. Words(p.length) < Words(length)
      BY <2>1 DEF RefusedView
    <3>2. k.filled <= Words(p.length)
      BY <1>1, <1>5 DEF GoodClient
    <3> QED
      BY <1>4, <1>5, <2>2, <3>1, <3>2 DEF GoodClient
  <2>4. Tiled(g) /\ Merged(g, {}) /\ NoMore(h, g) /\ (\A r : Held(h, r) => Kept(h, g, r)) /\ g.blocks = h.blocks
    BY <1>1, <2>1 DEF RefusedView
  <2>5. \A b \in BlockId : Used(g, b) = Used(h, b)
    BY <2>4 DEF Used
  <2>6. Good(g, [cl EXCEPT ![t] = l])
    BY <2>2, <2>3, <2>4, <2>5, PlanStep
  <2> QED
    BY <1>3, <1>6, <2>4, <2>6 DEF l
<1>7. CASE q # NoPtr
  <2> DEFINE l == [k EXCEPT !.ptr = q, !.filled = n]
  <2>1. ReallocView(h, g, p, q, length)
    BY <1>1, <1>3, <1>4, <1>7, SecReallocDoes
  <2>2. Tiled(g) /\ Merged(g, {}) /\ Held(g, q) /\ q.length = length /\ q.block = p.block
        /\ (\A r : Held(h, r) /\ Distinct(p, r) => Kept(h, g, r) /\ Distinct(q, r))
        /\ DOMAIN g.blocks = DOMAIN h.blocks
        /\ (\A b \in BlockId : Used(g, b) = Used(h, b))
    BY <1>1, <2>1 DEF ReallocView
  <2>3. Carried(h, g, p, q) /\ Only(h, g, p, q)
    BY <2>1 DEF ReallocView
  <2>4. InBlock(q) /\ q \in Ptr
    BY <2>2, HeldInBlock
  <2>5. n \in Nat /\ n <= k.filled /\ n <= Words(length)
    BY <1>4, <1>5
  <2>6. /\ l \in ClientState /\ l.ptr = q /\ l.filled = n /\ l.next = k.next /\ l.new = k.new
    BY <1>1, <2>4, <2>5 DEF ClientState
  <2> HIDE DEF l
  <2>7. GoodClient(l)
    BY <1>5, <1>7, <2>2, <2>5, <2>6 DEF GoodClient
  <2>8. Pts(l) = {q}
    BY <1>5, <2>4, <2>6 DEF Pts
  <2>9. Owns(g, l, t)
    BY <1>1, <2>2, <2>3, <2>5, <2>6, <2>7, <2>8, CarriedOwns
  <2>10. Aside(h, g, k, l)
    BY <1>2, <2>2, <2>8 DEF Aside
  <2>11. Secrets(h, g, k, l, t)
    BY <1>2, <2>3, <2>8, OnlySecrets
  <2>12. Counted(g, [cl EXCEPT ![t] = l])
    BY <1>1, <1>2, <2>2, <2>8, CountSwap
  <2>13. Good(g, [cl EXCEPT ![t] = l])
    BY <2>2, <2>7, <2>9, <2>10, <2>11, <2>12, StepGood
  <2> QED
    BY <1>3, <1>7, <2>2, <2>13 DEF l
<1> QED
  BY <1>6, <1>7

\* An allocation is given up, and l is left with none in a block.
LEMMA FreeStep ==
    ASSUME NEW h, NEW cl, Good(h, cl), NEW t \in Client, Pts(cl[t]) = {cl[t].ptr},
           NEW l, GoodClient(l), Pts(l) = {}
    PROVE  /\ cl[t].ptr.block \in DOMAIN SecFree(h, cl[t].ptr).blocks
           /\ Good(SecFree(h, cl[t].ptr), [cl EXCEPT ![t] = l])
<1> DEFINE k == cl[t]
           p == k.ptr
           g == SecFree(h, p)
<1>1. GoodClient(k) /\ k \in ClientState /\ Tiled(h) /\ Merged(h, {}) /\ Counted(h, cl)
      /\ cl \in [Client -> ClientState] /\ Owns(h, k, t)
  BY DEF Good, GoodClient
<1>2. Pts(k) = {p} /\ p \in Pts(k)
  OBVIOUS
<1>3. Held(h, p) /\ h.blocks[p.block].n_used > 0
  BY <1>2, CountPositive
<1>4. FreeView(h, g, p)
  BY <1>1, <1>3, FreeDoes
<1> HIDE DEF g
<1>5. Tiled(g) /\ Merged(g, {}) /\ NoMore(h, g) /\ DOMAIN g.blocks = DOMAIN h.blocks
      /\ (\A r : Held(h, r) /\ Distinct(p, r) => Kept(h, g, r))
      /\ (\A w \in Extent(p) : g.memory[p.block][w] \notin Client)
  BY <1>1, <1>4 DEF FreeView
<1>6. p.block \in DOMAIN h.blocks
  BY <1>1, <1>3, HeldInBlock
<1>7. \A b \in BlockId : Used(g, b) = Used(h, b) - IF p.block = b THEN 1 ELSE 0
  <2>1. \A b : Used(h, b) \in Nat
    BY <1>1, UsedType
  <2> QED
    BY <1>4, <1>6, <2>1 DEF FreeView, Used
<1>8. \A r \in {l.ptr, l.new} : ~InBlock(r)
  BY DEF Pts
<1>9. Owns(g, l, t)
  BY <1>8 DEF Owns
<1>10. Aside(h, g, k, l)
  BY <1>2, <1>5 DEF Aside
<1>11. Secrets(h, g, k, l, t)
  BY <1>2, <1>5 DEF Secrets, NoMore
<1>12. Counted(g, [cl EXCEPT ![t] = l])
  <2>1. Pts(l) = Pts(cl[t]) \ {p}
    BY <1>2
  <2> QED
    BY <1>1, <1>2, <1>7, <2>1, CountFewer
<1>13. Good(g, [cl EXCEPT ![t] = l])
  BY <1>5, <1>9, <1>10, <1>11, <1>12, StepGood
<1> QED
  BY <1>5, <1>6, <1>13 DEF g

\* The heap that the data has been copied to.
MovedTo(h, p, q) == IF ~InBlock(q) THEN h ELSE CopiedTo(h, p, q)

\* The data is moved to the new allocation and the old one given up.
LEMMA MoveStep ==
    ASSUME NEW h, NEW cl, Good(h, cl), NEW t \in Client, cl[t].new # NoPtr,
           NEW g, g = SecFree(MovedTo(h, cl[t].ptr, cl[t].new), cl[t].ptr)
    PROVE  /\ cl[t].ptr.block \in DOMAIN g.blocks
           /\ Good(g, [cl EXCEPT ![t] = [Idle EXCEPT !.ptr = cl[t].new, !.filled = cl[t].filled]])
<1> DEFINE k == cl[t]
           p == k.ptr
           q == k.new
           l == [Idle EXCEPT !.ptr = q, !.filled = k.filled]
<1>1. GoodClient(k) /\ k \in ClientState /\ Tiled(h) /\ Merged(h, {}) /\ Counted(h, cl)
      /\ cl \in [Client -> ClientState] /\ Owns(h, k, t)
  BY DEF Good, GoodClient
<1>2. InBlock(p) /\ Words(p.length) < Words(q.length) /\ k.filled <= Words(p.length)
      /\ (InBlock(q) => Distinct(p, q)) /\ k.filled \in Nat
  BY <1>1 DEF GoodClient, InBlock, ClientState
<1>3. q \in Ptr /\ p \in Ptr
  BY <1>1, <1>2 DEF ClientState, InBlock
<1>4. Words(p.length) \in Nat /\ Words(q.length) \in Nat
  BY <1>3, WordsEnough DEF Ptr
<1>5. /\ l \in ClientState /\ l.ptr = q /\ l.filled = k.filled /\ l.next = 0 /\ l.new = NoPtr
  BY <1>2, <1>3 DEF Idle, ClientState
<1> HIDE DEF l
<1>6. ~InBlock(NoPtr)
  BY DEF InBlock
<1>7. GoodClient(l)
  <2>1. k.filled <= Words(q.length)
    BY <1>2, <1>4
  <2> QED
    BY <1>5, <1>6, <2>1 DEF GoodClient
<1>8. CASE InBlock(q)
  <2>1. Pts(k) = {p, q} /\ Pts(l) = {q}
    BY <1>2, <1>5, <1>6, <1>8 DEF Pts
  <2>2. Held(h, p) /\ Held(h, q) /\ h.blocks[p.block].n_used > 0
    BY <2>1, CountPositive
  <2>3. MoveView(h, SecFree(CopiedTo(h, p, q), p), p, q)
    BY <1>1, <1>2, <1>4, <1>8, <2>2, MoveDoes
  <2>4. MoveView(h, g, p, q)
    BY <1>8, <2>3 DEF MovedTo
  <2>5. Tiled(g) /\ Merged(g, {}) /\ Held(g, q) /\ DOMAIN g.blocks = DOMAIN h.blocks
        /\ (\A r : Held(h, r) /\ Distinct(p, r) /\ Distinct(q, r) => Kept(h, g, r))
        /\ (\A b \in BlockId : Used(g, b) = Used(h, b) - IF p.block = b THEN 1 ELSE 0)
    BY <1>1, <2>4 DEF MoveView
  <2>6. Carried(h, g, p, q) /\ Only(h, g, p, q)
    BY <2>4 DEF MoveView
  <2>7. l.filled <= k.filled
    BY <1>2, <1>5
  <2>8. Owns(g, l, t)
    BY <1>1, <1>2, <1>5, <1>7, <2>1, <2>5, <2>6, <2>7, CarriedOwns
  <2>9. Aside(h, g, k, l)
    BY <2>1, <2>5 DEF Aside
  <2>10. Secrets(h, g, k, l, t)
    BY <2>1, <2>6, OnlySecrets
  <2>11. Counted(g, [cl EXCEPT ![t] = l])
    <3>1. p # q
      BY <1>2, <1>8 DEF Distinct
    <3>2. Pts(l) = Pts(cl[t]) \ {p} /\ p \in Pts(cl[t])
      BY <2>1, <3>1
    <3> QED
      BY <1>1, <2>5, <3>2, CountFewer
  <2>12. Good(g, [cl EXCEPT ![t] = l])
    BY <1>7, <2>5, <2>8, <2>9, <2>10, <2>11, StepGood
  <2>13. p.block \in DOMAIN g.blocks
    BY <1>1, <2>2, <2>5, HeldInBlock
  <2> QED
    BY <2>12, <2>13 DEF l
<1>9. CASE ~InBlock(q)
  <2>1. Pts(k) = {p} /\ Pts(l) = {}
    BY <1>2, <1>5, <1>6, <1>9 DEF Pts
  <2>2. g = SecFree(h, p)
    BY <1>9 DEF MovedTo
  <2>3. p.block \in DOMAIN SecFree(h, p).blocks /\ Good(SecFree(h, p), [cl EXCEPT ![t] = l])
    BY <1>7, <2>1, FreeStep
  <2> QED
    BY <2>2, <2>3 DEF l
<1> QED
  BY <1>8, <1>9

-----------------------------------------------------------------------------
(* The steps of the specification.                                         *)

Inv == Good(heap, client)

\* The heap is empty and no client has anything.
LEMMA InitGood == Init => Inv
<1> SUFFICES ASSUME Init
             PROVE  Inv
  OBVIOUS
<1> DEFINE e == <<>>
<1>1. DOMAIN e = {} /\ e = [x \in {} |-> e[x]]
  OBVIOUS
<1>2. heap.blocks = e /\ heap.cells = e /\ heap.memory = e
      /\ heap = [blocks |-> heap.blocks, cells |-> heap.cells, memory |-> heap.memory]
  BY DEF Init
<1> HIDE DEF e
<1>3. Shape(heap)
  <2>1. e \in [{} -> Block] /\ e \in [{} -> Cell]
    BY <1>1
  <2>2. DOMAIN e \subseteq BlockId /\ DOMAIN e \subseteq Item /\ e = [x \in DOMAIN e |-> e[x]]
    BY <1>1
  <2> QED
    BY <1>1, <1>2, <2>1, <2>2 DEF Shape
<1>4. Tiled(heap) /\ Merged(heap, {})
  BY <1>1, <1>2, <1>3 DEF Tiled, Inside, Guards, Apart, Covered, Merged
<1>5. client \in [Client -> ClientState] /\ \A t \in Client : client[t] = Idle
  BY DEF Init, Idle, ClientState
<1>6. GoodClient(Idle) /\ Pts(Idle) = {} /\ ~InBlock(Idle.ptr)
  BY DEF Idle, ClientState, GoodClient, Pts, InBlock
<1>7. \A t \in Client : GoodClient(client[t]) /\ Owns(heap, client[t], t) /\ Pts(client[t]) = {}
  BY <1>5, <1>6 DEF Owns
<1>8. Erased(heap, client) /\ \A t, u \in Client : Separate(client[t], client[u])
  BY <1>1, <1>2, <1>7 DEF Erased, Separate
<1>9. Counted(heap, client)
  <2>1. ASSUME NEW b
        PROVE  Pairs(client, b) = {}
    BY <1>7, PairsAre
  <2>2. \A b : Used(heap, b) = 0
    BY <1>1, <1>2 DEF Used
  <2> QED
    BY <2>1, <2>2, FS_EmptySet DEF Counted
<1> QED
  BY <1>4, <1>5, <1>7, <1>8, <1>9 DEF Inv, Good

\* Every step of every client.
LEMMA NextGood == Inv /\ [Next]_vars => Inv'
<1> SUFFICES ASSUME Inv, [Next]_vars
             PROVE  Inv'
  OBVIOUS
<1>1. Good(heap, client) /\ Tiled(heap) /\ client \in [Client -> ClientState]
      /\ \A t \in Client : GoodClient(client[t]) /\ client[t] \in ClientState
  BY DEF Inv, Good, GoodClient
<1>2. Lengths \subseteq Nat \ {0}
  BY LengthAssumption
<1>3. ASSUME NEW t \in Client, NEW length \in Lengths, Alloc(t, length)
      PROVE  Good(heap', client')
  <2>1. PICK a \in AllocFull(heap, length, t \in Insured) :
             heap' = a.heap /\ client' = [client EXCEPT ![t] = [client[t] EXCEPT !.ptr = a.ptr]]
    BY <1>3 DEF Alloc, Set
  <2>2. FullView(heap, a.heap, a.ptr, length)
    BY <1>1, <1>2, AllocFullDoes
  <2>3. client[t].ptr = NoPtr
    BY <1>3 DEF Alloc, Holds
  <2> QED
    BY <1>1, <1>2, <2>1, <2>2, <2>3, AllocStep
<1>4. ASSUME NEW t \in Client, Write(t)
      PROVE  Good(heap', client')
  <2> DEFINE k == client[t]
             p == k.ptr
             l == [k EXCEPT !.filled = Words(p.length)]
  <2>1. p # NoPtr /\ k.next = 0 /\ client' = [client EXCEPT ![t] = l]
    BY <1>4 DEF Write, Holds, AtRest, Set
  <2>2. CASE InBlock(p)
    <3>1. heap' = [heap EXCEPT !.memory[p.block] = Fill(heap.memory[p.block], p.word, Words(p.length), t)]
      BY <1>4, <2>2 DEF Write
    <3> QED
      BY <1>1, <2>1, <2>2, <3>1, WriteStep
  <2>3. CASE ~InBlock(p)
    <3>1. heap' = heap
      BY <1>4, <2>3 DEF Write
    <3>2. Words(p.length) \in Nat
      BY <1>1, <2>1, WordsEnough DEF ClientState, Ptr
    <3>3. /\ l \in ClientState /\ l.ptr = p /\ l.filled = Words(p.length) /\ l.next = 0 /\ l.new = k.new
      BY <1>1, <2>1, <3>2 DEF ClientState
    <3>4. k.new = NoPtr
      BY <1>1, <2>1 DEF GoodClient
    <3> HIDE DEF l
    <3>5. GoodClient(l)
      BY <2>1, <2>3, <3>2, <3>3, <3>4 DEF GoodClient
    <3>6. Pts(k) = {} /\ Pts(l) = {}
      BY <1>1, <2>1, <2>3, <3>3, <3>5, PtsAtRest
    <3> QED
      BY <1>1, <2>1, <3>1, <3>5, <3>6, OutsideStep
  <2> QED
    BY <2>2, <2>3
<1>5. ASSUME NEW t \in Client, NEW length \in Lengths, Realloc(t, length)
      PROVE  Good(heap', client')
  <2> DEFINE k == client[t]
             p == k.ptr
             n == IF k.filled < Words(length) THEN k.filled ELSE Words(length)
  <2>1. p # NoPtr /\ k.next = 0
    BY <1>5 DEF Realloc, Holds, AtRest
  <2>2. CASE InBlock(p)
    <3> DEFINE L(a) == IF a.ptr = NoPtr THEN [k EXCEPT !.next = length]
                       ELSE [k EXCEPT !.ptr = a.ptr, !.filled = n]
    <3>1. PICK a \in SecRealloc(heap, p, length) :
               heap' = Settled(a.heap, p.block) /\ client' = [client EXCEPT ![t] = L(a)]
      BY <1>5, <2>2 DEF Realloc, Set
    <3>2. p.block \in DOMAIN a.heap.blocks /\ Good(a.heap, [client EXCEPT ![t] = L(a)])
      BY <1>1, <2>1, <2>2, ReallocStep
    <3> HIDE DEF L
    <3> QED
      BY <3>1, <3>2, SettledGood
  <2>3. CASE ~InBlock(p)
    <3> DEFINE q == [p EXCEPT !.length = length]
               l == [k EXCEPT !.ptr = q, !.filled = n]
    <3>1. heap' = heap /\ client' = [client EXCEPT ![t] = [k EXCEPT !.ptr.length = length, !.filled = n]]
      BY <1>5, <2>3 DEF Realloc, Set
    <3>2. [k EXCEPT !.ptr.length = length, !.filled = n] = l
      BY <1>1 DEF ClientState
    <3>3. Words(length) \in Nat /\ length \in Nat
      BY <1>2, WordsEnough
    <3>4. n \in Nat /\ n <= Words(length)
      BY <1>1, <3>3 DEF ClientState
    <3>5. p \in Ptr /\ p.block = Fallback
      BY <1>1, <2>1, <2>3 DEF ClientState, InBlock
    <3>6. q \in Ptr /\ q.block = Fallback /\ q.length = length
      BY <3>3, <3>5 DEF Ptr
    <3>7. q # NoPtr
      BY <3>6, ContentsAssumption DEF Ptr
    <3> HIDE DEF q, n
    <3>8. l \in ClientState /\ l.ptr = q /\ l.filled = n /\ l.next = 0 /\ l.new = k.new
      BY <1>1, <2>1, <3>4, <3>6 DEF ClientState
    <3>9. k.new = NoPtr
      BY <1>1, <2>1 DEF GoodClient
    <3> HIDE DEF l
    <3>10. GoodClient(l) /\ ~InBlock(q)
      BY <3>4, <3>6, <3>7, <3>8, <3>9 DEF GoodClient, InBlock
    <3>11. Pts(k) = {} /\ Pts(l) = {}
      BY <1>1, <2>1, <2>3, <3>8, <3>10, PtsAtRest
    <3>12. Good(heap, [client EXCEPT ![t] = l])
      BY <1>1, <3>10, <3>11, OutsideStep
    <3> QED
      BY <3>1, <3>2, <3>12
  <2> QED
    BY <2>2, <2>3
<1>6. ASSUME NEW t \in Client, ReallocNew(t)
      PROVE  Good(heap', client')
  <2> DEFINE k == client[t]
  <2>1. k.next # 0 /\ k.new = NoPtr
    BY <1>6 DEF ReallocNew, AtRest
  <2>2. PICK a \in AllocFull(heap, k.next, t \in Insured) :
             /\ heap' = a.heap
             /\ client' = [client EXCEPT ![t] =
                              IF a.ptr = NoPtr THEN [k EXCEPT !.next = 0] ELSE [k EXCEPT !.new = a.ptr]]
    BY <1>6 DEF ReallocNew, Set
  <2>3. k.next \in Nat \ {0}
    BY <1>1, <1>2, <2>1 DEF ClientState
  <2>4. FullView(heap, a.heap, a.ptr, k.next)
    BY <1>1, <2>3, AllocFullDoes
  <2>5. CASE a.ptr # NoPtr
    BY <1>1, <2>1, <2>2, <2>4, <2>5, NewStep
  <2>6. CASE a.ptr = NoPtr
    <3> DEFINE l == [k EXCEPT !.next = 0]
               g == a.heap
    <3>1. l \in ClientState /\ l.ptr = k.ptr /\ l.filled = k.filled /\ l.next = 0 /\ l.new = k.new
      BY <1>1 DEF ClientState
    <3>2. client' = [client EXCEPT ![t] = l]
      BY <2>2, <2>6
    <3> HIDE DEF l
    <3>3. GoodClient(l)
      BY <1>1, <2>1, <3>1 DEF GoodClient
    <3>4. Tiled(g) /\ Merged(g, {}) /\ NoMore(heap, g) /\ \A r : Held(heap, r) => Kept(heap, g, r)
      BY <1>1, <2>4 DEF FullView, Good
    <3>5. \A b \in BlockId : Used(g, b) = Used(heap, b)
      <4>1. \A b : Used(heap, b) \in Nat
        BY <1>1, UsedType
      <4>2. ~InBlock(a.ptr)
        BY <2>6 DEF InBlock
      <4>3. \A b \in BlockId : Used(g, b) = Used(heap, b) + 0
        BY <2>4, <4>2 DEF FullView
      <4> QED
        BY <4>1, <4>3
    <3> HIDE DEF g
    <3>6. Good(g, [client EXCEPT ![t] = l])
      BY <1>1, <3>1, <3>3, <3>4, <3>5, PlanStep
    <3>7. heap' = g
      BY <2>2 DEF g
    <3> QED
      BY <3>2, <3>6, <3>7
  <2> QED
    BY <2>5, <2>6
<1>7. ASSUME NEW t \in Client, ReallocMove(t)
      PROVE  Good(heap', client')
  <2> DEFINE k == client[t]
             p == k.ptr
             q == k.new
             g == SecFree(MovedTo(heap, p, q), p)
             l == [Idle EXCEPT !.ptr = q, !.filled = k.filled]
  <2>1. q # NoPtr /\ client' = [client EXCEPT ![t] = l]
    BY <1>7 DEF ReallocMove, Set
  <2>2. heap' = Settled(g, p.block)
    BY <1>7 DEF ReallocMove, FreeFull, MovedTo, CopiedTo
  <2>3. p.block \in DOMAIN g.blocks /\ Good(g, [client EXCEPT ![t] = l])
    BY <1>1, <2>1, MoveStep
  <2> HIDE DEF g, l
  <2> QED
    BY <2>1, <2>2, <2>3, SettledGood
<1>8. ASSUME NEW t \in Client, Free(t)
      PROVE  Good(heap', client')
  <2> DEFINE k == client[t]
             p == k.ptr
  <2>1. p # NoPtr /\ k.next = 0 /\ client' = [client EXCEPT ![t] = Idle]
    BY <1>8 DEF Free, Holds, AtRest, Set
  <2>2. GoodClient(Idle) /\ Pts(Idle) = {}
    BY DEF Idle, ClientState, GoodClient, Pts, InBlock
  <2>3. CASE InBlock(p)
    <3>1. heap' = Settled(SecFree(heap, p), p.block)
      BY <1>8, <2>3 DEF Free, FreeFull
    <3>2. Pts(k) = {p}
      BY <1>1, <2>1, <2>3, PtsAtRest
    <3>3. p.block \in DOMAIN SecFree(heap, p).blocks /\ Good(SecFree(heap, p), [client EXCEPT ![t] = Idle])
      BY <1>1, <2>2, <3>2, FreeStep
    <3> QED
      BY <2>1, <3>1, <3>3, SettledGood
  <2>4. CASE ~InBlock(p)
    <3>1. heap' = heap
      BY <1>8, <2>4 DEF Free
    <3>2. Pts(k) = {}
      BY <1>1, <2>1, <2>4, PtsAtRest
    <3> QED
      BY <1>1, <2>1, <2>2, <3>1, <3>2, OutsideStep
  <2> QED
    BY <2>3, <2>4
<1>9. CASE UNCHANGED vars
  BY <1>1, <1>9 DEF vars, Inv
<1> QED
  BY <1>3, <1>4, <1>5, <1>6, <1>7, <1>8, <1>9 DEF Next, Inv

-----------------------------------------------------------------------------
(* What the invariant says.                                                *)

\* The pointers and holders of the properties are those of the invariant.
LEMMA PointersAre ==
    /\ \A t \in Client : Pointers(t) = Pts(client[t])
    /\ \A b : Holders(b) = Pairs(client, b)
<1>1. \A t \in Client : Pointers(t) = Pts(client[t])
  BY DEF Pointers, Pts
<1>2. {Pointers(t) : t \in Client} = {Pts(client[t]) : t \in Client}
  BY <1>1
<1>3. ASSUME NEW b
      PROVE  Holders(b) = Pairs(client, b)
  <2> DEFINE S == Client \X UNION {Pts(client[t]) : t \in Client}
  <2>1. \A x \in S : x[1] \in Client
    OBVIOUS
  <2>2. Holders(b) = {x \in S : x[2] \in Pointers(x[1]) /\ x[2].block = b}
    BY <1>2 DEF Holders
  <2>3. Pairs(client, b) = {x \in S : x[2] \in Pts(client[x[1]]) /\ x[2].block = b}
    BY DEF Pairs
  <2> HIDE DEF S
  <2> QED
    BY <1>1, <2>1, <2>2, <2>3
<1> QED
  BY <1>1, <1>3

\* What is asked of a cell is in its words.
LEMMA RequestFits ==
    ASSUME NEW r \in Nat, NEW n \in Nat, Words(r) + 2 <= n
    PROVE  r <= (n - 2) * WordSize
<1>1. WordSize \in Nat
  BY LengthAssumption
<1>2. Words(r) \in Nat /\ r <= Words(r) * WordSize
  BY WordsEnough
<1> DEFINE k == Words(r)
<1> HIDE DEF k
<1>3. k \in Nat /\ r <= k * WordSize /\ k + 2 <= n
  BY <1>2 DEF k
<1>4. n - 2 - k \in Nat
  BY <1>3
<1>5. PICK e \in Nat : n - 2 = k + e
  <2>1. n - 2 = k + (n - 2 - k)
    BY <1>3
  <2> QED
    BY <1>4, <2>1
<1>6. (k + e) * WordSize = k * WordSize + e * WordSize /\ e * WordSize \in Nat /\ k * WordSize \in Nat
  BY <1>1, <1>3
<1> QED
  BY <1>3, <1>5, <1>6

\* The assertions of sec_validate hold of a block that is tiled.
LEMMA TiledValid ==
    ASSUME NEW h, Tiled(h), NEW b \in DOMAIN h.blocks
    PROVE  SecValidate(h, b)
<1> DEFINE mine == {i \in DOMAIN h.cells : h.cells[i].block = b}
           n == h.blocks[b].n_words
<1>1. n \in Nat \ {0}
  BY DEF Tiled, Shape, Block
<1>2. ASSUME NEW i \in mine
      PROVE  /\ h.cells[i].words \in Nat /\ h.cells[i].n_words \in Nat /\ h.cells[i].n_words >= 2
             /\ h.cells[i].requested \in Nat /\ Words(h.cells[i].requested) + 2 <= h.cells[i].n_words
             /\ Last(h.cells[i]) \in 0..(n - 1) /\ h.cells[i].words <= Last(h.cells[i])
             /\ GuardsOf(h, i)
  <2>1. i \in DOMAIN h.cells /\ h.cells[i].block = b
    OBVIOUS
  <2>2. /\ h.cells[i].words \in Nat /\ h.cells[i].n_words \in Nat /\ h.cells[i].n_words >= 2
        /\ h.cells[i].requested \in Nat /\ Words(h.cells[i].requested) + 2 <= h.cells[i].n_words
    BY <2>1, CellPlace
  <2>3. Last(h.cells[i]) \in 0..(n - 1)
    BY <2>1, CellMemory
  <2>4. h.cells[i].words <= Last(h.cells[i])
    BY <2>2 DEF Last
  <2>5. GuardsOf(h, i)
    BY <2>1 DEF Tiled, Guards
  <2> QED
    BY <2>2, <2>3, <2>4, <2>5
<1>3. ASSUME NEW w \in 0..(n - 1)
      PROVE  \E i \in mine : h.cells[i].words <= w /\ w <= Last(h.cells[i])
  BY <1>3 DEF Tiled, Covered
<1>4. \A i, k \in mine : i # k => \/ Last(h.cells[i]) < h.cells[k].words
                                  \/ Last(h.cells[k]) < h.cells[i].words
  BY DEF Tiled, Apart
<1> HIDE DEF mine, n
<1>5. ASSUME NEW i \in mine
      PROVE  h.cells[i].requested <= (h.cells[i].n_words - 2) * WordSize
  BY <1>2, RequestFits
<1>6. \E i \in mine : h.cells[i].words = 0
  <2>1. 0 \in 0..(n - 1)
    BY <1>1
  <2>2. PICK i \in mine : h.cells[i].words <= 0
    BY <1>3, <2>1
  <2> QED
    BY <1>2, <2>2
<1>7. ASSUME NEW i \in mine, Last(h.cells[i]) + 1 # n
      PROVE  \E k \in mine : h.cells[k].words = Last(h.cells[i]) + 1
  <2>1. Last(h.cells[i]) \in 0..(n - 1) /\ h.cells[i].words <= Last(h.cells[i])
        /\ h.cells[i].words \in Nat
    BY <1>2
  <2>2. Last(h.cells[i]) + 1 \in 0..(n - 1)
    BY <1>1, <1>7, <2>1
  <2>3. PICK k \in mine : h.cells[k].words <= Last(h.cells[i]) + 1 /\ Last(h.cells[i]) + 1 <= Last(h.cells[k])
    BY <1>3, <2>2
  <2>4. h.cells[k].words \in Nat /\ Last(h.cells[k]) \in Nat
    BY <1>2
  <2>5. k # i
    BY <2>1, <2>3
  <2>6. Last(h.cells[i]) < h.cells[k].words \/ Last(h.cells[k]) < h.cells[i].words
    BY <1>4, <2>5
  <2>7. h.cells[k].words = Last(h.cells[i]) + 1
    BY <2>1, <2>3, <2>4, <2>6
  <2> QED
    BY <2>7
<1> QED
  BY <1>2, <1>4, <1>5, <1>6, <1>7 DEF SecValidate, mine, n

\* Every block's count is that of the allocations in it.
Counts == \A b \in DOMAIN heap.blocks : heap.blocks[b].n_used = Cardinality(Holders(b))

\* The invariant implies the properties.
LEMMA InvSays == Inv => TypeOK /\ Valid /\ Coalesced /\ Counts /\ SecretsKept
<1> SUFFICES ASSUME Inv
             PROVE  TypeOK /\ Valid /\ Coalesced /\ Counts /\ SecretsKept
  OBVIOUS
<1>1. Tiled(heap) /\ Merged(heap, {}) /\ Erased(heap, client) /\ Counted(heap, client)
      /\ client \in [Client -> ClientState] /\ \A t \in Client : Owns(heap, client[t], t)
  BY DEF Inv, Good
<1>2. DOMAIN heap.memory = DOMAIN heap.blocks /\ DOMAIN heap.blocks \subseteq BlockId
  BY <1>1 DEF Tiled, Shape
<1>3. TypeOK
  BY <1>1 DEF Tiled, Shape, TypeOK, Content, ClientState
<1>4. Valid
  BY <1>1, TiledValid DEF Valid
<1>5. Coalesced
  BY <1>1 DEF Merged, Adjacent, Coalesced
<1>6. Counts
  BY <1>1, <1>2, PointersAre DEF Counts, Counted, Used
<1>7. SecretsErased
  BY <1>1, <1>2, PointersAre DEF SecretsErased, Erased
<1>8. DataSurvives
  <2>1. ASSUME NEW t \in Client, InBlock(client[t].ptr)
        PROVE  /\ client[t].ptr.block \in DOMAIN heap.blocks
               /\ \A w \in client[t].ptr.word..(client[t].ptr.word + client[t].filled - 1) :
                     heap.memory[client[t].ptr.block][w] = t
    <3>1. client[t].ptr \in Pts(client[t])
      BY <2>1 DEF Pts
    <3>2. Held(heap, client[t].ptr)
      BY <1>1, <3>1 DEF Owns
    <3> QED
      BY <1>1, <2>1, <3>2, HeldInBlock DEF Owns
  <2> QED
    BY <2>1 DEF DataSurvives
<1> QED
  BY <1>3, <1>4, <1>5, <1>6, <1>7, <1>8 DEF SecretsKept

-----------------------------------------------------------------------------
(* The theorems.                                                           *)

\* Good in every state.
THEOREM HeapIsGood == Spec => []Inv
BY InitGood, NextGood, PTL DEF Spec

\* The blocks are always valid by sec_validate, no unused cell borders on
\* another, and every block's count is that of the allocations in it, whatever
\* was allocated, resized, moved and freed before.
THEOREM HeapStaysValid == Spec => [](TypeOK /\ Valid /\ Coalesced /\ Counts)
BY HeapIsGood, InvSays, PTL

\* What a client of egg_secure_alloc wrote is where it wrote it, or where
\* egg_secure_realloc carried it, and is nowhere in locked memory that is not
\* the client's any more.
THEOREM SecretsStayKept == Spec => []SecretsKept
BY HeapIsGood, InvSays, PTL
=============================================================================
