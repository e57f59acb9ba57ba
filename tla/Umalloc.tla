------------------------------ MODULE Umalloc ------------------------------
(***************************************************************************)
(* malloc and free of the user library, umalloc.c: a circular list of free *)
(* blocks in address order, first fit from where the last search stopped,  *)
(* neighbouring blocks joined when a block is freed, and sbrk for more.    *)
(*                                                                         *)
(* Addresses and sizes are counted in units of sizeof(Header).  The static *)
(* header `base' has address 0 and size 0; the heap starts at 2, so no     *)
(* block of it follows base directly.                                      *)
(***************************************************************************)
EXTENDS Integers, FiniteSets, TLC

CONSTANTS MaxUnits,  \* bound: units of the largest request, its header included
          CoreUnits, \* units morecore asks for at least (4096)
          HeapUnits  \* units sbrk can give

VARIABLES ptr, size, \* the headers, by address
          freep,     \* where the next search starts; 0 also before the first
          started,   \* freep has been set
          brk,       \* end of the heap
          held       \* history: the blocks the program holds, as <<address, units>>

mallocvars == <<ptr, size, freep, started, brk, held>>

base == 0
Start == 2
Addr == {base} \union (Start .. Start + HeapUnits - 1)

MallocInit ==
  /\ ptr = [a \in Addr |-> 0] /\ size = [a \in Addr |-> 0]
  /\ freep = base /\ started = FALSE
  /\ brk = Start /\ held = {}

\* The heap as free and malloc see it.
Heap == [ptr |-> ptr, size |-> size, freep |-> freep]

\* The free block after which bp belongs: the one below it, or the last one
\* when bp lies below the first or above the last.
RECURSIVE Before(_, _, _)
Before(h, bp, p) ==
  LET q == h.ptr[p]
  IN IF (bp > p /\ bp < q) \/ (p >= q /\ (bp > p \/ bp < q)) THEN p ELSE Before(h, bp, q)

\* A bug in it: a block is joined with the block above it but not with the one below.
FreedHalf(h, bp) ==
  LET p == Before(h, bp, h.freep)
      q == h.ptr[p]
      up == bp + h.size[bp] = q
  IN [ptr |-> [h.ptr EXCEPT ![bp] = IF up THEN h.ptr[q] ELSE q, ![p] = bp],
      size |-> [h.size EXCEPT ![bp] = IF up THEN @ + h.size[q] ELSE @], freep |-> p]

\* free: the block goes into the list, joined with the block above it and the
\* block below it where they touch.
Freed(h, bp) ==
  LET p == Before(h, bp, h.freep)
      q == h.ptr[p]
      up == bp + h.size[bp] = q
      after == IF up THEN h.ptr[q] ELSE q
      units == IF up THEN h.size[bp] + h.size[q] ELSE h.size[bp]
      down == p + h.size[p] = bp
  IN [ptr |-> IF down THEN [h.ptr EXCEPT ![bp] = after, ![p] = after]
              ELSE [h.ptr EXCEPT ![bp] = after, ![p] = bp],
      size |-> IF down THEN [h.size EXCEPT ![bp] = units, ![p] = @ + units]
               ELSE [h.size EXCEPT ![bp] = units],
      freep |-> p]

\* morecore: sbrk gives at least CoreUnits, or nothing; what it gives is freed.
Core(nunits) == IF nunits < CoreUnits THEN CoreUnits ELSE nunits
CanGrow(b, nunits) == b + Core(nunits) <= Start + HeapUnits
morecore(h, b, nunits) == Freed([h EXCEPT !.size[b] = Core(nunits)], b)

\* The free list from p on.
RECURSIVE Ring(_, _, _)
Ring(h, p, seen) == IF p \in seen THEN seen ELSE Ring(h, h.ptr[p], seen \union {p})

\* What of a heap is kept: the headers of free blocks and the sizes of held
\* ones.  All other words are the program's.
Keep(h, blocks) ==
  LET ring == Ring(h, h.freep, {})
  IN /\ ptr' = [a \in Addr |-> IF a \in ring THEN h.ptr[a] ELSE 0]
     /\ size' = [a \in Addr |-> IF a \in ring \union {blk[1] : blk \in blocks}
                               THEN h.size[a] ELSE 0]
     /\ freep' = h.freep
     /\ held' = blocks

\* The block p cut: all of it leaves the list, or its tail does.
Cut(h, prevp, p, nunits) ==
  LET rest == h.size[p] - nunits
  IN IF rest = 0
     THEN [h |-> [h EXCEPT !.ptr[prevp] = h.ptr[p], !.freep = prevp], at |-> p]
     ELSE [h |-> [h EXCEPT !.size = [@ EXCEPT ![p] = rest, ![p + rest] = nunits],
                           !.freep = prevp], at |-> p + rest]

\* malloc's search from prevp on; at = base stands for the result 0.
RECURSIVE Search(_, _, _, _, _)
Search(h, b, prevp, p, nunits) ==
  IF h.size[p] >= nunits THEN Cut(h, prevp, p, nunits) @@ [brk |-> b]
  ELSE IF p # h.freep THEN Search(h, b, p, h.ptr[p], nunits)
  ELSE IF ~CanGrow(b, nunits) THEN [h |-> h, at |-> base, brk |-> b]
  ELSE LET g == morecore(h, b, nunits)
       IN Search(g, b + Core(nunits), g.freep, g.ptr[g.freep], nunits)

malloc(nunits) ==
  LET h == IF started THEN Heap ELSE [Heap EXCEPT !.ptr[base] = base]
      r == Search(h, brk, freep, h.ptr[freep], nunits)
  IN /\ started' = TRUE
     /\ brk' = r.brk
     /\ Keep(r.h, IF r.at = base THEN held ELSE held \union {<<r.at, nunits>>})

free(blk) ==
  LET h == Freed(Heap, blk[1])
  IN /\ blk \in held
     /\ Keep(h, held \ {blk})
     /\ UNCHANGED <<started, brk>>

MallocNext == \/ \E n \in 1 .. MaxUnits : malloc(n)
              \/ \E blk \in held : free(blk)

(***************************************************************************)
(* Properties                                                              *)
(***************************************************************************)

FreeBlocks == {<<p, size[p]>> : p \in Ring(Heap, freep, {}) \ {base}}
Units(blk) == blk[1] .. blk[1] + blk[2] - 1

\* The free blocks and the blocks the program holds tile the heap that sbrk has
\* given: no unit is in two blocks and none is lost; and no two free blocks
\* touch, so that memory freed in any order can be handed out as one block.
HeapTiled ==
  started =>
    LET blocks == FreeBlocks \union held
    IN /\ UNION {Units(x) : x \in blocks} = Start .. brk - 1
       /\ \A x, y \in blocks : x # y => Units(x) \intersect Units(y) = {}
       /\ \A x, y \in FreeBlocks : x[1] + x[2] # y[1]
       /\ base \in Ring(Heap, freep, {})
=============================================================================
