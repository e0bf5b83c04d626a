------------------------------ MODULE SmallMem ------------------------------
(***************************************************************************)
(* The heap: the small memory algorithm of mem.c behind rt_malloc,         *)
(* rt_realloc, rt_free, rt_malloc_align and rt_free_align of kservice.c.   *)
(* The heap lock makes each of them one step.  Sizes and offsets count     *)
(* units of RT_ALIGN_SIZE; a request is already rounded up to them.        *)
(*                                                                         *)
(*   items[p]  the rt_small_mem_item at offset p of the heap, if its kind  *)
(*             is "free" or "used"; "none" is what pool_ptr = 0 leaves     *)
(*   lfree     the offset of the lowest free item                          *)
(*   used, max parent.used, parent.max                                     *)
(*   users[p]  the request that the block at p answers (history)           *)
(***************************************************************************)
EXTENDS Integers, FiniteSets

CONSTANTS
  H,        \* SIZEOF_STRUCT_MEM
  MIN,      \* MIN_SIZE and MIN_SIZE_ALIGNED, which are equal
  MemSize,  \* mem_size_aligned
  Base,     \* heap_ptr
  Sizes,    \* sizes that are requested
  Aligns    \* alignments that are requested, powers of two

\* A heap smaller than MIN wraps mem_size_aligned - size around.
HeapAssumption ==
  /\ H \in Nat \ {0} /\ MIN \in Nat \ {0} /\ MemSize \in Nat /\ MemSize >= MIN
  /\ Base \in Nat
  /\ Sizes \subseteq 1 .. MemSize
  /\ Aligns \subseteq Nat \ {0}

End == MemSize + H       \* heap_end

Offsets == 0 .. End

VARIABLES items, lfree, used, max, users

heapVars == <<items, lfree, used, max>>

NoItem == [kind |-> "none", next |-> 0, prev |-> 0]

NoUse == [size |-> 0, align |-> 0, at |-> 0]

\* rt_smem_init
HeapInit ==
  /\ items = [p \in Offsets |->
                IF p = 0 THEN [kind |-> "free", next |-> End, prev |-> 0]
                ELSE IF p = End THEN [kind |-> "used", next |-> End, prev |-> End]
                ELSE NoItem]
  /\ lfree = 0
  /\ used = 0 /\ max = 0
  /\ users = [p \in Offsets |-> NoUse]

-----------------------------------------------------------------------------
(* Items and the space between them.                                       *)

Room(it, p) == it[p].next - (p + H)

\* "every data block must be at least MIN_SIZE_ALIGNED long"
Raised(size) == IF size < MIN THEN MIN ELSE size

\* Mutant of Split: the item that follows keeps its prev.
SplitStale(it, p, size) ==
  LET p2 == p + H + size
  IN  [it EXCEPT ![p].next = p2,
                 ![p2] = [kind |-> "free", next |-> it[p].next, prev |-> p]]

\* p gives up what lies beyond `size`: a free item is created there.  heap_end
\* keeps its prev, which nothing reads.
Split(it, p, size) ==
  LET p2 == p + H + size
      n  == it[p].next
  IN  [q \in Offsets |->
         CASE q = p  -> [it[p] EXCEPT !.next = p2]
           [] q = p2 -> [kind |-> "free", next |-> n, prev |-> p]
           [] q = n /\ n # End -> [it[n] EXCEPT !.prev = p2]
           [] OTHER  -> it[q]]

\* The item at q is merged into its predecessor p.
Merge(it, p, q) ==
  LET n == it[q].next
  IN  [o \in Offsets |->
         CASE o = p -> [it[p] EXCEPT !.next = n]
           [] o = q -> NoItem
           [] o = n -> [it[n] EXCEPT !.prev = p]
           [] OTHER -> it[o]]

\* The lowest free item that is not below p, or heap_end
LowestFree(it, p) ==
  CHOOSE q \in Offsets :
     /\ q >= p /\ (it[q].kind = "free" \/ q = End)
     /\ \A o \in Offsets : p <= o /\ o < q => it[o].kind # "free"

-----------------------------------------------------------------------------
(* plug_holes: the free item at p is merged with free neighbours.          *)

Forward(it, p) ==
  LET n == it[p].next
  IN  IF n # p /\ it[n].kind = "free" /\ n # End THEN n ELSE p

Backward(it, p) ==
  LET b == it[p].prev
  IN  IF b # p /\ it[b].kind = "free" THEN b ELSE p

\* Mutant of PlugHoles: only the hole after p is plugged.
PlugHolesForward(it, low, p) ==
  LET n == Forward(it, p)
  IN  /\ items' = IF n # p THEN Merge(it, p, n) ELSE it
      /\ lfree' = IF n # p /\ low = n THEN p ELSE low

PlugHoles(it, low, p) ==
  LET n    == Forward(it, p)
      it1  == IF n # p THEN Merge(it, p, n) ELSE it
      low1 == IF n # p /\ low = n THEN p ELSE low
      b    == Backward(it1, p)
  IN  /\ items' = IF b # p THEN Merge(it1, b, p) ELSE it1
      /\ lfree' = IF b # p /\ low1 = p THEN b ELSE low1

-----------------------------------------------------------------------------
(* rt_smem_alloc.                                                          *)

\* The loop walks from lfree along next to the first free item that is large
\* enough and ends there.
Fits(size, p) ==
  /\ p >= lfree /\ p <= MemSize - size
  /\ items[p].kind = "free" /\ Room(items, p) >= size

FirstFit(size, p) == Fits(size, p) /\ \A q \in Offsets : q < p => ~Fits(size, q)

\* The items once p is allocated; p keeps what is too small for another item
\* with MIN units of data
Taken(p, size) ==
  LET it == IF Room(items, p) >= size + H + MIN THEN Split(items, p, size) ELSE items
  IN  [it EXCEPT ![p].kind = "used"]

LowestAfter(it, p) == IF p = lfree THEN LowestFree(it, p) ELSE lfree

Spent(it, p) == used + (it[p].next - p)

Larger(m, n) == IF m > n THEN m ELSE n

\* A block for `size` units at p
AllocAt(size, p) ==
  LET it == Taken(p, size)
  IN  /\ FirstFit(size, p)
      /\ items' = it
      /\ lfree' = LowestAfter(it, p)
      /\ used' = Spent(it, p)
      /\ max' = Larger(max, used')

\* rt_malloc; a request that fails changes nothing
Malloc(size) ==
  \E p \in Offsets :
     /\ AllocAt(Raised(size), p)
     /\ users' = [users EXCEPT ![p] = [size |-> size, align |-> 1, at |-> Base + p + H]]

\* Mutant of MallocAlign: an aligned block is handed out without the pointer.
MallocAlignInPlace(size, align) ==
  \E p \in Offsets :
     LET ptr == Base + p + H
         at  == IF ptr % align = 0 THEN ptr ELSE ptr + (align - (ptr % align))
     IN  /\ size + align <= MemSize
         /\ AllocAt(Raised(size + align), p)
         /\ users' = [users EXCEPT ![p] = [size |-> size, align |-> align, at |-> at]]

\* rt_malloc_align: room for the alignment and for a pointer to the block
MallocAlign(size, align) ==
  \E p \in Offsets :
     LET ptr == Base + p + H
         at  == IF ptr % align = 0 THEN ptr + align ELSE ptr + (align - (ptr % align))
     IN  /\ size + align <= MemSize
         /\ AllocAt(Raised(size + align), p)
         /\ users' = [users EXCEPT ![p] = [size |-> size, align |-> align, at |-> at]]

-----------------------------------------------------------------------------
(* rt_smem_free.                                                           *)

\* Mutant of Release: lfree is left to plug_holes.
ReleaseStale(it, low, p) == PlugHoles([it EXCEPT ![p].kind = "free"], low, p)

\* Item p becomes free, among `it`
Release(it, low, p) ==
  PlugHoles([it EXCEPT ![p].kind = "free"], IF p < low THEN p ELSE low, p)

\* rt_free, rt_free_align, and rt_realloc with size 0
Free(p) ==
  /\ users[p].size > 0
  /\ Release(items, lfree, p)
  /\ used' = used - (items[p].next - p)
  /\ users' = [users EXCEPT ![p] = NoUse]
  /\ UNCHANGED max

-----------------------------------------------------------------------------
(* rt_smem_realloc.                                                        *)

Plain(p) == users[p].size > 0 /\ users[p].at = Base + p + H

Shrinks(p, size) == size + H + MIN < Room(items, p)

\* Mutant of ReallocShrink: what is cut off is not counted as free.
ReallocShrinkUncounted(p, size) ==
  LET p2 == p + H + size
      it == Split(items, p, size)
  IN  /\ Plain(p) /\ Shrinks(p, size)
      /\ PlugHoles(it, IF p2 < lfree THEN p2 ELSE lfree, p2)
      /\ users' = [users EXCEPT ![p].size = size]
      /\ UNCHANGED <<used, max>>

\* A block that is much larger than the request is split
ReallocShrink(p, size) ==
  LET p2 == p + H + size
      it == Split(items, p, size)
  IN  /\ Plain(p) /\ Shrinks(p, size)
      /\ PlugHoles(it, IF p2 < lfree THEN p2 ELSE lfree, p2)
      /\ used' = used - (Room(items, p) - size)
      /\ users' = [users EXCEPT ![p].size = size]
      /\ UNCHANGED max

\* A block of the size that is requested stays as it is
ReallocSame(p, size) ==
  /\ Plain(p) /\ Room(items, p) = size
  /\ users' = [users EXCEPT ![p].size = size]
  /\ UNCHANGED heapVars

\* Any other block is copied to a new one and freed; if there is no room for
\* both, nothing changes
ReallocMove(p, size) ==
  \E q \in Offsets :
     LET it  == Taken(q, Raised(size))
         low == LowestAfter(it, q)
     IN  /\ Plain(p) /\ Room(items, p) # size /\ ~Shrinks(p, size)
         /\ FirstFit(Raised(size), q)
         /\ Release(it, low, p)
         /\ used' = Spent(it, q) - (items[p].next - p)
         /\ max' = Larger(max, Spent(it, q))
         /\ users' = [users EXCEPT ![p] = NoUse,
                        ![q] = [size |-> size, align |-> 1, at |-> Base + q + H]]

-----------------------------------------------------------------------------
HeapNext ==
  \/ \E size \in Sizes : Malloc(size) \/ \E align \in Aligns : MallocAlign(size, align)
  \/ \E p \in Offsets :
        \/ Free(p)
        \/ \E size \in Sizes :
              ReallocShrink(p, size) \/ ReallocSame(p, size) \/ ReallocMove(p, size)

HeapSpec == HeapInit /\ [][HeapNext]_<<heapVars, users>>

-----------------------------------------------------------------------------
(* Properties.                                                             *)

\* Every variable keeps its type, and the account stays within the heap.
HeapTypeOK ==
  /\ items \in [Offsets -> [kind : {"none", "free", "used"}, next : Offsets, prev : Offsets]]
  /\ lfree \in Offsets
  /\ used \in 0 .. End /\ max \in 0 .. End
  /\ users \in [Offsets -> [size : 0 .. MemSize, align : Nat, at : Nat]]

IsItem(p) == items[p].kind # "none"

\* The items tile the heap: next leads from each one to the item that follows it
\* and prev back, and nothing but heap_end is at the end.  This is what memcheck
\* walks along.
Tiled ==
  /\ IsItem(0) /\ IsItem(End) /\ items[End].kind = "used" /\ items[0].prev = 0
  /\ \A p \in Offsets \ {End} : IsItem(p) =>
        LET n == items[p].next
        IN  /\ n >= p + H /\ IsItem(n)
            /\ n # End => items[n].prev = p
            /\ \A q \in Offsets : p < q /\ q < n => ~IsItem(q)

\* "mem->next will always be used at this point": free items are never adjacent.
NoHoles ==
  \A p \in Offsets \ {End} : items[p].kind = "free" => items[items[p].next].kind = "used"

\* Each user has a block of his own that holds what he asked for, with the
\* alignment he asked for, and every used item but heap_end is some user's.
UsersServed ==
  \A p \in Offsets :
     /\ (users[p].size > 0) <=> (items[p].kind = "used" /\ p # End)
     /\ users[p].size > 0 =>
          LET u == users[p]
          IN  /\ u.at >= Base + p + H /\ u.at + u.size <= Base + items[p].next
              /\ u.at % u.align = 0
              /\ u.align > 1 => u.at > Base + p + H

\* A request fails only if no free item is large enough: the search starts at the
\* lowest free item and leaves out none.
FindsRoom ==
  \A size \in Sizes :
     (\E p \in Offsets : items[p].kind = "free" /\ Room(items, p) >= Raised(size))
       => \E p \in Offsets : FirstFit(Raised(size), p)

Total[p \in Offsets] ==
  IF p = End THEN 0
  ELSE Total[items[p].next] + IF items[p].kind = "used" THEN items[p].next - p ELSE 0

\* rt_memory_info tells the truth: used is what the used items take up.
UsedIsExact == used = Total[0] /\ used <= max

\* rt_smem_alloc, rt_smem_free, rt_smem_realloc: the items tile the heap, free ones
\* are never adjacent, an allocation fails only if none of them is large enough, and
\* `used` is what the used items take up.  rt_malloc, rt_malloc_align, rt_realloc: each
\* user has a block that holds what he asked for, aligned as he asked for, and shares
\* it with nobody.
HeapSound == HeapTypeOK /\ Tiled /\ NoHoles /\ FindsRoom /\ UsedIsExact /\ UsersServed
=============================================================================
