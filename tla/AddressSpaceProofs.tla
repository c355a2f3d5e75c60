-------------------------- MODULE AddressSpaceProofs --------------------------
(***************************************************************************)
(* "Container A cannot read Container B", proved for every number of       *)
(* boundaries, shape of the page tables, memory map and size of a call.    *)
(***************************************************************************)
EXTENDS AddressSpace, Functions, FiniteSetTheorems, TLAPS

(* A set of numbers has a least one.                                       *)
LEMMA LeastNat ==
  ASSUME NEW T, T \subseteq Nat, T # {}
  PROVE  \E x \in T : \A y \in T : x <= y
<1> DEFINE R == {ss \in Nat \X Nat : ss[1] < ss[2]}
<1>1. IsWellFoundedOn(R, Nat)
  BY NatLessThanWellFounded, Zenon DEF OpToRel
<1>a. \A y, x \in Nat : y < x => <<y, x>> \in R
  OBVIOUS
<1> HIDE DEF R
<1>2. PICK x \in T : \A y \in T : ~(<<y, x>> \in R)
  BY <1>1, WFMin, Zenon
<1>3. \A y \in T : ~(y < x) /\ y \in Nat /\ x \in Nat
  BY <1>2, <1>a, Zenon
<1>4. \A y \in T : x <= y
  BY <1>3
<1> QED
  BY <1>4, Zenon

(* Induction, for a set in the place of a predicate.                       *)
LEMMA Inductive ==
  ASSUME NEW T, 0 \in T, \A n \in Nat : n \in T => n + 1 \in T
  PROVE  Nat \subseteq T
<1> SUFFICES ASSUME Nat \ T # {} PROVE FALSE
  OBVIOUS
<1>1. PICK x \in Nat \ T : \A y \in Nat \ T : x <= y
  BY LeastNat, Zenon
<1>2. x # 0 /\ x - 1 \in Nat /\ (x - 1) + 1 = x /\ ~(x <= x - 1)
  BY <1>1
<1>3. x - 1 \in T
  BY <1>1, <1>2, Zenon
<1> QED
  BY <1>1, <1>2, <1>3, Zenon

LEMMA LastIsMax == ASSUME NEW k \in Nat, NEW s \in SUBSET (1..k), k \in s PROVE Max(s) = k
<1>1. k \in s /\ \A y \in s : k >= y
  OBVIOUS
<1>2. \A z \in s : (\A y \in s : z >= y) => z = k
  OBVIOUS
<1> QED
  BY <1>1, <1>2, Zenon DEF Max


-----------------------------------------------------------------------------
(* The loops of the address spaces.                                        *)

\* One turn of a loop: of the walk down the tree, of map_range, of map_new_pages
\* and of the frees of destroy_space.  w says which, and holds its arguments.
RangeStep(n, virt, phys, count, k) ==
  LET i == k - 1 IN
  IF n.failed \/ i < n.next THEN n
  ELSE IF TakesBlock(virt, phys, count, i)
  THEN [map_block_2m(n, virt + i, phys + i) EXCEPT !.next = i + ENTRIES]
  ELSE [map(n, virt + i, phys + i) EXCEPT !.next = i + 1]

PageStep(m, virt, k) ==
  LET z == allocate_zeroed(m)
      n == map(z, virt + k - 1, z.got)
  IN  IF n.failed THEN n
      ELSE [n EXCEPT !.mapped = Append(n.mapped, z.got), !.mem[z.got] = Stored]

\* The loop of map_new_pages.
new_pages(x, virt, count) ==
  Loop(LAMBDA m, k :
         LET z == allocate_zeroed(m)
             n == map(z, virt + k - 1, z.got)
         IN  IF n.failed THEN n
             ELSE [n EXCEPT !.mapped = Append(n.mapped, z.got), !.mem[z.got] = Stored],
       x, count)

Turn(w, m, k) ==
  CASE w.loop = "walk" -> Descend(m, indices(w.virt)[k])
    [] w.loop = "range" -> RangeStep(m, w.virt, w.phys, w.count, k)
    [] w.loop = "pages" -> PageStep(m, w.virt, k)
    [] OTHER -> free(m, w.seq[k])

Folded(g, w, base, D) == g = [s \in SUBSET D |-> IF s = {} THEN base ELSE Turn(w, g[s \ {Max(s)}], Max(s))]

(* The fold is a function that satisfies its equation.                     *)
LEMMA FoldExists == ASSUME NEW w, NEW base PROVE \A k \in Nat : \E g : Folded(g, w, base, 1..k)
<1> DEFINE Has == {k \in Nat : \E g : Folded(g, w, base, 1..k)}
<1>1. 0 \in Has
  <2>1. SUBSET (1..0) = {{}}
    OBVIOUS
  <2>2. Folded([s \in SUBSET (1..0) |-> base], w, base, 1..0)
    BY <2>1, Zenon DEF Folded
  <2> QED
    BY <2>2, Zenon
<1>2. ASSUME NEW k \in Nat, k \in Has PROVE k + 1 \in Has
  <2>1. PICK g : Folded(g, w, base, 1..k)
    BY <1>2, Zenon
  <2> DEFINE h == [s \in SUBSET (1..(k + 1)) |->
                     IF k + 1 \in s THEN Turn(w, g[s \ {k + 1}], k + 1) ELSE g[s]]
             j == [s \in SUBSET (1..(k + 1)) |-> IF s = {} THEN base ELSE Turn(w, h[s \ {Max(s)}], Max(s))]
  <2>2. ASSUME NEW s \in SUBSET (1..(k + 1)) PROVE h[s] = j[s]
    <3>1. CASE k + 1 \in s
      <4>1. Max(s) = k + 1
        <5>1. k + 1 \in Nat
          OBVIOUS
        <5> QED
          BY <3>1, <5>1, LastIsMax, Zenon
      <4>2. s \ {k + 1} \in SUBSET (1..(k + 1)) /\ k + 1 \notin s \ {k + 1} /\ s # {}
        BY <3>1, Zenon
      <4>3. h[s \ {k + 1}] = g[s \ {k + 1}]
        BY <4>2, Zenon
      <4> HIDE DEF h
      <4>4. j[s] = Turn(w, g[s \ {k + 1}], k + 1)
        BY <4>1, <4>2, <4>3, Zenon
      <4> HIDE DEF j
      <4> QED
        BY <3>1, <4>4, Zenon DEF h
    <3>2. CASE k + 1 \notin s
      <4>1. s \in SUBSET (1..k)
        BY <3>2
      <4>2. s \ {Max(s)} \in SUBSET (1..(k + 1)) /\ k + 1 \notin s \ {Max(s)}
        BY <3>2, Zenon
      <4>3. h[s] = g[s] /\ h[s \ {Max(s)}] = g[s \ {Max(s)}]
        BY <3>2, <4>2, Zenon
      <4>4. g[s] = IF s = {} THEN base ELSE Turn(w, g[s \ {Max(s)}], Max(s))
        BY <2>1, <4>1, Zenon DEF Folded
      <4> HIDE DEF h
      <4> QED
        BY <4>3, <4>4, Zenon
    <3> QED
      BY <3>1, <3>2, Zenon
  <2>3. h = [s \in SUBSET (1..(k + 1)) |-> h[s]] /\ j = [s \in SUBSET (1..(k + 1)) |-> j[s]]
    BY Zenon
  <2>4. h = j
    <3> HIDE DEF h, j
    <3>1. [s \in SUBSET (1..(k + 1)) |-> h[s]] = [s \in SUBSET (1..(k + 1)) |-> j[s]]
      BY <2>2, Zenon
    <3> QED
      BY <2>3, <3>1, Zenon
  <2>5. Folded(h, w, base, 1..(k + 1))
    <3> HIDE DEF h
    <3> QED
      BY <2>4, Zenon DEF Folded
  <2>6. k + 1 \in Nat
    OBVIOUS
  <2> HIDE DEF h, j
  <2> QED
    BY <2>5, <2>6, Zenon
<1>3. Nat \subseteq Has
  <2> HIDE DEF Has
  <2> QED
    BY <1>1, <1>2, Inductive, Zenon
<1> QED
  BY <1>3, Zenon

(* The turns of a loop, one after the other.                               *)
Turns(g, w, base, n) == g[0] = base /\ \A k \in 1..n : g[k] = Turn(w, g[k - 1], k)

LEMMA FoldTurns ==
    ASSUME NEW w, NEW base, NEW n \in Nat, NEW g, Folded(g, w, base, 1..n)
    PROVE  \E h : Turns(h, w, base, n) /\ h[n] = g[1..n]
<1> DEFINE h == [k \in 0..n |-> g[1..k]]
<1>1. 1..0 = {} /\ {} \in SUBSET (1..n) /\ 0 \in 0..n /\ n \in 0..n
  OBVIOUS
<1>2. g[1..0] = base
  BY <1>1, Zenon DEF Folded
<1>3. ASSUME NEW k \in 1..n PROVE g[1..k] = Turn(w, g[1..(k - 1)], k)
  <2>1. k \in Nat /\ k \in 1..k /\ 1..k \in SUBSET (1..n) /\ (1..k) \ {k} = 1..(k - 1) /\ 1..k # {}
    OBVIOUS
  <2>2. Max(1..k) = k
    BY <2>1, LastIsMax, Zenon
  <2> QED
    BY <2>1, <2>2, Zenon DEF Folded
<1>4. \A k \in 1..n : k \in 0..n /\ k - 1 \in 0..n
  OBVIOUS
<1>5. \A k \in 0..n : h[k] = g[1..k]
  BY Zenon
<1> HIDE DEF h
<1>6. Turns(h, w, base, n)
  BY <1>1, <1>2, <1>3, <1>4, <1>5, Zenon DEF Turns
<1> QED
  BY <1>1, <1>5, <1>6, Zenon

\* Where the walk begins.
AtRoot(m) == [m EXCEPT !.table = m.root]

(* The walk is its turns.                                                  *)
LEMMA WalkLoop ==
    ASSUME NEW x, NEW virt, NEW levels \in Nat
    PROVE  \E w, g : w.loop = "walk" /\ w.virt = virt /\ Turns(g, w, AtRoot(x), levels) /\ Walk(x, virt, levels) = g[levels]
<1> DEFINE o == [x EXCEPT !.table = x.root]
           w == [loop |-> "walk", virt |-> virt]
           D == 1 .. levels
           F(g) == g = [s \in SUBSET D |-> IF s = {} THEN o ELSE Descend(g[s \ {Max(s)}], indices(virt)[Max(s)])]
           c == CHOOSE g : F(g)
<1>1. D = 1..levels /\ levels \in Nat
  BY Zenon
<1>2. Walk(x, virt, levels) = c[D]
  BY Zenon DEF Walk, Loop, MapThenFoldSet
<1> HIDE DEF o
<1>3. w.loop = "walk" /\ w.virt = virt
  BY Zenon
<1> HIDE DEF w, D
<1>4. \A m, k : Turn(w, m, k) = Descend(m, indices(virt)[k])
  BY <1>3, Zenon DEF Turn
<1>5. ASSUME NEW g PROVE F(g) <=> Folded(g, w, o, D)
  <2>1. [s \in SUBSET D |-> IF s = {} THEN o ELSE Descend(g[s \ {Max(s)}], indices(virt)[Max(s)])]
        = [s \in SUBSET D |-> IF s = {} THEN o ELSE Turn(w, g[s \ {Max(s)}], Max(s))]
    BY <1>4, Zenon
  <2> QED
    BY <2>1, Zenon DEF Folded
<1>6. \E g : F(g)
  <2> HIDE DEF F
  <2> QED
    BY <1>1, <1>5, FoldExists, Zenon
<1>7. F(c)
  BY <1>6, Zenon
<1> HIDE DEF F, c
<1>8. Folded(c, w, o, 1..levels)
  BY <1>1, <1>5, <1>7, Zenon
<1>9. PICK h : Turns(h, w, o, levels) /\ h[levels] = c[1..levels]
  BY <1>1, <1>8, FoldTurns
<1>10. Walk(x, virt, levels) = h[levels]
  BY <1>1, <1>2, <1>9, Zenon
<1> QED
  BY <1>3, <1>9, <1>10, Zenon DEF o, AtRoot

\* The loops of map_new_pages, and of map_range over a window.
NewPages(w, virt) == w.loop = "pages" /\ w.virt = virt

Ranges(w, virt, phys, count) ==
    w.loop = "range" /\ w.virt = virt /\ w.phys = phys /\ w.count = count

(* So is map_range.                                                        *)
LEMMA RangeLoop ==
    ASSUME NEW x, NEW virt, NEW phys, NEW count \in Nat
    PROVE  \E w, g : Ranges(w, virt, phys, count) /\ Turns(g, w, x, count) /\ map_range(x, virt, phys, count) = g[count]
<1> DEFINE o == x
           w == [loop |-> "range", virt |-> virt, phys |-> phys, count |-> count]
           D == 1 .. count
           F(g) == g = [s \in SUBSET D |-> IF s = {} THEN o ELSE RangeStep(g[s \ {Max(s)}], virt, phys, count, Max(s))]
           c == CHOOSE g : F(g)
<1>1. D = 1..count /\ count \in Nat
  BY Zenon
<1>2. map_range(x, virt, phys, count) = c[D]
  BY Zenon DEF map_range, RangeStep, Loop, MapThenFoldSet
<1> HIDE DEF o
<1>3. w.loop = "range" /\ w.virt = virt /\ w.phys = phys /\ w.count = count
  BY Zenon
<1> HIDE DEF w, D
<1>4. \A m, k : Turn(w, m, k) = RangeStep(m, virt, phys, count, k)
  BY <1>3, Zenon DEF Turn
<1>5. ASSUME NEW g PROVE F(g) <=> Folded(g, w, o, D)
  <2>1. [s \in SUBSET D |-> IF s = {} THEN o ELSE RangeStep(g[s \ {Max(s)}], virt, phys, count, Max(s))]
        = [s \in SUBSET D |-> IF s = {} THEN o ELSE Turn(w, g[s \ {Max(s)}], Max(s))]
    BY <1>4, Zenon
  <2> QED
    BY <2>1, Zenon DEF Folded
<1>6. \E g : F(g)
  <2> HIDE DEF F
  <2> QED
    BY <1>1, <1>5, FoldExists, Zenon
<1>7. F(c)
  BY <1>6, Zenon
<1> HIDE DEF F, c
<1>8. Folded(c, w, o, 1..count)
  BY <1>1, <1>5, <1>7, Zenon
<1>9. PICK h : Turns(h, w, o, count) /\ h[count] = c[1..count]
  BY <1>1, <1>8, FoldTurns
<1>10. map_range(x, virt, phys, count) = h[count]
  BY <1>1, <1>2, <1>9, Zenon
<1> QED
  BY <1>3, <1>9, <1>10, Zenon DEF o, Ranges

(* So is map_new_pages.                                                    *)
LEMMA PageLoop ==
    ASSUME NEW x, NEW virt, NEW count \in Nat
    PROVE  \E w, g : NewPages(w, virt) /\ Turns(g, w, x, count) /\ new_pages(x, virt, count) = g[count]
<1> DEFINE o == x
           w == [loop |-> "pages", virt |-> virt]
           D == 1 .. count
           F(g) == g = [s \in SUBSET D |-> IF s = {} THEN o ELSE PageStep(g[s \ {Max(s)}], virt, Max(s))]
           c == CHOOSE g : F(g)
<1>1. D = 1..count /\ count \in Nat
  BY Zenon
<1>2. new_pages(x, virt, count) = c[D]
  BY Zenon DEF new_pages, PageStep, Loop, MapThenFoldSet
<1> HIDE DEF o
<1>3. w.loop = "pages" /\ w.virt = virt
  BY Zenon
<1> HIDE DEF w, D
<1>4. \A m, k : Turn(w, m, k) = PageStep(m, virt, k)
  BY <1>3, Zenon DEF Turn
<1>5. ASSUME NEW g PROVE F(g) <=> Folded(g, w, o, D)
  <2>1. [s \in SUBSET D |-> IF s = {} THEN o ELSE PageStep(g[s \ {Max(s)}], virt, Max(s))]
        = [s \in SUBSET D |-> IF s = {} THEN o ELSE Turn(w, g[s \ {Max(s)}], Max(s))]
    BY <1>4, Zenon
  <2> QED
    BY <2>1, Zenon DEF Folded
<1>6. \E g : F(g)
  <2> HIDE DEF F
  <2> QED
    BY <1>1, <1>5, FoldExists, Zenon
<1>7. F(c)
  BY <1>6, Zenon
<1> HIDE DEF F, c
<1>8. Folded(c, w, o, 1..count)
  BY <1>1, <1>5, <1>7, Zenon
<1>9. PICK h : Turns(h, w, o, count) /\ h[count] = c[1..count]
  BY <1>1, <1>8, FoldTurns
<1>10. new_pages(x, virt, count) = h[count]
  BY <1>1, <1>2, <1>9, Zenon
<1> QED
  BY <1>3, <1>9, <1>10, Zenon DEF o, NewPages

(* So are the frees of destroy_space.                                      *)
LEMMA FreeLoop ==
    ASSUME NEW x, NEW seq \in Seq(Nat)
    PROVE  \E w, g : w.loop = "free" /\ w.seq = seq /\ Turns(g, w, x, Len(seq)) /\ frees(x, seq) = g[Len(seq)]
<1> DEFINE q == seq
           o == x
           w == [loop |-> "free", seq |-> q]
           D == 1 .. Len(q)
           F(g) == g = [s \in SUBSET D |-> IF s = {} THEN o ELSE free(g[s \ {Max(s)}], q[Max(s)])]
           c == CHOOSE g : F(g)
<1>1. D = 1..Len(seq) /\ Len(seq) \in Nat
  OBVIOUS
<1>2. frees(x, seq) = c[D]
  BY Zenon DEF frees, Loop, MapThenFoldSet
<1> HIDE DEF q, o
<1>3. w.loop = "free" /\ w.seq = q
  BY Zenon
<1> HIDE DEF w, D
<1>4. \A m, k : Turn(w, m, k) = free(m, q[k])
  BY <1>3, Zenon DEF Turn
<1>5. ASSUME NEW g PROVE F(g) <=> Folded(g, w, o, D)
  <2>1. [s \in SUBSET D |-> IF s = {} THEN o ELSE free(g[s \ {Max(s)}], q[Max(s)])]
        = [s \in SUBSET D |-> IF s = {} THEN o ELSE Turn(w, g[s \ {Max(s)}], Max(s))]
    BY <1>4, Zenon
  <2> QED
    BY <2>1, Zenon DEF Folded
<1>6. \E g : F(g)
  <2> HIDE DEF F
  <2> QED
    BY <1>1, <1>5, FoldExists, Zenon
<1>7. F(c)
  BY <1>6, Zenon
<1> HIDE DEF F, c
<1>8. Folded(c, w, o, 1..Len(seq))
  BY <1>1, <1>5, <1>7, Zenon
<1>9. PICK h : Turns(h, w, o, Len(seq)) /\ h[Len(seq)] = c[1..Len(seq)]
  BY <1>1, <1>8, FoldTurns
<1>10. frees(x, seq) = h[Len(seq)]
  BY <1>1, <1>2, <1>9, Zenon
<1> QED
  BY <1>3, <1>9, <1>10, Zenon DEF q, o

-----------------------------------------------------------------------------
(* The frame allocator.                                                    *)

AllocFields == {"count", "taken", "allocated", "next_hint"}

FramesOk(a) ==
    /\ DOMAIN a = AllocFields /\ a.count \in Nat /\ a.taken \subseteq 0 .. a.count - 1
    /\ IsFiniteSet(a.taken) /\ a.allocated = Cardinality(a.taken)
    /\ FreeFrames(a) \cap Device = {}

LEMMA LeastIsOne == ASSUME NEW T, T \subseteq Nat, T # {} PROVE Least(T) \in T
<1>1. PICK x \in T : \A y \in T : x <= y
  BY LeastNat, Zenon
<1> QED
  BY <1>1, Zenon DEF Least

(* allocate takes a frame that was free, and counts it.                    *)
LEMMA AllocateTakes ==
    ASSUME NEW a, FramesOk(a), Found(a) # NoFrame
    PROVE  /\ Found(a) \in Nat /\ Found(a) \notin a.taken /\ Found(a) \notin Device
           /\ FramesOk(allocate(a)) /\ allocate(a).taken = a.taken \cup {Found(a)}
<1>1. FreeFrames(a) # {} /\ FreeFrames(a) \subseteq Nat
  <2>1. FreeFrames(a) # {}
    BY Zenon DEF Found
  <2> QED
    BY <2>1 DEF FreeFrames, FramesOk
<1>2. Found(a) \in FreeFrames(a)
  <2> DEFINE ahead == {f \in FreeFrames(a) : f >= a.next_hint}
  <2>1. ahead \subseteq Nat /\ ahead \subseteq FreeFrames(a)
    BY <1>1, Zenon
  <2>2. Found(a) = IF ahead # {} THEN Least(ahead) ELSE Least(FreeFrames(a))
    BY <1>1, Zenon DEF Found
  <2> HIDE DEF ahead
  <2>3. (ahead # {} => Least(ahead) \in ahead) /\ Least(FreeFrames(a)) \in FreeFrames(a)
    BY <1>1, <2>1, LeastIsOne, Zenon
  <2> QED
    BY <2>1, <2>2, <2>3, Zenon
<1> DEFINE f == Found(a)
<1>3. f \in 0 .. a.count - 1 /\ f \notin a.taken /\ f \in Nat /\ f \notin Device
  BY <1>1, <1>2, Zenon DEF FreeFrames, FramesOk
<1>4. allocate(a) = [a EXCEPT !.taken = a.taken \cup {f}, !.allocated = a.allocated + 1, !.next_hint = f + 1]
  BY Zenon DEF allocate
<1> HIDE DEF f
<1>5. /\ DOMAIN allocate(a) = AllocFields /\ allocate(a).count = a.count
      /\ allocate(a).taken = a.taken \cup {f} /\ allocate(a).allocated = a.allocated + 1
  BY <1>4, Zenon DEF FramesOk, AllocFields
<1>6. IsFiniteSet(a.taken \cup {f}) /\ Cardinality(a.taken \cup {f}) = Cardinality(a.taken) + 1
  BY <1>3, FS_AddElement, Zenon DEF FramesOk
<1>7. FreeFrames(allocate(a)) \cap Device = {}
  BY <1>5, Zenon DEF FreeFrames, FramesOk
<1>8. FramesOk(allocate(a))
  BY <1>3, <1>5, <1>6, <1>7, Zenon DEF FramesOk
<1> QED
  BY <1>3, <1>5, <1>8, Zenon DEF f

(* A frame that is freed is taken no more.                                 *)
LEMMA FreeGives ==
    ASSUME NEW a, FramesOk(a), NEW f, f \notin Device
    PROVE  FramesOk(free(a, f)) /\ a.taken \ {f} \subseteq free(a, f).taken
<1>1. CASE f \notin a.taken
  BY <1>1, Zenon DEF free
<1>2. CASE f \in a.taken
  <2>1. free(a, f) = [a EXCEPT !.taken = a.taken \ {f},
                               !.allocated = IF a.allocated = 0 THEN 0 ELSE a.allocated - 1,
                               !.next_hint = IF f < a.next_hint THEN f ELSE a.next_hint]
    BY <1>2, Zenon DEF free
  <2>2. /\ DOMAIN free(a, f) = AllocFields /\ free(a, f).count = a.count /\ free(a, f).taken = a.taken \ {f}
        /\ free(a, f).allocated = IF a.allocated = 0 THEN 0 ELSE a.allocated - 1
    BY <2>1, Zenon DEF FramesOk, AllocFields
  <2>3. /\ IsFiniteSet(a.taken \ {f}) /\ Cardinality(a.taken \ {f}) = Cardinality(a.taken) - 1
        /\ Cardinality(a.taken \ {f}) \in Nat /\ Cardinality(a.taken) \in Nat
    <3>1. IsFiniteSet(a.taken)
      BY Zenon DEF FramesOk
    <3>2. IsFiniteSet(a.taken \ {f}) /\ Cardinality(a.taken \ {f}) = Cardinality(a.taken) - 1
      BY <1>2, <3>1, FS_RemoveElement, Zenon
    <3> QED
      BY <3>1, <3>2, FS_CardinalityType, Zenon
  <2>4. free(a, f).allocated = Cardinality(a.taken \ {f})
    <3>1. a.allocated = Cardinality(a.taken)
      BY Zenon DEF FramesOk
    <3> QED
      BY <2>2, <2>3, <3>1
  <2>5. FreeFrames(free(a, f)) \cap Device = {}
    BY <2>2, Zenon DEF FreeFrames, FramesOk
  <2>6. FramesOk(free(a, f))
    BY <2>2, <2>3, <2>4, <2>5, Zenon DEF FramesOk
  <2> QED
    BY <2>2, <2>6, Zenon
<1> QED
  BY <1>1, <1>2, Zenon

(* destroy_space frees the frames of the boundary and no other.            *)
LEMMA FreesGive ==
    ASSUME NEW a, FramesOk(a), NEW seq \in Seq(Nat), Range(seq) \cap Device = {}
    PROVE  FramesOk(frees(a, seq)) /\ a.taken \ Range(seq) \subseteq frees(a, seq).taken
<1>1. Len(seq) \in Nat /\ DOMAIN seq = 1..Len(seq)
  OBVIOUS
<1>2. PICK w, g : w.loop = "free" /\ w.seq = seq /\ Turns(g, w, a, Len(seq)) /\ frees(a, seq) = g[Len(seq)]
  BY FreeLoop, Zenon
<1> DEFINE Stays(k) == FramesOk(g[k]) /\ a.taken \ Range(seq) \subseteq g[k].taken
           Has == {k \in Nat : k <= Len(seq) => Stays(k)}
<1>3. 0 \in Has
  BY <1>2, Zenon DEF Turns
<1>4. ASSUME NEW k \in Nat, k \in Has PROVE k + 1 \in Has
  <2>1. k + 1 \in Nat /\ (k + 1 <= Len(seq) => k <= Len(seq) /\ k + 1 \in 1..Len(seq)) /\ (k + 1) - 1 = k
    BY <1>1
  <2>2. ASSUME k + 1 <= Len(seq) PROVE Stays(k + 1)
    <3>1. g[k + 1] = free(g[k], seq[k + 1])
      BY <1>2, <2>1, <2>2, Zenon DEF Turns, Turn
    <3>2. seq[k + 1] \in Range(seq)
      BY <1>1, <2>1, <2>2, Zenon DEF Range
    <3>3. Stays(k)
      BY <1>4, <2>1, <2>2, Zenon
    <3>4. FramesOk(free(g[k], seq[k + 1])) /\ g[k].taken \ {seq[k + 1]} \subseteq free(g[k], seq[k + 1]).taken
      BY <3>2, <3>3, FreeGives, Zenon
    <3> QED
      BY <3>1, <3>2, <3>3, <3>4, Zenon
  <2> QED
    BY <2>1, <2>2, Zenon
<1>5. Len(seq) \in Has
  <2> HIDE DEF Has
  <2> QED
    BY <1>1, <1>3, <1>4, Inductive, Zenon
<1>6. Len(seq) <= Len(seq)
  BY <1>1
<1> QED
  BY <1>1, <1>2, <1>5, <1>6, Zenon

-----------------------------------------------------------------------------
(* A call on a space.                                                      *)

CallFields == {"a", "mem", "root", "table", "got", "mapped", "view", "tables", "next", "failed"}
Shaped(m) == DOMAIN m = CallFields /\ FramesOk(m.a)

\* From m to n the call has built tables from frames that were free, and no more.
Built(m, n) ==
    /\ Shaped(n) /\ m.a.taken \subseteq n.a.taken
    /\ n.mapped = m.mapped /\ n.view = m.view
    /\ m.tables \subseteq n.tables /\ n.tables \ m.tables \subseteq n.a.taken \ (m.a.taken \cup Device)
    /\ m.failed => n.failed

LEMMA BuiltOn == ASSUME NEW m, NEW n, NEW o, Built(m, n), Built(n, o) PROVE Built(m, o)
BY Zenon DEF Built

LEMMA Fails == ASSUME NEW m, Shaped(m) PROVE Built(m, Err(m)) /\ Err(m).failed
<1>1. /\ DOMAIN Err(m) = CallFields /\ Err(m).a = m.a /\ Err(m).mapped = m.mapped /\ Err(m).view = m.view
      /\ Err(m).tables = m.tables /\ Err(m).failed = TRUE
  BY Zenon DEF Err, Shaped, CallFields
<1> QED
  BY <1>1, Zenon DEF Built, Shaped

(* A frame from allocate_zeroed was free.                                  *)
LEMMA ZeroedIsFresh ==
    ASSUME NEW m, Shaped(m)
    PROVE  LET z == allocate_zeroed(m) IN
           /\ Built(m, z) /\ z.tables = m.tables /\ (z.failed => z = Err(m))
           /\ ~z.failed => /\ z.got \in Nat \ m.a.taken /\ z.got \notin Device
                           /\ z.a.taken = m.a.taken \cup {z.got} /\ ~m.failed
<1> DEFINE z == allocate_zeroed(m)
<1>1. CASE m.failed \/ Found(m.a) = NoFrame
  <2>1. z = Err(m)
    BY <1>1, Zenon DEF allocate_zeroed
  <2>2. Err(m).tables = m.tables /\ Err(m).failed
    BY Zenon DEF Err, Shaped, CallFields
  <2> HIDE DEF z
  <2>3. Built(m, z)
    BY <2>1, Fails, Zenon
  <2> QED
    BY <2>1, <2>2, <2>3, Zenon DEF z
<1>2. CASE ~(m.failed \/ Found(m.a) = NoFrame)
  <2>1. z = [m EXCEPT !.a = allocate(m.a), !.got = Found(m.a), !.mem[Found(m.a)] = Empty]
    BY <1>2, Zenon DEF allocate_zeroed
  <2> HIDE DEF z
  <2>2. /\ DOMAIN z = CallFields /\ z.a = allocate(m.a) /\ z.got = Found(m.a) /\ z.mapped = m.mapped
        /\ z.view = m.view /\ z.tables = m.tables /\ z.failed = m.failed
    BY <2>1, Zenon DEF Shaped, CallFields
  <2>3. /\ Found(m.a) \in Nat /\ Found(m.a) \notin m.a.taken /\ Found(m.a) \notin Device
        /\ FramesOk(allocate(m.a)) /\ allocate(m.a).taken = m.a.taken \cup {Found(m.a)}
    BY <1>2, AllocateTakes, Zenon DEF Shaped
  <2>4. Built(m, z)
    BY <2>2, <2>3, Zenon DEF Built, Shaped
  <2> QED
    BY <1>2, <2>2, <2>3, <2>4, Zenon DEF z
<1> QED
  BY <1>1, <1>2, Zenon

LEMMA DescendBuilds == ASSUME NEW m, Shaped(m), NEW i PROVE Built(m, Descend(m, i))
<1> DEFINE e == m.mem[m.table][i]
           z == allocate_zeroed(m)
<1>1. \/ Descend(m, i) = m
      \/ Descend(m, i) = Err(m)
      \/ Descend(m, i) = [m EXCEPT !.table = e[1]]
      \/ z.failed /\ Descend(m, i) = z
      \/ ~z.failed /\ Descend(m, i) = [z EXCEPT !.mem[m.table][i] = <<z.got, FALSE>>, !.table = z.got,
                                                !.tables = z.tables \cup {z.got}]
  BY Zenon DEF Descend
<1>2. /\ Built(m, z) /\ z.tables = m.tables
      /\ ~z.failed => z.got \in Nat \ m.a.taken /\ z.got \notin Device /\ z.a.taken = m.a.taken \cup {z.got} /\ ~m.failed
  BY ZeroedIsFresh, Zenon
<1> HIDE DEF z, e
<1>3. Built(m, m)
  BY Zenon DEF Built
<1>4. Built(m, [m EXCEPT !.table = e[1]])
  <2> DEFINE n == [m EXCEPT !.table = e[1]]
  <2>1. /\ DOMAIN n = CallFields /\ n.a = m.a /\ n.mapped = m.mapped /\ n.view = m.view /\ n.tables = m.tables
        /\ n.failed = m.failed
    BY Zenon DEF Shaped, CallFields
  <2> HIDE DEF n
  <2>2. Built(m, n)
    BY <2>1, Zenon DEF Built, Shaped
  <2> QED
    BY <2>2, Zenon DEF n
<1>5. ASSUME ~z.failed
      PROVE  Built(m, [z EXCEPT !.mem[m.table][i] = <<z.got, FALSE>>, !.table = z.got, !.tables = z.tables \cup {z.got}])
  <2> DEFINE n == [z EXCEPT !.mem[m.table][i] = <<z.got, FALSE>>, !.table = z.got, !.tables = z.tables \cup {z.got}]
  <2>1. /\ DOMAIN n = CallFields /\ n.a = z.a /\ n.mapped = z.mapped /\ n.view = z.view
        /\ n.tables = z.tables \cup {z.got} /\ n.failed = z.failed
    BY <1>2, Zenon DEF Built, Shaped, CallFields
  <2> HIDE DEF n
  <2>2. Built(m, n)
    BY <1>2, <1>5, <2>1, Zenon DEF Built, Shaped
  <2> QED
    BY <2>2, Zenon DEF n
<1> QED
  BY <1>1, <1>2, <1>3, <1>4, <1>5, Fails, Zenon

(* The walk builds the tables that are missing.                            *)
LEMMA WalkBuilds == ASSUME NEW m, Shaped(m), NEW virt, NEW levels \in Nat PROVE Built(m, Walk(m, virt, levels))
<1> DEFINE o == AtRoot(m)
<1>1. PICK w, g : /\ w.loop = "walk" /\ w.virt = virt
                  /\ Turns(g, w, o, levels) /\ Walk(m, virt, levels) = g[levels]
  BY WalkLoop
<1>2. Built(m, o)
  <2>1. /\ DOMAIN o = CallFields /\ o.a = m.a /\ o.mapped = m.mapped /\ o.view = m.view /\ o.tables = m.tables
        /\ o.failed = m.failed
    BY Zenon DEF Shaped, CallFields, AtRoot
  <2> HIDE DEF o
  <2> QED
    BY <2>1, Zenon DEF Built, Shaped
<1> HIDE DEF o
<1> DEFINE Has == {k \in Nat : k <= levels => Built(m, g[k])}
<1>3. 0 \in Has
  BY <1>1, <1>2, Zenon DEF Turns
<1>4. ASSUME NEW k \in Nat, k \in Has PROVE k + 1 \in Has
  <2>1. k + 1 \in Nat /\ (k + 1 <= levels => k <= levels /\ k + 1 \in 1..levels) /\ (k + 1) - 1 = k
    OBVIOUS
  <2>2. ASSUME k + 1 <= levels PROVE Built(m, g[k + 1])
    <3>1. g[k + 1] = Turn(w, g[k], k + 1)
      BY <1>1, <2>1, <2>2, Zenon DEF Turns
    <3>2. Turn(w, g[k], k + 1) = Descend(g[k], indices(virt)[k + 1])
      BY <1>1, Zenon DEF Turn
    <3>3. Built(m, g[k]) /\ Shaped(g[k])
      BY <1>4, <2>1, <2>2, Zenon DEF Built
    <3>4. Built(g[k], Descend(g[k], indices(virt)[k + 1]))
      BY <3>3, DescendBuilds, Zenon
    <3> QED
      BY <3>1, <3>2, <3>3, <3>4, BuiltOn, Zenon
  <2> QED
    BY <2>1, <2>2, Zenon
<1>5. levels \in Has
  <2> HIDE DEF Has
  <2> QED
    BY <1>3, <1>4, Inductive, Zenon
<1>6. levels <= levels
  OBVIOUS
<1> QED
  BY <1>1, <1>5, <1>6, Zenon

\* From m to n a leaf was written, or an error returned.
Leafed(m, n) ==
    /\ Shaped(n) /\ n.a = m.a /\ n.mapped = m.mapped /\ n.tables = m.tables
    /\ n.failed => n.view = m.view
    /\ ~n.failed => ~m.failed

\* The view with pages at the frames from frame on.
Placed(view_, frame, pages) == [p \in Page |-> IF p \in pages THEN frame + (p - Least(pages)) ELSE view_[p]]

LEMMA LeafWrites ==
    ASSUME NEW m, Shaped(m), NEW i, NEW frame, NEW block, NEW pages
    PROVE  LET n == Leaf(m, i, frame, block, pages) IN
           Leafed(m, n) /\ (~n.failed => n.view = Placed(m.view, frame, pages))
<1> DEFINE v == [p \in Page |-> IF p \in pages THEN frame + (p - Least(pages)) ELSE m.view[p]]
           n == [m EXCEPT !.mem[m.table][i] = <<frame, block>>, !.view = v]
<1>1. \/ m.failed /\ Leaf(m, i, frame, block, pages) = m
      \/ Leaf(m, i, frame, block, pages) = Err(m)
      \/ ~m.failed /\ Leaf(m, i, frame, block, pages) = n
  BY Zenon DEF Leaf
<1>2. v = Placed(m.view, frame, pages)
  BY Zenon DEF Placed
<1> HIDE DEF v
<1>3. /\ DOMAIN n = CallFields /\ n.a = m.a /\ n.mapped = m.mapped /\ n.view = v /\ n.tables = m.tables
      /\ n.failed = m.failed
  BY Zenon DEF Shaped, CallFields
<1> HIDE DEF n
<1>4. ~m.failed => Leafed(m, n)
  BY <1>3, Zenon DEF Leafed, Shaped
<1>5. /\ DOMAIN Err(m) = CallFields /\ Err(m).a = m.a /\ Err(m).mapped = m.mapped /\ Err(m).view = m.view
      /\ Err(m).tables = m.tables /\ Err(m).failed
  BY Zenon DEF Err, Shaped, CallFields
<1>6. Leafed(m, Err(m))
  BY <1>5, Zenon DEF Leafed, Shaped
<1>7. m.failed => Leafed(m, m)
  BY Zenon DEF Leafed
<1> QED
  BY <1>1, <1>2, <1>3, <1>4, <1>5, <1>6, <1>7, Zenon

\* What map and map_block_2m do to a call: tables, and the pages at the frames.
Maps(m, n, frame, pages) ==
    \E k : Built(m, k) /\ Leafed(k, n) /\ (~n.failed => n.view = Placed(m.view, frame, pages))

LEMMA MapMaps ==
    ASSUME NEW m, Shaped(m), NEW virt, NEW frame
    PROVE  /\ Maps(m, map(m, virt, frame), frame, {virt})
           /\ Maps(m, map_block_2m(m, virt, frame), frame, virt .. virt + ENTRIES - 1)
<1>1. LEVELS - 1 \in Nat /\ LEVELS - 2 \in Nat
  BY AddressSpaceAssumption
<1>2. ASSUME NEW levels \in Nat, NEW i, NEW block, NEW pages
      PROVE  Maps(m, Leaf(Walk(m, virt, levels), i, frame, block, pages), frame, pages)
  <2> DEFINE k == Walk(m, virt, levels)
             n == Leaf(k, i, frame, block, pages)
  <2>1. Built(m, k) /\ Shaped(k) /\ k.view = m.view
    BY WalkBuilds, Zenon DEF Built
  <2> HIDE DEF k
  <2>2. Leafed(k, n) /\ (~n.failed => n.view = Placed(k.view, frame, pages))
    BY <2>1, LeafWrites
  <2> HIDE DEF n
  <2>3. Maps(m, n, frame, pages)
    BY <2>1, <2>2, Zenon DEF Maps
  <2> QED
    BY <2>3, Zenon DEF n, k
<1> QED
  BY <1>1, <1>2, Zenon DEF map, map_block_2m

-----------------------------------------------------------------------------
(* What every call keeps.                                                  *)

\* A space that owns the mapped frames and the tables tabs, beside the frames
\* others own.
Sound(a, others, mapped, tabs, vw) ==
    /\ FramesOk(a) /\ mapped \in Seq(Nat)
    /\ Range(mapped) \cup tabs \cup others \subseteq a.taken
    /\ Range(mapped) \cap tabs = {}
    /\ (Range(mapped) \cup tabs) \cap (others \cup Device) = {}
    /\ \A p \in Page : vw[p] \in Device \cup {NoFrame} \cup Range(mapped)
    /\ \A p, q \in Page : vw[p] \in Range(mapped) /\ vw[p] = vw[q] => p = q

Good(others, m) == DOMAIN m = CallFields /\ Sound(m.a, others, m.mapped, m.tables, m.view)

LEMMA GoodIsShaped == ASSUME NEW others, NEW m, Good(others, m) PROVE Shaped(m)
BY Zenon DEF Good, Sound, Shaped

(* Building tables, and mapping device memory, keep a space sound.         *)
LEMMA BuiltIsGood == ASSUME NEW others, NEW m, Good(others, m), NEW n, Built(m, n) PROVE Good(others, n)
<1>1. /\ FramesOk(n.a) /\ n.mapped \in Seq(Nat) /\ DOMAIN n = CallFields
      /\ \A p \in Page : n.view[p] \in Device \cup {NoFrame} \cup Range(n.mapped)
      /\ \A p, q \in Page : n.view[p] \in Range(n.mapped) /\ n.view[p] = n.view[q] => p = q
  BY Zenon DEF Good, Sound, Built, Shaped
<1>2. \A f \in n.tables : f \in m.tables \/ (f \in n.a.taken /\ f \notin m.a.taken /\ f \notin Device)
  BY Zenon DEF Built
<1>3. Range(n.mapped) \cup n.tables \cup others \subseteq n.a.taken
  BY <1>2, Zenon DEF Good, Sound, Built
<1>4. Range(n.mapped) \cap n.tables = {}
  BY <1>2, Zenon DEF Good, Sound, Built
<1>5. (Range(n.mapped) \cup n.tables) \cap (others \cup Device) = {}
  BY <1>2, Zenon DEF Good, Sound, Built
<1> QED
  BY <1>1, <1>3, <1>4, <1>5, Zenon DEF Good, Sound

LEMMA LeafedIsGood ==
    ASSUME NEW others, NEW m, Good(others, m), NEW n, Leafed(m, n),
           \A p \in Page : n.view[p] \in Device \/ n.view[p] = m.view[p]
    PROVE  Good(others, n)
<1>1. /\ FramesOk(n.a) /\ n.mapped \in Seq(Nat) /\ DOMAIN n = CallFields
      /\ Range(n.mapped) \cup n.tables \cup others \subseteq n.a.taken
      /\ Range(n.mapped) \cap n.tables = {}
      /\ (Range(n.mapped) \cup n.tables) \cap (others \cup Device) = {}
  BY Zenon DEF Good, Sound, Leafed, Shaped
<1>2. \A p \in Page : n.view[p] \in Device \cup {NoFrame} \cup Range(n.mapped)
  BY Zenon DEF Good, Sound, Leafed
<1>3. ASSUME NEW p \in Page, NEW q \in Page, n.view[p] \in Range(n.mapped), n.view[p] = n.view[q] PROVE p = q
  <2>1. n.view[p] = m.view[p] /\ n.view[q] = m.view[q] /\ m.view[p] \in Range(m.mapped)
    BY <1>1, <1>3, Zenon DEF Leafed
  <2> QED
    BY <1>3, <2>1, Zenon DEF Good, Sound
<1> QED
  BY <1>1, <1>2, <1>3, Zenon DEF Good, Sound

LEMMA MapsIsGood ==
    ASSUME NEW others, NEW m, Good(others, m), NEW n, NEW frame, NEW pages, Maps(m, n, frame, pages),
           ~n.failed => \A p \in Page : p \in pages => frame + (p - Least(pages)) \in Device
    PROVE  Good(others, n)
<1>1. PICK k : Built(m, k) /\ Leafed(k, n) /\ (~n.failed => n.view = Placed(m.view, frame, pages))
  BY Zenon DEF Maps
<1>2. Good(others, k) /\ k.view = m.view
  BY <1>1, BuiltIsGood, Zenon DEF Built
<1>3. \A p \in Page : n.view[p] \in Device \/ n.view[p] = k.view[p]
  <2>1. CASE n.failed
    BY <1>1, <2>1, Zenon DEF Leafed
  <2>2. ASSUME ~n.failed, NEW p \in Page PROVE n.view[p] \in Device \/ n.view[p] = k.view[p]
    <3>1. n.view[p] = IF p \in pages THEN frame + (p - Least(pages)) ELSE m.view[p]
      BY <1>1, <2>2, Zenon DEF Placed
    <3> QED
      BY <1>2, <2>2, <3>1, Zenon
  <2> QED
    BY <2>1, <2>2, Zenon
<1> QED
  BY <1>1, <1>2, <1>3, LeafedIsGood, Zenon

LEMMA LeastOf == ASSUME NEW x \in Nat, NEW n \in Nat \ {0} PROVE Least({x}) = x /\ Least(x .. x + n - 1) = x
<1>1. \A S : x \in S /\ S \subseteq Nat /\ (\A y \in S : x <= y) => Least(S) = x
  <2> SUFFICES ASSUME NEW S, x \in S, S \subseteq Nat, \A y \in S : x <= y PROVE Least(S) = x
    BY Zenon
  <2>1. Least(S) \in S /\ \A y \in S : Least(S) <= y
    BY Zenon DEF Least
  <2>2. \A y \in S : y \in Nat
    BY Zenon
  <2> HIDE DEF Least
  <2>3. Least(S) \in Nat /\ Least(S) <= x /\ x <= Least(S)
    BY <2>1, <2>2, Zenon
  <2> QED
    BY <2>3
<1>2. x \in {x} /\ {x} \subseteq Nat /\ \A y \in {x} : x <= y
  OBVIOUS
<1>3. x \in x .. x + n - 1 /\ x .. x + n - 1 \subseteq Nat /\ \A y \in x .. x + n - 1 : x <= y
  OBVIOUS
<1> QED
  BY <1>1, <1>2, <1>3, Zenon

\* A change of the loop's own counter.
Counted(m, i) == [m EXCEPT !.next = i]

LEMMA CountedIsGood == ASSUME NEW others, NEW m, Good(others, m), NEW i PROVE Good(others, Counted(m, i))
<1> DEFINE n == [m EXCEPT !.next = i]
<1>1. DOMAIN n = CallFields /\ n.a = m.a /\ n.mapped = m.mapped /\ n.view = m.view /\ n.tables = m.tables
  BY Zenon DEF Good, CallFields
<1> HIDE DEF n
<1>2. Good(others, n)
  BY <1>1, Zenon DEF Good
<1> QED
  BY <1>2, Zenon DEF n, Counted

(* map_range gives a boundary frames of the caller's window and no others. *)
LEMMA RangeStepIsGood ==
    ASSUME NEW others, NEW m, Good(others, m), NEW virt \in Page, NEW w \in Window, NEW k \in 1 .. w.count
    PROVE  Good(others, RangeStep(m, virt, w.phys, w.count, k))
<1> DEFINE i == k - 1
           phys == w.phys
           count == w.count
           block == map_block_2m(m, virt + i, phys + i)
           page == map(m, virt + i, phys + i)
<1>1. \/ RangeStep(m, virt, phys, count, k) = m
      \/ TakesBlock(virt, phys, count, i) /\ RangeStep(m, virt, phys, count, k) = Counted(block, i + ENTRIES)
      \/ RangeStep(m, virt, phys, count, k) = Counted(page, i + 1)
  BY Zenon DEF RangeStep, Counted
<1>2. phys \in Nat /\ count \in Nat /\ ENTRIES \in Nat \ {0}
  BY AddressSpaceAssumption, Zenon
<1>3. phys .. phys + count - 1 \subseteq Device
  BY Zenon DEF Device
<1>4. virt \in Nat /\ Page \subseteq Nat
  BY DEF Page
<1>5. i \in Nat /\ i < count /\ virt + i \in Nat
  <2>1. k \in 1 .. count
    OBVIOUS
  <2> HIDE DEF phys, count
  <2> QED
    BY <1>2, <1>4, <2>1
<1> HIDE DEF i, phys, count
<1>6. /\ Maps(m, page, phys + i, {virt + i})
      /\ Maps(m, block, phys + i, virt + i .. virt + i + ENTRIES - 1)
  BY GoodIsShaped, MapMaps, Zenon
<1>7. Least({virt + i}) = virt + i /\ Least(virt + i .. virt + i + ENTRIES - 1) = virt + i
  BY <1>2, <1>5, LeastOf, Zenon
<1>8. Good(others, page)
  <2>1. \A p \in Page : p \in {virt + i} => phys + i + (p - Least({virt + i})) \in Device
    <3>1. \A p \in Page : p \in {virt + i} => phys + i + (p - (virt + i)) \in phys .. phys + count - 1
      BY <1>2, <1>4, <1>5
    <3> QED
      BY <1>3, <1>7, <3>1, Zenon
  <2> HIDE DEF page
  <2> QED
    BY <1>6, <2>1, MapsIsGood, Zenon
<1>9. ASSUME TakesBlock(virt, phys, count, i) PROVE Good(others, block)
  <2>1. count - i >= ENTRIES
    BY <1>9, Zenon DEF TakesBlock
  <2>2. \A p \in Page : p \in virt + i .. virt + i + ENTRIES - 1 =>
          phys + i + (p - Least(virt + i .. virt + i + ENTRIES - 1)) \in Device
    <3>1. \A p \in Page : p \in virt + i .. virt + i + ENTRIES - 1 =>
            phys + i + (p - (virt + i)) \in phys .. phys + count - 1
      BY <1>2, <1>4, <1>5, <2>1
    <3> QED
      BY <1>3, <1>7, <3>1, Zenon
  <2> HIDE DEF block
  <2> QED
    BY <1>6, <2>2, MapsIsGood, Zenon
<1> HIDE DEF page, block
<1>10. Good(others, RangeStep(m, virt, phys, count, k))
  BY <1>1, <1>8, <1>9, CountedIsGood, Zenon
<1> QED
  BY <1>10, Zenon DEF phys, count

LEMMA MapRangeIsGood ==
    ASSUME NEW others, NEW m, Good(others, m), NEW virt \in Page, NEW v \in Window
    PROVE  Good(others, map_range(m, virt, v.phys, v.count))
<1> DEFINE phys == v.phys
           count == v.count
<1>0. count \in Nat
  BY AddressSpaceAssumption, Zenon
<1>a. \A n, k : Good(others, n) /\ k \in 1..count => Good(others, RangeStep(n, virt, phys, count, k))
  BY RangeStepIsGood, Zenon
<1> HIDE DEF phys, count
<1>1. PICK w, g : /\ w.loop = "range" /\ w.virt = virt /\ w.phys = phys /\ w.count = count
                  /\ Turns(g, w, m, count) /\ map_range(m, virt, phys, count) = g[count]
  <2>1. \E w, g : /\ Ranges(w, virt, phys, count)
                  /\ Turns(g, w, m, count) /\ map_range(m, virt, phys, count) = g[count]
    BY <1>0, RangeLoop
  <2> QED
    BY <2>1, Zenon DEF Ranges
<1> DEFINE Has == {k \in Nat : k <= count => Good(others, g[k])}
<1>2. 0 \in Has
  BY <1>1, Zenon DEF Turns
<1>3. ASSUME NEW k \in Nat, k \in Has PROVE k + 1 \in Has
  <2>1. k + 1 \in Nat /\ (k + 1 <= count => k <= count /\ k + 1 \in 1..count) /\ (k + 1) - 1 = k
    BY <1>0
  <2>2. ASSUME k + 1 <= count PROVE Good(others, g[k + 1])
    <3>1. g[k + 1] = Turn(w, g[k], k + 1)
      BY <1>1, <2>1, <2>2, Zenon DEF Turns
    <3>3. Turn(w, g[k], k + 1) = RangeStep(g[k], virt, phys, count, k + 1)
      BY <1>1, Zenon DEF Turn
    <3> QED
      BY <1>3, <2>1, <2>2, <3>1, <3>3, <1>a, Zenon
  <2> QED
    BY <2>1, <2>2, Zenon
<1>4. count \in Has /\ count <= count
  <2>1. count <= count
    BY <1>0
  <2> HIDE DEF Has
  <2> QED
    BY <1>0, <1>2, <1>3, <2>1, Inductive, Zenon
<1> QED
  BY <1>1, <1>4, Zenon DEF phys, count

(* map_new_pages gives a boundary a frame nobody had.                      *)
LEMMA PageStepIsGood ==
    ASSUME NEW others, NEW m, Good(others, m), NEW virt \in Page, NEW k \in Nat \ {0}
    PROVE  Good(others, PageStep(m, virt, k))
<1> DEFINE z == allocate_zeroed(m)
           at == virt + k - 1
           n == map(z, at, z.got)
           o == [n EXCEPT !.mapped = Append(n.mapped, z.got), !.mem[z.got] = Stored]
<1>1. (n.failed /\ PageStep(m, virt, k) = n) \/ (~n.failed /\ PageStep(m, virt, k) = o)
  BY Zenon DEF PageStep
<1>2. at \in Nat
  BY DEF Page
<1>3. /\ Shaped(m) /\ Built(m, z) /\ z.tables = m.tables
      /\ ~z.failed => z.got \in Nat \ m.a.taken /\ z.got \notin Device /\ z.a.taken = m.a.taken \cup {z.got}
  BY GoodIsShaped, ZeroedIsFresh, Zenon
<1> HIDE DEF z
<1>4. Good(others, z) /\ Shaped(z) /\ z.mapped = m.mapped /\ z.view = m.view
  BY <1>3, BuiltIsGood, GoodIsShaped, Zenon DEF Built
<1> HIDE DEF at
<1>5. Maps(z, n, z.got, {at})
  BY <1>4, MapMaps, Zenon
<1> HIDE DEF n
<1>6. PICK t : Built(z, t) /\ Leafed(t, n) /\ (~n.failed => n.view = Placed(z.view, z.got, {at}))
  BY <1>5, Zenon DEF Maps
<1>7. CASE n.failed
  BY <1>1, <1>4, <1>5, <1>7, MapsIsGood, Zenon
<1>8. CASE ~n.failed
  <2>1. ~z.failed
    BY <1>6, <1>8, Zenon DEF Leafed, Built
  <2> DEFINE f == z.got
  <2>2. f \in Nat /\ f \notin m.a.taken /\ f \notin Device /\ z.a.taken = m.a.taken \cup {f}
    BY <1>3, <2>1, Zenon
  <2>3. Good(others, t) /\ t.mapped = m.mapped
    BY <1>4, <1>6, BuiltIsGood, Zenon DEF Built
  <2>4. /\ n.a = t.a /\ n.mapped = m.mapped /\ n.tables = t.tables /\ DOMAIN n = CallFields
    BY <1>6, <2>3, Zenon DEF Leafed, Shaped
  <2>5. /\ DOMAIN o = CallFields /\ o.a = t.a /\ o.mapped = Append(m.mapped, f) /\ o.view = n.view
        /\ o.tables = t.tables
    BY <2>4, Zenon DEF CallFields
  <2> HIDE DEF o
  <2>6. m.mapped \in Seq(Nat)
    BY Zenon DEF Good, Sound
  <2>7. Append(m.mapped, f) \in Seq(Nat) /\ Range(Append(m.mapped, f)) = Range(m.mapped) \cup {f}
    <3> DEFINE s == m.mapped
    <3>1. s \in Seq(Nat) /\ f \in Nat
      BY <2>2, <2>6, Zenon
    <3> HIDE DEF s, f
    <3>2. /\ Append(s, f) \in Seq(Nat) /\ DOMAIN Append(s, f) = DOMAIN s \cup {Len(s) + 1}
          /\ Append(s, f)[Len(s) + 1] = f /\ \A j \in DOMAIN s : Append(s, f)[j] = s[j]
      BY <3>1
    <3>3. Range(Append(s, f)) = Range(s) \cup {f}
      BY <3>2, Zenon DEF Range
    <3> QED
      BY <3>2, <3>3, Zenon DEF s
  <2>8. f \notin t.tables /\ f \in t.a.taken /\ f \notin others
    BY <1>3, <1>6, <2>2, Zenon DEF Good, Sound, Built
  <2>9. \A p \in Page : n.view[p] = IF p = at THEN f ELSE m.view[p]
    <3>1. Least({at}) = at
      BY <1>2, LeastOf, AddressSpaceAssumption, Zenon
    <3>2. \A p \in Page : p \in {at} => f + (p - at) = f
      BY <1>2, <2>2
    <3>3. \A p \in Page : n.view[p] = IF p \in {at} THEN f + (p - Least({at})) ELSE z.view[p]
      BY <1>6, <1>8, Zenon DEF Placed
    <3> QED
      BY <1>4, <3>1, <3>2, <3>3, Zenon
  <2> HIDE DEF f
  <2>10. f # NoFrame
    BY <2>2 DEF NoFrame
  <2>11. \A p \in Page : m.view[p] # f /\ m.view[p] \in Device \cup {NoFrame} \cup Range(m.mapped)
    BY <2>2, <2>10, Zenon DEF Good, Sound
  <2>12. \A p \in Page : o.view[p] \in Device \cup {NoFrame} \cup Range(o.mapped)
    BY <2>5, <2>7, <2>9, <2>11, Zenon
  <2>13. ASSUME NEW p \in Page, NEW q \in Page, o.view[p] \in Range(o.mapped), o.view[p] = o.view[q] PROVE p = q
    <3>1. CASE p = at \/ q = at
      BY <2>5, <2>9, <2>11, <2>13, <3>1, Zenon
    <3>2. CASE p # at /\ q # at
      <4>1. m.view[p] \in Range(m.mapped) /\ m.view[p] = m.view[q]
        BY <2>5, <2>7, <2>9, <2>11, <2>13, <3>2, Zenon
      <4> QED
        BY <4>1, Zenon DEF Good, Sound
    <3> QED
      BY <3>1, <3>2, Zenon
  <2>14. /\ FramesOk(t.a) /\ Range(m.mapped) \cup t.tables \cup others \subseteq t.a.taken
         /\ Range(m.mapped) \cap t.tables = {}
         /\ (Range(m.mapped) \cup t.tables) \cap (others \cup Device) = {}
    BY <2>3, Zenon DEF Good, Sound
  <2>15. /\ FramesOk(o.a) /\ o.mapped \in Seq(Nat) /\ Range(o.mapped) \cup o.tables \cup others \subseteq o.a.taken
         /\ Range(o.mapped) \cap o.tables = {}
         /\ (Range(o.mapped) \cup o.tables) \cap (others \cup Device) = {}
    BY <2>2, <2>5, <2>7, <2>8, <2>14, Zenon
  <2>16. Good(others, o)
    BY <2>5, <2>12, <2>13, <2>15, Zenon DEF Good, Sound
  <2> QED
    BY <1>1, <1>8, <2>16, Zenon
<1> QED
  BY <1>7, <1>8, Zenon

LEMMA NewPagesIsGood ==
    ASSUME NEW others, NEW m, Good(others, m), NEW virt \in Page, NEW count \in Nat
    PROVE  Good(others, new_pages(m, virt, count))
<1>1. PICK w, g : NewPages(w, virt) /\ Turns(g, w, m, count) /\ new_pages(m, virt, count) = g[count]
  BY PageLoop, Zenon
<1> DEFINE Has == {k \in Nat : k <= count => Good(others, g[k])}
<1>2. 0 \in Has
  BY <1>1, Zenon DEF Turns
<1>3. ASSUME NEW k \in Nat, k \in Has PROVE k + 1 \in Has
  <2>1. k + 1 \in Nat \ {0} /\ (k + 1 <= count => k <= count /\ k + 1 \in 1..count) /\ (k + 1) - 1 = k
    OBVIOUS
  <2>2. ASSUME k + 1 <= count PROVE Good(others, g[k + 1])
    <3>1. g[k + 1] = Turn(w, g[k], k + 1)
      BY <1>1, <2>1, <2>2, Zenon DEF Turns
    <3>3. Turn(w, g[k], k + 1) = PageStep(g[k], virt, k + 1)
      BY <1>1, Zenon DEF Turn, NewPages
    <3> QED
      BY <1>3, <2>1, <2>2, <3>1, <3>3, PageStepIsGood, Zenon
  <2> QED
    BY <2>1, <2>2, Zenon
<1>4. count \in Has /\ count <= count
  <2>1. count <= count
    OBVIOUS
  <2> HIDE DEF Has
  <2> QED
    BY <1>2, <1>3, <2>1, Inductive, Zenon
<1> QED
  BY <1>1, <1>4, Zenon

-----------------------------------------------------------------------------
(* The allocator at boot.                                                  *)

(* One region ends last.                                                   *)
LEMMA LastEnd ==
    ASSUME NEW R, IsFiniteSet(R), R # {}, \A r \in R : r.end \in Nat
    PROVE  \E x \in R : \A y \in R : y.end <= x.end
<1> DEFINE Latest(T) == \E x \in T : \A y \in T : y.end <= x.end
           Has == {n \in Nat : \A T \in SUBSET R : Cardinality(T) = n /\ T # {} => Latest(T)}
<1>1. \A T \in SUBSET R : IsFiniteSet(T)
  BY FS_Subset, Zenon
<1>2. 0 \in Has
  BY <1>1, FS_EmptySet, Zenon
<1>3. ASSUME NEW n \in Nat, n \in Has PROVE n + 1 \in Has
  <2>1. ASSUME NEW T \in SUBSET R, Cardinality(T) = n + 1, T # {} PROVE Latest(T)
    <3>1. PICK x \in T : TRUE
      BY <2>1, Zenon
    <3>2. Cardinality(T \ {x}) = n /\ T \ {x} \in SUBSET R
      <4>1. Cardinality(T \ {x}) = Cardinality(T) - 1
        BY <1>1, <2>1, <3>1, FS_RemoveElement, Zenon
      <4>2. (n + 1) - 1 = n
        OBVIOUS
      <4> QED
        BY <2>1, <4>1, <4>2, Zenon
    <3>3. \A r \in T : r.end \in Nat
      BY <2>1, Zenon
    <3>4. CASE T \ {x} = {}
      <4>1. T = {x} /\ x.end <= x.end
        BY <3>1, <3>3, <3>4
      <4> QED
        BY <4>1, Zenon
    <3>5. CASE T \ {x} # {}
      <4>1. PICK z \in T \ {x} : \A y \in T \ {x} : y.end <= z.end
        BY <1>3, <3>2, <3>5, Zenon
      <4>2. x.end \in Nat /\ z.end \in Nat
        BY <3>1, <3>3, <4>1, Zenon
      <4>3. CASE x.end <= z.end
        BY <4>1, <4>3, Zenon
      <4>4. CASE ~(x.end <= z.end)
        <5>1. z.end <= x.end /\ x.end <= x.end
          BY <4>2, <4>4
        <5>2. ASSUME NEW y \in T PROVE y.end <= x.end
          <6>1. CASE y = x
            BY <5>1, <6>1, Zenon
          <6>2. CASE y # x
            <7>1. y.end <= z.end /\ y.end \in Nat
              BY <3>3, <4>1, <6>2, Zenon
            <7> QED
              BY <4>2, <5>1, <7>1
          <6> QED
            BY <6>1, <6>2, Zenon
        <5> QED
          BY <3>1, <5>2, Zenon
      <4> QED
        BY <4>3, <4>4, Zenon
    <3> QED
      BY <3>4, <3>5, Zenon
  <2>2. n + 1 \in Nat
    OBVIOUS
  <2> HIDE DEF Latest
  <2> QED
    BY <2>1, <2>2, Zenon
<1>4. Cardinality(R) \in Has
  <2>1. Cardinality(R) \in Nat
    BY FS_CardinalityType, Zenon
  <2> HIDE DEF Has
  <2> QED
    BY <1>2, <1>3, <2>1, Inductive, Zenon
<1> HIDE DEF Latest
<1>5. Latest(R)
  BY <1>4, Zenon
<1> QED
  BY <1>5, Zenon DEF Latest

LEMMA BootsOk == ASSUME NEW regions \in MemoryMap PROVE FramesOk(from_regions(regions, ReservedBelow))
<1> DEFINE usable == {r \in regions : r.usable}
           ends == {r.end : r \in usable}
           count == IF usable = {} THEN 0 ELSE Greatest(ends) \div FRAME_SIZE
           reserved == CeilDiv(ReservedBelow, FRAME_SIZE)
           freed == {f \in UNION {FramesIn(r) : r \in usable} : f >= reserved}
           taken == (0 .. count - 1) \ freed
           a == from_regions(regions, ReservedBelow)
<1>1. a = [count |-> count, taken |-> taken, allocated |-> Cardinality(taken), next_hint |-> reserved]
  BY Zenon DEF from_regions
<1>2. /\ IsFiniteSet(regions) /\ regions \subseteq [base : Nat, end : Nat, usable : BOOLEAN]
      /\ \A w \in Window : w.phys .. w.phys + w.count - 1 \subseteq Kept(a)
  BY AddressSpaceAssumption, Zenon
<1> HIDE DEF a
<1>3. count \in Nat
  <2>1. IsFiniteSet(usable) /\ usable \subseteq regions
    BY <1>2, FS_Subset, Zenon
  <2>2. \A r \in usable : r.end \in Nat
    BY <1>2, Zenon
  <2> HIDE DEF usable
  <2>3. ASSUME usable # {} PROVE Greatest(ends) \in Nat
    <3>1. PICK x \in usable : \A y \in usable : y.end <= x.end
      BY <2>1, <2>2, <2>3, LastEnd, Zenon
    <3>2. \E e \in ends : \A y \in ends : y <= e
      BY <3>1, Zenon
    <3>3. ends \subseteq Nat
      BY <2>2, Zenon
    <3> HIDE DEF ends
    <3>4. Greatest(ends) \in ends
      BY <3>2, Zenon DEF Greatest
    <3> QED
      BY <3>3, <3>4, Zenon
  <2>4. FRAME_SIZE \in Nat \ {0}
    BY AddressSpaceAssumption, Zenon
  <2>5. \A n \in Nat : n \div FRAME_SIZE \in Nat
    BY <2>4
  <2> HIDE DEF ends
  <2>6. 0 \in Nat
    OBVIOUS
  <2> QED
    BY <2>3, <2>5, <2>6, Zenon
<1> HIDE DEF count, freed
<1>4. IsFiniteSet(taken) /\ taken \subseteq 0 .. count - 1
  <2>1. IsFiniteSet(0 .. count - 1)
    <3>1. count - 1 \in Int /\ 0 \in Int
      BY <1>3
    <3> QED
      BY <3>1, FS_Interval, Zenon
  <2> QED
    BY <2>1, FS_Subset, Zenon
<1> HIDE DEF taken
<1>5. DOMAIN a = AllocFields /\ a.count = count /\ a.taken = taken /\ a.allocated = Cardinality(taken)
  BY <1>1, Zenon DEF AllocFields
<1>6. FreeFrames(a) \cap Device = {}
  BY <1>2, Zenon DEF Kept, Device
<1> QED
  BY <1>3, <1>4, <1>5, <1>6, Zenon DEF FramesOk, a

-----------------------------------------------------------------------------
(* The spaces together.                                                    *)

Owned(b) == Range(spaces[b].mapped) \cup tables[b]
Others(b) == dma \cup UNION {Owned(c) : c \in Boundary \ {b}}

\* Every space is sound beside the frames of all the others and the drivers.
SpaceInv ==
    /\ DOMAIN spaces = Boundary /\ DOMAIN view = Boundary /\ DOMAIN tables = Boundary
    /\ FramesOk(alloc) /\ dma \subseteq alloc.taken \ Device
    /\ \A b \in Boundary : Sound(alloc, Others(b), spaces[b].mapped, tables[b], view[b])

\* The frames b owns have become those of the mapped pages and the tables tabs.
Becomes(b, a, mapped, tabs, vw) ==
    /\ alloc' = a /\ dma' = dma
    /\ \E s : s.mapped = mapped /\ spaces' = [spaces EXCEPT ![b] = s]
    /\ view' = [view EXCEPT ![b] = vw] /\ tables' = [tables EXCEPT ![b] = tabs]

LEMMA BecomesSound ==
    ASSUME SpaceInv, NEW b \in Boundary, NEW a, NEW mapped, NEW tabs, NEW vw,
           Sound(a, Others(b), mapped, tabs, vw), Becomes(b, a, mapped, tabs, vw)
    PROVE  SpaceInv'
<1>1. PICK s : s.mapped = mapped /\ spaces' = [spaces EXCEPT ![b] = s]
  BY Zenon DEF Becomes
<1>2. /\ DOMAIN spaces' = Boundary /\ DOMAIN view' = Boundary /\ DOMAIN tables' = Boundary
      /\ alloc' = a /\ dma' = dma
  BY <1>1, Zenon DEF Becomes, SpaceInv
<1>3. spaces'[b].mapped = mapped /\ tables'[b] = tabs /\ view'[b] = vw
  BY <1>1, Zenon DEF Becomes, SpaceInv
<1>4. \A c \in Boundary \ {b} : spaces'[c] = spaces[c] /\ tables'[c] = tables[c] /\ view'[c] = view[c]
  BY <1>1, Zenon DEF Becomes, SpaceInv
<1>5. /\ Owned(b)' = Range(mapped) \cup tabs
      /\ \A c \in Boundary \ {b} : Owned(c)' = Owned(c)
  BY <1>3, <1>4, Zenon DEF Owned
<1>6. FramesOk(a) /\ dma \subseteq a.taken \ Device
  BY Zenon DEF Sound, SpaceInv, Others
<1>7. Sound(a, Others(b)', mapped, tabs, vw)
  <2>1. Others(b)' = Others(b)
    BY <1>2, <1>5, Zenon DEF Others
  <2> QED
    BY <2>1, Zenon
<1>8. ASSUME NEW c \in Boundary \ {b} PROVE Sound(a, Others(c)', spaces[c].mapped, tables[c], view[c])
  <2>1. Sound(alloc, Others(c), spaces[c].mapped, tables[c], view[c])
    BY <1>8, Zenon DEF SpaceInv
  <2>3. \A f \in Others(c)' : f \in Range(mapped) \cup tabs \/ f \in Others(c)
    BY <1>2, <1>5, Zenon DEF Others
  <2>4. Owned(c) \subseteq Others(b)
    BY <1>8, Zenon DEF Others
  <2>5. Others(c)' \subseteq a.taken
    <3>1. Range(mapped) \cup tabs \cup Others(b) \subseteq a.taken
      BY Zenon DEF Sound
    <3>2. \A f \in Others(c)' : f \in Range(mapped) \cup tabs \/ f \in Others(b)
      BY <1>2, <1>5, Zenon DEF Others
    <3> QED
      BY <3>1, <3>2, Zenon
  <2>6. Owned(c) \cap (Others(c)' \cup Device) = {}
    <3>1. (Range(mapped) \cup tabs) \cap Others(b) = {}
      BY Zenon DEF Sound
    <3>2. Owned(c) \cap (Others(c) \cup Device) = {}
      BY <2>1, Zenon DEF Sound, Owned
    <3> QED
      BY <2>3, <2>4, <3>1, <3>2, Zenon
  <2>7. Owned(c) \subseteq a.taken
    BY <2>4, Zenon DEF Sound
  <2> QED
    BY <1>6, <2>1, <2>5, <2>6, <2>7, Zenon DEF Sound, Owned
<1> QED
  BY <1>2, <1>3, <1>4, <1>6, <1>7, <1>8, Zenon DEF SpaceInv

LEMMA CommitSound ==
    ASSUME SpaceInv, NEW b \in Boundary, NEW m, Good(Others(b), m), Commit(b, m)
    PROVE  SpaceInv'
<1> DEFINE s == [root |-> m.root, mapped |-> m.mapped]
<1>1. s.mapped = m.mapped
  BY Zenon
<1>2. spaces' = [spaces EXCEPT ![b] = s]
  BY Zenon DEF Commit
<1> HIDE DEF s
<1>3. Becomes(b, m.a, m.mapped, m.tables, m.view)
  BY <1>1, <1>2, Zenon DEF Becomes, Commit
<1>4. Sound(m.a, Others(b), m.mapped, m.tables, m.view)
  BY Zenon DEF Good
<1> QED
  BY <1>3, <1>4, BecomesSound, Zenon

LEMMA StartIsGood == ASSUME SpaceInv, NEW b \in Boundary PROVE Good(Others(b), Start(b))
<1>1. /\ DOMAIN Start(b) = CallFields /\ Start(b).a = alloc /\ Start(b).mapped = spaces[b].mapped
      /\ Start(b).tables = tables[b] /\ Start(b).view = view[b]
  BY Zenon DEF Start, CallFields
<1>2. Sound(alloc, Others(b), spaces[b].mapped, tables[b], view[b])
  BY Zenon DEF SpaceInv
<1> QED
  BY <1>1, <1>2, Zenon DEF Good

LEMMA CreateSound == ASSUME SpaceInv, NEW b \in Boundary, create_space(b) PROVE SpaceInv'
<1> DEFINE m == allocate_zeroed(Start(b))
           n == [m EXCEPT !.root = m.got, !.tables = {m.got}]
<1>1. ~m.failed /\ Commit(b, n)
  BY Zenon DEF create_space
<1>2. Good(Others(b), Start(b)) /\ Shaped(Start(b))
  BY StartIsGood, GoodIsShaped, Zenon
<1>3. /\ Built(Start(b), m)
      /\ m.got \in Nat \ Start(b).a.taken /\ m.got \notin Device /\ m.a.taken = Start(b).a.taken \cup {m.got}
  BY <1>1, <1>2, ZeroedIsFresh, Zenon
<1> HIDE DEF m
<1>4. Good(Others(b), m) /\ m.mapped = Start(b).mapped
  BY <1>2, <1>3, BuiltIsGood, Zenon DEF Built
<1>5. /\ DOMAIN n = CallFields /\ n.a = m.a /\ n.mapped = m.mapped /\ n.view = m.view /\ n.tables = {m.got}
  BY <1>4, Zenon DEF Good, CallFields
<1> HIDE DEF n
<1>6. m.got \notin Range(m.mapped) \cup Others(b) /\ m.got \in m.a.taken
  BY <1>2, <1>3, <1>4, Zenon DEF Good, Sound
<1>7. Good(Others(b), n)
  <2>1. /\ FramesOk(n.a) /\ n.mapped \in Seq(Nat)
        /\ \A p \in Page : n.view[p] \in Device \cup {NoFrame} \cup Range(n.mapped)
        /\ \A p, q \in Page : n.view[p] \in Range(n.mapped) /\ n.view[p] = n.view[q] => p = q
    BY <1>4, <1>5, Zenon DEF Good, Sound
  <2>2. Range(n.mapped) \cup n.tables \cup Others(b) \subseteq n.a.taken
    BY <1>4, <1>5, <1>6, Zenon DEF Good, Sound
  <2>3. Range(n.mapped) \cap n.tables = {}
    BY <1>5, <1>6, Zenon
  <2>4. (Range(n.mapped) \cup n.tables) \cap (Others(b) \cup Device) = {}
    BY <1>3, <1>4, <1>5, <1>6, Zenon DEF Good, Sound
  <2> QED
    BY <1>5, <2>1, <2>2, <2>3, <2>4, Zenon DEF Good, Sound
<1> QED
  BY <1>1, <1>7, CommitSound, Zenon

LEMMA NoPages == <<>> \in Seq(Nat) /\ Range(<<>>) = {}
<1>1. <<>> \in Seq(Nat) /\ DOMAIN <<>> = {}
  OBVIOUS
<1> QED
  BY <1>1, Zenon DEF Range

LEMMA DestroySound == ASSUME SpaceInv, NEW b \in Boundary, destroy_space(b) PROVE SpaceInv'
<1> DEFINE s == spaces[b].mapped
           a == frees(alloc, s)
<1>1. Sound(alloc, Others(b), s, tables[b], view[b]) /\ FramesOk(alloc)
  BY Zenon DEF SpaceInv
<1>2. s \in Seq(Nat) /\ Range(s) \cap Device = {}
  BY <1>1, Zenon DEF Sound
<1>3. FramesOk(a) /\ alloc.taken \ Range(s) \subseteq a.taken
  <2> HIDE DEF s
  <2> QED
    BY <1>1, <1>2, FreesGive, Zenon
<1>4. alloc' = a
  BY Zenon DEF destroy_space
<1> HIDE DEF a
<1>5. Others(b) \subseteq a.taken
  BY <1>1, <1>3, Zenon DEF Sound
<1>6. NoSpace.mapped = <<>>
  BY Zenon DEF NoSpace
<1>7. Becomes(b, a, <<>>, {}, Unmapped)
  BY <1>4, <1>6, Zenon DEF Becomes, destroy_space
<1>8. \A p \in Page : Unmapped[p] = NoFrame
  BY Zenon DEF Unmapped
<1>9. Sound(a, Others(b), <<>>, {}, Unmapped)
  BY <1>3, <1>5, <1>8, NoPages, Zenon DEF Sound
<1> QED
  BY <1>7, <1>9, BecomesSound, Zenon

(* A driver's ring is made of frames that were free.                       *)
LEMMA RingTakes ==
    ASSUME NEW a, FramesOk(a), Runs(a, Ring) # {}
    PROVE  LET c == allocate_contiguous(a, Ring) IN
           FramesOk(c) /\ a.taken \subseteq c.taken /\ (c.taken \ a.taken) \cap Device = {}
<1> DEFINE first == Least(Runs(a, Ring))
           run == first .. first + Ring - 1
           c == allocate_contiguous(a, Ring)
<1>1. Runs(a, Ring) \subseteq Nat
  BY DEF Runs, FreeFrames
<1>2. first \in Runs(a, Ring) /\ first \in Nat
  BY <1>1, LeastIsOne, Zenon
<1>3. run \subseteq FreeFrames(a)
  BY <1>2, Zenon DEF Runs
<1>4. c = [a EXCEPT !.taken = a.taken \cup run, !.allocated = a.allocated + Ring]
  BY Zenon DEF allocate_contiguous
<1> HIDE DEF first, c
<1>5. Ring \in Nat \ {0}
  BY AddressSpaceAssumption, Zenon
<1>6. IsFiniteSet(run) /\ Cardinality(run) = Ring
  <2>1. first \in Int /\ first + Ring - 1 \in Int /\ ~(first > first + Ring - 1) /\ (first + Ring - 1) - first + 1 = Ring
    BY <1>2, <1>5
  <2> QED
    BY <2>1, FS_Interval, Zenon
<1> HIDE DEF run
<1>7. a.taken \cap run = {} /\ run \subseteq 0 .. a.count - 1 /\ run \cap Device = {}
  BY <1>3, Zenon DEF FreeFrames, FramesOk
<1>8. IsFiniteSet(a.taken \cup run) /\ Cardinality(a.taken \cup run) = Cardinality(a.taken) + Ring
  <2>1. IsFiniteSet(a.taken) /\ Cardinality(a.taken) \in Nat
    BY FS_CardinalityType, Zenon DEF FramesOk
  <2>2. /\ IsFiniteSet(a.taken \cup run)
        /\ Cardinality(a.taken \cup run) = Cardinality(a.taken) + Cardinality(run) - Cardinality(a.taken \cap run)
    BY <1>6, <2>1, FS_Union, Zenon
  <2>3. Cardinality(a.taken \cap run) = 0
    BY <1>7, FS_EmptySet, Zenon
  <2> QED
    BY <1>5, <1>6, <2>1, <2>2, <2>3
<1>9. /\ DOMAIN c = AllocFields /\ c.count = a.count /\ c.taken = a.taken \cup run
      /\ c.allocated = a.allocated + Ring
  BY <1>4, Zenon DEF FramesOk, AllocFields
<1>10. FreeFrames(c) \cap Device = {}
  BY <1>9, Zenon DEF FreeFrames, FramesOk
<1>11. FramesOk(c)
  BY <1>7, <1>8, <1>9, <1>10, Zenon DEF FramesOk
<1> QED
  BY <1>7, <1>9, <1>11, Zenon DEF c

LEMMA TakeRingSound == ASSUME SpaceInv, TakeRing PROVE SpaceInv'
<1> DEFINE c == allocate_contiguous(alloc, Ring)
<1>1. /\ alloc' = c /\ dma = {} /\ dma' = c.taken \ alloc.taken
      /\ spaces' = spaces /\ view' = view /\ tables' = tables
  BY Zenon DEF TakeRing
<1>2. FramesOk(c) /\ alloc.taken \subseteq c.taken /\ (c.taken \ alloc.taken) \cap Device = {}
  BY RingTakes, Zenon DEF TakeRing, SpaceInv
<1> HIDE DEF c
<1>3. ASSUME NEW b \in Boundary PROVE Sound(c, Others(b)', spaces[b].mapped, tables[b], view[b])
  <2>1. Sound(alloc, Others(b), spaces[b].mapped, tables[b], view[b])
    BY Zenon DEF SpaceInv
  <2>2. \A f \in Others(b)' : f \in c.taken \ alloc.taken \/ f \in Others(b)
    BY <1>1, Zenon DEF Others, Owned
  <2>3. Range(spaces[b].mapped) \cup tables[b] \cup Others(b)' \subseteq c.taken
    BY <1>2, <2>1, <2>2, Zenon DEF Sound
  <2>4. (Range(spaces[b].mapped) \cup tables[b]) \cap (Others(b)' \cup Device) = {}
    BY <2>1, <2>2, Zenon DEF Sound
  <2> QED
    BY <1>2, <2>1, <2>3, <2>4, Zenon DEF Sound
<1> QED
  BY <1>1, <1>2, <1>3, Zenon DEF SpaceInv

LEMMA SpaceInitially == SpaceInit => SpaceInv
<1> SUFFICES ASSUME SpaceInit PROVE SpaceInv
  OBVIOUS
<1>1. FramesOk(alloc)
  BY BootsOk, Zenon DEF SpaceInit
<1>2. /\ DOMAIN spaces = Boundary /\ DOMAIN view = Boundary /\ DOMAIN tables = Boundary /\ dma = {}
      /\ \A b \in Boundary : spaces[b] = NoSpace /\ view[b] = Unmapped /\ tables[b] = {}
  BY Zenon DEF SpaceInit
<1>3. NoSpace.mapped = <<>>
  BY Zenon DEF NoSpace
<1>4. \A b \in Boundary : Owned(b) = {} /\ spaces[b].mapped = <<>>
  BY <1>2, <1>3, NoPages, Zenon DEF Owned
<1>5. \A b \in Boundary : Others(b) = {}
  <2> SUFFICES ASSUME NEW b \in Boundary PROVE Others(b) = {}
    BY Zenon
  <2>1. \A c \in Boundary \ {b} : Owned(c) = {}
    BY <1>4, Zenon
  <2>2. \A f : f \notin UNION {Owned(c) : c \in Boundary \ {b}}
    BY <2>1, Zenon
  <2> HIDE DEF Owned
  <2> QED
    BY <1>2, <2>2, Zenon DEF Others
<1>6. \A p \in Page : Unmapped[p] = NoFrame
  BY Zenon DEF Unmapped
<1>7. Sound(alloc, {}, <<>>, {}, Unmapped)
  BY <1>1, <1>6, NoPages, Zenon DEF Sound
<1>8. ASSUME NEW b \in Boundary PROVE Sound(alloc, Others(b), spaces[b].mapped, tables[b], view[b])
  <2>1. Others(b) = {} /\ spaces[b].mapped = <<>> /\ tables[b] = {} /\ view[b] = Unmapped
    BY <1>2, <1>4, <1>5, Zenon
  <2> QED
    BY <1>7, <2>1, Zenon
<1> QED
  BY <1>1, <1>2, <1>8, Zenon DEF SpaceInv

LEMMA SpaceStep == SpaceInv /\ [SpaceNext]_spaceVars => SpaceInv'
<1> SUFFICES ASSUME SpaceInv, [SpaceNext]_spaceVars PROVE SpaceInv'
  OBVIOUS
<1>1. CASE TakeRing
  BY <1>1, TakeRingSound, Zenon
<1>2. ASSUME NEW b \in Boundary, create_space(b) PROVE SpaceInv'
  BY <1>2, CreateSound, Zenon
<1>3. ASSUME NEW b \in Boundary, destroy_space(b) PROVE SpaceInv'
  BY <1>3, DestroySound, Zenon
<1>4. ASSUME NEW b \in Boundary, NEW virt \in Page, NEW count \in 1 .. MaxCount, map_new_pages(b, virt, count)
      PROVE  SpaceInv'
  <2>1. Commit(b, new_pages(Start(b), virt, count))
    BY <1>4, Zenon DEF map_new_pages, new_pages
  <2>2. count \in Nat
    BY <1>4
  <2>3. Good(Others(b), new_pages(Start(b), virt, count))
    BY <2>2, StartIsGood, NewPagesIsGood, Zenon
  <2> QED
    BY <2>1, <2>3, CommitSound, Zenon
<1>5. ASSUME NEW b \in Boundary, NEW virt \in Page, NEW w \in Window, map_existing(b, virt, w.phys, w.count)
      PROVE  SpaceInv'
  <2>1. Commit(b, map_range(Start(b), virt, w.phys, w.count))
    BY <1>5, Zenon DEF map_existing
  <2>2. Good(Others(b), map_range(Start(b), virt, w.phys, w.count))
    BY StartIsGood, MapRangeIsGood, Zenon
  <2> QED
    BY <2>1, <2>2, CommitSound, Zenon
<1>6. CASE UNCHANGED spaceVars
  <2>1. /\ alloc' = alloc /\ spaces' = spaces /\ view' = view /\ tables' = tables /\ dma' = dma
    BY <1>6, Zenon DEF spaceVars
  <2>2. \A b \in Boundary : Others(b)' = Others(b)
    BY <2>1, Zenon DEF Others, Owned
  <2> QED
    BY <2>1, <2>2, Zenon DEF SpaceInv
<1> QED
  BY <1>1, <1>2, <1>3, <1>4, <1>5, <1>6, Zenon DEF SpaceNext

LEMMA SpacesAreIsolated == SpaceInv => Isolated
<1> SUFFICES ASSUME SpaceInv PROVE Isolated
  OBVIOUS
<1>1. \A b \in Boundary : Sound(alloc, Others(b), spaces[b].mapped, tables[b], view[b])
  BY Zenon DEF SpaceInv
<1>2. Live \subseteq Boundary
  BY Zenon DEF Live
<1>3. NoFrame \notin alloc.taken
  <2>1. alloc.taken \subseteq 0 .. alloc.count - 1
    BY Zenon DEF SpaceInv, FramesOk
  <2> QED
    BY <2>1 DEF NoFrame
<1>4. \A b \in Boundary, p \in Page : Private(b, p) => view[b][p] \in Range(spaces[b].mapped)
  BY <1>1, Zenon DEF Private, Sound
<1>5. \A b \in Boundary : /\ Owned(b) \subseteq alloc.taken /\ Owned(b) \cap (dma \cup Device) = {}
                          /\ Range(spaces[b].mapped) \cap tables[b] = {}
  BY <1>1, Zenon DEF Sound, Owned, Others
<1>6. \A b, c \in Boundary : b # c => Owned(b) \cap Owned(c) = {}
  <2> SUFFICES ASSUME NEW b \in Boundary, NEW c \in Boundary, b # c PROVE Owned(b) \cap Owned(c) = {}
    BY Zenon
  <2>1. Owned(c) \subseteq Others(b)
    BY Zenon DEF Others
  <2>2. Owned(b) \cap Others(b) = {}
    BY <1>1, Zenon DEF Sound, Owned
  <2> QED
    BY <2>1, <2>2, Zenon
<1>7. ASSUME NEW b \in Boundary, NEW c \in Boundary, NEW p \in Page, NEW q \in Page,
             Private(b, p), view[b][p] = view[c][q]
      PROVE  b = c /\ p = q
  <2>1. view[b][p] \in Range(spaces[b].mapped)
    BY <1>4, <1>7, Zenon
  <2>2. Private(c, q)
    BY <1>7, Zenon DEF Private
  <2>3. view[c][q] \in Range(spaces[c].mapped)
    BY <1>4, <2>2, Zenon
  <2>4. b = c
    BY <1>6, <1>7, <2>1, <2>3, Zenon DEF Owned
  <2>5. Sound(alloc, Others(b), spaces[b].mapped, tables[b], view[b]) /\ view[b][p] = view[b][q]
    BY <1>1, <1>7, <2>4, Zenon
  <2> QED
    BY <2>1, <2>4, <2>5, Zenon DEF Sound
<1>8. ASSUME NEW b \in Boundary, NEW p \in Page, NEW d \in Boundary
      PROVE  view[b][p] \notin dma /\ view[b][p] \notin tables[d]
  <2>0. dma \subseteq alloc.taken /\ dma \cap Device = {} /\ tables[d] \subseteq alloc.taken /\ tables[d] \cap Device = {}
    BY <1>5, Zenon DEF SpaceInv, Owned
  <2>1. CASE Private(b, p)
    <3>1. view[b][p] \in Range(spaces[b].mapped)
      BY <1>4, <2>1, Zenon
    <3> QED
      BY <1>5, <1>6, <3>1, Zenon DEF Owned
  <2>2. CASE ~Private(b, p)
    BY <1>3, <2>0, <2>2, Zenon DEF Private
  <2> QED
    BY <2>1, <2>2, Zenon
<1>9. NothingShared
  <2> SUFFICES ASSUME NEW b \in Live, NEW c \in Live, NEW p \in Page, NEW q \in Page
               PROVE  /\ Private(b, p) /\ view[b][p] = view[c][q] => b = c /\ p = q
                      /\ view[b][p] \notin dma \cup UNION {tables[d] : d \in Boundary}
    BY Zenon DEF NothingShared
  <2>1. b \in Boundary /\ c \in Boundary
    BY <1>2, Zenon
  <2>2. Private(b, p) /\ view[b][p] = view[c][q] => b = c /\ p = q
    BY <1>7, <2>1, Zenon
  <2>3. view[b][p] \notin dma
    BY <1>8, <2>1, Zenon
  <2>4. \A d \in Boundary : view[b][p] \notin tables[d]
    BY <1>8, <2>1, Zenon
  <2> QED
    BY <2>2, <2>3, <2>4, Zenon
<1>10. InUseIsTaken
  <2>1. dma \subseteq alloc.taken /\ alloc.allocated = Cardinality(alloc.taken)
    BY Zenon DEF SpaceInv, FramesOk
  <2>2. \A b \in Live : tables[b] \subseteq alloc.taken /\ \A p \in Page : Private(b, p) => view[b][p] \in alloc.taken
    BY <1>2, <1>4, <1>5, Zenon DEF Owned
  <2> QED
    BY <2>1, <2>2, Zenon DEF InUseIsTaken
<1> QED
  BY <1>9, <1>10, Zenon DEF Isolated

(* "Container A cannot read Container B": however boundaries create spaces,  *)
(* map pages and windows, fail for want of frames and tear their spaces      *)
(* down, what one has mapped from the allocator is in no other space, is no  *)
(* page table and no part of a driver's ring, and stays marked.              *)
THEOREM IsolatedHolds == SpaceSpec => []Isolated
<1>1. SpaceInit => SpaceInv
  BY SpaceInitially, Zenon
<1>2. SpaceInv /\ [SpaceNext]_spaceVars => SpaceInv'
  BY SpaceStep, Zenon
<1>3. SpaceInv => Isolated
  BY SpacesAreIsolated, Zenon
<1> QED
  BY <1>1, <1>2, <1>3, PTL DEF SpaceSpec
====
