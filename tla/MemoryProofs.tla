---------------------------- MODULE MemoryProofs ----------------------------
(***************************************************************************)
(* Proofs about Memory, for every machine, memory map, size of a table and *)
(* of the bitmap, every set of pages and every order of allocations,       *)
(* switches and destructions.                                              *)
(***************************************************************************)
EXTENDS Memory, FiniteSetTheorems, SequenceTheorems, TLAPS

(* The shape of the page tables: each frame is a table of one level (1 is a *)
(* PML4), a page at level 5, or of no use at level 0; and each belongs to   *)
(* one address space, the kernel's if its pages are in the kernel half.     *)

Page == [1..LEVELS -> Index]
Memories == [Frames -> [Index -> Frames \cup {NULL}]]
Levels == [Frames -> 0..5]
Owners == [Frames -> Frames \cup {NULL}]

IsTable(lvl, t) == lvl[t] \in 1..4

OwnerVia(lvl, own, kernel, t, i) ==
    IF lvl[t] # 1 THEN own[t] ELSE IF i \in UserSlots THEN t ELSE kernel

Typed(m, lvl, own) == m \in Memories /\ lvl \in Levels /\ own \in Owners

Rooted(lvl, own, roots, kernel) ==
    /\ roots \subseteq Frames /\ (roots # {} => kernel \in roots)
    /\ \A f \in Frames : lvl[f] = 1 <=> f \in roots
    /\ \A f \in roots : own[f] = f

\* An entry leads one level down, inside its space.
EntriesDescend(m, lvl, own, kernel) ==
    \A t \in Frames, i \in Index : IsTable(lvl, t) /\ m[t][i] # NULL =>
        /\ lvl[m[t][i]] = lvl[t] + 1
        /\ own[m[t][i]] = OwnerVia(lvl, own, kernel, t, i)

Reached(m, lvl) ==
    \A f \in Frames : lvl[f] \in 2..5 =>
        \E t \in Frames, i \in Index : lvl[t] = lvl[f] - 1 /\ m[t][i] = f

\* No frame is in two entries, but for the kernel half of PML4s.
OneEntry(m, lvl) ==
    \A t, u \in Frames : \A i, j \in Index :
        IsTable(lvl, t) /\ IsTable(lvl, u) /\ m[t][i] # NULL /\ m[t][i] = m[u][j] =>
            i = j /\ (t = u \/ (lvl[t] = 1 /\ lvl[u] = 1 /\ i \notin UserSlots))

KernelShared(m, roots, kernel) == \A s \in roots : \A i \in Index \ UserSlots : m[s][i] = m[kernel][i]

Tree(m, lvl, own, roots, kernel) ==
    /\ Typed(m, lvl, own) /\ Rooted(lvl, own, roots, kernel)
    /\ EntriesDescend(m, lvl, own, kernel) /\ Reached(m, lvl)
    /\ OneEntry(m, lvl) /\ KernelShared(m, roots, kernel)

\* What is no table holds no entries, as long as nothing was freed.
Clear(m, lvl) == \A f \in Frames : ~IsTable(lvl, f) => m[f] = EmptyTable

-----------------------------------------------------------------------------
(* One more entry *)

WithEntry(m, t, i, g) == [m EXCEPT ![t][i] = g]

LEMMA EntryFacts ==
    ASSUME NEW m \in Memories, NEW t \in Frames, NEW i \in Index, NEW g \in Frames
    PROVE  /\ WithEntry(m, t, i, g) \in Memories /\ WithEntry(m, t, i, g)[t][i] = g
           /\ \A u \in Frames, j \in Index : u # t \/ j # i => WithEntry(m, t, i, g)[u][j] = m[u][j]
           /\ \A u \in Frames : u # t => WithEntry(m, t, i, g)[u] = m[u]
<1> DEFINE row == [m[t] EXCEPT ![i] = g]
           n == WithEntry(m, t, i, g)
<1>1. m[t] \in [Index -> Frames \cup {NULL}]
    BY DEF Memories
<1>2. /\ row \in [Index -> Frames \cup {NULL}] /\ row[i] = g
      /\ \A j \in Index : j # i => row[j] = m[t][j]
    BY <1>1
<1>3. n = [m EXCEPT ![t] = row]
    BY DEF WithEntry
<1> HIDE DEF row
<1>4. n[t] = row /\ (\A u \in Frames : u # t => n[u] = m[u]) /\ n \in Memories
    BY <1>2, <1>3 DEF Memories
<1> QED
    BY <1>2, <1>4

LEMMA TreeWithEntry ==
    ASSUME NEW m, NEW lvl, NEW own, NEW roots, NEW kernel, Tree(m, lvl, own, roots, kernel),
           NEW t \in Frames, IsTable(lvl, t), NEW i \in Index, m[t][i] = NULL,
           lvl[t] = 1 /\ i \notin UserSlots => roots = {t},
           NEW g \in Frames, lvl[g] = 0, m[g] = EmptyTable,
           NEW lvl2, lvl2 = [lvl EXCEPT ![g] = lvl[t] + 1],
           NEW own2, own2 = [own EXCEPT ![g] = OwnerVia(lvl, own, kernel, t, i)]
    PROVE  Tree(WithEntry(m, t, i, g), lvl2, own2, roots, kernel)
<1> DEFINE n == WithEntry(m, t, i, g)
<1>1. /\ m \in Memories /\ lvl \in Levels /\ own \in Owners
      /\ Rooted(lvl, own, roots, kernel) /\ EntriesDescend(m, lvl, own, kernel)
      /\ Reached(m, lvl) /\ OneEntry(m, lvl) /\ KernelShared(m, roots, kernel)
    BY DEF Tree, Typed
<1>2. NULL \notin Frames /\ \A j \in Index : m[g][j] = NULL
    BY MemoryAssumption DEF EmptyTable
<1>3. /\ n \in Memories /\ n[t][i] = g
      /\ \A u \in Frames, j \in Index : u # t \/ j # i => n[u][j] = m[u][j]
    BY <1>1, EntryFacts
<1> HIDE DEF n
<1>4. /\ \A f \in Frames : lvl[f] \in 0..5
      /\ g # t /\ lvl[t] \in 1..4 /\ g \notin roots
      /\ t \in roots <=> lvl[t] = 1
    BY <1>1 DEF Levels, IsTable, Rooted
<1>5. lvl2 \in Levels /\ lvl2[g] = lvl[t] + 1 /\ \A f \in Frames : f # g => lvl2[f] = lvl[f]
    <2>1. lvl[t] + 1 \in 0..5
        BY <1>4
    <2> QED
        BY <1>1, <2>1 DEF Levels
<1>6. OwnerVia(lvl, own, kernel, t, i) \in Frames \cup {NULL}
    <2>1. lvl[t] = 1 => kernel \in Frames
        BY <1>1, <1>4 DEF Rooted
    <2> QED
        BY <1>1, <2>1 DEF OwnerVia, Owners
<1>7. /\ own2 \in Owners /\ own2[g] = OwnerVia(lvl, own, kernel, t, i)
      /\ \A f \in Frames : f # g => own2[f] = own[f]
    BY <1>1, <1>6 DEF Owners
<1>8. \A u \in Frames, j \in Index : IsTable(lvl, u) /\ m[u][j] # NULL =>
          m[u][j] \in Frames /\ m[u][j] # g
    <2> SUFFICES ASSUME NEW u \in Frames, NEW j \in Index, IsTable(lvl, u), m[u][j] # NULL
                 PROVE  m[u][j] \in Frames /\ m[u][j] # g
        OBVIOUS
    <2>1. m[u][j] \in Frames
        BY <1>1 DEF Memories
    <2>2. lvl[m[u][j]] = lvl[u] + 1 /\ lvl[u] \in 1..4
        BY <1>1 DEF EntriesDescend, IsTable
    <2> QED
        BY <2>1, <2>2
<1> HIDE DEF Tree
\* The tables afterwards: those from before, with one more entry, and g
\* without any.
<1>9. \A u \in Frames, j \in Index : IsTable(lvl2, u) /\ n[u][j] # NULL =>
          \/ u # g /\ IsTable(lvl, u) /\ n[u][j] = m[u][j] /\ m[u][j] # g
          \/ u = t /\ j = i /\ n[u][j] = g
    <2> SUFFICES ASSUME NEW u \in Frames, NEW j \in Index, IsTable(lvl2, u), n[u][j] # NULL
                 PROVE  \/ u # g /\ IsTable(lvl, u) /\ n[u][j] = m[u][j] /\ m[u][j] # g
                        \/ u = t /\ j = i /\ n[u][j] = g
        OBVIOUS
    <2>1. u # g
        BY <1>2, <1>3, <1>4
    <2> QED
        BY <1>3, <1>5, <1>8, <2>1 DEF IsTable
<1>10. Rooted(lvl2, own2, roots, kernel)
    BY <1>1, <1>4, <1>5, <1>7 DEF Rooted
<1>11. \A u \in Frames, j \in Index : u # g => OwnerVia(lvl2, own2, kernel, u, j) = OwnerVia(lvl, own, kernel, u, j)
    BY <1>5, <1>7 DEF OwnerVia
<1>12. EntriesDescend(n, lvl2, own2, kernel)
    <2> SUFFICES ASSUME NEW u \in Frames, NEW j \in Index, IsTable(lvl2, u), n[u][j] # NULL
                 PROVE  /\ lvl2[n[u][j]] = lvl2[u] + 1
                        /\ own2[n[u][j]] = OwnerVia(lvl2, own2, kernel, u, j)
        BY DEF EntriesDescend
    <2>1. CASE u # g /\ IsTable(lvl, u) /\ n[u][j] = m[u][j] /\ m[u][j] # g
        <3>1. /\ lvl[m[u][j]] = lvl[u] + 1 /\ own[m[u][j]] = OwnerVia(lvl, own, kernel, u, j)
              /\ m[u][j] \in Frames
            BY <1>1, <1>8, <2>1 DEF EntriesDescend
        <3> QED
            BY <1>5, <1>7, <1>11, <2>1, <3>1
    <2>2. CASE u = t /\ j = i /\ n[u][j] = g
        BY <1>4, <1>5, <1>7, <1>11, <2>2
    <2> QED
        BY <1>9, <2>1, <2>2
<1>13. Reached(n, lvl2)
    <2> SUFFICES ASSUME NEW f \in Frames, lvl2[f] \in 2..5
                 PROVE  \E u \in Frames, j \in Index : lvl2[u] = lvl2[f] - 1 /\ n[u][j] = f
        BY DEF Reached
    <2>1. CASE f = g
        <3>1. lvl2[t] = lvl2[f] - 1 /\ n[t][i] = f
            BY <1>3, <1>4, <1>5, <2>1
        <3> QED
            BY <3>1
    <2>2. CASE f # g
        <3>1. lvl[f] \in 2..5
            BY <1>5, <2>2
        <3>2. PICK u \in Frames, j \in Index : lvl[u] = lvl[f] - 1 /\ m[u][j] = f
            BY <1>1, <3>1 DEF Reached
        <3>3. u # g
            BY <3>1, <3>2
        <3>4. u # t \/ j # i
            BY <1>2, <3>2
        <3> QED
            BY <1>3, <1>5, <2>2, <3>2, <3>3, <3>4
    <2> QED
        BY <2>1, <2>2
<1>14. OneEntry(n, lvl2)
    <2> SUFFICES ASSUME NEW u \in Frames, NEW v \in Frames, NEW j \in Index, NEW k \in Index,
                        IsTable(lvl2, u), IsTable(lvl2, v), n[u][j] # NULL, n[u][j] = n[v][k]
                 PROVE  j = k /\ (u = v \/ (lvl2[u] = 1 /\ lvl2[v] = 1 /\ j \notin UserSlots))
        BY DEF OneEntry
    <2> DEFINE Old(x, y) == x # g /\ IsTable(lvl, x) /\ n[x][y] = m[x][y] /\ m[x][y] # g
               New(x, y) == x = t /\ y = i /\ n[x][y] = g
    <2>1. Old(u, j) \/ New(u, j)
        BY <1>9
    <2>2. Old(v, k) \/ New(v, k)
        BY <1>9
    <2>3. CASE Old(u, j) /\ Old(v, k)
        <3>0. IsTable(lvl, u) /\ IsTable(lvl, v) /\ m[u][j] # NULL /\ m[u][j] = m[v][k]
            BY <2>3
        <3>1. j = k /\ (u = v \/ (lvl[u] = 1 /\ lvl[v] = 1 /\ j \notin UserSlots))
            BY <1>1, <3>0 DEF OneEntry
        <3> QED
            BY <1>5, <2>3, <3>1
    <2>4. CASE New(u, j) /\ New(v, k)
        BY <2>4
    <2> QED
        BY <2>1, <2>2, <2>3, <2>4
<1>15. KernelShared(n, roots, kernel)
    <2>1. CASE lvl[t] = 1 /\ i \notin UserSlots
        BY <1>1, <2>1 DEF KernelShared, Rooted
    <2>2. CASE ~(lvl[t] = 1 /\ i \notin UserSlots)
        <3>1. \A s \in roots, j \in Index \ UserSlots : s \in Frames /\ (s # t \/ j # i)
            BY <1>1, <1>4, <2>2 DEF Rooted
        <3>2. \A s \in roots : kernel \in roots
            BY <1>1 DEF Rooted
        <3>3. \A s \in roots, j \in Index \ UserSlots : n[s][j] = m[s][j] /\ n[kernel][j] = m[kernel][j]
            BY <1>3, <3>1, <3>2
        <3> QED
            BY <1>1, <3>3 DEF KernelShared
    <2> QED
        BY <2>1, <2>2
<1> QED
    BY <1>3, <1>5, <1>7, <1>10, <1>12, <1>13, <1>14, <1>15 DEF Tree, Typed, n

LEMMA ClearWithEntry ==
    ASSUME NEW m \in Memories, NEW lvl \in Levels, Clear(m, lvl),
           NEW t \in Frames, IsTable(lvl, t), NEW i \in Index,
           NEW g \in Frames, lvl[g] = 0,
           NEW lvl2, lvl2 = [lvl EXCEPT ![g] = lvl[t] + 1]
    PROVE  Clear(WithEntry(m, t, i, g), lvl2)
<1> DEFINE n == WithEntry(m, t, i, g)
<1>1. \A u \in Frames : u # t => n[u] = m[u]
    BY EntryFacts
<1>2. \A f \in Frames : f # g => lvl2[f] = lvl[f]
    BY DEF Levels
<1>3. lvl[g] # lvl[t] /\ ~IsTable(lvl, g)
    BY DEF IsTable
<1> QED
    BY <1>1, <1>2, <1>3 DEF Clear, IsTable
-----------------------------------------------------------------------------
(* Frames that are free *)

LEMMA LeastNumber ==
    ASSUME NEW bound \in Nat, NEW S \in SUBSET (0..bound), S # {}
    PROVE  \E n \in S : \A k \in S : n <= k
<1> DEFINE All == 0..bound
           Intervals == {0..k : k \in S}
<1>1. Intervals \subseteq FiniteSubsetsOf(All)
    <2>1. IsFiniteSet(All)
        BY FS_Interval
    <2>2. \A k \in S : 0..k \in SUBSET All
        OBVIOUS
    <2> QED
        BY <2>1, <2>2, FS_FiniteSubsetsOfFinite
<1>2. IsWellFoundedOn(StrictSubsetOrdering(All), FiniteSubsetsOf(All))
    BY FS_StrictSubsetOrderingWellFounded
<1>3. PICK least \in Intervals : \A other \in Intervals : <<other, least>> \notin StrictSubsetOrdering(All)
    <2>1. Intervals # {}
        OBVIOUS
    <2> HIDE DEF Intervals, All
    <2> QED
        BY <1>1, <1>2, <2>1, WFMin
<1>4. PICK n \in S : least = 0..n
    OBVIOUS
<1>5. ASSUME NEW k \in S, k < n
      PROVE  FALSE
    <2>1. 0..k \subseteq 0..n /\ 0..k # 0..n /\ 0..k \in SUBSET All /\ 0..n \in SUBSET All
        <3>1. n \in 0..n /\ n \notin 0..k
            BY <1>5
        <3> QED
            BY <1>5, <3>1
    <2>2. <<0..k, least>> \in StrictSubsetOrdering(All)
        BY <1>4, <2>1 DEF StrictSubsetOrdering
    <2> QED
        BY <1>3, <2>2
<1> QED
    BY <1>5

\* pmm_alloc() finds a frame when there is one, and one fewer is left.
LEMMA FreeFrame ==
    ASSUME NEW u \in SUBSET Frames, Frames \ u # {}
    PROVE  FirstFree(u) \in Frames \ u
<1>1. PICK b \in Frames \ u : TRUE
    OBVIOUS
<1>2. b \in Nat /\ Frames \subseteq Nat
    BY MemoryAssumption
<1> DEFINE S == {f \in Frames \ u : f <= b}
<1>3. S \in SUBSET (0..b) /\ S # {}
    <2>1. \A f \in S : f \in 0..b
        BY <1>2
    <2>2. b \in S
        BY <1>1, <1>2
    <2> QED
        BY <2>1, <2>2
<1>4. PICK f \in S : \A g \in S : f <= g
    <2> HIDE DEF S
    <2> QED
        BY <1>2, <1>3, LeastNumber
<1>5. \A g \in Frames \ u : f <= g
    BY <1>2, <1>4
<1> QED
    BY <1>4, <1>5 DEF FirstFree

\* At least n frames are free.
Spare(u, n) == u \subseteq Frames /\ Cardinality(Frames \ u) \in Nat /\ Cardinality(Frames \ u) >= n

LEMMA OneFewer ==
    ASSUME NEW u, NEW n \in Nat, Spare(u, n + 1)
    PROVE  FirstFree(u) \in Frames \ u /\ Spare(Taken(u, FirstFree(u)), n) /\ Spare(u, n)
<1>1. IsFiniteSet(Frames) /\ u \in SUBSET Frames
    BY MemoryAssumption DEF Spare
<1>2. IsFiniteSet(Frames \ u)
    BY <1>1, FS_Subset, Frames \ u \subseteq Frames
<1>3. Frames \ u # {}
    BY FS_EmptySet DEF Spare
<1>4. FirstFree(u) \in Frames \ u
    BY <1>1, <1>3, FreeFrame
<1>5. Frames \ Taken(u, FirstFree(u)) = (Frames \ u) \ {FirstFree(u)}
    BY DEF Taken
<1>6. Cardinality((Frames \ u) \ {FirstFree(u)}) = Cardinality(Frames \ u) - 1
    BY <1>2, <1>4, FS_RemoveElement
<1>7. Taken(u, FirstFree(u)) \subseteq Frames
    BY <1>1, <1>4 DEF Taken
<1>8. Cardinality(Frames \ Taken(u, FirstFree(u))) = Cardinality(Frames \ u) - 1
    BY <1>5, <1>6
<1> QED
    BY <1>4, <1>7, <1>8 DEF Spare
-----------------------------------------------------------------------------
(* Paths through the tables *)

\* The tables on the way from a PML4 to the frame of a page.
Chain(m, s, p, t1, t2, t3, f) ==
    m[s][p[1]] = t1 /\ m[t1][p[2]] = t2 /\ m[t2][p[3]] = t3 /\ m[t3][p[4]] = f

Grown(m, n) == \A t \in Frames, i \in Index : m[t][i] # NULL => n[t][i] = m[t][i]

LEMMA PageIndices ==
    ASSUME NEW p \in Page
    PROVE  p[1] \in Index /\ p[2] \in Index /\ p[3] \in Index /\ p[4] \in Index
BY DEF Page, LEVELS

LEMMA ChainIsPath ==
    ASSUME NEW m, NEW s \in Frames, NEW p,
           NEW t1 \in Frames, NEW t2 \in Frames, NEW t3 \in Frames, NEW f,
           Chain(m, s, p, t1, t2, t3, f)
    PROVE  PaddrIn(m, s, p) = f
<1>1. NULL \notin Frames
    BY MemoryAssumption
<1> QED
    BY <1>1 DEF PaddrIn, Follow, Chain

LEMMA PathIsChain ==
    ASSUME NEW m \in Memories, NEW s \in Frames, NEW p \in Page, PaddrIn(m, s, p) # NULL
    PROVE  /\ PaddrIn(m, s, p) \in Frames
           /\ \E t1, t2, t3 \in Frames : Chain(m, s, p, t1, t2, t3, PaddrIn(m, s, p))
<1>1. NULL \notin Frames /\ \A i \in 1..4 : p[i] \in Index
    BY MemoryAssumption, PageIndices
<1>2. \A t \in Frames, i \in Index : m[t][i] \in Frames \cup {NULL}
    BY DEF Memories
<1>3. /\ \A i : Follow(m, NULL, i) = NULL
      /\ \A t \in Frames, i \in Index : Follow(m, t, i) = m[t][i] /\ Follow(m, t, i) \in Frames \cup {NULL}
    BY <1>1, <1>2 DEF Follow
<1> DEFINE t1 == Follow(m, s, p[1])
           t2 == Follow(m, t1, p[2])
           t3 == Follow(m, t2, p[3])
<1>4. PaddrIn(m, s, p) = Follow(m, t3, p[4])
    BY DEF PaddrIn
<1>5. t1 \in Frames \cup {NULL} /\ t1 = m[s][p[1]]
    BY <1>1, <1>3
<1> HIDE DEF t1
<1>6. t2 \in Frames \cup {NULL} /\ (t2 # NULL => t1 \in Frames /\ t2 = m[t1][p[2]])
    BY <1>1, <1>3, <1>5
<1> HIDE DEF t2
<1>7. t3 \in Frames \cup {NULL} /\ (t3 # NULL => t2 \in Frames /\ t3 = m[t2][p[3]])
    BY <1>1, <1>3, <1>6
<1> HIDE DEF t3
<1>8. t3 \in Frames /\ PaddrIn(m, s, p) = m[t3][p[4]] /\ PaddrIn(m, s, p) \in Frames
    BY <1>1, <1>3, <1>4, <1>7
<1>9. t1 \in Frames /\ t2 \in Frames
    BY <1>1, <1>6, <1>7, <1>8
<1>10. Chain(m, s, p, t1, t2, t3, PaddrIn(m, s, p))
    BY <1>1, <1>5, <1>6, <1>7, <1>8, <1>9 DEF Chain
<1> QED
    BY <1>8, <1>9, <1>10

\* What is mapped stays mapped while entries are only added.
LEMMA PathStays ==
    ASSUME NEW m \in Memories, NEW n \in Memories, Grown(m, n),
           NEW s \in Frames, NEW p \in Page, PaddrIn(m, s, p) # NULL
    PROVE  PaddrIn(n, s, p) = PaddrIn(m, s, p)
<1>1. PICK t1, t2, t3 \in Frames : Chain(m, s, p, t1, t2, t3, PaddrIn(m, s, p))
    BY PathIsChain
<1>2. NULL \notin Frames /\ p[1] \in Index /\ p[2] \in Index /\ p[3] \in Index /\ p[4] \in Index
    BY MemoryAssumption, PageIndices
<1>3. Chain(n, s, p, t1, t2, t3, PaddrIn(m, s, p))
    BY <1>1, <1>2 DEF Chain, Grown
<1> QED
    BY <1>3, ChainIsPath

\* Each step of a path goes one level down, and stays in one space.
LEMMA ChainLevels ==
    ASSUME NEW m, NEW lvl, NEW own, NEW roots, NEW kernel, Tree(m, lvl, own, roots, kernel),
           NEW s \in roots, NEW p \in Page,
           NEW t1 \in Frames, NEW t2 \in Frames, NEW t3 \in Frames, NEW f \in Frames,
           Chain(m, s, p, t1, t2, t3, f)
    PROVE  /\ s \in Frames /\ lvl[s] = 1
           /\ lvl[t1] = 2 /\ lvl[t2] = 3 /\ lvl[t3] = 4 /\ lvl[f] = 5
           /\ own[f] = IF p[1] \in UserSlots THEN s ELSE kernel
<1>1. EntriesDescend(m, lvl, own, kernel) /\ Rooted(lvl, own, roots, kernel)
    BY DEF Tree
<1>2. NULL \notin Frames /\ p[1] \in Index /\ p[2] \in Index /\ p[3] \in Index /\ p[4] \in Index
    BY MemoryAssumption, PageIndices
<1>3. s \in Frames /\ lvl[s] = 1 /\ own[s] = s
    BY <1>1 DEF Rooted
<1>4. lvl[t1] = 2 /\ own[t1] = IF p[1] \in UserSlots THEN s ELSE kernel
    BY <1>1, <1>2, <1>3 DEF EntriesDescend, Chain, IsTable, OwnerVia
<1>5. lvl[t2] = 3 /\ own[t2] = own[t1]
    BY <1>1, <1>2, <1>4 DEF EntriesDescend, Chain, IsTable, OwnerVia
<1>6. lvl[t3] = 4 /\ own[t3] = own[t2]
    BY <1>1, <1>2, <1>5 DEF EntriesDescend, Chain, IsTable, OwnerVia
<1>7. lvl[f] = 5 /\ own[f] = own[t3]
    BY <1>1, <1>2, <1>6 DEF EntriesDescend, Chain, IsTable, OwnerVia
<1> QED
    BY <1>3, <1>4, <1>5, <1>6, <1>7

LEMMA PathLevels ==
    ASSUME NEW m, NEW lvl, NEW own, NEW roots, NEW kernel, Tree(m, lvl, own, roots, kernel),
           NEW s \in roots, NEW p \in Page, PaddrIn(m, s, p) # NULL
    PROVE  /\ PaddrIn(m, s, p) \in Frames /\ lvl[PaddrIn(m, s, p)] = 5
           /\ own[PaddrIn(m, s, p)] = IF p[1] \in UserSlots THEN s ELSE kernel
<1>1. m \in Memories /\ s \in Frames
    BY DEF Tree, Typed, Rooted
<1>2. PaddrIn(m, s, p) \in Frames
    BY <1>1, PathIsChain
<1>3. PICK t1, t2, t3 \in Frames : Chain(m, s, p, t1, t2, t3, PaddrIn(m, s, p))
    BY <1>1, PathIsChain
<1> QED
    BY <1>2, <1>3, ChainLevels

\* Every page has a path from some PML4.
LEMMA PathExists ==
    ASSUME NEW m, NEW lvl, NEW own, NEW roots, NEW kernel, Tree(m, lvl, own, roots, kernel),
           NEW f \in Frames, lvl[f] = 5
    PROVE  \E s \in roots, p \in Page : PaddrIn(m, s, p) = f
<1>1. Reached(m, lvl) /\ Rooted(lvl, own, roots, kernel) /\ NULL \notin Frames
    BY MemoryAssumption DEF Tree
<1>2. PICK t3 \in Frames, i4 \in Index : lvl[t3] = 4 /\ m[t3][i4] = f
    BY <1>1 DEF Reached
<1>3. PICK t2 \in Frames, i3 \in Index : lvl[t2] = 3 /\ m[t2][i3] = t3
    BY <1>1, <1>2 DEF Reached
<1>4. PICK t1 \in Frames, i2 \in Index : lvl[t1] = 2 /\ m[t1][i2] = t2
    BY <1>1, <1>3 DEF Reached
<1>5. PICK s \in Frames, i1 \in Index : lvl[s] = 1 /\ m[s][i1] = t1
    BY <1>1, <1>4 DEF Reached
<1>6. s \in roots
    BY <1>1, <1>5 DEF Rooted
<1> DEFINE p == [k \in 1..LEVELS |-> IF k = 1 THEN i1 ELSE IF k = 2 THEN i2 ELSE IF k = 3 THEN i3 ELSE i4]
<1>7. p \in Page /\ p[1] = i1 /\ p[2] = i2 /\ p[3] = i3 /\ p[4] = i4
    BY DEF Page, LEVELS
<1>8. Chain(m, s, p, t1, t2, t3, f)
    BY <1>2, <1>3, <1>4, <1>5, <1>7 DEF Chain
<1> QED
    BY <1>6, <1>7, <1>8, ChainIsPath

\* A frame is the page of one address, but for the half that spaces share.
LEMMA PathUnique ==
    ASSUME NEW m, NEW lvl, NEW own, NEW roots, NEW kernel, Tree(m, lvl, own, roots, kernel),
           NEW s \in roots, NEW r \in roots, NEW p \in Page, NEW q \in Page,
           PaddrIn(m, s, p) # NULL, PaddrIn(m, s, p) = PaddrIn(m, r, q)
    PROVE  p = q /\ (s = r \/ p[1] \notin UserSlots)
<1> DEFINE f == PaddrIn(m, s, p)
<1>0. f \in Frames
    BY PathLevels
<1>1. /\ m \in Memories /\ s \in Frames /\ r \in Frames /\ OneEntry(m, lvl)
      /\ NULL \notin Frames /\ f \in Frames
    BY <1>0, MemoryAssumption DEF Tree, Typed, Rooted
<1>2. PICK t1, t2, t3 \in Frames : Chain(m, s, p, t1, t2, t3, f)
    BY <1>1, PathIsChain
<1>3. PICK u1, u2, u3 \in Frames : Chain(m, r, q, u1, u2, u3, f)
    BY <1>1, PathIsChain
<1> HIDE DEF f
<1>4. /\ lvl[s] = 1 /\ lvl[t1] = 2 /\ lvl[t2] = 3 /\ lvl[t3] = 4
      /\ lvl[r] = 1 /\ lvl[u1] = 2 /\ lvl[u2] = 3 /\ lvl[u3] = 4
    BY <1>1, <1>2, <1>3, ChainLevels
<1>5. /\ p[1] \in Index /\ p[2] \in Index /\ p[3] \in Index /\ p[4] \in Index
      /\ q[1] \in Index /\ q[2] \in Index /\ q[3] \in Index /\ q[4] \in Index
    BY PageIndices
<1>6. t3 = u3 /\ p[4] = q[4]
    BY <1>1, <1>2, <1>3, <1>4, <1>5 DEF Chain, OneEntry, IsTable
<1>7. t2 = u2 /\ p[3] = q[3]
    BY <1>1, <1>2, <1>3, <1>4, <1>5, <1>6 DEF Chain, OneEntry, IsTable
<1>8. t1 = u1 /\ p[2] = q[2]
    BY <1>1, <1>2, <1>3, <1>4, <1>5, <1>7 DEF Chain, OneEntry, IsTable
<1>9. p[1] = q[1] /\ (s = r \/ p[1] \notin UserSlots)
    BY <1>1, <1>2, <1>3, <1>4, <1>5, <1>8 DEF Chain, OneEntry, IsTable
<1>10. \A k \in 1..LEVELS : p[k] = q[k]
    BY <1>6, <1>7, <1>8, <1>9 DEF LEVELS
<1>11. p = q
    <2>1. p \in [1..LEVELS -> Index] /\ q \in [1..LEVELS -> Index]
        BY DEF Page
    <2>2. p = [k \in 1..LEVELS |-> p[k]] /\ q = [k \in 1..LEVELS |-> q[k]]
        BY <2>1
    <2>3. [k \in 1..LEVELS |-> p[k]] = [k \in 1..LEVELS |-> q[k]]
        BY <1>10
    <2> QED
        BY <2>2, <2>3
<1> QED
    BY <1>9, <1>11

\* All spaces agree on the pages of the kernel half.
LEMMA PathShared ==
    ASSUME NEW m, NEW lvl, NEW own, NEW roots, NEW kernel, Tree(m, lvl, own, roots, kernel),
           NEW s \in roots, NEW r \in roots, NEW p \in Page, p[1] \notin UserSlots
    PROVE  PaddrIn(m, s, p) = PaddrIn(m, r, p)
<1>1. KernelShared(m, roots, kernel) /\ s \in Frames /\ r \in Frames /\ NULL \notin Frames /\ p[1] \in Index
    BY MemoryAssumption, PageIndices DEF Tree, Rooted
<1>2. m[s][p[1]] = m[r][p[1]]
    BY <1>1 DEF KernelShared
<1>3. Follow(m, s, p[1]) = Follow(m, r, p[1])
    BY <1>1, <1>2 DEF Follow
<1> QED
    BY <1>3 DEF PaddrIn

\* While entries are added, a page that was in use before is found where it
\* was found before, and nowhere else.
LEMMA NoNewPath ==
    ASSUME NEW m, NEW lvl, NEW own, NEW n, NEW lvl2, NEW own2, NEW roots, NEW kernel,
           Tree(m, lvl, own, roots, kernel), Tree(n, lvl2, own2, roots, kernel), Grown(m, n),
           NEW s \in roots, NEW p \in Page,
           PaddrIn(n, s, p) # NULL, lvl[PaddrIn(n, s, p)] = 5
    PROVE  PaddrIn(m, s, p) = PaddrIn(n, s, p)
<1> DEFINE f == PaddrIn(n, s, p)
<1>0. f \in Frames
    BY PathLevels
<1>1. f \in Frames /\ m \in Memories /\ n \in Memories /\ roots \subseteq Frames /\ NULL \notin Frames
    BY <1>0, MemoryAssumption DEF Tree, Typed, Rooted
<1>2. PICK r \in roots, q \in Page : PaddrIn(m, r, q) = f
    BY <1>1, PathExists
<1>3. PaddrIn(n, r, q) = f
    BY <1>1, <1>2, PathStays
<1>4. p = q /\ (s = r \/ p[1] \notin UserSlots)
    BY <1>3, PathUnique
<1>5. s # r => PaddrIn(m, s, p) = PaddrIn(m, r, p)
    BY <1>4, PathShared
<1> QED
    BY <1>2, <1>4, <1>5
-----------------------------------------------------------------------------
(* vmm_map() *)

\* Frames that are tables or pages.
Busy(lvl) == {f \in Frames : lvl[f] # 0}

\* vmm_map() at one of the tables it passes: what is used is what is reserved,
\* what is a table or a page, and the frame it is about to map.
Walk(w, lvl, own, roots, kernel, res, frame) ==
    /\ w \in [mem : Memories, used : SUBSET Frames, table : Frames]
    /\ Tree(w.mem, lvl, own, roots, kernel) /\ Clear(w.mem, lvl)
    /\ IsTable(lvl, w.table)
    /\ res \subseteq Frames /\ frame \in Frames
    /\ w.used = res \cup Busy(lvl) \cup {frame}
    /\ lvl[frame] = 0

\* The shape changes for frames that were free only, which become tables.
MoreTables(lvl, own, lvl2, own2, res) ==
    /\ \A f \in Frames : lvl[f] # 0 => lvl2[f] = lvl[f] /\ own2[f] = own[f]
    /\ \A f \in Frames : lvl[f] = 0 /\ lvl2[f] # 0 => lvl2[f] # 5 /\ f \notin res

Leads(m, t, i, f) == m[t][i] = f

\* vmm_map() at a table of level l, with n frames to spare.
AtLevel(l, n, w, lvl, own, roots, kernel, res, frame) ==
    Walk(w, lvl, own, roots, kernel, res, frame) /\ lvl[w.table] = l /\ Spare(w.used, n)

LEMMA DescendKeepsWalk ==
    ASSUME NEW w, NEW lvl, NEW own, NEW roots, NEW kernel, NEW res, NEW frame,
           NEW l \in 1..3, NEW n \in Nat, AtLevel(l, n + 1, w, lvl, own, roots, kernel, res, frame),
           NEW i \in Index,
           l = 1 /\ i \notin UserSlots /\ Leads(w.mem, w.table, i, NULL) => roots = {w.table}
    PROVE  /\ Leads(Descend(w, i).mem, w.table, i, Descend(w, i).table)
           /\ Grown(w.mem, Descend(w, i).mem)
           /\ \E lvl2, own2 :
                 /\ AtLevel(l + 1, n, Descend(w, i), lvl2, own2, roots, kernel, res, frame)
                 /\ MoreTables(lvl, own, lvl2, own2, res)
<1> DEFINE m == w.mem
           t == w.table
           g == FirstFree(w.used)
<1>1. /\ w \in [mem : Memories, used : SUBSET Frames, table : Frames]
      /\ Tree(m, lvl, own, roots, kernel) /\ Clear(m, lvl) /\ IsTable(lvl, t)
      /\ w.used = res \cup Busy(lvl) \cup {frame} /\ lvl[frame] = 0
      /\ res \subseteq Frames /\ frame \in Frames /\ lvl[t] = l
      /\ lvl[t] = 1 /\ i \notin UserSlots /\ m[t][i] = NULL => roots = {t}
    BY DEF Walk, AtLevel, Leads
<1>2. /\ m \in Memories /\ t \in Frames /\ w.used \in SUBSET Frames
      /\ lvl \in Levels /\ own \in Owners /\ EntriesDescend(m, lvl, own, kernel) /\ NULL \notin Frames
    BY <1>1, MemoryAssumption DEF Tree, Typed
<1>3. g \in Frames \ w.used /\ Spare(Taken(w.used, g), n) /\ Spare(w.used, n)
    BY OneFewer DEF AtLevel
<1> HIDE DEF m, t, g
<1>4. CASE m[t][i] # NULL
    <2> DEFINE d == [w EXCEPT !.table = m[t][i]]
    <2>1. Descend(w, i) = d
        BY <1>4 DEF Descend, m, t
    <2>2. m[t][i] \in Frames
        BY <1>2, <1>4 DEF Memories
    <2>3. d.mem = m /\ d.used = w.used /\ d.table = m[t][i] /\ d \in [mem : Memories, used : SUBSET Frames, table : Frames]
        BY <1>1, <2>2 DEF m
    <2>4. lvl[m[t][i]] = lvl[t] + 1
        BY <1>1, <1>2, <1>4 DEF EntriesDescend
    <2>5. IsTable(lvl, m[t][i])
        BY <1>1, <2>4 DEF IsTable
    <2> HIDE DEF d
    <2>6. Walk(d, lvl, own, roots, kernel, res, frame)
        BY <1>1, <2>3, <2>5 DEF Walk
    <2>7. MoreTables(lvl, own, lvl, own, res) /\ Grown(m, m)
        BY DEF MoreTables, Grown
    <2> QED
        BY <1>1, <1>3, <2>1, <2>3, <2>4, <2>6, <2>7 DEF m, t, g, AtLevel, Leads
<1>5. CASE m[t][i] = NULL
    <2> DEFINE e == WithEntry(m, t, i, g)
               d == [mem |-> e, used |-> Taken(w.used, g), table |-> g]
               lvl2 == [lvl EXCEPT ![g] = lvl[t] + 1]
               own2 == [own EXCEPT ![g] = OwnerVia(lvl, own, kernel, t, i)]
    <2>1. Descend(w, i) = d
        BY <1>5 DEF Descend, WithEntry, m, t, g
    <2>2. lvl[g] = 0 /\ g \notin res /\ g # frame
        BY <1>1, <1>3 DEF Busy
    <2>3. m[g] = EmptyTable
        BY <1>1, <1>3, <2>2 DEF Clear, IsTable
    <2>4. e \in Memories /\ e[t][i] = g /\ \A u \in Frames, j \in Index : u # t \/ j # i => e[u][j] = m[u][j]
        BY <1>2, <1>3, EntryFacts
    <2>5. Tree(e, lvl2, own2, roots, kernel)
        BY <1>1, <1>2, <1>3, <1>5, <2>2, <2>3, TreeWithEntry
    <2>6. Clear(e, lvl2)
        BY <1>1, <1>2, <1>3, <2>2, ClearWithEntry
    <2>7. \A f \in Frames : lvl2[f] = IF f = g THEN lvl[t] + 1 ELSE lvl[f]
        BY <1>2 DEF Levels
    <2>8. \A f \in Frames : f # g => own2[f] = own[f]
        BY <1>2 DEF Owners
    <2>9. Taken(w.used, g) \in SUBSET Frames
        BY <1>2, <1>3 DEF Taken
    <2> HIDE DEF e, lvl2, own2
    <2>10. d \in [mem : Memories, used : SUBSET Frames, table : Frames] /\ d.mem = e /\ d.table = g /\ d.used = Taken(w.used, g)
        BY <1>3, <2>4, <2>9
    <2>11. IsTable(lvl2, g) /\ lvl2[frame] = 0 /\ lvl2[g] # 5
        BY <1>1, <1>3, <2>2, <2>7 DEF IsTable, t
    <2>12. Taken(w.used, g) = res \cup Busy(lvl2) \cup {frame}
        <3>1. lvl[t] + 1 # 0
            BY <1>1
        <3>2. Busy(lvl2) = Busy(lvl) \cup {g}
            BY <1>3, <2>7, <3>1 DEF Busy
        <3> QED
            BY <1>1, <3>2 DEF Taken
    <2>13. Walk(d, lvl2, own2, roots, kernel, res, frame)
        BY <2>5, <2>6, <2>10, <2>11, <2>12 DEF Walk
    <2>14. MoreTables(lvl, own, lvl2, own2, res)
        BY <2>2, <2>7, <2>8, <2>11 DEF MoreTables
    <2>15. Grown(m, e)
        BY <1>5, <2>4 DEF Grown
    <2>16. lvl2[d.table] = lvl[t] + 1
        BY <1>3, <2>7, <2>10
    <2> HIDE DEF d
    <2> QED
        BY <1>1, <1>3, <2>1, <2>4, <2>10, <2>13, <2>14, <2>15, <2>16 DEF m, t, AtLevel, Leads
<1> QED
    BY <1>4, <1>5

LEMMA GrownTwice ==
    ASSUME NEW m, NEW n, NEW o, NULL \notin Frames, Grown(m, n), Grown(n, o)
    PROVE  Grown(m, o)
BY DEF Grown

LEMMA MoreTablesTwice ==
    ASSUME NEW lvl, NEW own, NEW lvl2, NEW own2, NEW lvl3, NEW own3, NEW res,
           MoreTables(lvl, own, lvl2, own2, res), MoreTables(lvl2, own2, lvl3, own3, res)
    PROVE  MoreTables(lvl, own, lvl3, own3, res)
BY DEF MoreTables

\* The page has no frame yet, so the last entry is free: whatever were there
\* would be the page of that address already.
LEMMA LastEntryFree ==
    ASSUME NEW m, NEW lvl, NEW own, NEW n, NEW lvl2, NEW own2, NEW roots, NEW kernel, NEW res,
           Tree(m, lvl, own, roots, kernel), Tree(n, lvl2, own2, roots, kernel), Grown(m, n),
           MoreTables(lvl, own, lvl2, own2, res),
           NEW s \in roots, NEW p \in Page, PaddrIn(m, s, p) = NULL,
           NEW t1 \in Frames, NEW t2 \in Frames, NEW t3 \in Frames,
           n[s][p[1]] = t1, n[t1][p[2]] = t2, n[t2][p[3]] = t3
    PROVE  n[t3][p[4]] = NULL
<1> SUFFICES ASSUME n[t3][p[4]] # NULL
             PROVE  FALSE
    OBVIOUS
<1>1. n \in Memories /\ s \in Frames /\ p[4] \in Index /\ lvl \in Levels
    BY PageIndices DEF Tree, Typed, Rooted
<1>2. n[t3][p[4]] \in Frames
    BY <1>1 DEF Memories
<1> DEFINE f == n[t3][p[4]]
<1> HIDE DEF f
<1>3. Chain(n, s, p, t1, t2, t3, f) /\ f \in Frames /\ f # NULL
    BY <1>2 DEF Chain, f
<1>4. PaddrIn(n, s, p) = f
    BY <1>1, <1>3, ChainIsPath
<1>5. lvl2[f] = 5
    BY <1>3, <1>4, PathLevels
<1>6. lvl[f] = 5
    BY <1>3, <1>5 DEF MoreTables
<1>7. PaddrIn(m, s, p) = PaddrIn(n, s, p)
    BY <1>3, <1>4, <1>6, NoNewPath
<1> QED
    BY <1>3, <1>4, <1>7

\* What vmm_map() leaves behind: the shape has some more tables and the page.
MorePages(lvl, own, lvl2, own2, res, frame) ==
    /\ \A f \in Frames : lvl[f] # 0 => lvl2[f] = lvl[f] /\ own2[f] = own[f]
    /\ \A f \in Frames \ {frame} : lvl[f] = 0 /\ lvl2[f] # 0 => lvl2[f] # 5 /\ f \notin res
    /\ lvl2[frame] = 5

\* The caller has taken a frame for a page that has none, and if a PDPT for
\* the kernel half is missing there is no other space to miss it.
MayMap(m, u, lvl, own, roots, kernel, res, s, p, frame) ==
    /\ Tree(m, lvl, own, roots, kernel) /\ Clear(m, lvl)
    /\ res \subseteq Frames /\ frame \in Frames /\ lvl[frame] = 0
    /\ u = res \cup Busy(lvl) \cup {frame} /\ Spare(u, 3)
    /\ s \in roots /\ PaddrIn(m, s, p) = NULL
    /\ p[1] \notin UserSlots /\ Leads(m, s, p[1], NULL) => roots = {s}

HasMapped(m, r, lvl, own, roots, kernel, res, s, p, frame) ==
    /\ Grown(m, r.mem) /\ PaddrIn(r.mem, s, p) = frame
    /\ \E lvl2, own2 :
          /\ Tree(r.mem, lvl2, own2, roots, kernel) /\ Clear(r.mem, lvl2)
          /\ r.used = res \cup Busy(lvl2)
          /\ MorePages(lvl, own, lvl2, own2, res, frame)

LEMMA MappedKeepsTree ==
    ASSUME NEW m, NEW u, NEW lvl, NEW own, NEW roots, NEW kernel, NEW res, NEW s, NEW p \in Page, NEW frame,
           MayMap(m, u, lvl, own, roots, kernel, res, s, p, frame)
    PROVE  HasMapped(m, Mapped(m, u, s, p, frame), lvl, own, roots, kernel, res, s, p, frame)
<1>1. /\ Tree(m, lvl, own, roots, kernel) /\ Clear(m, lvl)
      /\ res \in SUBSET Frames /\ frame \in Frames /\ lvl[frame] = 0
      /\ u = res \cup Busy(lvl) \cup {frame} /\ Spare(u, 3)
      /\ s \in roots /\ PaddrIn(m, s, p) = NULL
      /\ p[1] \notin UserSlots /\ Leads(m, s, p[1], NULL) => roots = {s}
    BY DEF MayMap
<1>2. PICK i1, i2, i3, i4 \in Index : p[1] = i1 /\ p[2] = i2 /\ p[3] = i3 /\ p[4] = i4
    BY PageIndices
<1> DEFINE w == [mem |-> m, used |-> u, table |-> s]
           w1 == Descend(w, i1)
           w2 == Descend(w1, i2)
           w3 == Descend(w2, i3)
<1>3. /\ NULL \notin Frames
      /\ m \in Memories /\ s \in Frames /\ lvl[s] = 1
    BY MemoryAssumption DEF Tree, Typed, Rooted, MayMap
<1>4. Walk(w, lvl, own, roots, kernel, res, frame)
    <2>1. u \in SUBSET Frames /\ IsTable(lvl, s)
        BY <1>1, <1>3 DEF Busy, IsTable
    <2> QED
        BY <1>1, <1>3, <2>1 DEF Walk
<1>5. w.mem = m /\ w.used = u /\ w.table = s
    OBVIOUS
<1> HIDE DEF w
<1>6. AtLevel(1, 3, w, lvl, own, roots, kernel, res, frame)
    BY <1>1, <1>3, <1>4, <1>5 DEF AtLevel
<1>7. /\ Leads(w1.mem, s, i1, w1.table) /\ Grown(m, w1.mem)
      /\ \E lvl1, own1 : /\ AtLevel(2, 2, w1, lvl1, own1, roots, kernel, res, frame)
                         /\ MoreTables(lvl, own, lvl1, own1, res)
    <2>1. AtLevel(1, 2 + 1, w, lvl, own, roots, kernel, res, frame) /\ 1 \in 1..3 /\ 2 \in Nat
        BY <1>6
    <2>2. i1 \notin UserSlots /\ Leads(w.mem, w.table, i1, NULL) => roots = {w.table}
        BY <1>1, <1>2, <1>5 DEF Leads
    <2>3. /\ Leads(w1.mem, w.table, i1, w1.table) /\ Grown(w.mem, w1.mem)
          /\ \E lvl1, own1 : /\ AtLevel(1 + 1, 2, w1, lvl1, own1, roots, kernel, res, frame)
                             /\ MoreTables(lvl, own, lvl1, own1, res)
        BY <1>3, <2>1, <2>2, DescendKeepsWalk
    <2> QED
        BY <1>5, <2>3
<1>8. PICK lvl1, own1 : /\ AtLevel(2, 2, w1, lvl1, own1, roots, kernel, res, frame)
                        /\ MoreTables(lvl, own, lvl1, own1, res)
    BY <1>7
<1> HIDE DEF w1
<1>9. /\ Leads(w2.mem, w1.table, i2, w2.table) /\ Grown(w1.mem, w2.mem)
      /\ \E lvl2, own2 : /\ AtLevel(3, 1, w2, lvl2, own2, roots, kernel, res, frame)
                         /\ MoreTables(lvl1, own1, lvl2, own2, res)
    <2>1. /\ AtLevel(2, 1 + 1, w1, lvl1, own1, roots, kernel, res, frame) /\ 2 \in 1..3 /\ 1 \in Nat
          /\ 2 = 1 /\ i2 \notin UserSlots /\ Leads(w1.mem, w1.table, i2, NULL) => roots = {w1.table}
        BY <1>8
    <2>2. /\ Leads(w2.mem, w1.table, i2, w2.table) /\ Grown(w1.mem, w2.mem)
          /\ \E lvl2, own2 : /\ AtLevel(2 + 1, 1, w2, lvl2, own2, roots, kernel, res, frame)
                             /\ MoreTables(lvl1, own1, lvl2, own2, res)
        BY <1>3, <2>1, DescendKeepsWalk
    <2> QED
        BY <2>2
<1>10. PICK lvl2, own2 : /\ AtLevel(3, 1, w2, lvl2, own2, roots, kernel, res, frame)
                        /\ MoreTables(lvl1, own1, lvl2, own2, res)
    BY <1>9
<1> HIDE DEF w2
<1>11. /\ Leads(w3.mem, w2.table, i3, w3.table) /\ Grown(w2.mem, w3.mem)
      /\ \E lvl3, own3 : /\ AtLevel(4, 0, w3, lvl3, own3, roots, kernel, res, frame)
                         /\ MoreTables(lvl2, own2, lvl3, own3, res)
    <2>1. /\ AtLevel(3, 0 + 1, w2, lvl2, own2, roots, kernel, res, frame) /\ 3 \in 1..3 /\ 0 \in Nat
          /\ 3 = 1 /\ i3 \notin UserSlots /\ Leads(w2.mem, w2.table, i3, NULL) => roots = {w2.table}
        BY <1>10
    <2>2. /\ Leads(w3.mem, w2.table, i3, w3.table) /\ Grown(w2.mem, w3.mem)
          /\ \E lvl3, own3 : /\ AtLevel(3 + 1, 0, w3, lvl3, own3, roots, kernel, res, frame)
                             /\ MoreTables(lvl2, own2, lvl3, own3, res)
        BY <1>3, <2>1, DescendKeepsWalk
    <2> QED
        BY <2>2
<1>12. PICK lvl3, own3 : /\ AtLevel(4, 0, w3, lvl3, own3, roots, kernel, res, frame)
                         /\ MoreTables(lvl2, own2, lvl3, own3, res)
    BY <1>11
<1> HIDE DEF w3
<1> DEFINE m3 == w3.mem
           t3 == w3.table
<1> HIDE DEF m3, t3
<1>13. /\ w1.table \in Frames /\ w2.table \in Frames /\ t3 \in Frames
       /\ Tree(m3, lvl3, own3, roots, kernel) /\ Clear(m3, lvl3) /\ IsTable(lvl3, t3)
       /\ w3.used = res \cup Busy(lvl3) \cup {frame} /\ lvl3[frame] = 0
       /\ m3 \in Memories /\ lvl3[t3] = 4
    BY <1>8, <1>10, <1>12 DEF Walk, AtLevel, m3, t3
<1>14. MoreTables(lvl, own, lvl3, own3, res) /\ Grown(m, m3) /\ Grown(w1.mem, m3)
    BY <1>3, <1>7, <1>8, <1>9, <1>10, <1>11, <1>12, GrownTwice, MoreTablesTwice DEF m3
<1>15. /\ m3[s][i1] = w1.table /\ m3[w1.table][i2] = w2.table
       /\ m3[w2.table][i3] = t3
    BY <1>3, <1>7, <1>9, <1>11, <1>13, <1>14 DEF Grown, Leads, m3, t3
<1>16. m3[t3][i4] = NULL
    BY <1>1, <1>2, <1>13, <1>14, <1>15, LastEntryFree
<1> DEFINE n == WithEntry(m3, t3, i4, frame)
           lvl4 == [lvl3 EXCEPT ![frame] = lvl3[t3] + 1]
           own4 == [own3 EXCEPT ![frame] = OwnerVia(lvl3, own3, kernel, t3, i4)]
<1>17. /\ Mapped(m, u, s, p, frame).mem = n
       /\ Mapped(m, u, s, p, frame).used = w3.used
    BY <1>2, <1>16 DEF Mapped, WithEntry, w, w1, w2, w3, m3, t3
<1>18. lvl3 \in Levels /\ own3 \in Owners
    BY <1>13 DEF Tree, Typed
<1>19. m3[frame] = EmptyTable
    BY <1>1, <1>13 DEF Clear, IsTable
<1>20. Tree(n, lvl4, own4, roots, kernel)
    BY <1>1, <1>3, <1>13, <1>16, <1>19, TreeWithEntry
<1>21. Clear(n, lvl4)
    BY <1>1, <1>3, <1>13, <1>18, ClearWithEntry
<1>22. /\ n \in Memories /\ n[t3][i4] = frame
       /\ \A v \in Frames, j \in Index : v # t3 \/ j # i4 => n[v][j] = m3[v][j]
    BY <1>1, <1>3, <1>13, EntryFacts
<1> HIDE DEF n
<1>23. Grown(m3, n)
    BY <1>16, <1>22 DEF Grown
<1>24. Grown(m, n)
    BY <1>3, <1>14, <1>23, GrownTwice
<1>25. Chain(n, s, p, w1.table, w2.table, t3, frame)
    BY <1>2, <1>3, <1>13, <1>15, <1>22, <1>23 DEF Chain, Grown
<1>26. PaddrIn(n, s, p) = frame
    BY <1>3, <1>13, <1>25, ChainIsPath
<1>27. \A f \in Frames : /\ lvl4[f] = IF f = frame THEN 5 ELSE lvl3[f]
                         /\ f # frame => own4[f] = own3[f]
    BY <1>13, <1>18 DEF Levels, Owners
<1> HIDE DEF lvl4, own4
<1>28. res \cup Busy(lvl3) \cup {frame} = res \cup Busy(lvl4)
    BY <1>1, <1>27 DEF Busy
<1>29. MorePages(lvl, own, lvl4, own4, res, frame)
    BY <1>1, <1>14, <1>27 DEF MoreTables, MorePages
<1> QED
    BY <1>13, <1>17, <1>20, <1>21, <1>24, <1>26, <1>28, <1>29 DEF HasMapped

\* No page but p of the space gets a frame, or, in the kernel half, p of all.
OnlyPage(m, n, roots, space, p) ==
    \A s \in roots, q \in Page : PaddrIn(n, s, q) # NULL =>
        PaddrIn(m, s, q) = PaddrIn(n, s, q) \/ (q = p /\ (s = space \/ p[1] \notin UserSlots))

LEMMA MappedAddsOnePage ==
    ASSUME NEW m, NEW lvl, NEW own, NEW n, NEW lvl2, NEW own2, NEW roots, NEW kernel, NEW res, NEW frame,
           Tree(m, lvl, own, roots, kernel), Tree(n, lvl2, own2, roots, kernel), Grown(m, n),
           MorePages(lvl, own, lvl2, own2, res, frame),
           NEW space \in roots, NEW p \in Page, PaddrIn(n, space, p) = frame
    PROVE  OnlyPage(m, n, roots, space, p)
<1> SUFFICES ASSUME NEW s \in roots, NEW q \in Page, PaddrIn(n, s, q) # NULL
             PROVE  PaddrIn(m, s, q) = PaddrIn(n, s, q) \/ (q = p /\ (s = space \/ p[1] \notin UserSlots))
    BY DEF OnlyPage
<1>1. PaddrIn(n, s, q) \in Frames /\ lvl2[PaddrIn(n, s, q)] = 5
    BY PathLevels
<1>2. CASE PaddrIn(n, s, q) = frame
    BY <1>2, PathUnique
<1>3. CASE PaddrIn(n, s, q) # frame
    <2>1. lvl[PaddrIn(n, s, q)] = 5
        BY <1>1, <1>3 DEF MorePages
    <2> QED
        BY <2>1, NoNewPath
<1> QED
    BY <1>2, <1>3
-----------------------------------------------------------------------------
(* vmm_init(), vmm_create() and vmm_destroy() *)

\* The first PML4, in memory without tables.
LEMMA FirstRoot ==
    ASSUME NEW r \in Frames,
           NEW m, m = [f \in Frames |-> EmptyTable],
           NEW lvl, lvl = [f \in Frames |-> IF f = r THEN 1 ELSE 0],
           NEW own, own = [f \in Frames |-> r]
    PROVE  Tree(m, lvl, own, {r}, r) /\ Clear(m, lvl)
<1>1. \A f \in Frames, i \in Index : m[f][i] = NULL
    BY DEF EmptyTable
<1>2. Typed(m, lvl, own)
    BY DEF Typed, Memories, Levels, Owners, EmptyTable
<1>3. Rooted(lvl, own, {r}, r)
    BY DEF Rooted
<1>4. EntriesDescend(m, lvl, own, r) /\ OneEntry(m, lvl) /\ KernelShared(m, {r}, r)
    BY <1>1 DEF EntriesDescend, OneEntry, KernelShared
<1>5. Reached(m, lvl)
    BY DEF Reached
<1> QED
    BY <1>2, <1>3, <1>4, <1>5 DEF Tree, Clear

\* A further PML4 shares the kernel half and has an empty user half.
LEMMA OneMoreRoot ==
    ASSUME NEW m, NEW lvl, NEW own, NEW roots, NEW kernel,
           Tree(m, lvl, own, roots, kernel), Clear(m, lvl), kernel \in roots,
           NEW r \in Frames, lvl[r] = 0,
           NEW row, row = [i \in Index |-> IF i \in UserSlots THEN NULL ELSE m[kernel][i]]
    PROVE  /\ Tree([m EXCEPT ![r] = row], [lvl EXCEPT ![r] = 1], [own EXCEPT ![r] = r], roots \cup {r}, kernel)
           /\ Clear([m EXCEPT ![r] = row], [lvl EXCEPT ![r] = 1])
<1> DEFINE n == [m EXCEPT ![r] = row]
           lvl2 == [lvl EXCEPT ![r] = 1]
           own2 == [own EXCEPT ![r] = r]
<1>1. /\ m \in Memories /\ lvl \in Levels /\ own \in Owners
      /\ Rooted(lvl, own, roots, kernel) /\ EntriesDescend(m, lvl, own, kernel)
      /\ Reached(m, lvl) /\ OneEntry(m, lvl) /\ KernelShared(m, roots, kernel)
    BY DEF Tree, Typed
<1>2. NULL \notin Frames /\ \A j \in Index : m[r][j] = NULL
    BY MemoryAssumption DEF EmptyTable, Clear, IsTable
<1>3. kernel \in Frames /\ lvl[kernel] = 1 /\ kernel # r /\ r \notin roots /\ roots \subseteq Frames
    BY <1>1 DEF Rooted
<1>4. row \in [Index -> Frames \cup {NULL}]
    BY <1>1, <1>3 DEF Memories
<1>5. \A i \in Index : row[i] = IF i \in UserSlots THEN NULL ELSE m[kernel][i]
    OBVIOUS
<1>6. n \in Memories /\ n[r] = row /\ \A f \in Frames : f # r => n[f] = m[f]
    BY <1>1, <1>4 DEF Memories
<1>7. lvl2 \in Levels /\ lvl2[r] = 1 /\ \A f \in Frames : f # r => lvl2[f] = lvl[f]
    BY <1>1 DEF Levels
<1>8. own2 \in Owners /\ own2[r] = r /\ \A f \in Frames : f # r => own2[f] = own[f]
    BY <1>1 DEF Owners
<1> HIDE DEF n, lvl2, own2
\* An entry of the new PML4 is one of the kernel's.
<1>9. \A t \in Frames, i \in Index : IsTable(lvl2, t) /\ n[t][i] # NULL =>
          /\ n[t][i] \in Frames /\ n[t][i] # r
          /\ \/ t # r /\ IsTable(lvl, t) /\ n[t][i] = m[t][i]
             \/ t = r /\ i \notin UserSlots /\ n[t][i] = m[kernel][i]
    <2> SUFFICES ASSUME NEW t \in Frames, NEW i \in Index, IsTable(lvl2, t), n[t][i] # NULL
                 PROVE  /\ n[t][i] \in Frames /\ n[t][i] # r
                        /\ \/ t # r /\ IsTable(lvl, t) /\ n[t][i] = m[t][i]
                           \/ t = r /\ i \notin UserSlots /\ n[t][i] = m[kernel][i]
        OBVIOUS
    <2>1. \/ t # r /\ IsTable(lvl, t) /\ n[t][i] = m[t][i]
          \/ t = r /\ i \notin UserSlots /\ n[t][i] = m[kernel][i]
        BY <1>5, <1>6, <1>7 DEF IsTable
    <2>2. n[t][i] \in Frames
        BY <1>6 DEF Memories
    <2>3. PICK u \in Frames : IsTable(lvl, u) /\ n[t][i] = m[u][i]
        BY <1>3, <2>1 DEF IsTable
    <2>4. lvl[m[u][i]] # 0
        BY <1>1, <2>3 DEF EntriesDescend, IsTable
    <2> QED
        BY <2>1, <2>2, <2>3, <2>4
<1>10. Rooted(lvl2, own2, roots \cup {r}, kernel)
    BY <1>1, <1>7, <1>8 DEF Rooted
<1>11. EntriesDescend(n, lvl2, own2, kernel)
    <2> SUFFICES ASSUME NEW t \in Frames, NEW i \in Index, IsTable(lvl2, t), n[t][i] # NULL
                 PROVE  /\ lvl2[n[t][i]] = lvl2[t] + 1
                        /\ own2[n[t][i]] = OwnerVia(lvl2, own2, kernel, t, i)
        BY DEF EntriesDescend
    <2>1. n[t][i] \in Frames /\ n[t][i] # r
        BY <1>9
    <2>2. CASE t # r /\ IsTable(lvl, t) /\ n[t][i] = m[t][i]
        <3>1. lvl[m[t][i]] = lvl[t] + 1 /\ own[m[t][i]] = OwnerVia(lvl, own, kernel, t, i)
            BY <1>1, <2>2 DEF EntriesDescend
        <3> QED
            BY <1>7, <1>8, <2>1, <2>2, <3>1 DEF OwnerVia
    <2>3. CASE t = r /\ i \notin UserSlots /\ n[t][i] = m[kernel][i]
        <3>1. lvl[m[kernel][i]] = 2 /\ own[m[kernel][i]] = kernel
            BY <1>1, <1>3, <2>3 DEF EntriesDescend, OwnerVia, IsTable
        <3> QED
            BY <1>7, <1>8, <2>1, <2>3, <3>1 DEF OwnerVia
    <2> QED
        BY <1>9, <2>2, <2>3
<1>12. Reached(n, lvl2)
    <2> SUFFICES ASSUME NEW f \in Frames, lvl2[f] \in 2..5
                 PROVE  \E t \in Frames, i \in Index : lvl2[t] = lvl2[f] - 1 /\ n[t][i] = f
        BY DEF Reached
    <2>1. f # r /\ lvl[f] \in 2..5
        BY <1>7
    <2>2. PICK t \in Frames, i \in Index : lvl[t] = lvl[f] - 1 /\ m[t][i] = f
        BY <1>1, <2>1 DEF Reached
    <2>3. t # r
        BY <1>2, <2>2
    <2> QED
        BY <1>6, <1>7, <2>1, <2>2, <2>3
<1>13. OneEntry(n, lvl2)
    <2> SUFFICES ASSUME NEW t \in Frames, NEW u \in Frames, NEW i \in Index, NEW j \in Index,
                        IsTable(lvl2, t), IsTable(lvl2, u), n[t][i] # NULL, n[t][i] = n[u][j]
                 PROVE  i = j /\ (t = u \/ (lvl2[t] = 1 /\ lvl2[u] = 1 /\ i \notin UserSlots))
        BY DEF OneEntry
    <2>1. PICK v \in Frames : /\ IsTable(lvl, v) /\ n[t][i] = m[v][i]
                              /\ t = v \/ (t = r /\ v = kernel /\ i \notin UserSlots)
        BY <1>3, <1>9 DEF IsTable
    <2>2. PICK w \in Frames : /\ IsTable(lvl, w) /\ n[u][j] = m[w][j]
                              /\ u = w \/ (u = r /\ w = kernel /\ j \notin UserSlots)
        BY <1>3, <1>9 DEF IsTable
    <2>3. m[v][i] # NULL /\ m[v][i] = m[w][j]
        BY <2>1, <2>2
    <2>4. i = j /\ (v = w \/ (lvl[v] = 1 /\ lvl[w] = 1 /\ i \notin UserSlots))
        BY <1>1, <2>1, <2>2, <2>3 DEF OneEntry
    <2>5. v # r /\ w # r
        BY <2>1, <2>2 DEF IsTable
    <2> QED
        BY <1>3, <1>7, <2>1, <2>2, <2>4, <2>5
<1>14. KernelShared(n, roots \cup {r}, kernel)
    <2>1. \A t \in roots, i \in Index \ UserSlots : n[t][i] = n[kernel][i]
        BY <1>1, <1>3, <1>6 DEF KernelShared
    <2>2. \A i \in Index \ UserSlots : n[r][i] = n[kernel][i]
        BY <1>3, <1>5, <1>6
    <2> QED
        BY <2>1, <2>2 DEF KernelShared
<1>15. Clear(n, lvl2)
    BY <1>6, <1>7 DEF Clear, IsTable
<1> QED
    BY <1>6, <1>7, <1>8, <1>10, <1>11, <1>12, <1>13, <1>14, <1>15 DEF Tree, Typed, n, lvl2, own2

\* Without the frames that belong to one space but the kernel's.
LEMMA OneRootLess ==
    ASSUME NEW m, NEW lvl, NEW own, NEW roots, NEW kernel, Tree(m, lvl, own, roots, kernel),
           NEW s \in roots, s # kernel,
           NEW lvl2, lvl2 = [f \in Frames |-> IF lvl[f] # 0 /\ own[f] = s THEN 0 ELSE lvl[f]]
    PROVE  Tree(m, lvl2, own, roots \ {s}, kernel)
<1>1. /\ m \in Memories /\ lvl \in Levels /\ own \in Owners
      /\ Rooted(lvl, own, roots, kernel) /\ EntriesDescend(m, lvl, own, kernel)
      /\ Reached(m, lvl) /\ OneEntry(m, lvl) /\ KernelShared(m, roots, kernel)
    BY DEF Tree, Typed
<1>2. kernel \in roots /\ roots \subseteq Frames /\ NULL \notin Frames
    BY <1>1, MemoryAssumption DEF Rooted
<1>3. \A f \in Frames : lvl2[f] = IF lvl[f] # 0 /\ own[f] = s THEN 0 ELSE lvl[f]
    OBVIOUS
<1>4. lvl2 \in Levels
    BY <1>1 DEF Levels
<1>5. \A f \in Frames : lvl2[f] # 0 => lvl2[f] = lvl[f] /\ own[f] # s
    BY <1>1, <1>3
<1>6. Rooted(lvl2, own, roots \ {s}, kernel)
    BY <1>1, <1>2, <1>3 DEF Rooted
<1>7. \A t \in Frames, i \in Index : IsTable(lvl2, t) => OwnerVia(lvl2, own, kernel, t, i) = OwnerVia(lvl, own, kernel, t, i)
                                                      /\ OwnerVia(lvl, own, kernel, t, i) # s
    BY <1>1, <1>5 DEF IsTable, OwnerVia, Rooted
<1>8. EntriesDescend(m, lvl2, own, kernel)
    <2> SUFFICES ASSUME NEW t \in Frames, NEW i \in Index, IsTable(lvl2, t), m[t][i] # NULL
                 PROVE  /\ lvl2[m[t][i]] = lvl2[t] + 1
                        /\ own[m[t][i]] = OwnerVia(lvl2, own, kernel, t, i)
        BY DEF EntriesDescend
    <2>1. lvl2[t] = lvl[t] /\ IsTable(lvl, t) /\ m[t][i] \in Frames
        BY <1>1, <1>5 DEF IsTable, Memories
    <2>2. lvl[m[t][i]] = lvl[t] + 1 /\ own[m[t][i]] = OwnerVia(lvl, own, kernel, t, i)
        BY <1>1, <2>1 DEF EntriesDescend
    <2> QED
        BY <1>3, <1>7, <2>1, <2>2
<1>9. Reached(m, lvl2)
    <2> SUFFICES ASSUME NEW f \in Frames, lvl2[f] \in 2..5
                 PROVE  \E t \in Frames, i \in Index : lvl2[t] = lvl2[f] - 1 /\ m[t][i] = f
        BY DEF Reached
    <2>1. lvl2[f] = lvl[f] /\ own[f] # s
        BY <1>5
    <2>2. PICK t \in Frames, i \in Index : lvl[t] = lvl[f] - 1 /\ m[t][i] = f
        BY <1>1, <2>1 DEF Reached
    <2>3. IsTable(lvl, t)
        BY <2>1, <2>2 DEF IsTable
    <2>4. own[f] = OwnerVia(lvl, own, kernel, t, i)
        BY <1>1, <1>2, <2>2, <2>3 DEF EntriesDescend
    <2>5. CASE own[t] # s
        BY <1>3, <2>1, <2>2, <2>5
    <2>6. CASE own[t] = s
        <3>1. lvl[t] = 1 /\ t \in roots
            BY <1>1, <2>1, <2>4, <2>6 DEF OwnerVia, Rooted
        <3>2. i \notin UserSlots
            BY <1>1, <2>1, <2>4, <2>6, <3>1 DEF OwnerVia, Rooted
        <3>3. m[kernel][i] = f
            BY <1>1, <2>2, <3>1, <3>2 DEF KernelShared
        <3>4. lvl[kernel] = 1 /\ own[kernel] # s
            BY <1>1, <1>2 DEF Rooted
        <3> QED
            BY <1>2, <1>3, <2>1, <2>2, <3>1, <3>3, <3>4
    <2> QED
        BY <2>5, <2>6
<1>10. OneEntry(m, lvl2)
    BY <1>1, <1>5 DEF OneEntry, IsTable
<1>11. KernelShared(m, roots \ {s}, kernel)
    BY <1>1 DEF KernelShared
<1> QED
    BY <1>1, <1>4, <1>6, <1>8, <1>9, <1>10, <1>11 DEF Tree, Typed

\* What hangs from all tables of a level is the level below.
LEMMA LevelBelow ==
    ASSUME NEW lvl, NEW own, NEW roots, NEW kernel, Tree(mem, lvl, own, roots, kernel),
           NEW l \in 1..4
    PROVE  Below({f \in Frames : lvl[f] = l}) = {f \in Frames : lvl[f] = l + 1}
<1>1. mem \in Memories /\ EntriesDescend(mem, lvl, own, kernel) /\ Reached(mem, lvl) /\ NULL \notin Frames /\ lvl \in Levels
    BY MemoryAssumption DEF Tree, Typed
<1> DEFINE T == {f \in Frames : lvl[f] = l}
<1>2. ASSUME NEW f \in Below(T)
      PROVE  f \in Frames /\ lvl[f] = l + 1
    <2>1. PICK t \in T : f \in Present(t, Index)
        BY DEF Below
    <2>2. PICK i \in Index : f = mem[t][i] /\ mem[t][i] # NULL
        BY <2>1 DEF Present
    <2>3. f \in Frames
        BY <1>1, <2>1, <2>2 DEF Memories
    <2> QED
        BY <1>1, <2>1, <2>2, <2>3 DEF EntriesDescend, IsTable
<1>3. ASSUME NEW f \in Frames, lvl[f] = l + 1
      PROVE  f \in Below(T)
    <2>1. lvl[f] \in 2..5 /\ lvl[f] - 1 = l
        BY <1>3
    <2>2. PICK t \in Frames, i \in Index : lvl[t] = lvl[f] - 1 /\ mem[t][i] = f
        BY <1>1, <2>1 DEF Reached
    <2>3. f \in Present(t, Index)
        BY <1>1, <2>2 DEF Present
    <2>4. t \in T
        BY <2>1, <2>2
    <2> QED
        BY <2>3, <2>4 DEF Below
<1> QED
    BY <1>2, <1>3

LEMMA LevelsAreSets ==
    ASSUME NEW lvl, NEW own, NEW kernel, Tree(mem, lvl, own, Live, kernel)
    PROVE  /\ Live = {f \in Frames : lvl[f] = 1}
           /\ Pdpts = {f \in Frames : lvl[f] = 2}
           /\ Pds = {f \in Frames : lvl[f] = 3}
           /\ Pts = {f \in Frames : lvl[f] = 4}
           /\ Leaves = {f \in Frames : lvl[f] = 5}
<1>1. Live = {f \in Frames : lvl[f] = 1}
    BY DEF Tree, Rooted
<1>2. Pdpts = {f \in Frames : lvl[f] = 2}
    BY <1>1, LevelBelow, 1 \in 1..4, 1 + 1 = 2 DEF Pdpts
<1>3. Pds = {f \in Frames : lvl[f] = 3}
    BY <1>2, LevelBelow, 2 \in 1..4, 2 + 1 = 3 DEF Pds
<1>4. Pts = {f \in Frames : lvl[f] = 4}
    BY <1>3, LevelBelow, 3 \in 1..4, 3 + 1 = 4 DEF Pts
<1>5. Leaves = {f \in Frames : lvl[f] = 5}
    BY <1>4, LevelBelow, 4 \in 1..4, 4 + 1 = 5 DEF Leaves
<1> QED
    BY <1>1, <1>2, <1>3, <1>4, <1>5

\* One level of the loops of vmm_destroy().
OwnedAt(lvl, own, s, l) == {f \in Frames : lvl[f] = l /\ own[f] = s}

LEMMA OwnedBelow ==
    ASSUME NEW lvl, NEW own, NEW roots, NEW kernel, Tree(mem, lvl, own, roots, kernel),
           NEW s \in roots, s # kernel, NEW l \in 2..4
    PROVE  UNION {Present(t, Index) : t \in OwnedAt(lvl, own, s, l)} = OwnedAt(lvl, own, s, l + 1)
<1>1. /\ mem \in Memories /\ EntriesDescend(mem, lvl, own, kernel) /\ Reached(mem, lvl) /\ NULL \notin Frames
      /\ lvl \in Levels
    BY MemoryAssumption DEF Tree, Typed
<1> DEFINE T == OwnedAt(lvl, own, s, l)
<1>2. ASSUME NEW f \in UNION {Present(t, Index) : t \in T}
      PROVE  f \in OwnedAt(lvl, own, s, l + 1)
    <2>1. PICK t \in T : f \in Present(t, Index)
        OBVIOUS
    <2>2. PICK i \in Index : f = mem[t][i] /\ mem[t][i] # NULL
        BY <2>1 DEF Present
    <2>3. t \in Frames /\ lvl[t] = l /\ own[t] = s
        BY DEF OwnedAt
    <2>4. f \in Frames
        BY <1>1, <2>2, <2>3 DEF Memories
    <2> QED
        BY <1>1, <2>2, <2>3, <2>4 DEF EntriesDescend, IsTable, OwnerVia, OwnedAt
<1>3. ASSUME NEW f \in OwnedAt(lvl, own, s, l + 1)
      PROVE  f \in UNION {Present(t, Index) : t \in T}
    <2>1. f \in Frames /\ lvl[f] = l + 1 /\ own[f] = s
        BY DEF OwnedAt
    <2>2. lvl[f] \in 2..5 /\ lvl[f] - 1 = l
        BY <2>1
    <2>3. PICK t \in Frames, i \in Index : lvl[t] = lvl[f] - 1 /\ mem[t][i] = f
        BY <1>1, <2>2, <2>1 DEF Reached
    <2>4. own[t] = s
        BY <1>1, <2>1, <2>2, <2>3 DEF EntriesDescend, IsTable, OwnerVia
    <2>5. t \in T /\ f \in Present(t, Index)
        BY <1>1, <2>1, <2>2, <2>3, <2>4 DEF OwnedAt, Present
    <2> QED
        BY <2>5
<1> QED
    BY <1>2, <1>3

\* vmm_destroy() frees what belongs to the space.
LEMMA OwnedIsOwned ==
    ASSUME NEW lvl, NEW own, NEW roots, NEW kernel, Tree(mem, lvl, own, roots, kernel),
           NEW s \in roots, s # kernel
    PROVE  Owned(s) = {f \in Frames : lvl[f] # 0 /\ own[f] = s}
<1>1. /\ mem \in Memories /\ Rooted(lvl, own, roots, kernel) /\ EntriesDescend(mem, lvl, own, kernel)
      /\ Reached(mem, lvl) /\ NULL \notin Frames /\ lvl \in Levels
    BY MemoryAssumption DEF Tree, Typed
<1>2. s \in Frames /\ lvl[s] = 1 /\ own[s] = s
    BY <1>1 DEF Rooted
<1>3. Present(s, UserSlots) = OwnedAt(lvl, own, s, 2)
    <2>1. UserSlots \subseteq Index
        BY MemoryAssumption
    <2>2. ASSUME NEW f \in Present(s, UserSlots)
          PROVE  f \in OwnedAt(lvl, own, s, 2)
        <3>1. PICK i \in UserSlots : f = mem[s][i] /\ mem[s][i] # NULL
            BY DEF Present
        <3>2. f \in Frames
            BY <1>1, <1>2, <2>1, <3>1 DEF Memories
        <3> QED
            BY <1>1, <1>2, <2>1, <3>1, <3>2 DEF EntriesDescend, IsTable, OwnerVia, OwnedAt
    <2>3. ASSUME NEW f \in OwnedAt(lvl, own, s, 2)
          PROVE  f \in Present(s, UserSlots)
        <3>1. f \in Frames /\ lvl[f] = 2 /\ own[f] = s
            BY DEF OwnedAt
        <3>2. PICK t \in Frames, i \in Index : lvl[t] = lvl[f] - 1 /\ mem[t][i] = f
            BY <1>1, <3>1 DEF Reached
        <3>3. lvl[t] = 1
            BY <3>1, <3>2
        <3>4. i \in UserSlots /\ t = s
            BY <1>1, <3>1, <3>2, <3>3 DEF EntriesDescend, IsTable, OwnerVia
        <3> QED
            BY <1>1, <3>1, <3>2, <3>4 DEF Present
    <2> QED
        BY <2>2, <2>3
<1> DEFINE O(l) == OwnedAt(lvl, own, s, l)
<1>4. UNION {Present(t, Index) : t \in O(2)} = O(3)
    BY OwnedBelow, 2 \in 2..4, 2 + 1 = 3
<1>5. UNION {Present(t, Index) : t \in O(3)} = O(4)
    BY OwnedBelow, 3 \in 2..4, 3 + 1 = 4
<1>6. UNION {Present(t, Index) : t \in O(4)} = O(5)
    BY OwnedBelow, 4 \in 2..4, 4 + 1 = 5
<1>7. Owned(s) = {s} \cup O(2) \cup O(3) \cup O(4) \cup O(5)
    BY <1>3, <1>4, <1>5, <1>6 DEF Owned
<1>8. O(1) = {s}
    BY <1>1, <1>2 DEF OwnedAt, Rooted
<1>9. {f \in Frames : lvl[f] # 0 /\ own[f] = s} = O(1) \cup O(2) \cup O(3) \cup O(4) \cup O(5)
    <2>1. \A f \in Frames : lvl[f] \in 0..5
        BY <1>1 DEF Levels
    <2> QED
        BY <2>1 DEF OwnedAt
<1> QED
    BY <1>7, <1>8, <1>9
-----------------------------------------------------------------------------
(* The bitmap *)

Ends(k) ==
    {0} \cup {regions[j].offset + regions[j].size :
                 j \in {i \in 1..k : regions[i].type \in {"MEM_USABLE", "MEM_KERNEL"}}}

\* The map that the boot loader handed over, of whole frames of the machine.
RegionsAreFrames ==
    /\ Len(regions) \in Nat /\ DOMAIN regions = 1..Len(regions)
    /\ \A k \in DOMAIN regions :
          /\ regions[k].offset \in Nat /\ regions[k].size \in Nat
          /\ FramesOf(regions[k]) \subseteq Frames
    /\ ImageFrame \notin UsableFrames

LEMMA EndsHaveGreatest ==
    ASSUME RegionsAreFrames, NEW k \in 0..Len(regions)
    PROVE  \E x \in Ends(k) : \A y \in Ends(k) : x >= y
<1> DEFINE Good(j) == \E x \in Ends(j) : \A y \in Ends(j) : x >= y
           Bad == {j \in 0..k : ~Good(j)}
<1>0. Len(regions) \in Nat /\ k \in Nat
    BY DEF RegionsAreFrames
<1> SUFFICES ASSUME Bad # {}
             PROVE  FALSE
    BY <1>0
<1>1. PICK j \in Bad : \A i \in Bad : j <= i
    BY <1>0, LeastNumber
<1>2. j \in 0..k /\ ~Good(j)
    BY <1>1
<1>3. j # 0
    <2>1. Ends(0) = {0}
        BY <1>0 DEF Ends
    <2> QED
        BY <1>2, <2>1
<1>4. j - 1 \in 0..k /\ j - 1 \notin Bad
    BY <1>0, <1>1, <1>2, <1>3
<1>5. PICK x \in Ends(j - 1) : \A y \in Ends(j - 1) : x >= y
    BY <1>4
<1> DEFINE z == regions[j].offset + regions[j].size
<1>6. z \in Nat
    BY <1>0, <1>2, <1>3 DEF RegionsAreFrames
<1>7. Ends(j) = Ends(j - 1) \/ Ends(j) = Ends(j - 1) \cup {z}
    <2>1. 1..j = 1..(j - 1) \cup {j}
        BY <1>0, <1>2, <1>3
    <2> QED
        BY <2>1 DEF Ends
<1>8. \A y \in Ends(j - 1) : y \in Nat
    <2>1. \A i \in 1..(j - 1) : i \in DOMAIN regions
        BY <1>0, <1>2, <1>3 DEF RegionsAreFrames
    <2>2. \A i \in DOMAIN regions : regions[i].offset + regions[i].size \in Nat
        BY DEF RegionsAreFrames
    <2> QED
        BY <2>1, <2>2 DEF Ends
<1> HIDE DEF z
<1>9. Good(j)
    <2>1. CASE Ends(j) = Ends(j - 1)
        BY <1>5, <2>1
    <2>2. CASE Ends(j) = Ends(j - 1) \cup {z} /\ z <= x
        BY <1>5, <1>6, <1>8, <2>2
    <2>3. CASE Ends(j) = Ends(j - 1) \cup {z} /\ ~(z <= x)
        <3>1. \A y \in Ends(j) : z >= y
            BY <1>5, <1>6, <1>8, <2>3
        <3> QED
            BY <2>3, <3>1
    <2> QED
        BY <1>7, <2>1, <2>2, <2>3
<1> QED
    BY <1>2, <1>9

LEMMA TotalFramesNat ==
    ASSUME RegionsAreFrames
    PROVE  TotalFrames \in Nat
<1>1. Len(regions) \in Nat /\ Len(regions) \in 0..Len(regions) /\ DOMAIN regions = 1..Len(regions)
    BY DEF RegionsAreFrames
<1>2. PICK x \in Ends(Len(regions)) : \A y \in Ends(Len(regions)) : x >= y
    BY <1>1, EndsHaveGreatest
<1>3. TotalFrames = Max(Ends(Len(regions)))
    BY <1>1 DEF TotalFrames, Ends
<1>4. Max(Ends(Len(regions))) \in Ends(Len(regions))
    BY <1>2 DEF Max
<1>5. \A y \in Ends(Len(regions)) : y \in Nat
    BY <1>1 DEF Ends, RegionsAreFrames
<1> QED
    BY <1>3, <1>4, <1>5

\* pmm_init() puts the bitmap into a region it fits.
LEMMA BitmapFits ==
    ASSUME RegionsAreFrames, NEW k \in DOMAIN regions, FitsBitmap(regions[k])
    PROVE  BitmapIn(regions[k]) \subseteq Frames
<1> DEFINE size == regions[k].size
           T == TotalFrames
           q == (T + BITS - 1) \div BITS
<1>1. /\ regions[k].offset \in Nat /\ size \in Nat /\ FramesOf(regions[k]) \subseteq Frames
      /\ T \in Nat /\ BITS \in Nat \ {0} /\ size * BITS > T
    BY TotalFramesNat, MemoryAssumption DEF RegionsAreFrames, FitsBitmap
<1> HIDE DEF size, T
<1>2. q \in Nat /\ q * BITS <= T + BITS - 1
    BY <1>1
<1> HIDE DEF q
<1>3. q <= size
    <2> SUFFICES ASSUME q >= size + 1
                 PROVE  FALSE
        BY <1>1, <1>2
    <2>1. q * BITS >= (size + 1) * BITS
        BY <1>1, <1>2
    <2>2. (size + 1) * BITS = size * BITS + BITS
        BY <1>1
    <2>3. size * BITS \in Nat /\ q * BITS \in Nat
        BY <1>1, <1>2
    <2> QED
        BY <1>1, <1>2, <2>1, <2>2, <2>3
<1>4. BitmapIn(regions[k]) \subseteq FramesOf(regions[k])
    BY <1>1, <1>2, <1>3 DEF BitmapIn, FramesOf, size, T, q
<1> QED
    BY <1>1, <1>4
-----------------------------------------------------------------------------
(* The invariant *)

Kernel == IF spaces = <<>> THEN NULL ELSE spaces[1]

\* The frames in use have a shape: what is allocated is what has a place in
\* it, and of what no one may be given only the image has one.
Shape(lvl, own) ==
    /\ Tree(mem, lvl, own, Live, Kernel)
    /\ phase # "run" => Clear(mem, lvl)
    /\ phase # "pmm_init" => used = Reserved \cup Busy(lvl)
    /\ spaces = <<>> => Busy(lvl) = {}
    /\ \A f \in Reserved : lvl[f] # 0 => f = ImageFrame
    /\ lvl[ImageFrame] \in {0, 5}

\* What kmain() has done by each phase.
Boot ==
    /\ phase \in {"pmm_init", "vmm_init", "drivers", "load", "run"}
    /\ RegionsAreFrames /\ bitmap \subseteq Frames
    /\ spaces \in Seq(Frames) /\ IsInjective(spaces)
    /\ spaces = <<>> <=> phase \in {"pmm_init", "vmm_init"}
    /\ phase = "drivers" => Len(spaces) = 1
    /\ destroyed \subseteq Range(spaces) /\ Kernel \notin destroyed
    /\ phase # "run" => destroyed = {} /\ cr3 = Kernel
    /\ cr3 \in Frames \cup {NULL}
    /\ heap \in Seq(Frames) /\ bump = Len(heap) /\ bump \in 0..Len(HeapPages)
    /\ phase \in {"pmm_init", "vmm_init", "drivers"} => bump = 0
    /\ phase = "load" => bump # 0
    /\ phase = "pmm_init" => used = {}
    /\ asked \subseteq [space : Live, page : UserPages, frame : Frames]

\* Nothing is mapped that nobody asked for.
NothingElseMapped ==
    \A s \in Live, p \in Page : PaddrIn(mem, s, p) # NULL =>
        \/ p = ImagePage \/ \E k \in 1..bump : p = HeapPages[k]
        \/ \E a \in asked : a.space = s /\ a.page = p

IInv ==
    /\ Boot /\ \E lvl, own : Shape(lvl, own)
    /\ UserPagesMapped /\ KernelSeenEverywhere /\ NothingElseMapped

LEMMA Pages ==
    /\ ImagePage \in Page /\ ImagePage[1] \notin UserSlots
    /\ Len(HeapPages) \in Nat
    /\ \A k \in 1..Len(HeapPages) : HeapPages[k] \in Page /\ HeapPages[k][1] \notin UserSlots /\ HeapPages[k] # ImagePage
                                    /\ HeapPages[k][1] = HeapPages[1][1]
    /\ \A j, k \in 1..Len(HeapPages) : HeapPages[j] = HeapPages[k] => j = k
    /\ \A p \in UserPages : p \in Page /\ p[1] \in UserSlots
<1>1. HeapPages \in Seq(Page) /\ IsInjective(HeapPages) /\ ImagePage \notin Range(HeapPages)
    BY MemoryAssumption DEF Page
<1>2. Len(HeapPages) \in Nat /\ DOMAIN HeapPages = 1..Len(HeapPages) /\ \A k \in 1..Len(HeapPages) : HeapPages[k] \in Page
    BY <1>1
<1>3. \A j, k \in 1..Len(HeapPages) : HeapPages[j] = HeapPages[k] => j = k
    BY <1>1, <1>2 DEF IsInjective
<1>4. \A k \in 1..Len(HeapPages) : HeapPages[k] # ImagePage
    BY <1>1, <1>2 DEF Range
<1>5. \A k \in 1..Len(HeapPages) : HeapPages[k][1] \notin UserSlots /\ HeapPages[k][1] = HeapPages[1][1]
    BY <1>2, MemoryAssumption
<1>6. ImagePage \in Page /\ ImagePage[1] \notin UserSlots /\ \A p \in UserPages : p \in Page /\ p[1] \in UserSlots
    BY MemoryAssumption DEF Page
<1> QED
    BY <1>2, <1>3, <1>4, <1>5, <1>6

LEMMA SpareFrames ==
    ASSUME NEW u \in SUBSET Frames, Cardinality(Frames \ u) > LEVELS + 1
    PROVE  Spare(u, 5)
<1>1. IsFiniteSet(Frames)
    BY MemoryAssumption
<1>2. Cardinality(Frames \ u) \in Nat
    BY <1>1, FS_Subset, FS_CardinalityType, Frames \ u \subseteq Frames
<1> QED
    BY <1>2 DEF Spare, LEVELS

\* kmalloc() and the loaders: the first free frame, and then its mapping.
LEMMA MapPage ==
    ASSUME Boot, phase \in {"drivers", "load"}, Room, NEW lvl, NEW own, Shape(lvl, own),
           NEW s \in Live, NEW p \in Page,
           p[1] \notin UserSlots /\ Leads(mem, s, p[1], NULL) => Live = {s},
           PaddrIn(mem, s, p) = NULL,
           NEW f, f = FirstFree(used),
           NEW n, n = Mapped(mem, Taken(used, f), s, p, f)
    PROVE  /\ f \in Frames /\ Grown(mem, n.mem) /\ PaddrIn(n.mem, s, p) = f
           /\ n.mem \in Memories
           /\ OnlyPage(mem, n.mem, Live, s, p)
           /\ \E lvl2, own2 :
                 /\ Tree(n.mem, lvl2, own2, Live, Kernel) /\ Clear(n.mem, lvl2)
                 /\ n.used = Reserved \cup Busy(lvl2)
                 /\ \A g \in Reserved : lvl2[g] # 0 => g = ImageFrame
                 /\ lvl2[ImageFrame] \in {0, 5}
<1>1. /\ Tree(mem, lvl, own, Live, Kernel) /\ Clear(mem, lvl) /\ used = Reserved \cup Busy(lvl)
      /\ \A g \in Reserved : lvl[g] # 0 => g = ImageFrame
      /\ lvl[ImageFrame] \in {0, 5}
    BY DEF Shape
<1>2. Reserved \in SUBSET Frames /\ ImageFrame \in Reserved
    BY MemoryAssumption DEF Reserved, Boot, RegionsAreFrames
<1>3. used \in SUBSET Frames
    BY <1>1, <1>2 DEF Busy
<1>4. Spare(used, 4 + 1) /\ Spare(used, 3 + 1)
    <2>1. Spare(used, 5)
        BY <1>3, SpareFrames DEF Room
    <2> QED
        BY <2>1 DEF Spare
<1>5. f \in Frames \ used /\ Spare(Taken(used, f), 3)
    BY <1>4, OneFewer, 3 \in Nat
<1>6. lvl[f] = 0 /\ f # ImageFrame /\ f \notin Reserved /\ f \in Frames
    BY <1>1, <1>2, <1>5 DEF Busy
<1>7. Taken(used, f) = Reserved \cup Busy(lvl) \cup {f}
    BY <1>1 DEF Taken
<1>8. HasMapped(mem, n, lvl, own, Live, Kernel, Reserved, s, p, f)
    <2>1. MayMap(mem, Taken(used, f), lvl, own, Live, Kernel, Reserved, s, p, f)
        BY <1>1, <1>2, <1>5, <1>6, <1>7 DEF MayMap
    <2> QED
        BY <2>1, MappedKeepsTree
<1>9. PICK lvl2, own2 :
            /\ Tree(n.mem, lvl2, own2, Live, Kernel) /\ Clear(n.mem, lvl2)
            /\ n.used = Reserved \cup Busy(lvl2)
            /\ MorePages(lvl, own, lvl2, own2, Reserved, f)
    BY <1>8 DEF HasMapped
<1>10. OnlyPage(mem, n.mem, Live, s, p)
    BY <1>1, <1>8, <1>9, MappedAddsOnePage DEF HasMapped
<1>11. n.mem \in Memories
    BY <1>9 DEF Tree, Typed
<1>12. \A g \in Reserved : lvl2[g] # 0 => g = ImageFrame
    BY <1>1, <1>2, <1>6, <1>9 DEF MorePages
<1>13. lvl2[ImageFrame] \in {0, 5}
    BY <1>1, <1>2, <1>6, <1>9 DEF MorePages
<1> QED
    BY <1>6, <1>8, <1>9, <1>10, <1>11, <1>12, <1>13 DEF HasMapped
-----------------------------------------------------------------------------
(* The start *)

LEMMA InitIInv == Init => IInv
<1> SUFFICES ASSUME Init
             PROVE  IInv
    OBVIOUS
<1> PICK map \in Maps : regions = BootEntry(map)
    BY DEF Init
<1>1. /\ bitmap = {} /\ used = {} /\ mem = [f \in Frames |-> EmptyTable]
      /\ cr3 = NULL /\ spaces = <<>> /\ destroyed = {} /\ bump = 0
      /\ asked = {} /\ heap = <<>> /\ phase = "pmm_init"
    BY DEF Init
<1>2. RegionsAreFrames
    <2>1. /\ Len(map) \in Nat /\ DOMAIN map = 1..Len(map)
          /\ \A k \in DOMAIN map :
                /\ map[k].base \in Nat /\ map[k].length \in Nat
                /\ map[k].base..map[k].base + map[k].length - 1 \subseteq Frames
                /\ map[k].type = "LIMINE_MEMMAP_USABLE" =>
                      ImageFrame \notin map[k].base..map[k].base + map[k].length - 1
        BY MemoryAssumption
    <2>2. DOMAIN regions = DOMAIN map /\ Len(regions) = Len(map)
        BY <2>1 DEF BootEntry
    <2>3. \A k \in DOMAIN map : regions[k].offset = map[k].base /\ regions[k].size = map[k].length
                                /\ regions[k].type = GetType(map[k].type)
        BY DEF BootEntry
    <2>4. \A type : GetType(type) = "MEM_USABLE" => type = "LIMINE_MEMMAP_USABLE"
        BY DEF GetType
    <2>5. \A k \in DOMAIN map : FramesOf(regions[k]) = map[k].base..map[k].base + map[k].length - 1
        BY <2>3 DEF FramesOf
    <2>6. ImageFrame \notin UsableFrames
        BY <2>1, <2>2, <2>3, <2>4, <2>5 DEF UsableFrames
    <2> QED
        BY <2>1, <2>2, <2>3, <2>5, <2>6 DEF RegionsAreFrames
<1>3. Live = {} /\ Kernel = NULL /\ Range(spaces) = {}
    BY <1>1 DEF Live, Kernel, Range
<1>4. Boot
    <2>1. Len(HeapPages) \in Nat
        BY Pages
    <2>2. IsInjective(spaces) /\ Len(heap) = 0 /\ heap \in Seq(Frames) /\ spaces \in Seq(Frames)
        BY <1>1 DEF IsInjective
    <2> QED
        BY <1>1, <1>2, <1>3, <2>1, <2>2 DEF Boot
<1>5. \E lvl, own : Shape(lvl, own)
    <2> DEFINE lvl == [f \in Frames |-> 0]
               own == [f \in Frames |-> NULL]
    <2>1. Typed(mem, lvl, own)
        BY <1>1 DEF Typed, Memories, Levels, Owners, EmptyTable
    <2>2. Rooted(lvl, own, {}, NULL) /\ KernelShared(mem, {}, NULL)
        BY DEF Rooted, KernelShared
    <2>3. EntriesDescend(mem, lvl, own, NULL) /\ OneEntry(mem, lvl) /\ Reached(mem, lvl)
        BY DEF EntriesDescend, OneEntry, Reached, IsTable
    <2>4. Tree(mem, lvl, own, Live, Kernel)
        BY <1>3, <2>1, <2>2, <2>3 DEF Tree
    <2>5. Clear(mem, lvl)
        BY <1>1 DEF Clear
    <2>6. Busy(lvl) = {} /\ \A f \in Frames : lvl[f] = 0
        BY DEF Busy
    <2>7. Reserved \subseteq Frames /\ ImageFrame \in Frames
        BY <1>1, MemoryAssumption DEF Reserved
    <2> HIDE DEF lvl, own
    <2>8. Shape(lvl, own)
        BY <1>1, <2>4, <2>5, <2>6, <2>7 DEF Shape
    <2> QED
        BY <2>8
<1>6. UserPagesMapped /\ KernelSeenEverywhere /\ NothingElseMapped
    BY <1>1, <1>3 DEF UserPagesMapped, KernelSeenEverywhere, NothingElseMapped
<1> QED
    BY <1>4, <1>5, <1>6 DEF IInv

LEMMA ReservedFrames ==
    ASSUME Boot
    PROVE  Reserved \in SUBSET Frames /\ ImageFrame \in Reserved
BY MemoryAssumption DEF Reserved, Boot, RegionsAreFrames

\* What depends on the memory map only.
LEMMA SameRegions ==
    ASSUME regions' = regions, RegionsAreFrames
    PROVE  RegionsAreFrames' /\ UsableFrames' = UsableFrames /\ (bitmap' = bitmap => Reserved' = Reserved)
<1>1. UsableFrames' = UsableFrames
    BY DEF UsableFrames, FramesOf
<1> QED
    BY <1>1 DEF RegionsAreFrames, Reserved, FramesOf

LEMMA PmmInitStep == IInv /\ PmmInit => IInv'
<1> SUFFICES ASSUME IInv, PmmInit
             PROVE  IInv'
    OBVIOUS
<1>1. /\ phase = "pmm_init" /\ phase' = "vmm_init" /\ used' = UsedAtFirst(bitmap')
      /\ UNCHANGED <<regions, mem, cr3, spaces, destroyed, bump, asked, heap>>
    BY DEF PmmInit
<1>2. Boot /\ spaces = <<>> /\ UserPagesMapped /\ KernelSeenEverywhere /\ NothingElseMapped
    BY <1>1 DEF IInv, Boot
<1>3. PICK k \in DOMAIN regions : FitsBitmap(regions[k]) /\ bitmap' = BitmapIn(regions[k])
    BY DEF PmmInit
<1>4. bitmap' \subseteq Frames
    BY <1>2, <1>3, BitmapFits DEF Boot
<1>5. RegionsAreFrames' /\ UsableFrames' = UsableFrames
    BY <1>1, <1>2, SameRegions DEF Boot
<1>6. Live' = Live /\ Kernel' = Kernel
    BY <1>1 DEF Live, Kernel
<1>7. Boot'
    BY <1>1, <1>2, <1>4, <1>5, <1>6 DEF Boot
<1>8. PICK lvl, own : Shape(lvl, own)
    BY DEF IInv
<1>9. Shape(lvl, own)'
    <2>1. /\ Tree(mem, lvl, own, Live, Kernel) /\ Clear(mem, lvl) /\ Busy(lvl) = {} /\ lvl[ImageFrame] \in {0, 5}
        BY <1>1, <1>2, <1>8 DEF Shape
    <2>2. Reserved' \subseteq Frames /\ used' = Reserved'
        BY <1>1, <1>4, <1>5 DEF Reserved, UsedAtFirst
    <2>3. \A f \in Frames : lvl[f] = 0
        BY <2>1 DEF Busy
    <2>4. Tree(mem', lvl, own, Live', Kernel') /\ Clear(mem', lvl)
        BY <1>1, <1>6, <2>1
    <2> QED
        BY <1>1, <2>1, <2>2, <2>3, <2>4 DEF Shape
<1>10. UserPagesMapped' /\ KernelSeenEverywhere' /\ NothingElseMapped'
    BY <1>1, <1>2, <1>6 DEF UserPagesMapped, KernelSeenEverywhere, NothingElseMapped, Paddr
<1> QED
    BY <1>7, <1>9, <1>10 DEF IInv

LEMMA VmmInitStep == IInv /\ VmmInit => IInv'
<1> SUFFICES ASSUME IInv, VmmInit
             PROVE  IInv'
    OBVIOUS
<1>1. PICK root : root = FirstFree(used)
    OBVIOUS
<1>2. PICK new : new = Mapped(mem, Taken(used, root), root, ImagePage, ImageFrame)
    OBVIOUS
<1>3. /\ phase = "vmm_init" /\ Room /\ phase' = "drivers"
      /\ mem' = new.mem /\ used' = new.used /\ cr3' = root /\ spaces' = <<root>>
      /\ UNCHANGED <<regions, bitmap, destroyed, bump, asked, heap>>
    BY <1>1, <1>2 DEF VmmInit
<1>4. Boot /\ spaces = <<>> /\ destroyed = {} /\ bump = 0 /\ heap \in Seq(Frames) /\ Len(heap) = 0
    BY <1>3 DEF IInv, Boot
<1>5. PICK lvl0, own0 : Shape(lvl0, own0)
    BY DEF IInv
<1>6. /\ mem \in Memories /\ Busy(lvl0) = {} /\ Clear(mem, lvl0) /\ used = Reserved
    BY <1>3, <1>4, <1>5 DEF Shape, Tree, Typed
<1>7. mem = [f \in Frames |-> EmptyTable]
    <2>1. \A f \in Frames : mem[f] = EmptyTable
        BY <1>6 DEF Busy, Clear, IsTable
    <2> QED
        BY <1>6, <2>1 DEF Memories
<1>8. Reserved \in SUBSET Frames /\ ImageFrame \in Reserved /\ ImagePage \in Page /\ NULL \notin Frames
    BY <1>4, ReservedFrames, Pages, MemoryAssumption
<1>9. root \in Frames \ Reserved /\ Spare(Taken(used, root), 3)
    <2>1. Spare(used, 5)
        BY <1>3, <1>6, <1>8, SpareFrames DEF Room
    <2>2. Spare(used, 3 + 1)
        BY <2>1 DEF Spare
    <2> QED
        BY <1>1, <1>6, <2>2, OneFewer, 3 \in Nat
<1> DEFINE lvl == [f \in Frames |-> IF f = root THEN 1 ELSE 0]
           own == [f \in Frames |-> root]
<1>10. Tree(mem, lvl, own, {root}, root) /\ Clear(mem, lvl)
    BY <1>7, <1>9, FirstRoot
<1>11. Busy(lvl) = {root} /\ \A f \in Frames : f # root => lvl[f] = 0
    BY <1>9 DEF Busy
<1>12. \A f \in Frames : lvl[f] # 5
    OBVIOUS
<1> HIDE DEF lvl, own
<1>13. PaddrIn(mem, root, ImagePage) = NULL
    BY <1>8, <1>10, <1>12, PathLevels, root \in {root}
<1>14. MayMap(mem, Taken(used, root), lvl, own, {root}, root, Reserved, root, ImagePage, ImageFrame)
    BY <1>6, <1>8, <1>9, <1>10, <1>11, <1>13 DEF MayMap, Taken
<1>15. HasMapped(mem, new, lvl, own, {root}, root, Reserved, root, ImagePage, ImageFrame)
    BY <1>2, <1>8, <1>14, MappedKeepsTree
<1>16. PICK lvl2, own2 :
             /\ Tree(mem', lvl2, own2, {root}, root) /\ Clear(mem', lvl2)
             /\ used' = Reserved \cup Busy(lvl2)
             /\ MorePages(lvl, own, lvl2, own2, Reserved, ImageFrame)
    BY <1>3, <1>15 DEF HasMapped
<1>17. PaddrIn(mem', root, ImagePage) = ImageFrame /\ Grown(mem, mem')
    BY <1>3, <1>15 DEF HasMapped
<1>18. OnlyPage(mem, mem', {root}, root, ImagePage)
    BY <1>8, <1>10, <1>16, <1>17, MappedAddsOnePage, root \in {root}
<1>19. Live' = {root} /\ Kernel' = root /\ Range(spaces') = {root}
    BY <1>3, <1>4 DEF Live, Kernel, Range
<1>20. RegionsAreFrames' /\ Reserved' = Reserved
    BY <1>3, <1>4, SameRegions DEF Boot
<1>21. Shape(lvl2, own2)'
    <2>1. \A f \in Reserved : lvl2[f] # 0 => f = ImageFrame
        BY <1>8, <1>9, <1>11, <1>16 DEF MorePages
    <2>2. lvl2[ImageFrame] = 5
        BY <1>16 DEF MorePages
    <2>3. spaces' # <<>>
        BY <1>3
    <2> QED
        BY <1>3, <1>16, <1>19, <1>20, <2>1, <2>2, <2>3 DEF Shape
<1>22. asked = {}
    BY <1>4 DEF Boot, Live, Range
<1>23. Boot'
    <2>1. spaces' \in Seq(Frames) /\ IsInjective(spaces') /\ spaces' # <<>> /\ Len(spaces') = 1
        BY <1>3, <1>9 DEF IsInjective
    <2> QED
        BY <1>3, <1>4, <1>9, <1>19, <1>20, <1>22, <2>1 DEF Boot
<1>24. KernelSeenEverywhere'
    BY <1>3, <1>4, <1>17, <1>19 DEF KernelSeenEverywhere, Paddr
<1>25. UserPagesMapped'
    BY <1>3, <1>22 DEF UserPagesMapped
<1>26. NothingElseMapped'
    <2> SUFFICES ASSUME NEW q \in Page, PaddrIn(mem', root, q) # NULL
                 PROVE  q = ImagePage
        BY <1>19 DEF NothingElseMapped
    <2>1. PaddrIn(mem, root, q) = NULL
        BY <1>10, <1>12, PathLevels, root \in {root}
    <2> QED
        BY <1>18, <2>1, root \in {root} DEF OnlyPage
<1> QED
    BY <1>21, <1>23, <1>24, <1>25, <1>26 DEF IInv

\* A page that is mapped in a space of the boot phases, in the terms of the
\* invariant.
LEMMA AfterMapPage ==
    ASSUME IInv, phase \in {"drivers", "load"}, Room, NEW s \in Live, NEW p \in Page,
           p[1] \notin UserSlots /\ Leads(mem, s, p[1], NULL) => Live = {s},
           PaddrIn(mem, s, p) = NULL,
           NEW f, f = FirstFree(used),
           mem' = Mapped(mem, Taken(used, f), s, p, f).mem,
           used' = Mapped(mem, Taken(used, f), s, p, f).used,
           UNCHANGED <<regions, bitmap, cr3, spaces, destroyed>>, phase' = "load"
    PROVE  /\ f \in Frames /\ PaddrIn(mem', s, p) = f /\ Live' = Live /\ Kernel' = Kernel
           /\ RegionsAreFrames' /\ Live \subseteq Frames
           /\ \E lvl, own : Shape(lvl, own)'
           /\ \A r \in Live, q \in Page : PaddrIn(mem, r, q) # NULL => PaddrIn(mem', r, q) = PaddrIn(mem, r, q)
           /\ \A r \in Live, q \in Page : PaddrIn(mem', r, q) # NULL =>
                 PaddrIn(mem, r, q) # NULL \/ (q = p /\ (r = s \/ p[1] \notin UserSlots))
<1>1. Boot
    BY DEF IInv
<1>2. PICK lvl, own : Shape(lvl, own)
    BY DEF IInv
<1>3. PICK n : n = Mapped(mem, Taken(used, f), s, p, f)
    OBVIOUS
<1>4. p[1] \notin UserSlots /\ Leads(mem, s, p[1], NULL) => Live = {s}
    OBVIOUS
<1>5. /\ f \in Frames /\ Grown(mem, mem') /\ PaddrIn(mem', s, p) = f
      /\ mem' \in Memories
      /\ OnlyPage(mem, mem', Live, s, p)
      /\ \E lvl2, own2 :
            /\ Tree(mem', lvl2, own2, Live, Kernel) /\ Clear(mem', lvl2)
            /\ used' = Reserved \cup Busy(lvl2)
            /\ \A g \in Reserved : lvl2[g] # 0 => g = ImageFrame
            /\ lvl2[ImageFrame] \in {0, 5}
    BY <1>1, <1>2, <1>3, <1>4, MapPage
<1>6. PICK lvl2, own2 :
            /\ Tree(mem', lvl2, own2, Live, Kernel) /\ Clear(mem', lvl2)
            /\ used' = Reserved \cup Busy(lvl2)
            /\ \A g \in Reserved : lvl2[g] # 0 => g = ImageFrame
            /\ lvl2[ImageFrame] \in {0, 5}
    BY <1>5
<1>7. Live' = Live /\ Kernel' = Kernel
    BY DEF Live, Kernel
<1>8. RegionsAreFrames' /\ Reserved' = Reserved
    BY <1>1, SameRegions DEF Boot
<1>9. spaces # <<>>
    BY <1>1 DEF Boot
<1>10. Shape(lvl2, own2)'
    BY <1>6, <1>7, <1>8, <1>9 DEF Shape
<1>11. mem \in Memories /\ Live \subseteq Frames
    BY <1>2 DEF Shape, Tree, Typed, Rooted
<1>12. \A r \in Live, q \in Page : PaddrIn(mem, r, q) # NULL => PaddrIn(mem', r, q) = PaddrIn(mem, r, q)
    BY <1>5, <1>11, PathStays
<1>13. \A r \in Live, q \in Page : PaddrIn(mem', r, q) # NULL =>
           PaddrIn(mem, r, q) # NULL \/ (q = p /\ (r = s \/ p[1] \notin UserSlots))
    BY <1>5 DEF OnlyPage
<1> QED
    BY <1>5, <1>7, <1>8, <1>10, <1>11, <1>12, <1>13

LEMMA KernelIsLive ==
    ASSUME Boot, spaces # <<>>
    PROVE  Kernel \in Live /\ (Len(spaces) = 1 => Live = {Kernel})
<1>1. spaces \in Seq(Frames) /\ Kernel \notin destroyed /\ destroyed \subseteq Range(spaces)
    BY DEF Boot
<1>2. Len(spaces) \in Nat /\ DOMAIN spaces = 1..Len(spaces) /\ Len(spaces) # 0 /\ Kernel = spaces[1]
    BY <1>1 DEF Kernel
<1>3. Kernel \in Range(spaces)
    BY <1>2 DEF Range
<1>4. Len(spaces) = 1 => Range(spaces) = {Kernel}
    BY <1>2 DEF Range
<1> QED
    BY <1>1, <1>3, <1>4 DEF Live

LEMMA KmallocStep == IInv /\ Kmalloc => IInv'
<1> SUFFICES ASSUME IInv, Kmalloc
             PROVE  IInv'
    OBVIOUS
<1>1. PICK f : f = FirstFree(used)
    OBVIOUS
<1>2. PICK p : p = HeapPages[bump + 1]
    OBVIOUS
<1>3. /\ phase \in {"drivers", "load"} /\ Room /\ bump < Len(HeapPages)
      /\ mem' = Mapped(mem, Taken(used, f), cr3, p, f).mem
      /\ used' = Mapped(mem, Taken(used, f), cr3, p, f).used
      /\ heap' = Append(heap, f) /\ bump' = bump + 1 /\ phase' = "load"
      /\ UNCHANGED <<regions, bitmap, cr3, spaces, destroyed, asked>>
    BY <1>1, <1>2 DEF Kmalloc
<1>4. /\ Boot /\ UserPagesMapped /\ KernelSeenEverywhere /\ NothingElseMapped
      /\ spaces # <<>> /\ cr3 = Kernel /\ destroyed = {} /\ NULL \notin Frames
    BY <1>3, MemoryAssumption DEF IInv, Boot
<1>5. /\ heap \in Seq(Frames) /\ bump = Len(heap) /\ bump \in Nat /\ bump + 1 \in 1..Len(HeapPages)
      /\ bump = 0 => phase = "drivers"
    BY <1>3, <1>4, Pages DEF Boot
<1>6. p \in Page /\ p[1] \notin UserSlots /\ p # ImagePage /\ \A k \in 1..bump : p # HeapPages[k]
    BY <1>2, <1>5, Pages
<1>7. Kernel \in Live /\ (Len(spaces) = 1 => Live = {Kernel})
    BY <1>4, KernelIsLive
<1>8. PICK lvl, own : Shape(lvl, own)
    BY DEF IInv
<1>9. mem \in Memories /\ Live \subseteq Frames
    BY <1>8 DEF Shape, Tree, Typed, Rooted
<1>10. Leads(mem, Kernel, p[1], NULL) => Live = {Kernel}
    <2>1. CASE phase = "drivers"
        BY <1>4, <1>7, <2>1 DEF Boot
    <2>2. CASE phase = "load"
        <3>1. bump # 0 /\ 1 \in DOMAIN heap /\ heap[1] \in Frames /\ 1 \in 1..Len(HeapPages)
            BY <1>4, <1>5, <2>2 DEF Boot
        <3>2. PaddrIn(mem, Kernel, HeapPages[1]) # NULL
            BY <1>4, <1>7, <3>1 DEF KernelSeenEverywhere, Paddr
        <3>3. HeapPages[1] \in Page /\ HeapPages[1][1] = p[1]
            BY <1>2, <1>5, <3>1, Pages
        <3>4. PICK t1 \in Frames : mem[Kernel][HeapPages[1][1]] = t1
            BY <1>7, <1>9, <3>2, <3>3, PathIsChain DEF Chain
        <3> QED
            BY <1>4, <3>3, <3>4 DEF Leads
    <2> QED
        BY <1>3, <2>1, <2>2
<1>11. PaddrIn(mem, Kernel, p) = NULL
    <2>1. \A a \in asked : a.page[1] \in UserSlots
        BY <1>4, Pages DEF Boot
    <2> QED
        BY <1>4, <1>6, <1>7, <2>1 DEF NothingElseMapped
<1>12. /\ f \in Frames /\ PaddrIn(mem', Kernel, p) = f /\ Live' = Live /\ Kernel' = Kernel
       /\ RegionsAreFrames' /\ Live \subseteq Frames
       /\ \E lvl2, own2 : Shape(lvl2, own2)'
       /\ \A r \in Live, q \in Page : PaddrIn(mem, r, q) # NULL => PaddrIn(mem', r, q) = PaddrIn(mem, r, q)
       /\ \A r \in Live, q \in Page : PaddrIn(mem', r, q) # NULL =>
             PaddrIn(mem, r, q) # NULL \/ (q = p /\ (r = Kernel \/ p[1] \notin UserSlots))
    BY <1>1, <1>3, <1>4, <1>6, <1>7, <1>10, <1>11, AfterMapPage
<1>13. /\ heap' \in Seq(Frames) /\ Len(heap') = bump + 1 /\ DOMAIN heap' = 1..bump + 1
       /\ heap'[bump + 1] = f /\ \A k \in 1..bump : heap'[k] = heap[k] /\ heap[k] \in Frames
    BY <1>3, <1>5, <1>12
<1>14. Boot'
    BY <1>3, <1>4, <1>5, <1>12, <1>13 DEF Boot
<1>15. UserPagesMapped'
    <2> SUFFICES ASSUME NEW a \in asked
                 PROVE  PaddrIn(mem', a.space, a.page) = a.frame
        BY <1>3 DEF UserPagesMapped, Paddr
    <2>1. a.space \in Live /\ a.page \in Page /\ a.frame # NULL
        BY <1>4, Pages DEF Boot
    <2>2. PaddrIn(mem, a.space, a.page) = a.frame
        BY <1>4 DEF UserPagesMapped, Paddr
    <2> QED
        BY <1>12, <2>1, <2>2
<1>16. KernelSeenEverywhere'
    <2> SUFFICES ASSUME NEW s \in Live
                 PROVE  /\ PaddrIn(mem', s, ImagePage) = ImageFrame
                        /\ \A k \in 1..bump + 1 : PaddrIn(mem', s, HeapPages[k]) = heap'[k]
        BY <1>12, <1>13 DEF KernelSeenEverywhere, Paddr
    <2>1. PaddrIn(mem', s, ImagePage) = ImageFrame
        <3>1. PaddrIn(mem, s, ImagePage) = ImageFrame /\ ImageFrame # NULL
            BY <1>4, MemoryAssumption DEF KernelSeenEverywhere, Paddr
        <3> QED
            BY <1>12, <3>1, Pages
    <2>2. ASSUME NEW k \in 1..bump
          PROVE  PaddrIn(mem', s, HeapPages[k]) = heap'[k]
        <3>1. k \in DOMAIN heap /\ heap[k] \in Frames /\ heap'[k] = heap[k] /\ k \in 1..Len(HeapPages)
            BY <1>5, <1>13
        <3>2. PaddrIn(mem, s, HeapPages[k]) = heap[k]
            BY <1>4, <3>1 DEF KernelSeenEverywhere, Paddr
        <3> QED
            BY <1>4, <1>12, <3>1, <3>2, Pages
    <2>3. PaddrIn(mem', s, p) = heap'[bump + 1]
        <3>1. PICK lvl2, own2 : Shape(lvl2, own2)'
            BY <1>12
        <3>2. Tree(mem', lvl2, own2, Live, Kernel)
            BY <1>12, <3>1 DEF Shape
        <3> QED
            BY <1>6, <1>7, <1>12, <1>13, <3>2, PathShared
    <2>4. \A k \in 1..bump + 1 : k \in 1..bump \/ k = bump + 1
        BY <1>5
    <2> QED
        BY <1>2, <2>1, <2>2, <2>3, <2>4
<1>17. NothingElseMapped'
    <2> SUFFICES ASSUME NEW s \in Live, NEW q \in Page, PaddrIn(mem', s, q) # NULL
                 PROVE  \/ q = ImagePage \/ \E k \in 1..bump + 1 : q = HeapPages[k]
                        \/ \E a \in asked : a.space = s /\ a.page = q
        BY <1>3, <1>12 DEF NothingElseMapped
    <2>1. CASE PaddrIn(mem, s, q) # NULL
        <3>1. \A k \in 1..bump : k \in 1..bump + 1
            BY <1>5
        <3> QED
            BY <1>4, <2>1, <3>1 DEF NothingElseMapped
    <2>2. CASE q = p
        BY <1>2, <1>5, <2>2
    <2> QED
        BY <1>12, <2>1, <2>2
<1> QED
    BY <1>12, <1>14, <1>15, <1>16, <1>17 DEF IInv

LEMMA MapUserStep == \A page \in UserPages : IInv /\ MapUser(page) => IInv'
<1> SUFFICES ASSUME NEW p \in UserPages, IInv, MapUser(p)
             PROVE  IInv'
    OBVIOUS
<1>1. PICK f : f = FirstFree(used)
    OBVIOUS
<1>2. PICK s : s = spaces[Len(spaces)]
    OBVIOUS
<1>3. /\ phase = "load" /\ Room /\ Len(spaces) > 1 /\ phase' = "load"
      /\ \A a \in asked : a.space = s => a.page # p
      /\ mem' = Mapped(mem, Taken(used, f), s, p, f).mem
      /\ used' = Mapped(mem, Taken(used, f), s, p, f).used
      /\ asked' = asked \cup {[space |-> s, page |-> p, frame |-> f]}
      /\ UNCHANGED <<regions, bitmap, cr3, spaces, destroyed, bump, heap>>
    BY <1>1, <1>2 DEF MapUser, Target
<1>4. /\ Boot /\ UserPagesMapped /\ KernelSeenEverywhere /\ NothingElseMapped
      /\ destroyed = {} /\ NULL \notin Frames /\ spaces \in Seq(Frames)
    BY <1>3, MemoryAssumption DEF IInv, Boot
<1>5. s \in Live
    <2>1. Len(spaces) \in DOMAIN spaces
        BY <1>3, <1>4
    <2> QED
        BY <1>2, <1>4, <2>1 DEF Live, Range
<1>6. p \in Page /\ p[1] \in UserSlots
    BY Pages
<1>7. PaddrIn(mem, s, p) = NULL
    <2>1. p # ImagePage /\ \A k \in 1..bump : p # HeapPages[k]
        BY <1>4, <1>6, Pages DEF Boot
    <2> QED
        BY <1>3, <1>4, <1>5, <1>6, <2>1 DEF NothingElseMapped
<1>8. /\ f \in Frames /\ PaddrIn(mem', s, p) = f /\ Live' = Live /\ Kernel' = Kernel
      /\ RegionsAreFrames' /\ Live \subseteq Frames
      /\ \E lvl2, own2 : Shape(lvl2, own2)'
      /\ \A r \in Live, q \in Page : PaddrIn(mem, r, q) # NULL => PaddrIn(mem', r, q) = PaddrIn(mem, r, q)
      /\ \A r \in Live, q \in Page : PaddrIn(mem', r, q) # NULL =>
            PaddrIn(mem, r, q) # NULL \/ (q = p /\ (r = s \/ p[1] \notin UserSlots))
    BY <1>1, <1>3, <1>5, <1>6, <1>7, AfterMapPage
<1>9. Boot'
    <2>1. asked' \subseteq [space : Live, page : UserPages, frame : Frames]
        BY <1>3, <1>4, <1>5, <1>8 DEF Boot
    <2> QED
        BY <1>3, <1>4, <1>8, <2>1 DEF Boot
<1>10. UserPagesMapped'
    <2> SUFFICES ASSUME NEW a \in asked'
                 PROVE  PaddrIn(mem', a.space, a.page) = a.frame
        BY DEF UserPagesMapped, Paddr
    <2>1. CASE a \in asked
        <3>1. a.space \in Live /\ a.page \in Page /\ a.frame # NULL
            BY <1>4, <2>1, Pages DEF Boot
        <3>2. PaddrIn(mem, a.space, a.page) = a.frame
            BY <1>4, <2>1 DEF UserPagesMapped, Paddr
        <3> QED
            BY <1>8, <3>1, <3>2
    <2>2. CASE a = [space |-> s, page |-> p, frame |-> f]
        BY <1>8, <2>2
    <2> QED
        BY <1>3, <2>1, <2>2
<1>11. KernelSeenEverywhere'
    <2> SUFFICES ASSUME NEW r \in Live
                 PROVE  /\ PaddrIn(mem', r, ImagePage) = ImageFrame
                        /\ \A k \in DOMAIN heap : PaddrIn(mem', r, HeapPages[k]) = heap[k]
        BY <1>3, <1>8 DEF KernelSeenEverywhere, Paddr
    <2>1. PaddrIn(mem, r, ImagePage) = ImageFrame /\ ImageFrame # NULL
        BY <1>4, MemoryAssumption DEF KernelSeenEverywhere, Paddr
    <2>2. \A k \in DOMAIN heap : PaddrIn(mem, r, HeapPages[k]) = heap[k] /\ heap[k] # NULL
        BY <1>4 DEF KernelSeenEverywhere, Paddr, Boot
    <2>3. \A k \in DOMAIN heap : k \in 1..Len(HeapPages)
        BY <1>4, Pages DEF Boot
    <2> QED
        BY <1>8, <2>1, <2>2, <2>3, Pages
<1>12. NothingElseMapped'
    <2> SUFFICES ASSUME NEW r \in Live, NEW q \in Page, PaddrIn(mem', r, q) # NULL
                 PROVE  \/ q = ImagePage \/ \E k \in 1..bump : q = HeapPages[k]
                        \/ \E a \in asked' : a.space = r /\ a.page = q
        BY <1>3, <1>8 DEF NothingElseMapped
    <2>1. CASE PaddrIn(mem, r, q) # NULL
        BY <1>3, <1>4, <2>1 DEF NothingElseMapped
    <2>2. CASE q = p /\ r = s
        <3> DEFINE new == [space |-> s, page |-> p, frame |-> f]
        <3>1. new \in asked' /\ new.space = r /\ new.page = q
            BY <1>3, <2>2
        <3> QED
            BY <3>1
    <2>3. PaddrIn(mem, r, q) # NULL \/ (q = p /\ r = s)
        BY <1>6, <1>8
    <2> QED
        BY <2>1, <2>2, <2>3
<1> QED
    BY <1>8, <1>9, <1>10, <1>11, <1>12 DEF IInv

\* Paths of the spaces there were lead past a new PML4.
LEMMA PastNewRoot ==
    ASSUME NEW m, NEW n, NEW lvl2, NEW own2, NEW roots, NEW kernel,
           Tree(n, lvl2, own2, roots, kernel),
           NEW root, \A f \in Frames : f # root => n[f] = m[f],
           lvl2[root] = 1, NEW s \in roots, s # root, NEW q \in Page, PaddrIn(n, s, q) # NULL
    PROVE  PaddrIn(m, s, q) = PaddrIn(n, s, q)
<1>1. n \in Memories /\ s \in Frames
    BY DEF Tree, Typed, Rooted
<1>2. PaddrIn(n, s, q) \in Frames
    BY <1>1, PathIsChain
<1>3. PICK t1, t2, t3 \in Frames : Chain(n, s, q, t1, t2, t3, PaddrIn(n, s, q))
    BY <1>1, PathIsChain
<1>4. lvl2[t1] = 2 /\ lvl2[t2] = 3 /\ lvl2[t3] = 4
    BY <1>2, <1>3, ChainLevels
<1>5. t1 # root /\ t2 # root /\ t3 # root
    BY <1>4
<1>6. Chain(m, s, q, t1, t2, t3, PaddrIn(n, s, q))
    BY <1>1, <1>3, <1>5 DEF Chain
<1> QED
    BY <1>1, <1>6, ChainIsPath

LEMMA VmmCreateStep == IInv /\ VmmCreate => IInv'
<1> SUFFICES ASSUME IInv, VmmCreate
             PROVE  IInv'
    OBVIOUS
<1>1. PICK root : root = FirstFree(used)
    OBVIOUS
<1>2. /\ phase = "load" /\ Room
      /\ mem' = [mem EXCEPT ![root] = NewRoot(root, cr3)]
      /\ used' = Taken(used, root) /\ spaces' = Append(spaces, root)
      /\ UNCHANGED <<regions, bitmap, cr3, destroyed, bump, asked, heap, phase>>
    BY <1>1 DEF VmmCreate
<1>3. /\ Boot /\ UserPagesMapped /\ KernelSeenEverywhere /\ NothingElseMapped
      /\ destroyed = {} /\ cr3 = Kernel /\ NULL \notin Frames /\ spaces \in Seq(Frames) /\ spaces # <<>>
    BY <1>2, MemoryAssumption DEF IInv, Boot
<1>4. PICK lvl, own : Shape(lvl, own)
    BY DEF IInv
<1>5. /\ Tree(mem, lvl, own, Live, Kernel) /\ Clear(mem, lvl) /\ used = Reserved \cup Busy(lvl)
      /\ mem \in Memories /\ lvl \in Levels /\ own \in Owners /\ Rooted(lvl, own, Live, Kernel)
    BY <1>2, <1>4 DEF Shape, Tree, Typed
<1>6. Reserved \in SUBSET Frames /\ ImageFrame \in Reserved /\ Kernel \in Live
    BY <1>3, ReservedFrames, KernelIsLive
<1>7. root \in Frames \ used
    <2>1. Spare(used, 4 + 1)
        <3>1. used \in SUBSET Frames
            BY <1>5, <1>6 DEF Busy
        <3> QED
            BY <1>2, <3>1, SpareFrames DEF Room
    <2> QED
        BY <1>1, <2>1, OneFewer, 4 \in Nat
<1>8. lvl[root] = 0 /\ root \in Frames /\ root \notin Reserved /\ root \notin Live
    BY <1>5, <1>7 DEF Busy, Rooted
<1> DEFINE lvl2 == [lvl EXCEPT ![root] = 1]
           own2 == [own EXCEPT ![root] = root]
<1>9. Tree(mem', lvl2, own2, Live \cup {root}, Kernel) /\ Clear(mem', lvl2)
    <2>1. PICK row, m, roots, kernel :
              /\ row = [i \in Index |-> IF i \in UserSlots THEN NULL ELSE m[kernel][i]]
              /\ m = mem /\ roots = Live /\ kernel = Kernel
        OBVIOUS
    <2>2. NewRoot(root, cr3) = row
        BY <1>3, <2>1 DEF NewRoot
    <2>3. mem' = [m EXCEPT ![root] = row]
        BY <1>2, <2>1, <2>2
    <2>4. Tree(m, lvl, own, roots, kernel) /\ Clear(m, lvl) /\ kernel \in roots /\ root \in Frames /\ lvl[root] = 0
        BY <1>5, <1>6, <1>8, <2>1
    <2>5. Tree([m EXCEPT ![root] = row], lvl2, own2, roots \cup {root}, kernel) /\ Clear([m EXCEPT ![root] = row], lvl2)
        BY <2>1, <2>4, OneMoreRoot
    <2> QED
        BY <2>1, <2>3, <2>5
<1>10. \A f \in Frames : lvl2[f] = IF f = root THEN 1 ELSE lvl[f]
    BY <1>5 DEF Levels
<1> HIDE DEF lvl2, own2
<1>11. \A f \in Frames : f # root => mem'[f] = mem[f]
    BY <1>2, <1>5 DEF Memories
<1>12. mem' \in Memories /\ Grown(mem, mem')
    <2>1. \A i \in Index : mem[root][i] = NULL
        BY <1>5, <1>8 DEF Clear, IsTable, EmptyTable
    <2> QED
        BY <1>9, <1>11, <2>1 DEF Grown, Tree, Typed
<1>13. /\ Len(spaces) \in Nat \ {0} /\ DOMAIN spaces = 1..Len(spaces)
       /\ spaces' \in Seq(Frames) /\ DOMAIN spaces' = 1..Len(spaces) + 1 /\ Len(spaces') = Len(spaces) + 1
       /\ spaces'[Len(spaces) + 1] = root
       /\ \A k \in 1..Len(spaces) : spaces'[k] = spaces[k]
    BY <1>2, <1>3, <1>8
<1>14. Range(spaces') = Range(spaces) \cup {root} /\ Kernel' = Kernel /\ spaces' # <<>>
    <2>1. \A k : k \in 1..Len(spaces) + 1 <=> k \in 1..Len(spaces) \/ k = Len(spaces) + 1
        BY <1>13
    <2>2. Range(spaces') = Range(spaces) \cup {root}
        BY <1>13, <2>1 DEF Range
    <2>3. spaces' # <<>>
        BY <1>13
    <2>4. 1 \in 1..Len(spaces)
        BY <1>13
    <2> QED
        BY <1>3, <1>13, <2>2, <2>3, <2>4 DEF Kernel
<1>15. Live' = Live \cup {root} /\ Live = Range(spaces)
    BY <1>2, <1>3, <1>14 DEF Live
<1>16. IsInjective(spaces')
    <2> SUFFICES ASSUME NEW j \in 1..Len(spaces) + 1, NEW k \in 1..Len(spaces) + 1, spaces'[j] = spaces'[k]
                 PROVE  j = k
        BY <1>13 DEF IsInjective
    <2>1. \A i \in 1..Len(spaces) : spaces'[i] = spaces[i] /\ spaces[i] # root
        BY <1>8, <1>13, <1>15 DEF Range
    <2>2. \A i, l \in 1..Len(spaces) : spaces[i] = spaces[l] => i = l
        BY <1>3, <1>13 DEF Boot, IsInjective
    <2>3. (j \in 1..Len(spaces) \/ j = Len(spaces) + 1) /\ (k \in 1..Len(spaces) \/ k = Len(spaces) + 1)
        BY <1>13
    <2> QED
        BY <1>13, <2>1, <2>2, <2>3
<1>17. RegionsAreFrames' /\ Reserved' = Reserved
    BY <1>2, <1>3, SameRegions DEF Boot
<1>18. Boot'
    <2>1. asked' \subseteq [space : Live', page : UserPages, frame : Frames]
        BY <1>2, <1>3, <1>15 DEF Boot
    <2>2. phase' = "load" /\ bump' # 0
        BY <1>2, <1>3 DEF Boot
    <2> QED
        BY <1>2, <1>3, <1>13, <1>14, <1>15, <1>16, <1>17, <2>1, <2>2 DEF Boot
<1>19. Shape(lvl2, own2)'
    <2>1. Busy(lvl2) = Busy(lvl) \cup {root}
        BY <1>8, <1>10 DEF Busy
    <2>2. used' = Reserved' \cup Busy(lvl2)
        BY <1>2, <1>5, <1>17, <2>1 DEF Taken
    <2>3. \A f \in Reserved : lvl2[f] = lvl[f]
        BY <1>6, <1>8, <1>10
    <2>4. (\A f \in Reserved : lvl[f] # 0 => f = ImageFrame) /\ lvl[ImageFrame] \in {0, 5}
        BY <1>4 DEF Shape
    <2> QED
        BY <1>6, <1>9, <1>14, <1>15, <1>17, <2>2, <2>3, <2>4 DEF Shape
<1>20. \A s \in Live, q \in Page : PaddrIn(mem, s, q) # NULL => PaddrIn(mem', s, q) = PaddrIn(mem, s, q)
    <2>1. Live \subseteq Frames
        BY <1>5 DEF Rooted
    <2> QED
        BY <1>5, <1>12, <2>1, PathStays
<1>21. UserPagesMapped'
    <2> SUFFICES ASSUME NEW a \in asked
                 PROVE  PaddrIn(mem', a.space, a.page) = a.frame
        BY <1>2 DEF UserPagesMapped, Paddr
    <2>1. a.space \in Live /\ a.page \in Page /\ a.frame # NULL
        BY <1>3, Pages DEF Boot
    <2>2. PaddrIn(mem, a.space, a.page) = a.frame
        BY <1>3 DEF UserPagesMapped, Paddr
    <2> QED
        BY <1>20, <2>1, <2>2
<1>22. \A s \in Live', q \in Page : q[1] \notin UserSlots => PaddrIn(mem', s, q) = PaddrIn(mem', Kernel, q)
    <2>1. Tree(mem', lvl2, own2, Live', Kernel) /\ Kernel \in Live'
        BY <1>6, <1>9, <1>15
    <2> QED
        BY <2>1, PathShared
<1>23. KernelSeenEverywhere'
    <2> SUFFICES ASSUME NEW s \in Live'
                 PROVE  /\ PaddrIn(mem', s, ImagePage) = ImageFrame
                        /\ \A k \in DOMAIN heap : PaddrIn(mem', s, HeapPages[k]) = heap[k]
        BY <1>2 DEF KernelSeenEverywhere, Paddr
    <2>1. PaddrIn(mem, Kernel, ImagePage) = ImageFrame /\ ImageFrame # NULL
        BY <1>3, <1>6, MemoryAssumption DEF KernelSeenEverywhere, Paddr
    <2>2. \A k \in DOMAIN heap : PaddrIn(mem, Kernel, HeapPages[k]) = heap[k] /\ heap[k] # NULL
        BY <1>3, <1>6 DEF KernelSeenEverywhere, Paddr, Boot
    <2>3. \A k \in DOMAIN heap : k \in 1..Len(HeapPages)
        BY <1>3, Pages DEF Boot
    <2>4. PaddrIn(mem', s, ImagePage) = ImageFrame
        BY <1>6, <1>20, <1>22, <2>1, Pages
    <2>5. ASSUME NEW k \in DOMAIN heap
          PROVE  PaddrIn(mem', s, HeapPages[k]) = heap[k]
        <3>1. HeapPages[k] \in Page /\ HeapPages[k][1] \notin UserSlots
            BY <2>3, Pages
        <3> QED
            BY <1>6, <1>20, <1>22, <2>2, <3>1
    <2> QED
        BY <2>4, <2>5
<1>24. NothingElseMapped'
    <2> SUFFICES ASSUME NEW s \in Live', NEW q \in Page, PaddrIn(mem', s, q) # NULL
                 PROVE  \/ q = ImagePage \/ \E k \in 1..bump : q = HeapPages[k]
                        \/ \E a \in asked : a.space = s /\ a.page = q
        BY <1>2 DEF NothingElseMapped
    <2>1. \A r \in Live : PaddrIn(mem', r, q) # NULL => PaddrIn(mem, r, q) = PaddrIn(mem', r, q)
        <3>1. lvl2[root] = 1 /\ root \notin Live /\ Live \subseteq Live'
            BY <1>8, <1>10, <1>15
        <3>2. Tree(mem', lvl2, own2, Live', Kernel)
            BY <1>9, <1>15
        <3> QED
            BY <1>11, <3>1, <3>2, PastNewRoot
    <2>2. CASE s \in Live
        BY <1>3, <2>1, <2>2 DEF NothingElseMapped
    <2>3. CASE s = root
        <3>1. q[1] \notin UserSlots
            <4>1. PICK t1 \in Frames : mem'[root][q[1]] = t1
                BY <1>8, <1>12, <2>3, PathIsChain DEF Chain
            <4>2. q[1] \in Index /\ NewRoot(root, cr3)[q[1]] = t1
                BY <1>2, <1>5, <1>8, <4>1, PageIndices DEF Memories
            <4> QED
                BY <1>3, <4>2 DEF NewRoot
        <3>2. PaddrIn(mem', Kernel, q) # NULL
            BY <1>22, <3>1
        <3>3. PaddrIn(mem, Kernel, q) # NULL
            BY <1>6, <2>1, <3>2
        <3>4. ~\E a \in asked : a.space = Kernel /\ a.page = q
            BY <1>3, <3>1, Pages DEF Boot
        <3> QED
            BY <1>3, <1>6, <3>3, <3>4 DEF NothingElseMapped
    <2> QED
        BY <1>15, <2>2, <2>3
<1> QED
    BY <1>18, <1>19, <1>21, <1>23, <1>24 DEF IInv

\* Steps that leave memory alone.
LEMMA SameMemory ==
    ASSUME IInv, phase # "pmm_init", phase' # "pmm_init", phase = "run" => phase' = "run",
           UNCHANGED <<regions, bitmap, used, mem, spaces, destroyed, bump, asked, heap>>, Boot'
    PROVE  IInv'
<1>1. Live' = Live /\ Kernel' = Kernel
    BY DEF Live, Kernel
<1>2. Reserved' = Reserved
    BY SameRegions DEF IInv, Boot
<1>3. PICK lvl, own : Shape(lvl, own)
    BY DEF IInv
<1>4. Shape(lvl, own)'
    BY <1>1, <1>2, <1>3 DEF Shape
<1>5. UserPagesMapped' /\ KernelSeenEverywhere' /\ NothingElseMapped'
    BY <1>1 DEF IInv, UserPagesMapped, KernelSeenEverywhere, NothingElseMapped, Paddr
<1> QED
    BY <1>4, <1>5 DEF IInv

LEMMA EnableStep == IInv /\ Enable => IInv'
<1> SUFFICES ASSUME IInv, Enable
             PROVE  IInv'
    OBVIOUS
<1>1. /\ phase = "load" /\ phase' = "run"
      /\ UNCHANGED <<regions, bitmap, used, mem, cr3, spaces, destroyed, bump, asked, heap>>
    BY DEF Enable
<1>2. Boot /\ Live' = Live /\ Kernel' = Kernel
    BY <1>1 DEF IInv, Live, Kernel
<1>3. RegionsAreFrames'
    BY <1>1, <1>2, SameRegions DEF Boot
<1>4. Boot'
    BY <1>1, <1>2, <1>3 DEF Boot
<1> QED
    BY <1>1, <1>4, SameMemory

LEMMA SwitchStep == \A space \in Range(spaces) : IInv /\ Switch(space) => IInv'
<1> SUFFICES ASSUME NEW space \in Range(spaces), IInv, Switch(space)
             PROVE  IInv'
    OBVIOUS
<1>1. /\ phase = "run" /\ cr3' = space
      /\ UNCHANGED <<regions, bitmap, used, mem, spaces, destroyed, bump, asked, heap, phase>>
    BY DEF Switch
<1>2. Boot /\ Live' = Live /\ Kernel' = Kernel
    BY <1>1 DEF IInv, Live, Kernel
<1>3. RegionsAreFrames'
    BY <1>1, <1>2, SameRegions DEF Boot
<1>4. space \in Frames
    BY <1>2 DEF Boot, Range
<1>5. Boot'
    BY <1>1, <1>2, <1>3, <1>4 DEF Boot
<1> QED
    BY <1>1, <1>5, SameMemory

\* The image belongs to the kernel's space.
LEMMA ImageIsKernels ==
    ASSUME IInv, NEW lvl, NEW own, Shape(lvl, own), Live # {}
    PROVE  lvl[ImageFrame] = 5 /\ own[ImageFrame] = Kernel
<1>1. Tree(mem, lvl, own, Live, Kernel)
    BY DEF Shape
<1>2. PICK s \in Live : PaddrIn(mem, s, ImagePage) = ImageFrame
    BY DEF IInv, KernelSeenEverywhere, Paddr
<1>3. ImagePage \in Page /\ ImagePage[1] \notin UserSlots /\ ImageFrame # NULL
    BY Pages, MemoryAssumption
<1> QED
    BY <1>1, <1>2, <1>3, PathLevels

LEMMA VmmDestroyStep == \A space \in Range(spaces) : IInv /\ VmmDestroy(space) => IInv'
<1> SUFFICES ASSUME NEW s \in Range(spaces), IInv, VmmDestroy(s)
             PROVE  IInv'
    OBVIOUS
<1>1. /\ phase = "run" /\ s \notin destroyed /\ s # spaces[1]
      /\ used' = used \ Owned(s) /\ destroyed' = destroyed \cup {s}
      /\ asked' = {a \in asked : a.space # s}
      /\ UNCHANGED <<regions, bitmap, mem, cr3, spaces, bump, heap, phase>>
    BY DEF VmmDestroy
<1>2. Boot /\ UserPagesMapped /\ KernelSeenEverywhere /\ NothingElseMapped /\ spaces # <<>>
    BY <1>1 DEF IInv, Boot
<1>3. s \in Live /\ s # Kernel /\ Kernel' = Kernel /\ Live' = Live \ {s}
    BY <1>1, <1>2 DEF Live, Kernel
<1>4. PICK lvl, own : Shape(lvl, own)
    BY DEF IInv
<1>5. /\ Tree(mem, lvl, own, Live, Kernel) /\ used = Reserved \cup Busy(lvl) /\ lvl \in Levels
      /\ \A f \in Reserved : lvl[f] # 0 => f = ImageFrame
    BY <1>1, <1>4 DEF Shape, Tree, Typed
<1>6. lvl[ImageFrame] = 5 /\ own[ImageFrame] = Kernel
    BY <1>3, <1>4, ImageIsKernels
<1>7. Owned(s) = {f \in Frames : lvl[f] # 0 /\ own[f] = s}
    BY <1>3, <1>5, OwnedIsOwned
<1> DEFINE lvl2 == [f \in Frames |-> IF lvl[f] # 0 /\ own[f] = s THEN 0 ELSE lvl[f]]
<1>8. Tree(mem', lvl2, own, Live', Kernel')
    <2>1. Tree(mem, lvl2, own, Live \ {s}, Kernel)
        BY <1>3, <1>5, OneRootLess
    <2> QED
        BY <1>1, <1>3, <2>1
<1>9. \A f \in Frames : lvl2[f] = IF lvl[f] # 0 /\ own[f] = s THEN 0 ELSE lvl[f]
    OBVIOUS
<1> HIDE DEF lvl2
<1>10. RegionsAreFrames' /\ Reserved' = Reserved /\ Reserved \in SUBSET Frames /\ ImageFrame \in Reserved
    BY <1>1, <1>2, SameRegions, ReservedFrames DEF Boot
<1>11. used' = Reserved \cup Busy(lvl2)
    <2>1. Busy(lvl2) = Busy(lvl) \ Owned(s)
        BY <1>7, <1>9 DEF Busy
    <2>2. Reserved \cap Owned(s) = {}
        BY <1>3, <1>5, <1>6, <1>7
    <2> QED
        BY <1>1, <1>5, <2>1, <2>2
<1>12. Shape(lvl2, own)'
    <2>1. \A f \in Reserved : lvl2[f] # 0 => f = ImageFrame
        BY <1>5, <1>9, <1>10
    <2>2. lvl2[ImageFrame] \in {0, 5}
        BY <1>6, <1>9, <1>10
    <2> QED
        BY <1>1, <1>2, <1>8, <1>10, <1>11, <2>1, <2>2 DEF Shape
<1>13. Boot'
    <2>1. asked' \subseteq [space : Live', page : UserPages, frame : Frames]
        BY <1>1, <1>2, <1>3 DEF Boot
    <2>2. destroyed' \subseteq Range(spaces') /\ Kernel' \notin destroyed'
        BY <1>1, <1>2, <1>3 DEF Boot
    <2> QED
        BY <1>1, <1>2, <1>10, <2>1, <2>2 DEF Boot
<1>14. UserPagesMapped'
    BY <1>1, <1>2 DEF UserPagesMapped, Paddr
<1>15. KernelSeenEverywhere'
    BY <1>1, <1>2, <1>3 DEF KernelSeenEverywhere, Paddr
<1>16. NothingElseMapped'
    <2> SUFFICES ASSUME NEW r \in Live \ {s}, NEW q \in Page, PaddrIn(mem, r, q) # NULL
                 PROVE  \/ q = ImagePage \/ \E k \in 1..bump : q = HeapPages[k]
                        \/ \E a \in asked' : a.space = r /\ a.page = q
        BY <1>1, <1>3 DEF NothingElseMapped
    <2> QED
        BY <1>1, <1>2 DEF NothingElseMapped
<1> QED
    BY <1>12, <1>13, <1>14, <1>15, <1>16 DEF IInv

LEMMA NextIInv == IInv /\ [Next]_vars => IInv'
<1> SUFFICES ASSUME IInv, [Next]_vars
             PROVE  IInv'
    OBVIOUS
<1>1. CASE Next
    BY <1>1, PmmInitStep, VmmInitStep, KmallocStep, VmmCreateStep, EnableStep, MapUserStep, SwitchStep, VmmDestroyStep DEF Next
<1>2. CASE UNCHANGED vars
    BY <1>2 DEF vars, IInv, Boot, RegionsAreFrames, UsableFrames, FramesOf, Shape, Live, Kernel, Reserved,
                UserPagesMapped, KernelSeenEverywhere, NothingElseMapped, Paddr
<1> QED
    BY <1>1, <1>2

\* The frames in use always have a shape: a tree of tables for each live
\* space, and a place of its own for every page.
THEOREM InductiveInvariant == Spec => []IInv
<1>1. Init => IInv
    BY InitIInv
<1>2. IInv /\ [Next]_vars => IInv'
    BY NextIInv
<1> QED
    BY <1>1, <1>2, PTL DEF Spec

\* A page that a loader asked vmm_map() for leads to the frame that the loader
\* copies to, whatever is mapped, created or destroyed afterwards.
THEOREM UserPagesStayMapped == Spec => []UserPagesMapped
<1>1. IInv => UserPagesMapped
    BY DEF IInv
<1> QED
    BY <1>1, InductiveInvariant, PTL

\* Copying the kernel half once is enough: every address space sees the image
\* and every heap page, those mapped after it was created too.
THEOREM KernelStaysSeen == Spec => []KernelSeenEverywhere
<1>1. IInv => KernelSeenEverywhere
    BY DEF IInv
<1> QED
    BY <1>1, InductiveInvariant, PTL

\* pmm_alloc() and vmm_map() never give a frame two uses, nor one that is the
\* bitmap's, the image's or not memory.
THEOREM FramesHaveOneUse == Spec => []OneUsePerFrame
<1>1. IInv => OneUsePerFrame
    <2> SUFFICES ASSUME IInv
                 PROVE  OneUsePerFrame
        OBVIOUS
    <2>1. PICK lvl, own : Shape(lvl, own)
        BY DEF IInv
    <2>2. Tree(mem, lvl, own, Live, Kernel)
        BY <2>1 DEF Shape
    <2>3. lvl \in Levels /\ mem \in Memories /\ OneEntry(mem, lvl)
        BY <2>2 DEF Tree, Typed
    <2>4. /\ Live = {f \in Frames : lvl[f] = 1} /\ Pdpts = {f \in Frames : lvl[f] = 2}
          /\ Pds = {f \in Frames : lvl[f] = 3} /\ Pts = {f \in Frames : lvl[f] = 4}
          /\ Leaves = {f \in Frames : lvl[f] = 5}
        BY <2>2, LevelsAreSets
    <2>5. Live \cup Pdpts \cup Pds \cup Pts \cup (Leaves \ {ImageFrame}) \subseteq Frames \ Reserved
        <3>1. (\A f \in Reserved : lvl[f] # 0 => f = ImageFrame) /\ lvl[ImageFrame] \in {0, 5}
            BY <2>1 DEF Shape
        <3> QED
            BY <2>4, <3>1
    <2>6. \A t, u \in Pdpts \cup Pds \cup Pts : \A i, j \in Index :
             mem[t][i] # NULL /\ mem[t][i] = mem[u][j] => t = u /\ i = j
        BY <2>3, <2>4 DEF OneEntry, IsTable
    <2>7. \A s, t \in Live : \A i, j \in Index :
             mem[s][i] # NULL /\ mem[s][i] = mem[t][j] => i = j /\ (s = t \/ i \notin UserSlots)
        BY <2>3, <2>4 DEF OneEntry, IsTable
    <2>8. /\ Live \cap (Pdpts \cup Pds \cup Pts \cup Leaves) = {}
          /\ (Pdpts \cup Pds \cup Pts) \cap Leaves = {}
          /\ Pdpts \cap (Pds \cup Pts) = {} /\ Pds \cap Pts = {}
        BY <2>4
    <2> HIDE DEF Live, Pdpts, Pds, Pts, Leaves
    <2> QED
        BY <2>5, <2>6, <2>7, <2>8 DEF OneUsePerFrame
<1> QED
    BY <1>1, InductiveInvariant, PTL

\* vmm_destroy() frees all that only the dead process used, and nothing else:
\* a set bit of the bitmap is a frame in use or one that is not for use.
THEOREM NothingLeaks == Spec => []UsedIsReachable
<1>1. IInv => UsedIsReachable
    <2> SUFFICES ASSUME IInv, phase # "pmm_init"
                 PROVE  used = Reserved \cup Live \cup Pdpts \cup Pds \cup Pts \cup Leaves
        BY DEF UsedIsReachable
    <2>1. PICK lvl, own : Shape(lvl, own)
        BY DEF IInv
    <2>2. Tree(mem, lvl, own, Live, Kernel) /\ used = Reserved \cup Busy(lvl)
        BY <2>1 DEF Shape
    <2>3. \A f \in Frames : lvl[f] \in 0..5
        BY <2>2 DEF Tree, Typed, Levels
    <2>4. Busy(lvl) = Live \cup Pdpts \cup Pds \cup Pts \cup Leaves
        BY <2>2, <2>3, LevelsAreSets DEF Busy
    <2> QED
        BY <2>2, <2>4
<1> QED
    BY <1>1, InductiveInvariant, PTL

\* The types, and no PML4 is given out twice.
THEOREM TypeCorrect == Spec => []TypeOK
<1>1. IInv => TypeOK
    <2> SUFFICES ASSUME IInv
                 PROVE  TypeOK
        OBVIOUS
    <2>1. Boot
        BY DEF IInv
    <2>2. PICK lvl, own : Shape(lvl, own)
        BY DEF IInv
    <2>3. mem \in Memories
        BY <2>2 DEF Shape, Tree, Typed
    <2>4. used \subseteq Frames
        BY <2>1, <2>2, ReservedFrames DEF Shape, Busy, Boot
    <2>5. Range(spaces) \subseteq Frames /\ Range(heap) \subseteq Frames
        BY <2>1 DEF Boot, Range
    <2> QED
        BY <2>1, <2>3, <2>4, <2>5 DEF TypeOK, Boot, Memories
<1> QED
    BY <1>1, InductiveInvariant, PTL
=============================================================================
