------------------------------- MODULE Memory -------------------------------
(***************************************************************************)
(* Physical frames, page tables and the kernel heap: the bitmap allocator  *)
(* and its start from the memory map of the boot loader, the four-level    *)
(* tables that the virtual memory manager builds in frames of its own,     *)
(* address spaces that share the kernel half, and the bump allocator that  *)
(* maps a frame for each page it hands out.                                *)
(*                                                                         *)
(* The actions follow kmain(): memory is initialised, drivers allocate,    *)
(* user programs are loaded one after the other, and once the scheduler is *)
(* enabled the clean-up daemon destroys the address spaces of dead         *)
(* processes while any surviving one is in cr3.  No code allocates after   *)
(* boot.                                                                   *)
(***************************************************************************)
EXTENDS Integers, Sequences, FiniteSets, SequencesExt

CONSTANTS
    Frames,         \* page frames of the machine, by number
    Maps,           \* memory maps a boot loader may hand over
    BITS,           \* bits of the bitmap in a frame, scaled down from 2^15
    ImageFrame,     \* the frame of the kernel image
    Index,          \* indices of a table, scaled down from 0..511
    UserSlots,      \* indices of a PML4 below K_PAGE_START
    ImagePage,      \* virtual page of the kernel image, as its four indices
    HeapPages,      \* virtual pages of the heap in the order of bump_pointer
    UserPages,      \* virtual pages of a user program and its stacks
    NULL,           \* an entry that is not present
    MaxSpaces       \* bound on the calls of vmm_create()

LEVELS == 4

ASSUME MemoryAssumption ==
    /\ Frames \subseteq Nat /\ IsFiniteSet(Frames) /\ BITS \in Nat \ {0}
    /\ ImageFrame \in Frames
    /\ \A map \in Maps : Len(map) \in Nat /\ DOMAIN map = 1..Len(map)
    /\ \A map \in Maps : \A k \in DOMAIN map :
          /\ map[k].base \in Nat /\ map[k].length \in Nat
          /\ map[k].base..map[k].base + map[k].length - 1 \subseteq Frames
          /\ map[k].type = "LIMINE_MEMMAP_USABLE" =>
                ImageFrame \notin map[k].base..map[k].base + map[k].length - 1
    /\ UserSlots \subseteq Index
    /\ NULL \notin Frames
    /\ ImagePage \in [1..LEVELS -> Index]
    /\ HeapPages \in Seq([1..LEVELS -> Index])
    /\ UserPages \subseteq [1..LEVELS -> Index]
    /\ ImagePage[1] \notin UserSlots
    /\ IsInjective(HeapPages) /\ ImagePage \notin Range(HeapPages)
    /\ \A k \in DOMAIN HeapPages :
          HeapPages[k][1] = HeapPages[1][1] /\ HeapPages[k][1] \notin UserSlots
    /\ \A p \in UserPages : p[1] \in UserSlots
    /\ MaxSpaces \in Nat

VARIABLES
    regions,    \* the memory map, as boot_info has it
    bitmap,     \* frames that hold pmm_bitmap
    used,       \* frames whose bit is set in pmm_bitmap
    mem,        \* the entries each frame holds when it is read as a table
    cr3,        \* PML4 the CPU uses
    spaces,     \* PML4s in the order of their creation, the kernel's first
    destroyed,  \* those passed to vmm_destroy()
    bump,       \* pages the heap has handed out
    asked,      \* what callers mapped in live user spaces: space, page, frame
    heap,       \* the frame of each heap page
    phase       \* progress of kmain()

vars == <<regions, bitmap, used, mem, cr3, spaces, destroyed, bump, asked, heap, phase>>

\* get_type()
GetType(limine_type) ==
    CASE limine_type = "LIMINE_MEMMAP_USABLE" -> "MEM_USABLE"
      [] limine_type = "LIMINE_MEMMAP_KERNEL_AND_MODULES" -> "MEM_KERNEL"
      [] limine_type = "LIMINE_MEMMAP_FRAMEBUFFER" -> "MEM_FRAMEBUFFER"
      [] limine_type = "LIMINE_MEMMAP_ACPI_RECLAIMABLE" -> "MEM_ACPI"
      [] limine_type = "LIMINE_MEMMAP_BOOTLOADER_RECLAIMABLE" -> "MEM_BOOTLOADER"
      [] limine_type = "LIMINE_MEMMAP_BAD_MEMORY" -> "MEM_BAD"
      [] OTHER -> "MEM_RESERVED"

\* get_boot_entry(), in units of frames: maps are aligned to them.
BootEntry(map) ==
    [k \in DOMAIN map |->
        [offset |-> map[k].base, size |-> map[k].length, type |-> GetType(map[k].type)]]

EmptyTable == [i \in Index |-> NULL]

\* Memory is taken to be clear when the machine starts: no frame is cleared
\* before it becomes a table below the first level.
Init ==
    /\ \E map \in Maps : regions = BootEntry(map)
    /\ bitmap = {} /\ used = {}
    /\ mem = [f \in Frames |-> EmptyTable]
    /\ cr3 = NULL /\ spaces = <<>> /\ destroyed = {}
    /\ bump = 0
    /\ asked = {} /\ heap = <<>>
    /\ phase = "pmm_init"
-----------------------------------------------------------------------------
(* Frames *)

FramesOf(region) == region.offset..region.offset + region.size - 1

UsableFrames == UNION {FramesOf(regions[k]) : k \in {j \in DOMAIN regions : regions[j].type = "MEM_USABLE"}}

\* get_total_memory_size(): the end of the last region of memory proper.
TotalFrames ==
    Max({0} \cup {regions[k].offset + regions[k].size :
                     k \in {j \in DOMAIN regions : regions[j].type \in {"MEM_USABLE", "MEM_KERNEL"}}})

\* Regions the bitmap fits in, its size compared in bytes.
FitsBitmap(region) == region.type = "MEM_USABLE" /\ region.size * BITS > TotalFrames

\* The frames from the start of the region on that the bitmap fills.
BitmapIn(region) == region.offset..region.offset + (TotalFrames + BITS - 1) \div BITS - 1

\* All marked, usable regions cleared, and the bitmap's own frames marked.
UsedAtFirst(frames) == (Frames \ UsableFrames) \cup frames

\* pmm_init()
PmmInit ==
    /\ phase = "pmm_init"
    /\ \E k \in DOMAIN regions :
          /\ FitsBitmap(regions[k]) /\ \A j \in 1..k - 1 : ~FitsBitmap(regions[j])
          /\ bitmap' = BitmapIn(regions[k])
    /\ used' = UsedAtFirst(bitmap')
    /\ phase' = "vmm_init"
    /\ UNCHANGED <<regions, mem, cr3, spaces, destroyed, bump, asked, heap>>

\* pmm_alloc(): the first clear bit.
FirstFree(taken) == CHOOSE f \in Frames \ taken : \A g \in Frames \ taken : f <= g

\* A bit that is found but not set.
Unmarked(taken, f) == taken

Taken(taken, f) == taken \cup {f}

\* Bound: the machine has frames enough, or the kernel panics.
Room == Cardinality(Frames \ used) > LEVELS + 1
-----------------------------------------------------------------------------
(* Page tables *)

\* A frame that becomes a table without being marked.
DescendUnmarked(w, i) ==
    LET f == FirstFree(w.used)
    IN  IF w.mem[w.table][i] # NULL
        THEN [w EXCEPT !.table = w.mem[w.table][i]]
        ELSE [mem |-> [w.mem EXCEPT ![w.table][i] = f], used |-> w.used, table |-> f]

\* vmm_map(), one level: follow an entry, or put a new table there.  The
\* frame of the new table is not cleared.
Descend(w, i) ==
    LET f == FirstFree(w.used)
    IN  IF w.mem[w.table][i] # NULL
        THEN [w EXCEPT !.table = w.mem[w.table][i]]
        ELSE [mem |-> [w.mem EXCEPT ![w.table][i] = f], used |-> Taken(w.used, f), table |-> f]

\* The frames and tables after vmm_map(space, page, frame); a page that is
\* mapped already keeps its frame.
Mapped(m, u, space, page, frame) ==
    LET pdpt == Descend([mem |-> m, used |-> u, table |-> space], page[1])
        pd == Descend(pdpt, page[2])
        pt == Descend(pd, page[3])
    IN  [mem |-> IF pt.mem[pt.table][page[4]] # NULL THEN pt.mem
                 ELSE [pt.mem EXCEPT ![pt.table][page[4]] = frame],
         used |-> pt.used]

\* vmm_get_paddr(): the frame of a page, NULL if an entry on the way is not
\* present.
Follow(m, table, i) == IF table = NULL THEN NULL ELSE m[table][i]
PaddrIn(m, space, page) ==
    Follow(m, Follow(m, Follow(m, Follow(m, space, page[1]), page[2]), page[3]), page[4])
Paddr(space, page) == PaddrIn(mem, space, page)

\* vmm_init(): a cleared PML4 with the kernel image in it.  (The map of all
\* physical memory is what lets mem be read by frame.)
VmmInit ==
    /\ phase = "vmm_init" /\ Room
    /\ LET root == FirstFree(used)
           new == Mapped(mem, Taken(used, root), root, ImagePage, ImageFrame)
       IN  /\ mem' = new.mem /\ used' = new.used
           /\ cr3' = root /\ spaces' = <<root>>
    /\ phase' = "drivers"
    /\ UNCHANGED <<regions, bitmap, destroyed, bump, asked, heap>>

\* kmalloc() of one page: the frame first, then its mapping in whatever space
\* is current.
Kmalloc ==
    /\ phase \in {"drivers", "load"} /\ Room
    /\ bump < Len(HeapPages)
    /\ LET f == FirstFree(used)
           new == Mapped(mem, Taken(used, f), cr3, HeapPages[bump + 1], f)
       IN  /\ mem' = new.mem /\ used' = new.used
           /\ heap' = Append(heap, f)
    /\ bump' = bump + 1
    /\ phase' = "load"          \* scheduler_init() has allocated by then
    /\ UNCHANGED <<regions, bitmap, cr3, spaces, destroyed, asked>>

\* Cleared only.
NoKernelHalf(root, current) == EmptyTable

\* The new PML4: cleared, with the kernel half of the current one.
NewRoot(root, current) ==
    [i \in Index |-> IF i \in UserSlots THEN NULL ELSE mem[current][i]]

\* kmain() creates spaces after scheduler_init() only.
VmmCreate ==
    /\ phase = "load" /\ Room
    /\ Len(spaces) <= MaxSpaces
    /\ LET root == FirstFree(used)
       IN  /\ mem' = [mem EXCEPT ![root] = NewRoot(root, cr3)]
           /\ used' = Taken(used, root)
           /\ spaces' = Append(spaces, root)
    /\ UNCHANGED <<regions, bitmap, cr3, destroyed, bump, asked, heap, phase>>

\* The current space, as in kmalloc().
Current(space) == cr3

\* The address space that vmm_map() gets from a loader.
Target(space) == space

\* A page of the program being loaded, or of one of its stacks.
MapUser(page) ==
    /\ phase = "load" /\ Room
    /\ Len(spaces) > 1
    /\ LET space == spaces[Len(spaces)]
           f == FirstFree(used)
           new == Mapped(mem, Taken(used, f), Target(space), page, f)
       IN  /\ \A a \in asked : a.space = space => a.page # page
           /\ mem' = new.mem /\ used' = new.used
           /\ asked' = asked \cup {[space |-> space, page |-> page, frame |-> f]}
    /\ UNCHANGED <<regions, bitmap, cr3, spaces, destroyed, bump, heap, phase>>

\* scheduler_enable()
Enable ==
    /\ phase = "load"
    /\ phase' = "run"
    /\ UNCHANGED <<regions, bitmap, used, mem, cr3, spaces, destroyed, bump, asked, heap>>

\* vmm_switch() on the way to another task.
Switch(space) ==
    /\ phase = "run"
    /\ space \notin destroyed
    /\ cr3' = space
    /\ UNCHANGED <<regions, bitmap, used, mem, spaces, destroyed, bump, asked, heap, phase>>

Present(table, among) == {mem[table][i] : i \in among} \ {NULL}

\* Without the page tables themselves.
OwnedButTables(space) ==
    LET pdpts == Present(space, UserSlots)
        pds == UNION {Present(t, Index) : t \in pdpts}
        pts == UNION {Present(t, Index) : t \in pds}
    IN  {space} \cup pdpts \cup pds \cup UNION {Present(t, Index) : t \in pts}

\* What the nested loops of vmm_destroy() free: leaves, tables and the PML4.
Owned(space) ==
    LET pdpts == Present(space, UserSlots)
        pds == UNION {Present(t, Index) : t \in pdpts}
        pts == UNION {Present(t, Index) : t \in pds}
    IN  {space} \cup pdpts \cup pds \cup pts \cup UNION {Present(t, Index) : t \in pts}

\* process_destroy() of a dead user process, from the daemon, which runs in
\* the kernel's own space.
VmmDestroy(space) ==
    /\ phase = "run" /\ cr3 = spaces[1]
    /\ space \notin destroyed \cup {spaces[1]}
    /\ used' = used \ Owned(space)
    /\ destroyed' = destroyed \cup {space}
    /\ asked' = {a \in asked : a.space # space}
    /\ UNCHANGED <<regions, bitmap, mem, cr3, spaces, bump, heap, phase>>

Next ==
    \/ PmmInit \/ VmmInit \/ Kmalloc \/ VmmCreate \/ Enable
    \/ \E page \in UserPages : MapUser(page)
    \/ \E space \in Range(spaces) : Switch(space) \/ VmmDestroy(space)

Spec == Init /\ [][Next]_vars
-----------------------------------------------------------------------------
(* Properties *)

Live == Range(spaces) \ destroyed

\* Every variable keeps its type, and vmm_create() never returns an address
\* space twice.
TypeOK ==
    /\ bitmap \cup used \subseteq Frames
    /\ mem \in [Frames -> [Index -> Frames \cup {NULL}]]
    /\ cr3 \in Frames \cup {NULL}
    /\ Range(spaces) \subseteq Frames /\ IsInjective(spaces)
    /\ destroyed \subseteq Range(spaces)
    /\ \A a \in asked : a.space \in Live /\ a.page \in UserPages /\ a.frame \in Frames
    /\ bump \in 0..Len(HeapPages)
    /\ Range(heap) \subseteq Frames

\* A page mapped by a loader leads to the frame that the loader copies to.
UserPagesMapped == \A a \in asked : Paddr(a.space, a.page) = a.frame

\* Whatever space is current, kernel code finds its image and every page that
\* kmalloc() handed out, before that space was created or after.
KernelSeenEverywhere ==
    \A s \in Live :
        /\ Paddr(s, ImagePage) = ImageFrame
        /\ \A k \in DOMAIN heap : Paddr(s, HeapPages[k]) = heap[k]

\* Tables of each level that the live spaces reach, and the pages at the end.
Below(tables) == UNION {Present(t, Index) : t \in tables}
Pdpts == Below(Live)
Pds == Below(Pdpts)
Pts == Below(Pds)
Leaves == Below(Pts)

\* What no one may be given: memory that is not usable, and the bitmap.
Reserved == (Frames \ UsableFrames) \cup bitmap

\* A frame serves one purpose: it is a table of one level or a page, reached
\* through one entry, but for the kernel half that all spaces share; and the
\* bitmap, the image and whatever is not memory are none of these.
OneUsePerFrame ==
    /\ Live \cup Pdpts \cup Pds \cup Pts \cup (Leaves \ {ImageFrame}) \subseteq Frames \ Reserved
    /\ \A t, u \in Pdpts \cup Pds \cup Pts : \A i, j \in Index :
          mem[t][i] # NULL /\ mem[t][i] = mem[u][j] => t = u /\ i = j
    /\ \A s, t \in Live : \A i, j \in Index :
          mem[s][i] # NULL /\ mem[s][i] = mem[t][j] =>
              i = j /\ (s = t \/ i \notin UserSlots)
    /\ Live \cap (Pdpts \cup Pds \cup Pts \cup Leaves) = {}
    /\ (Pdpts \cup Pds \cup Pts) \cap Leaves = {}
    /\ Pdpts \cap (Pds \cup Pts) = {} /\ Pds \cap Pts = {}

\* The allocated frames are those in use: a destroyed space leaks none, and
\* nothing that a live one uses has been freed.
UsedIsReachable ==
    phase # "pmm_init" => used = Reserved \cup Live \cup Pdpts \cup Pds \cup Pts \cup Leaves
=============================================================================
