------------------------------ MODULE MCMemory ------------------------------
(* Instances of Memory: three indices at each level, slot 0 for users, slot 1 *)
(* for the image and slot 2 for the heap, whose pages cross a page table.   *)
EXTENDS Memory

MCFrames == 0..47

Region(base, length, type) == [base |-> base, length |-> length, type |-> type]

\* The bitmap, of two frames, does not fit the first region of one map; there
\* are holes, reclaimable memory and a frame buffer above the end.
MCMaps == {
    <<Region(0, 1, "LIMINE_MEMMAP_KERNEL_AND_MODULES"), Region(1, 39, "LIMINE_MEMMAP_USABLE"),
      Region(44, 2, "LIMINE_MEMMAP_FRAMEBUFFER")>>,
    <<Region(0, 1, "LIMINE_MEMMAP_KERNEL_AND_MODULES"), Region(1, 1, "LIMINE_MEMMAP_USABLE"),
      Region(2, 1, "LIMINE_MEMMAP_BOOTLOADER_RECLAIMABLE"), Region(4, 36, "LIMINE_MEMMAP_USABLE"),
      Region(42, 1, "LIMINE_MEMMAP_ACPI_NVS")>>}

MCIndex == 0..2
MCUserSlots == {0}
MCImagePage == <<1, 2, 2, 2>>
MCHeapPages == <<<<2, 0, 1, 2>>, <<2, 0, 2, 0>>, <<2, 0, 2, 1>>>>
MCUserPages == {<<0, 0, 2, 0>>, <<0, 0, 2, 1>>, <<0, 1, 0, 1>>}
=============================================================================
