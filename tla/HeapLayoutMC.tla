----------------------------- MODULE HeapLayoutMC -----------------------------
(* Memories for HeapLayout: images of every alignment, in a RAM in which they *)
(* leave five pages and less, and in the RAM of the two linker scripts.       *)
(* BASE_ADDRESS is 2 MB above RAM_START; the image takes some pages more.     *)
EXTENDS HeapLayout

BASE_PAGE == 512

ImageEnds == {BASE_PAGE * PAGE_SIZE + n : n \in {36864, 36865, 40959, 40960, 40961, 49160}}

TightRam == {BASE_PAGE + 22}
QemuRam == {31488}      \* 0x07B00000 bytes, qemu.ld
BoardRam == {2097152}   \* 0x200000000 bytes, os.ld

TightAndQemuRam == TightRam \union QemuRam
==============================================================================
