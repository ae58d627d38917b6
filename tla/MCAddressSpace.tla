--------------------------- MODULE MCAddressSpace ---------------------------
(* TLC instances of AddressSpace: page tables of four pages; the segment in *)
(* page 1, the heap from page 3, the stack in 5..7, mmap from page 8 on.     *)
EXTENDS AddressSpace

MCFrames == 0 .. 16
MCBreaks == {7, 9}
MCFixedAt == {5, 10}
MCCallAt == {3, 5, 8}
MCCallLens == {1, 3}
==============================================================================
