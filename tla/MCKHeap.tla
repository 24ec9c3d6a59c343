------------------------------ MODULE MCKHeap ------------------------------
(***************************************************************************)
(* KHeap with eight pages of two bytes, and a word of six bits.  The sizes *)
(* cover zero, one byte, a full page, a page and a byte, the largest block,*)
(* more than the largest block, more than the heap, and the sizes whose    *)
(* rounding wraps around.                                                  *)
(***************************************************************************)
EXTENDS KHeap

MCSizes == {0, 1, 2, 3, 5, 8, 9, 17, 63}
=============================================================================
