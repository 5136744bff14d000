----------------------------- MODULE MC_Kheap -----------------------------
(***************************************************************************)
(* Kheap scaled down: pages of 10 bytes with a header of 2, caches whose   *)
(* slabs hold two objects and one, and big objects of two pages, which are *)
(* larger than a header can record.                                        *)
(***************************************************************************)
EXTENDS Kheap

MCCacheSizes == <<4, 8>>
MCSizes == {3, 8, 9}
=============================================================================
