------------------------------- MODULE Lists -------------------------------
(***************************************************************************)
(* Singly linked lists, as sequences: the kernel pushes at the head and    *)
(* unlinks an element wherever it finds it.                                *)
(***************************************************************************)
EXTENDS Integers, Sequences, Functions

Pushed(s, x) == <<x>> \o s

\* The place of x on the list, the first if there were several.
PlaceOf(s, x) == CHOOSE n \in DOMAIN s : s[n] = x /\ \A m \in 1 .. n - 1 : s[m] # x

\* s without its n-th element.
Unlinked(s, n) == SubSeq(s, 1, n - 1) \o SubSeq(s, n + 1, Len(s))
=============================================================================
