------------------------------ MODULE LinuxList ------------------------------
(***************************************************************************)
(* The doubly linked lists of the kernel (linux/list.h), as the modules    *)
(* use them: a sequence of entries.                                        *)
(***************************************************************************)
EXTENDS Naturals, Sequences, Functions

\* The place of an entry, and list_del: the list without it.
Index(s, p)   == CHOOSE i \in 1..Len(s) : s[i] = p
Without(s, p) == [i \in 1..(Len(s) - 1) |-> IF i < Index(s, p) THEN s[i] ELSE s[i + 1]]
=============================================================================
