------------------------------ MODULE MC_FatFS ---------------------------------
(***************************************************************************)
(* FatFS for TLC: two file names, one directory entry per block so that  *)
(* the root directory grows a second block, two-byte blocks so that the  *)
(* host sizes 1, 2 and 3 give files of one and two blocks.                *)
(***************************************************************************)
EXTENDS FatFS

\* Host files: missing (-1), one block, two blocks.
SomeHostSizes == {-1, 1, 3}

\* mv of a file onto another, both ways.
MvDistinct == {<<"a", "b">>, <<"b", "a">>}

\* chmod +w, -r, =x (refused: 1), +rwx.
SomeModes == {[op |-> "+", bits |-> <<2>>], [op |-> "-", bits |-> <<4>>],
              [op |-> "=", bits |-> <<1>>], [op |-> "+", bits |-> <<4, 2, 1>>]}
====
