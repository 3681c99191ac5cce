--------------------------- MODULE MCWinRegistry ---------------------------
(***************************************************************************)
(* A small instance of WinRegistry.  An enumeration has three names, one   *)
(* longer than the others.  Values have up to four bytes, and a byte only  *)
(* two contents; a DWORD has two bytes, a QWORD three, and above 4 only    *)
(* every fourth number is a double.                                        *)
(***************************************************************************)
EXTENDS WinRegistry

CONSTANTS a, b, long

MCSize == [n \in Names |-> IF n = long THEN 2 ELSE 1]

MCMaxNames == [k \in Kinds |-> IF k = "key" THEN 3 ELSE 1]

MCContents == [n \in 0 .. Wrap - 1 |-> 2 ^ n]

MCDoubles == (0 .. 4) \cup {8}

MCSymmetry == Permutations(Names \ {long})
=============================================================================
