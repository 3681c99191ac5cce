--------------------------- MODULE MCJxxObject ------------------------------
(***************************************************************************)
(* A small instance of JxxObject: two threads that can both use the same   *)
(* objects, pointers of two classes, an object that implements both        *)
(* classes and one that implements the first only.                         *)
(***************************************************************************)
EXTENDS JxxObject, TLC

CONSTANTS t1, t2, o1, o2, p1, p2, p3, j1, Base, Derived

MCClassOf == p1 :> Base @@ p2 :> Derived @@ p3 :> Base
MCClassesOf == o1 :> {Base, Derived} @@ o2 :> {Base}
=============================================================================
