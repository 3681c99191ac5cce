-------------------------- MODULE MCModuleRegistry --------------------------
(***************************************************************************)
(* A small instance of ModuleRegistry: three threads, and two details that *)
(* claim the same name beside one that does not.                           *)
(***************************************************************************)
EXTENDS ModuleRegistry, TLC

CONSTANTS t1, t2, t3, fs, net, fsA, fsB, netA

MCSpecialerOf == fsA :> fs @@ fsB :> fs @@ netA :> net
=============================================================================
