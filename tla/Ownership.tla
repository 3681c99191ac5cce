----------------------------- MODULE Ownership -----------------------------
(***************************************************************************)
(* What shared ownership of native objects promises, without counters:     *)
(* an object comes to life together with its first owner, changes hands    *)
(* only between the owners of the moment, and is destroyed once, after its *)
(* last owner has let go of it.                                            *)
(*                                                                         *)
(* A slot is anything that can own an object: a JxxObjectPtr, or the       *)
(* external-data field of a JavaScript object.  JxxObject.tla implements   *)
(* this module with the reference count of jxx.class.h.                    *)
(***************************************************************************)
CONSTANTS Objects,   \* the native objects that can be created in a run
          Slots,     \* the places that can own one
          Null       \* an empty slot

VARIABLES refs,      \* refs[s]: the object slot s owns, or Null
          life       \* life[o]: "unborn", "alive" or "deleted"

vars == <<refs, life>>

Owners(o) == {s \in Slots : refs[s] = o}

Init == /\ refs = [s \in Slots |-> Null]
        /\ life = [o \in Objects |-> "unborn"]

\* A new object and its first owner.
Create(s, o) == /\ life[o] = "unborn"
                /\ refs' = [refs EXCEPT ![s] = o]
                /\ life' = [life EXCEPT ![o] = "alive"]

\* A new object whose first owner could not be made.
CreateFails(o) == /\ life[o] = "unborn"
                  /\ life' = [life EXCEPT ![o] = "deleted"]
                  /\ UNCHANGED refs

\* Slot s comes to own what another slot owns, which may be nothing.
Share(s, from) == /\ refs' = [refs EXCEPT ![s] = refs[from]]
                  /\ UNCHANGED life

\* Slot s takes over what another slot owns and leaves that one empty.
Move(s, from) == /\ refs' = [refs EXCEPT ![from] = Null, ![s] = refs[from]]
                 /\ UNCHANGED life

Drop(s) == /\ refs' = [refs EXCEPT ![s] = Null]
           /\ UNCHANGED life

\* Destruction is for the unowned only.
Destroy(o) == /\ life[o] = "alive"
              /\ Owners(o) = {}
              /\ life' = [life EXCEPT ![o] = "deleted"]
              /\ UNCHANGED refs

Next == \/ \E s \in Slots, o \in Objects : Create(s, o)
        \/ \E o \in Objects : CreateFails(o) \/ Destroy(o)
        \/ \E s, from \in Slots : Share(s, from) \/ Move(s, from)
        \/ \E s \in Slots : Drop(s)

Spec == Init /\ [][Next]_vars
============================================================================
