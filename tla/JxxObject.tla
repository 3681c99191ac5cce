----------------------------- MODULE JxxObject -----------------------------
(***************************************************************************)
(* Lifetime of the native objects that are bound to JavaScript: the        *)
(* intrusive count of JxxClassTemplateNE, the smart pointer JxxObjectPtr,  *)
(* and the external-data field of a JavaScript object, which the garbage   *)
(* collector releases through JxxRelease.                                  *)
(*                                                                         *)
(* A pointer operation first exchanges the slot, then calls AddRef on what *)
(* it stored and then Release on what it replaced; Release decrements and  *)
(* then deletes.  These steps of one thread interleave with those of the   *)
(* others, because an object (the module registry, say) may be shared      *)
(* between runtimes and the count is the only thing they synchronise on.   *)
(***************************************************************************)
EXTENDS Integers, FiniteSets

CONSTANTS Threads,    \* one per runtime: a JavaScript engine is single threaded
          Objects,    \* native objects that can be created; an identity is used once
          Ptrs,       \* JxxObjectPtr variables; a null one is also one not in scope
          JsObjects,  \* external JavaScript objects; a collected one is used again
          Classes,    \* C++ classes, as QueryClass identifies them
          ClassOf,    \* ClassOf[p]: the template argument of JxxObjectPtr p
          ClassesOf,  \* ClassesOf[o]: the classes that QueryClass finds in object o
          Null

Slots == Ptrs \cup JsObjects

ASSUME ThreadsAssumption == IsFiniteSet(Threads) /\ Null \notin Threads
ASSUME ObjectsAssumption == Null \notin Objects
ASSUME SlotsAssumption == /\ IsFiniteSet(Ptrs)
                          /\ IsFiniteSet(JsObjects)
                          /\ Ptrs \cap JsObjects = {}
                          /\ Null \notin Ptrs \cup JsObjects
ASSUME ClassAssumption == /\ ClassOf \in [Ptrs -> Classes]
                          /\ ClassesOf \in [Objects -> SUBSET Classes]

VARIABLES
  refs,       \* refs[p]: nake_ of pointer p; refs[j]: the external data of j
  live,       \* the JavaScript objects that exist
  home,       \* home[s]: the thread that uses slot s
  life,       \* life[o]: "unborn", "alive" or "deleted"
  ref_count,  \* ref_count[o]: ref_count_ of object o
  adding,     \* adding[t]: the slot thread t has stored and must AddRef for
  releasing,  \* releasing[t]: the object thread t has replaced and must Release
  deleting    \* deleting[t]: the object thread t has decremented to zero

vars == <<refs, live, home, life, ref_count, adding, releasing, deleting>>

Idle(t) == adding[t] = Null /\ releasing[t] = Null /\ deleting[t] = Null

Init == /\ refs = [s \in Slots |-> Null]
        /\ live = {}
        /\ home \in [Slots -> Threads]
        /\ life = [o \in Objects |-> "unborn"]
        /\ ref_count = [o \in Objects |-> 0]
        /\ adding = [t \in Threads |-> Null]
        /\ releasing = [t \in Threads |-> Null]
        /\ deleting = [t \in Threads |-> Null]

-----------------------------------------------------------------------------
(* The steps every pointer operation is made of.                           *)

\* Mutant: the reference is stored and never counted.
ExchangeUncounted(t, s, o) ==
  /\ refs' = [refs EXCEPT ![s] = o]
  /\ releasing' = [releasing EXCEPT ![t] = refs[s]]
  /\ UNCHANGED adding

\* reset(o, true): the slot changes at once, the counts follow.
Exchange(t, s, o) ==
  /\ refs' = [refs EXCEPT ![s] = o]
  /\ adding' = [adding EXCEPT ![t] = IF o = Null THEN Null ELSE s]
  /\ releasing' = [releasing EXCEPT ![t] = refs[s]]

\* Mutant: one reference counted twice.
AddRefTwice(t) ==
  /\ adding[t] # Null
  /\ ref_count' = [ref_count EXCEPT ![refs[adding[t]]] = @ + 2]
  /\ adding' = [adding EXCEPT ![t] = Null]
  /\ UNCHANGED <<refs, live, home, life, releasing, deleting>>

AddRef(t) ==
  /\ adding[t] # Null
  /\ ref_count' = [ref_count EXCEPT ![refs[adding[t]]] = @ + 1]
  /\ adding' = [adding EXCEPT ![t] = Null]
  /\ UNCHANGED <<refs, live, home, life, releasing, deleting>>

\* Mutant: the object is deleted while one reference is left.
ReleaseEarly(t) ==
  LET o == releasing[t]
      rc == ref_count[o] - 1
  IN /\ adding[t] = Null
     /\ o # Null
     /\ ref_count' = [ref_count EXCEPT ![o] = rc]
     /\ releasing' = [releasing EXCEPT ![t] = Null]
     /\ deleting' = [deleting EXCEPT ![t] = IF rc <= 1 THEN o ELSE Null]
     /\ UNCHANGED <<refs, live, home, life, adding>>

\* Mutant: the pointer that was released is not forgotten.
ReleaseAgain(t) ==
  LET o == releasing[t]
      rc == ref_count[o] - 1
  IN /\ adding[t] = Null
     /\ o # Null
     /\ ref_count' = [ref_count EXCEPT ![o] = rc]
     /\ deleting' = [deleting EXCEPT ![t] = IF rc = 0 THEN o ELSE Null]
     /\ UNCHANGED <<refs, live, home, life, adding, releasing>>

\* Release: the decrement is atomic and tells one caller that it was the last.
Release(t) ==
  LET o == releasing[t]
      rc == ref_count[o] - 1
  IN /\ adding[t] = Null
     /\ o # Null
     /\ ref_count' = [ref_count EXCEPT ![o] = rc]
     /\ releasing' = [releasing EXCEPT ![t] = Null]
     /\ deleting' = [deleting EXCEPT ![t] = IF rc = 0 THEN o ELSE Null]
     /\ UNCHANGED <<refs, live, home, life, adding>>

DeleteThis(t) ==
  /\ deleting[t] # Null
  /\ life' = [life EXCEPT ![deleting[t]] = "deleted"]
  /\ deleting' = [deleting EXCEPT ![t] = Null]
  /\ UNCHANGED <<refs, live, home, ref_count, adding, releasing>>

-----------------------------------------------------------------------------
(* JxxObjectPtr.  A thread starts an operation when its last one is over,  *)
(* on slots it uses itself.                                                *)

\* query_cast: the object itself when its QueryClass knows the class.
Cast(o, class) == IF o # Null /\ class \in ClassesOf[o] THEN o ELSE Null

\* JxxObjectPtr<X> p = new X(...).  The count of a new object is zero.
MakeObject(t, p, o) ==
  /\ Idle(t) /\ home[p] = t /\ refs[p] = Null
  /\ life[o] = "unborn"
  /\ ClassOf[p] \in ClassesOf[o]
  /\ life' = [life EXCEPT ![o] = "alive"]
  /\ Exchange(t, p, o)
  /\ UNCHANGED <<live, home, ref_count, deleting>>

\* Copies q into p.  Between two classes the copy goes through query_cast,
\* which calls the object and so needs one.
CopyPtr(t, p, q) ==
  /\ Idle(t) /\ home[p] = t /\ home[q] = t
  /\ ClassOf[p] # ClassOf[q] => refs[q] # Null
  /\ Exchange(t, p, IF ClassOf[p] = ClassOf[q] THEN refs[q]
                                               ELSE Cast(refs[q], ClassOf[p]))
  /\ UNCHANGED <<live, home, life, ref_count, deleting>>

\* reset(JxxObjectPtr<K>&&): q is emptied when its object has the class of p;
\* the reference changes hands, so nothing is counted.
MovePtr(t, p, q) ==
  LET o == Cast(refs[q], ClassOf[p])
      emptied == IF o = Null THEN refs ELSE [refs EXCEPT ![q] = Null]
  IN /\ Idle(t) /\ home[p] = t /\ home[q] = t
     /\ refs[q] # Null
     /\ refs' = [emptied EXCEPT ![p] = o]
     /\ releasing' = [releasing EXCEPT ![t] = emptied[p]]
     /\ UNCHANGED <<live, home, life, ref_count, adding, deleting>>

\* reset() and the destructor.
ResetPtr(t, p) ==
  /\ Idle(t) /\ home[p] = t
  /\ refs[p] # Null
  /\ Exchange(t, p, Null)
  /\ UNCHANGED <<live, home, life, ref_count, deleting>>

\* The program hands a pointer over to another thread.
HandOver(t, p, u) ==
  /\ Idle(t) /\ home[p] = t
  /\ home' = [home EXCEPT ![p] = u]
  /\ UNCHANGED <<refs, live, life, ref_count, adding, releasing, deleting>>

-----------------------------------------------------------------------------
(* ExtObject and the collector.                                            *)

\* ExtObject::Create(p, proto); when the engine refuses, nothing changes.
CreateExternal(t, j, p) ==
  /\ Idle(t) /\ home[j] = t /\ home[p] = t
  /\ j \notin live /\ refs[p] # Null
  /\ live' = live \cup {j}
  /\ Exchange(t, j, refs[p])
  /\ UNCHANGED <<home, life, ref_count, deleting>>

\* Mutant: the local pointer of As::New keeps its reference count.
NewExternalKept(t, j, o) ==
  /\ Idle(t) /\ home[j] = t /\ j \notin live
  /\ life[o] = "unborn"
  /\ life' = [life EXCEPT ![o] = "alive"]
  /\ ref_count' = [ref_count EXCEPT ![o] = 2]
  /\ refs' = [refs EXCEPT ![j] = o]
  /\ live' = live \cup {j}
  /\ UNCHANGED <<home, adding, releasing, deleting>>

\* ExtObject::As<X>::New: until it returns the object is known only to its
\* local pointer, whose one reference goes to the new JavaScript object or,
\* when the engine refuses to create that, is released.
NewExternal(t, j, o) ==
  /\ Idle(t) /\ home[j] = t /\ j \notin live
  /\ life[o] = "unborn"
  /\ \/ /\ life' = [life EXCEPT ![o] = "alive"]
        /\ ref_count' = [ref_count EXCEPT ![o] = 1]
        /\ refs' = [refs EXCEPT ![j] = o]
        /\ live' = live \cup {j}
     \/ /\ life' = [life EXCEPT ![o] = "deleted"]
        /\ UNCHANGED <<refs, live, ref_count>>
  /\ UNCHANGED <<home, adding, releasing, deleting>>

\* AssignJxxObject: the new external data, or null, replaces the old.
AssignExternal(t, j, p) ==
  /\ Idle(t) /\ home[j] = t /\ home[p] = t
  /\ j \in live
  /\ Exchange(t, j, refs[p])
  /\ UNCHANGED <<live, home, life, ref_count, deleting>>

\* Mutant: the external data is cast without asking the object.
TryGetAsUnchecked(t, p, j) ==
  /\ Idle(t) /\ home[j] = t /\ home[p] = t
  /\ j \in live /\ refs[p] = Null /\ refs[j] # Null
  /\ Exchange(t, p, refs[j])
  /\ UNCHANGED <<live, home, life, ref_count, deleting>>

\* JxxObjectPtr<X> p = j->TryGetAs<X>(), of which the native functions and the
\* method stub keep a copy while they use the object.
TryGetAs(t, p, j) ==
  /\ Idle(t) /\ home[j] = t /\ home[p] = t
  /\ j \in live /\ refs[p] = Null /\ refs[j] # Null
  /\ Exchange(t, p, Cast(refs[j], ClassOf[p]))
  /\ UNCHANGED <<live, home, life, ref_count, deleting>>

\* The collector finds j unreachable and calls JxxRelease on its data.
Finalize(t, j) ==
  /\ Idle(t) /\ home[j] = t
  /\ j \in live
  /\ live' = live \ {j}
  /\ Exchange(t, j, Null)
  /\ UNCHANGED <<home, life, ref_count, deleting>>

-----------------------------------------------------------------------------
Continue(t) == AddRef(t) \/ Release(t) \/ DeleteThis(t)

PtrStep(t) ==
  \/ \E p \in Ptrs, o \in Objects : MakeObject(t, p, o)
  \/ \E p, q \in Ptrs : CopyPtr(t, p, q) \/ MovePtr(t, p, q)
  \/ \E p \in Ptrs : ResetPtr(t, p)
  \/ \E p \in Ptrs, u \in Threads : HandOver(t, p, u)

ExternalStep(t) ==
  \/ \E j \in JsObjects, o \in Objects : NewExternal(t, j, o)
  \/ \E j \in JsObjects, p \in Ptrs : \/ CreateExternal(t, j, p)
                                      \/ AssignExternal(t, j, p)
                                      \/ TryGetAs(t, p, j)
  \/ \E j \in JsObjects : Finalize(t, j)

Next == \E t \in Threads : Continue(t) \/ PtrStep(t) \/ ExternalStep(t)

Spec == Init /\ [][Next]_vars

\* A thread that is inside an operation goes on with it: nothing in one waits.
GoesOn(t) == WF_vars(Continue(t))

FairSpec == Spec /\ \A t \in Threads : GoesOn(t)

-----------------------------------------------------------------------------
TypeOK == /\ refs \in [Slots -> Objects \cup {Null}]
          /\ live \subseteq JsObjects
          /\ home \in [Slots -> Threads]
          /\ life \in [Objects -> {"unborn", "alive", "deleted"}]
          /\ ref_count \in [Objects -> Nat]
          /\ adding \in [Threads -> Slots \cup {Null}]
          /\ releasing \in [Threads -> Objects \cup {Null}]
          /\ deleting \in [Threads -> Objects \cup {Null}]

\* The owners of o whose AddRef has been done.
Counted(o) == {s \in Slots : refs[s] = o /\ adding[home[s]] # s}

\* The threads that have taken o out of a slot and not yet counted it down.
Releasing(o) == {t \in Threads : releasing[t] = o}

\* At every interleaving the count of an object is the number of its counted
\* owners and of the releases still to come: no operation, in any order, loses
\* a reference or counts one twice (jxx.api.h reset, jxx.object.h Create, New
\* and AssignJxxObject, and JxxRelease from the collector).
RefCountExact ==
  \A o \in Objects :
    ref_count[o] = Cardinality(Counted(o)) + Cardinality(Releasing(o))

\* No slot and no thread in the middle of an operation ever holds an object
\* that has been deleted: delete this runs after the last use on any thread.
NoDangling ==
  \A o \in Objects :
    \/ \E s \in Slots : refs[s] = o
    \/ \E t \in Threads : o \in {releasing[t], deleting[t]}
    => life[o] = "alive"

\* A smart pointer holds only objects that implement its class, whichever way
\* they came: what README.md offers as its defence against type confusion.
CastSafe == \A p \in Ptrs : refs[p] # Null => ClassOf[p] \in ClassesOf[refs[p]]

\* An object that nothing owns any more is deleted: no operation leaks one.
UnownedIsDeleted ==
  \A o \in Objects :
    (life[o] = "alive" /\ \A s \in Slots : refs[s] # o) ~> (life[o] = "deleted")

\* The count implements plain shared ownership.
Abstract == INSTANCE Ownership
ImplementsOwnership == Abstract!Spec
=============================================================================
