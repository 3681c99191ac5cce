-------------------------- MODULE JxxObjectProofs ---------------------------
(***************************************************************************)
(* Proofs about JxxObject for any number of threads, pointers, JavaScript  *)
(* objects, native objects and classes.                                    *)
(*                                                                         *)
(* The count of an object is not by itself inductive: between the exchange *)
(* of a slot and its AddRef the slot owns an object that is not counted.   *)
(* What keeps that object alive meanwhile is BackedUp: the same thread     *)
(* still has the reference it copied from, or nobody else knows the object *)
(* at all.                                                                 *)
(***************************************************************************)
EXTENDS JxxObject, FiniteSetTheorems, TLAPS

\* The slot a thread has to count is its own and owns an object.
AddingOwn == \A t \in Threads : adding[t] # Null =>
               /\ home[adding[t]] = t
               /\ refs[adding[t]] # Null

\* delete is the last step of an operation.
DeletingLast == \A t \in Threads :
                  deleting[t] # Null => adding[t] = Null /\ releasing[t] = Null

\* Only slot s knows object o.
KnownOnlyTo(s, o) == /\ \A s2 \in Slots : refs[s2] = o => s2 = s
                     /\ \A u \in Threads : releasing[u] # o /\ deleting[u] # o

\* Until its AddRef, a new reference is covered by another of the same thread.
BackedUp == \A t \in Threads : adding[t] # Null =>
              LET o == refs[adding[t]]
              IN \/ releasing[t] = o
                 \/ \E s \in Slots : s # adding[t] /\ home[s] = t /\ refs[s] = o
                 \/ KnownOnlyTo(adding[t], o)

\* The object a thread is about to delete is unknown to everyone else.
DeletingUnowned == \A t \in Threads : deleting[t] # Null =>
                     /\ \A s \in Slots : refs[s] # deleting[t]
                     /\ \A u \in Threads : /\ releasing[u] # deleting[t]
                                           /\ u # t => deleting[u] # deleting[t]

\* A collected JavaScript object owns nothing.
DeadEmpty == \A j \in JsObjects : j \notin live => refs[j] = Null

OwnInv == /\ AddingOwn
          /\ DeletingLast
          /\ RefCountExact
          /\ NoDangling
          /\ BackedUp
          /\ DeletingUnowned

IInv == TypeOK /\ OwnInv /\ DeadEmpty /\ CastSafe

-----------------------------------------------------------------------------
(* Counting.                                                               *)

\* The owners of an object and its pending releases are finitely many, so that
\* ref_count_ can equal their number (RefCountExact).
LEMMA CountsFinite ==
  ASSUME NEW o
  PROVE  /\ IsFiniteSet(Counted(o)) /\ Cardinality(Counted(o)) \in Nat
         /\ IsFiniteSet(Releasing(o)) /\ Cardinality(Releasing(o)) \in Nat
<1>1. IsFiniteSet(Slots)
  BY SlotsAssumption, FS_Union DEF Slots
<1>2. IsFiniteSet(Counted(o))
  <2>1. Counted(o) \subseteq Slots
    BY DEF Counted
  <2> QED
    BY <1>1, <2>1, FS_Subset
<1>3. IsFiniteSet(Releasing(o))
  <2>1. Releasing(o) \subseteq Threads
    BY DEF Releasing
  <2> QED
    BY <2>1, ThreadsAssumption, FS_Subset
<1> QED
  BY <1>2, <1>3, FS_CardinalityType

\* An object that is not alive is in no slot and in no operation, so it counts
\* nothing: a new object starts from zero (ref_count_ = 0).
LEMMA UnbornUnknown ==
  ASSUME TypeOK, NoDangling, RefCountExact, NEW o \in Objects, life[o] # "alive"
  PROVE  /\ \A s \in Slots : refs[s] # o
         /\ \A t \in Threads : releasing[t] # o /\ deleting[t] # o
         /\ Counted(o) = {} /\ Releasing(o) = {}
<1>1. /\ \A s \in Slots : refs[s] # o
      /\ \A t \in Threads : releasing[t] # o /\ deleting[t] # o
  BY DEF NoDangling
<1> QED
  BY <1>1 DEF Counted, Releasing

-----------------------------------------------------------------------------
(* Every step preserves OwnInv.  Most operations are one exchange.         *)

\* reset(x, true) keeps the counts when x is null, already owned by the same
\* thread, or new (jxx.api.h reset).
LEMMA ExchangeKeeps ==
  ASSUME TypeOK, OwnInv, NEW t \in Threads, NEW s \in Slots,
         NEW x \in Objects \cup {Null},
         Idle(t), home[s] = t, Exchange(t, s, x),
         UNCHANGED <<home, ref_count, deleting>>,
         \/ life' = life /\ (x = Null \/ \E s2 \in Slots : home[s2] = t /\ refs[s2] = x)
         \/ x \in Objects /\ life[x] = "unborn" /\ life' = [life EXCEPT ![x] = "alive"]
  PROVE  OwnInv'
<1> USE ThreadsAssumption, ObjectsAssumption
<1>0. /\ Null \notin Slots
      /\ adding[t] = Null /\ releasing[t] = Null /\ deleting[t] = Null
      /\ \A r \in Slots : refs'[r] = IF r = s THEN x ELSE refs[r]
      /\ \A u \in Threads : adding'[u] = IF u = t THEN (IF x = Null THEN Null ELSE s)
                                                  ELSE adding[u]
      /\ \A u \in Threads : releasing'[u] = IF u = t THEN refs[s] ELSE releasing[u]
      /\ home' = home /\ ref_count' = ref_count /\ deleting' = deleting
  BY SlotsAssumption DEF Idle, Exchange, TypeOK, Slots
<1>1. x \in Objects /\ life[x] = "unborn" =>
         /\ \A r \in Slots : refs[r] # x
         /\ \A u \in Threads : releasing[u] # x /\ deleting[u] # x
  BY DEF OwnInv, NoDangling
<1>2. AddingOwn'
  BY <1>0 DEF AddingOwn, OwnInv, TypeOK
<1>3. DeletingLast'
  BY <1>0 DEF DeletingLast, OwnInv, TypeOK
<1>4. RefCountExact'
  <2> SUFFICES ASSUME NEW o \in Objects
               PROVE  ref_count'[o] = Cardinality(Counted(o)') + Cardinality(Releasing(o)')
    BY DEF RefCountExact
  <2>1. Counted(o)' = Counted(o) \ {s}
    BY <1>0 DEF Counted, TypeOK
  <2>2. CASE refs[s] = o
    <3>1. s \in Counted(o)
      BY <1>0, <2>2 DEF Counted
    <3>2. Cardinality(Counted(o)') = Cardinality(Counted(o)) - 1
      BY <2>1, <3>1, CountsFinite, FS_RemoveElement
    <3>3. Releasing(o)' = Releasing(o) \cup {t} /\ t \notin Releasing(o)
      BY <1>0, <2>2 DEF Releasing
    <3>4. Cardinality(Releasing(o)') = Cardinality(Releasing(o)) + 1
      BY <3>3, CountsFinite, FS_AddElement
    <3> QED
      BY <1>0, <3>2, <3>4, CountsFinite DEF OwnInv, RefCountExact
  <2>3. CASE refs[s] # o
    <3>1. Counted(o)' = Counted(o)
      BY <2>1, <2>3 DEF Counted
    <3>2. Releasing(o)' = Releasing(o)
      BY <1>0, <2>3 DEF Releasing
    <3> QED
      BY <1>0, <3>1, <3>2 DEF OwnInv, RefCountExact
  <2> QED
    BY <2>2, <2>3
<1>5. NoDangling'
  <2> SUFFICES ASSUME NEW o \in Objects,
                      \/ \E r \in Slots : refs'[r] = o
                      \/ \E u \in Threads : o \in {releasing'[u], deleting'[u]}
               PROVE  life'[o] = "alive"
    BY DEF NoDangling
  <2>1. life[o] = "alive" \/ o = x
    BY <1>0 DEF OwnInv, NoDangling
  <2> QED
    BY <2>1 DEF OwnInv, NoDangling, TypeOK
<1>6. BackedUp'
  <2> SUFFICES ASSUME NEW u \in Threads, adding'[u] # Null
               PROVE  \/ releasing'[u] = refs'[adding'[u]]
                      \/ \E r \in Slots : /\ r # adding'[u] /\ home'[r] = u
                                          /\ refs'[r] = refs'[adding'[u]]
                      \/ KnownOnlyTo(adding[u], refs[adding[u]])'
    BY DEF BackedUp
  <2>1. CASE u = t
    <3>1. adding'[u] = s /\ refs'[s] = x /\ x # Null
      BY <1>0, <2>1
    <3>2. CASE \E s2 \in Slots : home[s2] = t /\ refs[s2] = x
      BY <1>0, <2>1, <3>1, <3>2
    <3>3. CASE x \in Objects /\ life[x] = "unborn"
      BY <1>0, <1>1, <2>1, <3>1, <3>3 DEF KnownOnlyTo
    <3> QED
      BY <3>1, <3>2, <3>3
  <2>2. CASE u # t
    <3>1. /\ adding'[u] = adding[u] /\ adding[u] \in Slots /\ adding[u] # s
          /\ home[adding[u]] = u
          /\ refs[adding[u]] \in Objects /\ refs'[adding[u]] = refs[adding[u]]
      BY <1>0, <2>2 DEF OwnInv, AddingOwn, TypeOK
    <3>2. CASE KnownOnlyTo(adding[u], refs[adding[u]])
      <4>1. refs[s] # refs[adding[u]] /\ x # refs[adding[u]]
        BY <1>0, <1>1, <2>2, <3>1, <3>2 DEF KnownOnlyTo
      <4> QED
        BY <1>0, <2>2, <3>1, <3>2, <4>1 DEF KnownOnlyTo
    <3>3. CASE \E r \in Slots : r # adding[u] /\ home[r] = u /\ refs[r] = refs[adding[u]]
      BY <1>0, <2>2, <3>1, <3>3
    <3>4. CASE releasing[u] = refs[adding[u]]
      BY <1>0, <2>2, <3>1, <3>4
    <3> QED
      BY <1>0, <2>2, <3>1, <3>2, <3>3, <3>4 DEF OwnInv, BackedUp
  <2> QED
    BY <2>1, <2>2
<1>7. DeletingUnowned'
  BY <1>0, <1>1 DEF OwnInv, DeletingUnowned, TypeOK
<1> QED
  BY <1>2, <1>3, <1>4, <1>5, <1>6, <1>7 DEF OwnInv

\* The count of what was stored (jxx.class.h AddRef).
LEMMA AddRefKeeps ==
  ASSUME TypeOK, OwnInv, NEW t \in Threads, AddRef(t)
  PROVE  OwnInv'
<1> USE ThreadsAssumption, ObjectsAssumption DEF AddRef
<1> DEFINE a == adding[t]
<1>0. /\ a \in Slots /\ home[a] = t /\ refs[a] \in Objects /\ deleting[t] = Null
      /\ refs' = refs /\ home' = home /\ life' = life
      /\ releasing' = releasing /\ deleting' = deleting
      /\ \A u \in Threads : adding'[u] = IF u = t THEN Null ELSE adding[u]
  BY DEF OwnInv, AddingOwn, DeletingLast, TypeOK
<1>1. Null \notin Slots
  BY SlotsAssumption DEF Slots
<1>2. AddingOwn'
  BY <1>0 DEF OwnInv, AddingOwn
<1>3. DeletingLast'
  BY <1>0 DEF OwnInv, DeletingLast
<1>4. RefCountExact'
  <2> SUFFICES ASSUME NEW o \in Objects
               PROVE  ref_count'[o] = Cardinality(Counted(o)') + Cardinality(Releasing(o)')
    BY DEF RefCountExact
  <2>1. Releasing(o)' = Releasing(o)
    BY <1>0 DEF Releasing
  <2>2. CASE refs[a] = o
    <3>1. Counted(o)' = Counted(o) \cup {a} /\ a \notin Counted(o)
      BY <1>0, <1>1, <2>2 DEF Counted, TypeOK
    <3>2. Cardinality(Counted(o)') = Cardinality(Counted(o)) + 1
      BY <3>1, CountsFinite, FS_AddElement
    <3> QED
      BY <2>1, <2>2, <3>2, CountsFinite DEF OwnInv, RefCountExact, TypeOK
  <2>3. CASE refs[a] # o
    <3>1. Counted(o)' = Counted(o)
      BY <1>0, <1>1, <2>3 DEF Counted, TypeOK
    <3> QED
      BY <2>1, <2>3, <3>1 DEF OwnInv, RefCountExact, TypeOK
  <2> QED
    BY <2>2, <2>3
<1>5. NoDangling'
  BY <1>0 DEF OwnInv, NoDangling
<1>6. BackedUp'
  BY <1>0 DEF OwnInv, BackedUp, KnownOnlyTo
<1>7. DeletingUnowned'
  BY <1>0 DEF OwnInv, DeletingUnowned
<1> QED
  BY <1>2, <1>3, <1>4, <1>5, <1>6, <1>7 DEF OwnInv

\* A count that reaches zero has no owner left, not even an uncounted one: the
\* last Release may delete the object (jxx.class.h Release).
LEMMA LastRelease ==
  ASSUME TypeOK, OwnInv, NEW t \in Threads, adding[t] = Null, releasing[t] # Null
  PROVE  /\ Cardinality(Releasing(releasing[t]) \ {t})
              = Cardinality(Releasing(releasing[t])) - 1
         /\ ref_count[releasing[t]] - 1 \in Nat
         /\ ref_count[releasing[t]] - 1 = 0 =>
              /\ \A s \in Slots : refs[s] # releasing[t]
              /\ \A u \in Threads : u # t => releasing[u] # releasing[t]
<1> USE ThreadsAssumption, ObjectsAssumption
<1> DEFINE o == releasing[t]
<1>0. o \in Objects /\ t \in Releasing(o)
  BY DEF TypeOK, Releasing
<1>1. Cardinality(Releasing(o) \ {t}) = Cardinality(Releasing(o)) - 1
  BY <1>0, CountsFinite, FS_RemoveElement
<1>2. /\ IsFiniteSet(Releasing(o) \ {t})
      /\ Cardinality(Releasing(o) \ {t}) \in Nat
  BY <1>0, CountsFinite, FS_RemoveElement, FS_CardinalityType
<1>3. ref_count[o] - 1 = Cardinality(Counted(o)) + Cardinality(Releasing(o) \ {t})
  BY <1>0, <1>1, CountsFinite DEF OwnInv, RefCountExact
<1>4. ref_count[o] - 1 \in Nat
  BY <1>2, <1>3, CountsFinite
<1>5. ASSUME ref_count[o] - 1 = 0
      PROVE  /\ \A s \in Slots : refs[s] # o
             /\ \A u \in Threads : u # t => releasing[u] # o
  <2>1. Cardinality(Counted(o)) = 0 /\ Cardinality(Releasing(o) \ {t}) = 0
    BY <1>2, <1>3, <1>5, CountsFinite
  <2>2. Counted(o) = {} /\ Releasing(o) \ {t} = {}
    BY <1>2, <2>1, CountsFinite, FS_EmptySet
  <2>3. \A u \in Threads : u # t => releasing[u] # o
    BY <2>2 DEF Releasing
  <2>4. ASSUME NEW s \in Slots, refs[s] = o
        PROVE  FALSE
    <3> DEFINE u == home[s]
    <3>1. u \in Threads /\ adding[u] = s /\ u # t /\ s # Null
      BY <2>2, <2>4, SlotsAssumption DEF Counted, TypeOK, Slots
    <3>2. releasing[u] # o
      BY <2>3, <3>1
    <3>3. \A s2 \in Slots : s2 # s /\ home[s2] = u => refs[s2] # o
      BY <2>2, <3>1 DEF Counted
    <3>4. ~ KnownOnlyTo(s, o)
      BY DEF KnownOnlyTo
    <3> QED
      BY <2>4, <3>1, <3>2, <3>3, <3>4 DEF OwnInv, BackedUp
  <2> QED
    BY <2>3, <2>4
<1> QED
  BY <1>1, <1>4, <1>5

LEMMA ReleaseKeeps ==
  ASSUME TypeOK, OwnInv, NEW t \in Threads, Release(t)
  PROVE  OwnInv'
<1> USE ThreadsAssumption, ObjectsAssumption
<1> DEFINE o == releasing[t]
           rc == ref_count[o] - 1
<1>0. /\ adding[t] = Null /\ o # Null /\ o \in Objects /\ deleting[t] = Null
      /\ ref_count' = [ref_count EXCEPT ![o] = rc]
      /\ refs' = refs /\ home' = home /\ life' = life /\ adding' = adding
      /\ \A u \in Threads : releasing'[u] = IF u = t THEN Null ELSE releasing[u]
      /\ \A u \in Threads : deleting'[u] = IF u = t THEN (IF rc = 0 THEN o ELSE Null)
                                                    ELSE deleting[u]
  BY DEF Release, OwnInv, DeletingLast, TypeOK
<1>1. AddingOwn'
  BY <1>0 DEF OwnInv, AddingOwn
<1>2. DeletingLast'
  BY <1>0 DEF OwnInv, DeletingLast
<1>3. RefCountExact'
  <2> SUFFICES ASSUME NEW x \in Objects
               PROVE  ref_count'[x] = Cardinality(Counted(x)') + Cardinality(Releasing(x)')
    BY DEF RefCountExact
  <2>1. Counted(x)' = Counted(x)
    BY <1>0 DEF Counted
  <2>2. CASE x = o
    <3>1. Releasing(x)' = Releasing(x) \ {t}
      BY <1>0, <2>2 DEF Releasing
    <3>2. Cardinality(Releasing(x)') = Cardinality(Releasing(x)) - 1
      BY <1>0, <2>2, <3>1, LastRelease
    <3> QED
      BY <1>0, <2>1, <2>2, <3>2, CountsFinite DEF OwnInv, RefCountExact, TypeOK
  <2>3. CASE x # o
    <3>1. Releasing(x)' = Releasing(x)
      BY <1>0, <2>3 DEF Releasing
    <3> QED
      BY <1>0, <2>1, <2>3, <3>1 DEF OwnInv, RefCountExact, TypeOK
  <2> QED
    BY <2>2, <2>3
<1>4. NoDangling'
  BY <1>0 DEF OwnInv, NoDangling
<1>5. BackedUp'
  BY <1>0 DEF OwnInv, BackedUp, KnownOnlyTo
<1>6. DeletingUnowned'
  <2>1. \A u \in Threads : deleting[u] # o
    BY <1>0 DEF OwnInv, DeletingUnowned
  <2>2. rc = 0 => /\ \A s \in Slots : refs[s] # o
                  /\ \A u \in Threads : u # t => releasing[u] # o
    BY <1>0, LastRelease
  <2>3. \A u \in Threads : u # t /\ deleting[u] # Null =>
           /\ \A s \in Slots : refs[s] # deleting[u]
           /\ \A v \in Threads : /\ releasing[v] # deleting[u]
                                 /\ v # u => deleting[v] # deleting[u]
    BY DEF OwnInv, DeletingUnowned
  <2> QED
    BY <1>0, <2>1, <2>2, <2>3 DEF DeletingUnowned
<1> QED
  BY <1>1, <1>2, <1>3, <1>4, <1>5, <1>6 DEF OwnInv

\* delete this touches nothing that anyone still refers to.
LEMMA DeleteKeeps ==
  ASSUME TypeOK, OwnInv, NEW t \in Threads, DeleteThis(t)
  PROVE  OwnInv'
<1> USE ThreadsAssumption, ObjectsAssumption DEF DeleteThis
<1>0. /\ deleting[t] \in Objects
      /\ \A u \in Threads : deleting'[u] = IF u = t THEN Null ELSE deleting[u]
  BY DEF TypeOK
<1>1. AddingOwn' /\ DeletingLast' /\ DeletingUnowned'
  BY <1>0 DEF OwnInv, AddingOwn, DeletingLast, DeletingUnowned
<1>2. RefCountExact'
  BY DEF OwnInv, RefCountExact, Counted, Releasing
<1>3. NoDangling'
  BY <1>0 DEF OwnInv, NoDangling, DeletingUnowned, TypeOK
<1>4. BackedUp'
  BY <1>0 DEF OwnInv, AddingOwn, BackedUp, KnownOnlyTo
<1> QED
  BY <1>1, <1>2, <1>3, <1>4 DEF OwnInv

\* A reference that changes hands needs no count, and the one it replaces is
\* released (jxx.api.h reset(JxxObjectPtr<K>&&)).
LEMMA MoveKeeps ==
  ASSUME TypeOK, OwnInv, NEW t \in Threads, NEW p \in Ptrs, NEW q \in Ptrs,
         MovePtr(t, p, q)
  PROVE  OwnInv'
<1> USE ThreadsAssumption, ObjectsAssumption
<1> DEFINE o == Cast(refs[q], ClassOf[p])
<1>0. /\ p \in Slots /\ q \in Slots /\ Null \notin Slots
      /\ adding[t] = Null /\ releasing[t] = Null /\ deleting[t] = Null
      /\ home[p] = t /\ home[q] = t
      /\ home' = home /\ life' = life /\ ref_count' = ref_count
      /\ adding' = adding /\ deleting' = deleting
  BY SlotsAssumption DEF MovePtr, Idle, Slots
<1>1. CASE o = Null
  <2>1. Exchange(t, p, Null)
    BY <1>0, <1>1 DEF MovePtr, Exchange, TypeOK
  <2> QED
    BY <1>0, <2>1, ExchangeKeeps DEF Idle
<1>2. CASE o # Null
  <2>0. /\ o = refs[q] /\ o \in Objects
        /\ \A r \in Slots : refs'[r] = IF r = p THEN o
                                       ELSE IF r = q THEN Null ELSE refs[r]
        /\ \A u \in Threads : releasing'[u] = IF u = t THEN IF p = q THEN Null ELSE refs[p]
                                                       ELSE releasing[u]
    BY <1>0, <1>2 DEF MovePtr, Cast, TypeOK
  <2>1. CASE p = q
    <3>1. refs' = refs /\ releasing' = releasing
      BY <1>0, <1>2, <2>0, <2>1 DEF MovePtr, TypeOK
    <3>2. AddingOwn' /\ DeletingLast' /\ NoDangling' /\ BackedUp' /\ DeletingUnowned'
      BY <1>0, <3>1 DEF OwnInv, AddingOwn, DeletingLast, NoDangling, BackedUp,
                        KnownOnlyTo, DeletingUnowned
    <3>3. RefCountExact'
      BY <1>0, <3>1 DEF OwnInv, RefCountExact, Counted, Releasing
    <3> QED
      BY <3>2, <3>3 DEF OwnInv
  <2>2. CASE p # q
    <3>1. AddingOwn' /\ DeletingLast'
      BY <1>0, <2>0 DEF OwnInv, AddingOwn, DeletingLast, TypeOK
    <3>2. RefCountExact'
      <4> SUFFICES ASSUME NEW x \in Objects
                   PROVE  ref_count'[x] = Cardinality(Counted(x)') + Cardinality(Releasing(x)')
        BY DEF RefCountExact
      <4>1. /\ Counted(x)' = IF x = o THEN (Counted(x) \ {q}) \cup {p} ELSE Counted(x) \ {p}
            /\ q \in Counted(o)
            /\ p \in Counted(x) <=> refs[p] = x
        BY <1>0, <2>0, <2>2 DEF Counted, TypeOK
      <4>2. /\ Releasing(x)' = IF refs[p] = x THEN Releasing(x) \cup {t} ELSE Releasing(x)
            /\ t \notin Releasing(x)
        BY <1>0, <2>0, <2>2 DEF Releasing
      <4>3. Cardinality(Releasing(x)') = IF refs[p] = x THEN Cardinality(Releasing(x)) + 1
                                                        ELSE Cardinality(Releasing(x))
        BY <4>2, CountsFinite, FS_AddElement
      <4>4. Cardinality(Counted(x)') = IF refs[p] = x THEN Cardinality(Counted(x)) - 1
                                                      ELSE Cardinality(Counted(x))
        <5>1. CASE x = o
          <6>1. /\ IsFiniteSet(Counted(x) \ {q})
                /\ Cardinality(Counted(x) \ {q}) = Cardinality(Counted(x)) - 1
            BY <4>1, <5>1, CountsFinite, FS_RemoveElement
          <6>2. Counted(x)' = (Counted(x) \ {q}) \cup {p}
            BY <4>1, <5>1
          <6>3. p \in Counted(x) \ {q} <=> refs[p] = x
            BY <2>2, <4>1
          <6>4. Cardinality((Counted(x) \ {q}) \cup {p})
                  = IF refs[p] = x THEN Cardinality(Counted(x) \ {q})
                                   ELSE Cardinality(Counted(x) \ {q}) + 1
            BY <6>1, <6>3, FS_AddElement
          <6> QED
            BY <6>1, <6>2, <6>4, CountsFinite
        <5>2. CASE x # o
          BY <4>1, <5>2, CountsFinite, FS_RemoveElement
        <5> QED
          BY <5>1, <5>2
      <4> QED
        BY <1>0, <4>3, <4>4, CountsFinite DEF OwnInv, RefCountExact, TypeOK
    <3>3. NoDangling'
      <4> SUFFICES ASSUME NEW x \in Objects,
                          \/ \E r \in Slots : refs'[r] = x
                          \/ \E u \in Threads : x \in {releasing'[u], deleting'[u]}
                   PROVE  life[x] = "alive"
        BY <1>0 DEF NoDangling
      <4> QED
        BY <1>0, <2>0, <2>2 DEF OwnInv, NoDangling
    <3>4. BackedUp'
      <4> SUFFICES ASSUME NEW u \in Threads, adding'[u] # Null
                   PROVE  \/ releasing'[u] = refs'[adding'[u]]
                          \/ \E r \in Slots : /\ r # adding'[u] /\ home'[r] = u
                                              /\ refs'[r] = refs'[adding'[u]]
                          \/ KnownOnlyTo(adding[u], refs[adding[u]])'
        BY DEF BackedUp
      <4>1. /\ u # t /\ adding'[u] = adding[u] /\ adding[u] \in Slots
            /\ adding[u] # p /\ adding[u] # q /\ home[adding[u]] = u
            /\ refs[adding[u]] # Null /\ refs'[adding[u]] = refs[adding[u]]
            /\ releasing'[u] = releasing[u]
        BY <1>0, <2>0 DEF OwnInv, AddingOwn, TypeOK
      <4>2. CASE KnownOnlyTo(adding[u], refs[adding[u]])
        <5>1. refs[p] # refs[adding[u]] /\ refs[q] # refs[adding[u]]
          BY <1>0, <4>1, <4>2 DEF KnownOnlyTo
        <5> QED
          BY <1>0, <2>0, <2>2, <4>1, <4>2, <5>1 DEF KnownOnlyTo
      <4>3. CASE \E r \in Slots : r # adding[u] /\ home[r] = u /\ refs[r] = refs[adding[u]]
        BY <1>0, <2>0, <4>1, <4>3
      <4>4. CASE releasing[u] = refs[adding[u]]
        BY <4>1, <4>4
      <4> QED
        BY <1>0, <4>1, <4>2, <4>3, <4>4 DEF OwnInv, BackedUp
    <3>5. DeletingUnowned'
      BY <1>0, <2>0, <2>2 DEF OwnInv, DeletingUnowned, TypeOK
    <3> QED
      BY <3>1, <3>2, <3>3, <3>4, <3>5 DEF OwnInv
  <2> QED
    BY <2>1, <2>2
<1> QED
  BY <1>1, <1>2

\* A pointer that another thread takes over is a counted one.
LEMMA HandOverKeeps ==
  ASSUME TypeOK, OwnInv, NEW t \in Threads, NEW p \in Ptrs, NEW v \in Threads,
         HandOver(t, p, v)
  PROVE  OwnInv'
<1> USE ThreadsAssumption, ObjectsAssumption
<1>0. /\ p \in Slots /\ Null \notin Slots /\ home[p] = t /\ adding[t] = Null
      /\ \A s \in Slots : home'[s] = IF s = p THEN v ELSE home[s]
      /\ refs' = refs /\ life' = life /\ ref_count' = ref_count
      /\ adding' = adding /\ releasing' = releasing /\ deleting' = deleting
  BY SlotsAssumption DEF HandOver, Idle, Slots, TypeOK
<1>1. \A u \in Threads : adding[u] # p
  BY <1>0 DEF OwnInv, AddingOwn
<1>2. AddingOwn' /\ DeletingLast' /\ NoDangling' /\ DeletingUnowned'
  BY <1>0, <1>1 DEF OwnInv, AddingOwn, DeletingLast, NoDangling, DeletingUnowned, TypeOK
<1>3. RefCountExact'
  <2>1. \A o : Counted(o)' = Counted(o) /\ Releasing(o)' = Releasing(o)
    BY <1>0, <1>1 DEF Counted, Releasing, TypeOK
  <2> QED
    BY <1>0, <2>1 DEF OwnInv, RefCountExact
<1>4. BackedUp'
  BY <1>0, <1>1 DEF OwnInv, BackedUp, KnownOnlyTo
<1> QED
  BY <1>2, <1>3, <1>4 DEF OwnInv

\* As::New gives the JavaScript object the one reference of its local pointer,
\* or leaves nothing behind (jxx.object.h As::New).
LEMMA NewExternalKeeps ==
  ASSUME TypeOK, OwnInv, DeadEmpty, NEW t \in Threads, NEW j \in JsObjects,
         NEW x \in Objects, NewExternal(t, j, x)
  PROVE  OwnInv'
<1> USE ThreadsAssumption, ObjectsAssumption
<1>0. /\ j \in Slots /\ Null \notin Slots /\ refs[j] = Null
      /\ adding[t] = Null /\ home[j] = t /\ life[x] # "alive"
      /\ home' = home /\ adding' = adding /\ releasing' = releasing /\ deleting' = deleting
  BY SlotsAssumption DEF NewExternal, Idle, Slots, DeadEmpty
<1>1. /\ \A s \in Slots : refs[s] # x
      /\ \A u \in Threads : releasing[u] # x /\ deleting[u] # x
      /\ Counted(x) = {} /\ Releasing(x) = {}
  BY <1>0, UnbornUnknown DEF OwnInv
<1>2. CASE /\ life' = [life EXCEPT ![x] = "alive"]
           /\ ref_count' = [ref_count EXCEPT ![x] = 1]
           /\ refs' = [refs EXCEPT ![j] = x]
  <2>0. \A s \in Slots : refs'[s] = IF s = j THEN x ELSE refs[s]
    BY <1>0, <1>2 DEF TypeOK
  <2>1. AddingOwn' /\ DeletingLast' /\ DeletingUnowned'
    BY <1>0, <1>1, <2>0 DEF OwnInv, AddingOwn, DeletingLast, DeletingUnowned, TypeOK
  <2>2. NoDangling'
    BY <1>0, <1>2, <2>0 DEF OwnInv, NoDangling, TypeOK
  <2>3. RefCountExact'
    <3> SUFFICES ASSUME NEW o \in Objects
                 PROVE  ref_count'[o] = Cardinality(Counted(o)') + Cardinality(Releasing(o)')
      BY DEF RefCountExact
    <3>1. Releasing(o)' = Releasing(o)
      BY <1>0 DEF Releasing
    <3>2. CASE o = x
      <4>1. Counted(o)' = {j}
        BY <1>0, <1>1, <2>0, <3>2 DEF Counted, TypeOK
      <4>2. Cardinality(Counted(o)') = 1 /\ Cardinality(Releasing(o)') = 0
        BY <1>1, <3>1, <3>2, <4>1, FS_Singleton, FS_EmptySet
      <4>3. ref_count'[o] = 1
        BY <1>2, <3>2 DEF TypeOK
      <4> QED
        BY <4>2, <4>3
    <3>3. CASE o # x
      <4>1. Counted(o)' = Counted(o)
        BY <1>0, <2>0, <3>3 DEF Counted, TypeOK
      <4> QED
        BY <1>2, <3>1, <3>3, <4>1 DEF OwnInv, RefCountExact, TypeOK
    <3> QED
      BY <3>2, <3>3
  <2>4. BackedUp'
    <3> SUFFICES ASSUME NEW u \in Threads, adding'[u] # Null
                 PROVE  \/ releasing'[u] = refs'[adding'[u]]
                        \/ \E r \in Slots : /\ r # adding'[u] /\ home'[r] = u
                                            /\ refs'[r] = refs'[adding'[u]]
                        \/ KnownOnlyTo(adding[u], refs[adding[u]])'
      BY DEF BackedUp
    <3>1. /\ adding'[u] = adding[u] /\ adding[u] \in Slots /\ adding[u] # j
          /\ refs[adding[u]] # Null /\ refs[adding[u]] # x
          /\ refs'[adding[u]] = refs[adding[u]]
      BY <1>0, <1>1, <2>0 DEF OwnInv, AddingOwn, TypeOK
    <3>2. CASE KnownOnlyTo(adding[u], refs[adding[u]])
      BY <1>0, <2>0, <3>1, <3>2 DEF KnownOnlyTo
    <3>3. CASE \E r \in Slots : r # adding[u] /\ home[r] = u /\ refs[r] = refs[adding[u]]
      BY <1>0, <2>0, <3>1, <3>3
    <3>4. CASE releasing[u] = refs[adding[u]]
      BY <1>0, <3>1, <3>4
    <3> QED
      BY <1>0, <3>1, <3>2, <3>3, <3>4 DEF OwnInv, BackedUp
  <2> QED
    BY <2>1, <2>2, <2>3, <2>4 DEF OwnInv
<1>3. CASE life' = [life EXCEPT ![x] = "deleted"] /\ UNCHANGED <<refs, ref_count>>
  <2>1. AddingOwn' /\ DeletingLast' /\ DeletingUnowned'
    BY <1>0, <1>3 DEF OwnInv, AddingOwn, DeletingLast, DeletingUnowned
  <2>2. NoDangling'
    BY <1>0, <1>1, <1>3 DEF OwnInv, NoDangling, TypeOK
  <2>3. RefCountExact'
    BY <1>0, <1>3 DEF OwnInv, RefCountExact, Counted, Releasing
  <2>4. BackedUp'
    BY <1>0, <1>3 DEF OwnInv, BackedUp, KnownOnlyTo
  <2> QED
    BY <2>1, <2>2, <2>3, <2>4 DEF OwnInv
<1> QED
  BY <1>2, <1>3 DEF NewExternal

-----------------------------------------------------------------------------
(* The inductive invariant.                                                *)

\* What query_cast returns is null or the object, under a class it has.
LEMMA CastResult ==
  ASSUME NEW o \in Objects \cup {Null}, NEW class
  PROVE  /\ Cast(o, class) \in Objects \cup {Null}
         /\ Cast(o, class) # Null => Cast(o, class) = o /\ class \in ClassesOf[o]
  BY DEF Cast

LEMMA InitIInv == Init => IInv
<1> SUFFICES ASSUME Init PROVE IInv
  OBVIOUS
<1> USE ThreadsAssumption, ObjectsAssumption DEF Init
<1>1. TypeOK
  BY DEF TypeOK, Slots
<1>2. NoDangling /\ AddingOwn /\ DeletingLast /\ BackedUp /\ DeletingUnowned
  BY DEF NoDangling, AddingOwn, DeletingLast, BackedUp, DeletingUnowned
<1>3. RefCountExact
  <2>1. \A o \in Objects : Counted(o) = {} /\ Releasing(o) = {}
    BY DEF Counted, Releasing
  <2> QED
    BY <2>1, FS_EmptySet DEF RefCountExact
<1>4. DeadEmpty /\ CastSafe
  BY DEF DeadEmpty, CastSafe, Slots
<1> QED
  BY <1>1, <1>2, <1>3, <1>4 DEF IInv, OwnInv

\* The steps of Next that are one exchange of a slot for something its thread
\* already owns, or for nothing.
LEMMA ExchangeSteps ==
  ASSUME IInv, NEW t \in Threads,
         \/ \E p \in Ptrs, o \in Objects : MakeObject(t, p, o)
         \/ \E p, q \in Ptrs : CopyPtr(t, p, q)
         \/ \E p \in Ptrs : ResetPtr(t, p)
         \/ \E j \in JsObjects, p \in Ptrs : \/ CreateExternal(t, j, p)
                                             \/ AssignExternal(t, j, p)
                                             \/ TryGetAs(t, p, j)
         \/ \E j \in JsObjects : Finalize(t, j)
  PROVE  TypeOK' /\ OwnInv' /\ DeadEmpty' /\ CastSafe'
<1> USE ObjectsAssumption DEF IInv
<1>0. /\ Ptrs \subseteq Slots /\ JsObjects \subseteq Slots
      /\ \A p \in Ptrs, j \in JsObjects : p # j
  BY SlotsAssumption DEF Slots
<1>1. ASSUME NEW p \in Ptrs, NEW o \in Objects, MakeObject(t, p, o)
      PROVE  TypeOK' /\ OwnInv' /\ DeadEmpty' /\ CastSafe'
  <2>1. OwnInv'
    BY <1>0, <1>1, ExchangeKeeps DEF MakeObject
  <2>2. TypeOK'
    BY <1>0, <1>1 DEF MakeObject, Exchange, TypeOK
  <2>3. DeadEmpty' /\ CastSafe'
    BY <1>0, <1>1 DEF MakeObject, Exchange, TypeOK, DeadEmpty, CastSafe
  <2> QED
    BY <2>1, <2>2, <2>3
<1>2. ASSUME NEW p \in Ptrs, NEW q \in Ptrs, CopyPtr(t, p, q)
      PROVE  TypeOK' /\ OwnInv' /\ DeadEmpty' /\ CastSafe'
  <2> DEFINE x == IF ClassOf[p] = ClassOf[q] THEN refs[q] ELSE Cast(refs[q], ClassOf[p])
  <2>0. /\ x \in Objects \cup {Null}
        /\ x # Null => x = refs[q] /\ ClassOf[p] \in ClassesOf[x]
    BY <1>0, CastResult DEF TypeOK, CastSafe
  <2>1. Idle(t) /\ home[p] = t /\ home[q] = t /\ Exchange(t, p, x)
        /\ UNCHANGED <<live, home, life, ref_count, deleting>>
    BY <1>2 DEF CopyPtr
  <2> HIDE DEF x
  <2>2. OwnInv'
    BY <1>0, <2>0, <2>1, ExchangeKeeps
  <2>3. TypeOK'
    BY <1>0, <2>0, <2>1 DEF Exchange, TypeOK
  <2>4. DeadEmpty' /\ CastSafe'
    BY <1>0, <2>0, <2>1 DEF Exchange, TypeOK, DeadEmpty, CastSafe
  <2> QED
    BY <2>2, <2>3, <2>4
<1>3. ASSUME NEW p \in Ptrs, ResetPtr(t, p)
      PROVE  TypeOK' /\ OwnInv' /\ DeadEmpty' /\ CastSafe'
  <2>1. OwnInv'
    BY <1>0, <1>3, ExchangeKeeps DEF ResetPtr
  <2>2. TypeOK'
    BY <1>0, <1>3 DEF ResetPtr, Exchange, TypeOK
  <2>3. DeadEmpty' /\ CastSafe'
    BY <1>0, <1>3 DEF ResetPtr, Exchange, TypeOK, DeadEmpty, CastSafe
  <2> QED
    BY <2>1, <2>2, <2>3
<1>4. ASSUME NEW j \in JsObjects, NEW p \in Ptrs,
             CreateExternal(t, j, p) \/ AssignExternal(t, j, p)
      PROVE  TypeOK' /\ OwnInv' /\ DeadEmpty' /\ CastSafe'
  <2>1. refs[p] \in Objects \cup {Null}
    BY <1>0 DEF TypeOK
  <2>2. OwnInv'
    BY <1>0, <1>4, <2>1, ExchangeKeeps DEF CreateExternal, AssignExternal
  <2>3. TypeOK'
    BY <1>0, <1>4, <2>1 DEF CreateExternal, AssignExternal, Exchange, TypeOK
  <2>4. DeadEmpty' /\ CastSafe'
    BY <1>0, <1>4 DEF CreateExternal, AssignExternal, Exchange, TypeOK, DeadEmpty, CastSafe
  <2> QED
    BY <2>2, <2>3, <2>4
<1>5. ASSUME NEW p \in Ptrs, NEW j \in JsObjects, TryGetAs(t, p, j)
      PROVE  TypeOK' /\ OwnInv' /\ DeadEmpty' /\ CastSafe'
  <2> DEFINE x == Cast(refs[j], ClassOf[p])
  <2>0. /\ x \in Objects \cup {Null}
        /\ x # Null => x = refs[j] /\ ClassOf[p] \in ClassesOf[x]
    BY <1>0, CastResult DEF TypeOK
  <2>1. Idle(t) /\ home[p] = t /\ home[j] = t /\ Exchange(t, p, x)
        /\ UNCHANGED <<live, home, life, ref_count, deleting>>
    BY <1>5 DEF TryGetAs
  <2> HIDE DEF x
  <2>2. OwnInv'
    BY <1>0, <2>0, <2>1, ExchangeKeeps
  <2>3. TypeOK'
    BY <1>0, <2>0, <2>1 DEF Exchange, TypeOK
  <2>4. DeadEmpty' /\ CastSafe'
    BY <1>0, <2>0, <2>1 DEF Exchange, TypeOK, DeadEmpty, CastSafe
  <2> QED
    BY <2>2, <2>3, <2>4
<1>6. ASSUME NEW j \in JsObjects, Finalize(t, j)
      PROVE  TypeOK' /\ OwnInv' /\ DeadEmpty' /\ CastSafe'
  <2>1. OwnInv'
    BY <1>0, <1>6, ExchangeKeeps DEF Finalize
  <2>2. TypeOK'
    BY <1>0, <1>6 DEF Finalize, Exchange, TypeOK
  <2>3. DeadEmpty' /\ CastSafe'
    BY <1>0, <1>6 DEF Finalize, Exchange, TypeOK, DeadEmpty, CastSafe
  <2> QED
    BY <2>1, <2>2, <2>3
<1> QED
  BY <1>1, <1>2, <1>3, <1>4, <1>5, <1>6

\* The inductive step.
LEMMA NextIInv == IInv /\ [Next]_vars => IInv'
<1> SUFFICES ASSUME IInv, [Next]_vars PROVE IInv'
  OBVIOUS
<1> USE ObjectsAssumption DEF IInv
<1>0. /\ Ptrs \subseteq Slots /\ JsObjects \subseteq Slots
      /\ \A p \in Ptrs, j \in JsObjects : p # j
  BY SlotsAssumption DEF Slots
<1>1. ASSUME NEW t \in Threads, AddRef(t)
      PROVE  IInv'
  <2>1. OwnInv'
    BY <1>1, AddRefKeeps
  <2>2. refs[adding[t]] \in Objects
    BY <1>1 DEF AddRef, OwnInv, AddingOwn, TypeOK
  <2>3. TypeOK' /\ DeadEmpty' /\ CastSafe'
    BY <1>1, <2>2 DEF AddRef, TypeOK, DeadEmpty, CastSafe
  <2> QED
    BY <2>1, <2>3
<1>2. ASSUME NEW t \in Threads, Release(t)
      PROVE  IInv'
  <2>1. OwnInv'
    BY <1>2, ReleaseKeeps
  <2>2. releasing[t] \in Objects /\ ref_count[releasing[t]] - 1 \in Nat
    BY <1>2, LastRelease DEF Release, TypeOK
  <2>3. TypeOK' /\ DeadEmpty' /\ CastSafe'
    BY <1>2, <2>2 DEF Release, TypeOK, DeadEmpty, CastSafe
  <2> QED
    BY <2>1, <2>3
<1>3. ASSUME NEW t \in Threads, DeleteThis(t)
      PROVE  IInv'
  <2>1. OwnInv'
    BY <1>3, DeleteKeeps
  <2>2. TypeOK' /\ DeadEmpty' /\ CastSafe'
    BY <1>3 DEF DeleteThis, TypeOK, DeadEmpty, CastSafe
  <2> QED
    BY <2>1, <2>2
<1>4. ASSUME NEW t \in Threads, NEW p \in Ptrs, NEW q \in Ptrs, MovePtr(t, p, q)
      PROVE  IInv'
  <2> DEFINE x == Cast(refs[q], ClassOf[p])
  <2>0. /\ x \in Objects \cup {Null}
        /\ x # Null => ClassOf[p] \in ClassesOf[x]
    BY <1>0, CastResult DEF TypeOK
  <2>1. OwnInv'
    BY <1>4, MoveKeeps
  <2>2. TypeOK'
    BY <1>0, <1>4, <2>0 DEF MovePtr, TypeOK
  <2>3. \A s \in Slots : refs'[s] = IF s = p THEN x
                                    ELSE IF s = q /\ x # Null THEN Null ELSE refs[s]
    BY <1>0, <1>4 DEF MovePtr, TypeOK
  <2>4. live' = live
    BY <1>4 DEF MovePtr
  <2> HIDE DEF x
  <2>5. DeadEmpty' /\ CastSafe'
    BY <1>0, <2>0, <2>3, <2>4 DEF DeadEmpty, CastSafe
  <2> QED
    BY <2>1, <2>2, <2>5
<1>5. ASSUME NEW t \in Threads, NEW p \in Ptrs, NEW u \in Threads, HandOver(t, p, u)
      PROVE  IInv'
  <2>1. OwnInv'
    BY <1>5, HandOverKeeps
  <2>2. TypeOK' /\ DeadEmpty' /\ CastSafe'
    BY <1>5 DEF HandOver, TypeOK, DeadEmpty, CastSafe
  <2> QED
    BY <2>1, <2>2
<1>6. ASSUME NEW t \in Threads, NEW j \in JsObjects, NEW o \in Objects, NewExternal(t, j, o)
      PROVE  IInv'
  <2>1. OwnInv'
    BY <1>6, NewExternalKeeps
  <2>2. TypeOK' /\ DeadEmpty' /\ CastSafe'
    BY <1>0, <1>6 DEF NewExternal, TypeOK, DeadEmpty, CastSafe
  <2> QED
    BY <2>1, <2>2
<1>7. CASE UNCHANGED vars
  <2>1. RefCountExact'
    BY <1>7 DEF vars, OwnInv, RefCountExact, Counted, Releasing
  <2>2. OwnInv'
    BY <1>7, <2>1 DEF vars, OwnInv, AddingOwn, DeletingLast, NoDangling, BackedUp,
                      KnownOnlyTo, DeletingUnowned
  <2>3. TypeOK' /\ DeadEmpty' /\ CastSafe'
    BY <1>7 DEF vars, TypeOK, DeadEmpty, CastSafe
  <2> QED
    BY <2>2, <2>3
<1> QED
  BY <1>1, <1>2, <1>3, <1>4, <1>5, <1>6, <1>7, ExchangeSteps
     DEF Next, Continue, PtrStep, ExternalStep

LEMMA Invariance == Spec => []IInv
  BY InitIInv, NextIInv, PTL DEF Spec

-----------------------------------------------------------------------------
(* What holds of every execution.                                          *)

\* The types of all state, in particular that ref_count_ is never decremented
\* below zero (jxx.class.h Release).
THEOREM TypeCorrect == Spec => []TypeOK
  BY Invariance, PTL DEF IInv

\* The count of every object is exact at every interleaving, for any number of
\* threads, pointers and JavaScript objects.
THEOREM RefCountCorrect == Spec => []RefCountExact
  BY Invariance, PTL DEF IInv, OwnInv

\* No pointer, JavaScript object or unfinished operation ever refers to an
\* object that was deleted.
THEOREM NoUseAfterDelete == Spec => []NoDangling
  BY Invariance, PTL DEF IInv, OwnInv

\* No pointer ever holds an object that does not implement its class.
THEOREM CastSafety == Spec => []CastSafe
  BY Invariance, PTL DEF IInv

-----------------------------------------------------------------------------
(* The counted objects implement plain shared ownership.                   *)

\* Every step of JxxObject is a step of Ownership or changes nothing there: in
\* particular delete this is a Destroy of an object without owners.
LEMMA StepRefines ==
  ASSUME IInv, [Next]_vars
  PROVE  [Abstract!Next]_(Abstract!vars)
<1> USE ObjectsAssumption DEF Abstract!vars, IInv
<1>0. Ptrs \subseteq Slots /\ JsObjects \subseteq Slots
  BY DEF Slots
<1>a. ASSUME NEW s \in Slots, \/ \E o \in Objects : Abstract!Create(s, o)
                              \/ \E from \in Slots : Abstract!Share(s, from)
                              \/ \E from \in Slots : Abstract!Move(s, from)
                              \/ Abstract!Drop(s)
      PROVE  Abstract!Next
  BY <1>a DEF Abstract!Next
<1>1. ASSUME NEW t \in Threads, AddRef(t) \/ Release(t)
      PROVE  UNCHANGED Abstract!vars
  BY <1>1 DEF AddRef, Release
<1>2. ASSUME NEW t \in Threads, DeleteThis(t)
      PROVE  Abstract!Next
  <2> DEFINE o == deleting[t]
  <2>1. o \in Objects /\ life[o] = "alive" /\ Abstract!Owners(o) = {}
    BY <1>2 DEF DeleteThis, TypeOK, OwnInv, NoDangling, DeletingUnowned, Abstract!Owners
  <2>2. Abstract!Destroy(o)
    BY <1>2, <2>1 DEF DeleteThis, Abstract!Destroy
  <2> QED
    BY <2>1, <2>2 DEF Abstract!Next
<1>3. ASSUME NEW t \in Threads, NEW p \in Ptrs, NEW o \in Objects, MakeObject(t, p, o)
      PROVE  Abstract!Next
  <2>1. Abstract!Create(p, o)
    BY <1>3 DEF MakeObject, Exchange, Abstract!Create
  <2> QED
    BY <1>0, <1>a, <2>1
<1>4. ASSUME NEW t \in Threads, NEW p \in Ptrs, NEW q \in Ptrs, CopyPtr(t, p, q)
      PROVE  Abstract!Next
  <2>1. Abstract!Share(p, q) \/ Abstract!Drop(p)
    BY <1>4 DEF CopyPtr, Exchange, Cast, Abstract!Share, Abstract!Drop
  <2> QED
    BY <1>0, <1>a, <2>1
<1>5. ASSUME NEW t \in Threads, NEW p \in Ptrs, NEW q \in Ptrs, MovePtr(t, p, q)
      PROVE  Abstract!Next
  <2>1. Abstract!Move(p, q) \/ Abstract!Drop(p)
    BY <1>5 DEF MovePtr, Cast, Abstract!Move, Abstract!Drop
  <2> QED
    BY <1>0, <1>a, <2>1
<1>6. ASSUME NEW t \in Threads, NEW p \in Ptrs, ResetPtr(t, p)
      PROVE  Abstract!Next
  <2>1. Abstract!Drop(p)
    BY <1>6 DEF ResetPtr, Exchange, Abstract!Drop
  <2> QED
    BY <1>0, <1>a, <2>1
<1>7. ASSUME NEW t \in Threads, NEW p \in Ptrs, NEW u \in Threads, HandOver(t, p, u)
      PROVE  UNCHANGED Abstract!vars
  BY <1>7 DEF HandOver
<1>8. ASSUME NEW t \in Threads, NEW j \in JsObjects, NEW o \in Objects, NewExternal(t, j, o)
      PROVE  Abstract!Next
  <2>1. Abstract!Create(j, o) \/ Abstract!CreateFails(o)
    BY <1>8 DEF NewExternal, Abstract!Create, Abstract!CreateFails
  <2> QED
    BY <1>0, <1>a, <2>1 DEF Abstract!Next
<1>9. ASSUME NEW t \in Threads, NEW j \in JsObjects, NEW p \in Ptrs,
             CreateExternal(t, j, p) \/ AssignExternal(t, j, p)
      PROVE  Abstract!Next
  <2>1. Abstract!Share(j, p)
    BY <1>9 DEF CreateExternal, AssignExternal, Exchange, Abstract!Share
  <2> QED
    BY <1>0, <1>a, <2>1
<1>10. ASSUME NEW t \in Threads, NEW j \in JsObjects, NEW p \in Ptrs, TryGetAs(t, p, j)
       PROVE  Abstract!Next
  <2>1. Abstract!Share(p, j) \/ Abstract!Drop(p)
    BY <1>10 DEF TryGetAs, Exchange, Cast, Abstract!Share, Abstract!Drop
  <2> QED
    BY <1>0, <1>a, <2>1
<1>11. ASSUME NEW t \in Threads, NEW j \in JsObjects, Finalize(t, j)
       PROVE  Abstract!Next
  <2>1. Abstract!Drop(j)
    BY <1>11 DEF Finalize, Exchange, Abstract!Drop
  <2> QED
    BY <1>0, <1>a, <2>1
<1>12. CASE UNCHANGED vars
  BY <1>12 DEF vars
<1> QED
  BY <1>1, <1>2, <1>3, <1>4, <1>5, <1>6, <1>7, <1>8, <1>9, <1>10, <1>11, <1>12
     DEF Next, Continue, PtrStep, ExternalStep

\* Reference counting as jxx.api.h, jxx.class.h and jxx.object.h do it
\* implements shared ownership without counters.
THEOREM Refinement == Spec => ImplementsOwnership
<1>1. Init => Abstract!Init
  BY DEF Init, Abstract!Init
<1>2. IInv /\ [Next]_vars => [Abstract!Next]_(Abstract!vars)
  BY StepRefines
<1> QED
  BY <1>1, <1>2, Invariance, PTL DEF Spec, ImplementsOwnership, Abstract!Spec

-----------------------------------------------------------------------------
(* Nothing is leaked, and nothing comes back.                              *)

Owned(o) == \E s \in Slots : refs[s] = o
Dropping(t, o) == releasing[t] = o \/ deleting[t] = o

\* An object exists exactly as long as a slot owns it or some thread is in the
\* middle of an operation that drops it.
LifeExact ==
  \A o \in Objects :
    life[o] = "alive" <=> Owned(o) \/ \E t \in Threads : Dropping(t, o)

\* What an operation does when it begins: what a slot loses stays in a slot or
\* is to be released, what a slot gets was in one or is new.
Begins(t) ==
  /\ Idle(t) /\ deleting' = deleting
  /\ \A u \in Threads : u # t => adding'[u] = adding[u] /\ releasing'[u] = releasing[u]
  /\ releasing'[t] # Null => Owned(releasing'[t])
  /\ \A s \in Slots : releasing'[t] = refs[s] \/ \E r \in Slots : refs'[r] = refs[s]
  /\ \A s \in Slots : refs'[s] # Null => Owned(refs'[s]) \/ life[refs'[s]] = "unborn"
  /\ \A o \in Objects :
       \/ life'[o] = life[o]
       \/ life[o] = "unborn" /\ (life'[o] = "alive" => \E s \in Slots : refs'[s] = o)

\* An operation that puts x into one slot begins as Begins says.
LEMMA ExchangeBegins ==
  ASSUME IInv, NEW t \in Threads, NEW s \in Slots, NEW x \in Objects \cup {Null},
         Idle(t), Exchange(t, s, x), UNCHANGED deleting,
         \/ life' = life /\ (x = Null \/ Owned(x))
         \/ x \in Objects /\ life[x] = "unborn" /\ life' = [life EXCEPT ![x] = "alive"]
  PROVE  Begins(t)
<1>1. /\ \A r \in Slots : refs'[r] = IF r = s THEN x ELSE refs[r]
      /\ \A u \in Threads : u # t => adding'[u] = adding[u] /\ releasing'[u] = releasing[u]
      /\ releasing'[t] = refs[s]
  BY DEF Exchange, IInv, TypeOK
<1>2. \A r \in Slots : releasing'[t] = refs[r] \/ \E r2 \in Slots : refs'[r2] = refs[r]
  BY <1>1
<1>3. \A o \in Objects : \/ life'[o] = life[o]
                         \/ /\ life[o] = "unborn"
                            /\ life'[o] = "alive" => \E r \in Slots : refs'[r] = o
  BY <1>1 DEF IInv, TypeOK
<1>4. \A r \in Slots : refs'[r] # Null => Owned(refs'[r]) \/ life[refs'[r]] = "unborn"
  BY <1>1 DEF Owned
<1> QED
  BY <1>1, <1>2, <1>3, <1>4 DEF Begins, Owned

\* Every step is one of a running operation, or begins one.
LEMMA OperationBegins ==
  ASSUME IInv, NEW t \in Threads, PtrStep(t) \/ ExternalStep(t)
  PROVE  Begins(t)
<1> USE ObjectsAssumption
<1>0. /\ Ptrs \subseteq Slots /\ JsObjects \subseteq Slots /\ Null \notin Slots
      /\ \A s \in Slots : refs[s] \in Objects \cup {Null}
      /\ \A s \in Slots : refs[s] # Null => Owned(refs[s])
  BY SlotsAssumption DEF Slots, IInv, TypeOK, Owned
<1>1. ASSUME NEW p \in Ptrs, NEW o \in Objects, MakeObject(t, p, o)
      PROVE  Begins(t)
  BY <1>0, <1>1, ExchangeBegins DEF MakeObject
<1>2. ASSUME NEW p \in Ptrs, NEW q \in Ptrs, CopyPtr(t, p, q)
      PROVE  Begins(t)
  <2> DEFINE x == IF ClassOf[p] = ClassOf[q] THEN refs[q] ELSE Cast(refs[q], ClassOf[p])
  <2>1. x \in Objects \cup {Null} /\ (x = Null \/ Owned(x))
    BY <1>0 DEF Cast
  <2>2. Idle(t) /\ Exchange(t, p, x) /\ life' = life /\ deleting' = deleting
    BY <1>2 DEF CopyPtr
  <2> HIDE DEF x
  <2> QED
    BY <1>0, <2>1, <2>2, ExchangeBegins
<1>3. ASSUME NEW p \in Ptrs, NEW q \in Ptrs, MovePtr(t, p, q)
      PROVE  Begins(t)
  <2> DEFINE x == Cast(refs[q], ClassOf[p])
  <2>1. /\ Idle(t) /\ life' = life /\ adding' = adding /\ deleting' = deleting
        /\ \A r \in Slots : refs'[r] = IF r = p THEN x
                                       ELSE IF r = q /\ x # Null THEN Null ELSE refs[r]
        /\ \A u \in Threads : u # t => releasing'[u] = releasing[u]
        /\ releasing'[t] = IF p = q /\ x # Null THEN Null ELSE refs[p]
    BY <1>0, <1>3 DEF MovePtr, IInv, TypeOK
  <2>2. x = Null \/ x = refs[q]
    BY DEF Cast
  <2> HIDE DEF x
  <2>3. \A r \in Slots : releasing'[t] = refs[r] \/ \E r2 \in Slots : refs'[r2] = refs[r]
    <3> SUFFICES ASSUME NEW r \in Slots
                 PROVE  releasing'[t] = refs[r] \/ \E r2 \in Slots : refs'[r2] = refs[r]
      OBVIOUS
    <3>1. CASE r = p
      BY <1>0, <2>1, <2>2, <3>1
    <3>2. CASE r = q /\ r # p
      BY <1>0, <2>1, <2>2, <3>2
    <3>3. CASE r # q /\ r # p
      BY <1>0, <2>1, <3>3
    <3> QED
      BY <3>1, <3>2, <3>3
  <2>4. releasing'[t] # Null => Owned(releasing'[t])
    BY <1>0, <2>1
  <2>5. \A r \in Slots : refs'[r] # Null => Owned(refs'[r])
    BY <1>0, <2>1, <2>2
  <2> QED
    BY <2>1, <2>3, <2>4, <2>5 DEF Begins
<1>4. ASSUME NEW p \in Ptrs, ResetPtr(t, p)
      PROVE  Begins(t)
  BY <1>0, <1>4, ExchangeBegins DEF ResetPtr
<1>5. ASSUME NEW p \in Ptrs, NEW u \in Threads, HandOver(t, p, u)
      PROVE  Begins(t)
  BY <1>0, <1>5 DEF HandOver, Begins, Idle
<1>6. ASSUME NEW j \in JsObjects, NEW o \in Objects, NewExternal(t, j, o)
      PROVE  Begins(t)
  <2>1. /\ Idle(t) /\ refs[j] = Null /\ life[o] = "unborn"
        /\ adding' = adding /\ releasing' = releasing /\ deleting' = deleting
        /\ j \in Slots
    BY <1>0, <1>6 DEF NewExternal, IInv, DeadEmpty
  <2>2. \/ refs' = [refs EXCEPT ![j] = o] /\ life' = [life EXCEPT ![o] = "alive"]
        \/ refs' = refs /\ life' = [life EXCEPT ![o] = "deleted"]
    BY <1>6 DEF NewExternal
  <2>3. /\ \A r \in Slots : r # j => refs'[r] = refs[r]
        /\ refs'[j] \in {o, Null}
        /\ \A y \in Objects : y # o => life'[y] = life[y]
        /\ life'[o] = "alive" => refs'[j] = o
    BY <2>1, <2>2 DEF IInv, TypeOK
  <2>4. releasing'[t] = Null
    BY <2>1 DEF Idle
  <2> QED
    BY <1>0, <2>1, <2>3, <2>4 DEF Begins
<1>7. ASSUME NEW j \in JsObjects, NEW p \in Ptrs,
             CreateExternal(t, j, p) \/ AssignExternal(t, j, p)
      PROVE  Begins(t)
  BY <1>0, <1>7, ExchangeBegins DEF CreateExternal, AssignExternal
<1>8. ASSUME NEW j \in JsObjects, NEW p \in Ptrs, TryGetAs(t, p, j)
      PROVE  Begins(t)
  <2> DEFINE x == Cast(refs[j], ClassOf[p])
  <2>1. x \in Objects \cup {Null} /\ (x = Null \/ Owned(x))
    BY <1>0 DEF Cast
  <2>2. Idle(t) /\ Exchange(t, p, x) /\ life' = life /\ deleting' = deleting
    BY <1>8 DEF TryGetAs
  <2> HIDE DEF x
  <2> QED
    BY <1>0, <2>1, <2>2, ExchangeBegins
<1>9. ASSUME NEW j \in JsObjects, Finalize(t, j)
      PROVE  Begins(t)
  BY <1>0, <1>9, ExchangeBegins DEF Finalize
<1> QED
  BY <1>1, <1>2, <1>3, <1>4, <1>5, <1>6, <1>7, <1>8, <1>9 DEF PtrStep, ExternalStep

\* Who can take a step.
LEMMA Steps ==
  ASSUME [Next]_vars
  PROVE  \/ UNCHANGED vars
         \/ \E t \in Threads : Continue(t) \/ PtrStep(t) \/ ExternalStep(t)
  BY DEF Next

\* Who alone has an object, and counts it down to something else than zero,
\* leaves an owner or another release behind.
LEMMA ReleaseLeaves ==
  ASSUME IInv, NEW t \in Threads, Release(t), ref_count[releasing[t]] - 1 # 0
  PROVE  Owned(releasing[t]) \/ \E u \in Threads : u # t /\ releasing[u] = releasing[t]
<1> DEFINE o == releasing[t]
<1>1. o \in Objects /\ adding[t] = Null /\ o # Null
  BY DEF Release, IInv, TypeOK
<1>2. ref_count[o] - 1 = Cardinality(Counted(o)) + Cardinality(Releasing(o) \ {t})
  BY <1>1, LastRelease, CountsFinite DEF IInv, OwnInv, RefCountExact, TypeOK
<1>3. Counted(o) # {} \/ Releasing(o) \ {t} # {}
  <2> SUFFICES ASSUME Counted(o) = {}, Releasing(o) \ {t} = {} PROVE FALSE
    OBVIOUS
  <2>1. Cardinality(Counted(o)) = 0 /\ Cardinality(Releasing(o) \ {t}) = 0
    BY FS_EmptySet
  <2>2. ref_count[o] - 1 = 0 + 0
    BY <1>2, <2>1, Zenon
  <2> QED
    BY <2>2
<1> QED
  BY <1>3 DEF Counted, Releasing, Owned

\* A step that leaves an object alive leaves somebody who owns or drops it.
LEMMA LifeKept ==
  ASSUME IInv, [Next]_vars, NEW o \in Objects,
         life[o] = "alive" => Owned(o) \/ \E t \in Threads : Dropping(t, o),
         life'[o] = "alive"
  PROVE  Owned(o)' \/ \E t \in Threads : Dropping(t, o)'
<1> USE ObjectsAssumption
<1>1. CASE UNCHANGED vars
  BY <1>1 DEF vars, Owned, Dropping
<1>2. ASSUME NEW t \in Threads, AddRef(t)
      PROVE  Owned(o)' \/ \E u \in Threads : Dropping(u, o)'
  BY <1>2 DEF AddRef, Owned, Dropping
<1>3. ASSUME NEW t \in Threads, Release(t)
      PROVE  Owned(o)' \/ \E u \in Threads : Dropping(u, o)'
  <2>1. /\ refs' = refs /\ life' = life /\ releasing[t] # Null /\ deleting[t] = Null
        /\ \A u \in Threads : u # t => releasing'[u] = releasing[u] /\ deleting'[u] = deleting[u]
        /\ deleting'[t] = IF ref_count[releasing[t]] - 1 = 0 THEN releasing[t] ELSE Null
    BY <1>3 DEF Release, IInv, OwnInv, DeletingLast, TypeOK
  <2>2. CASE releasing[t] = o /\ ref_count[o] - 1 # 0
    BY <1>3, <2>1, <2>2, ReleaseLeaves DEF Owned, Dropping
  <2>3. CASE releasing[t] = o /\ ref_count[o] - 1 = 0
    BY <2>1, <2>3 DEF Dropping
  <2>4. CASE releasing[t] # o
    BY <2>1, <2>4 DEF Owned, Dropping
  <2> QED
    BY <2>2, <2>3, <2>4
<1>4. ASSUME NEW t \in Threads, DeleteThis(t)
      PROVE  Owned(o)' \/ \E u \in Threads : Dropping(u, o)'
  <2>1. /\ refs' = refs /\ releasing' = releasing
        /\ \A u \in Threads : u # t => deleting'[u] = deleting[u]
        /\ o # deleting[t] /\ life[o] = "alive"
    BY <1>4 DEF DeleteThis, IInv, TypeOK
  <2> QED
    BY <2>1 DEF Owned, Dropping
<1>5. ASSUME NEW t \in Threads, Begins(t)
      PROVE  Owned(o)' \/ \E u \in Threads : Dropping(u, o)'
  <2>1. CASE life[o] # "alive"
    BY <1>5, <2>1 DEF Begins, Owned
  <2>2. CASE Owned(o)
    BY <1>5, <2>2 DEF Begins, Owned, Dropping
  <2>3. CASE \E u \in Threads : Dropping(u, o)
    BY <1>5, <2>3 DEF Begins, Dropping, Idle
  <2> QED
    BY <2>1, <2>2, <2>3
<1> QED
  BY <1>1, <1>2, <1>3, <1>4, <1>5, Steps, OperationBegins DEF Continue

\* An object is alive exactly while something owns it or drops it: none is
\* leaked, and none is deleted too early, at any interleaving.
THEOREM NoLeak == Spec => []LifeExact
<1>1. Init => LifeExact
  BY ObjectsAssumption DEF Init, LifeExact, Owned, Dropping
<1>2. IInv /\ LifeExact /\ [Next]_vars /\ IInv' => LifeExact'
  <2> SUFFICES ASSUME IInv, LifeExact, [Next]_vars, IInv', NEW o \in Objects
               PROVE  (life[o] = "alive")' <=>
                        Owned(o)' \/ \E t \in Threads : Dropping(t, o)'
    BY DEF LifeExact
  <2>1. life'[o] = "alive" => Owned(o)' \/ \E t \in Threads : Dropping(t, o)'
    BY LifeKept DEF LifeExact
  <2>2. Owned(o)' \/ (\E t \in Threads : Dropping(t, o)') => life'[o] = "alive"
    BY DEF IInv, OwnInv, NoDangling, Owned, Dropping
  <2> QED
    BY <2>1, <2>2
<1> QED
  BY <1>1, <1>2, Invariance, PTL DEF Spec

\* An object that no smart pointer or JS object refers to any more.
GivenUp(o) == life[o] # "unborn" /\ ~Owned(o)

\* It stays so, and no thread begins to drop it that did not drop it already.
LEMMA GivenUpKept ==
  ASSUME IInv, [Next]_vars, NEW o \in Objects, GivenUp(o)
  PROVE  /\ GivenUp(o)'
         /\ \A t \in Threads : ~Dropping(t, o) => ~Dropping(t, o)'
<1> USE ObjectsAssumption DEF GivenUp
<1>1. CASE UNCHANGED vars
  BY <1>1 DEF vars, Owned, Dropping
<1>2. ASSUME NEW t \in Threads, Continue(t)
      PROVE  GivenUp(o)' /\ \A u \in Threads : ~Dropping(u, o) => ~Dropping(u, o)'
  <2>1. refs' = refs /\ life'[o] # "unborn"
    BY <1>2 DEF Continue, AddRef, Release, DeleteThis, IInv, TypeOK
  <2>2. \A u \in Threads : /\ releasing'[u] = o => releasing[u] = o
                           /\ deleting'[u] = o => Dropping(u, o)
    BY <1>2 DEF Continue, AddRef, Release, DeleteThis, IInv, TypeOK, Dropping
  <2> QED
    BY <2>1, <2>2 DEF Owned, Dropping
<1>3. ASSUME NEW t \in Threads, Begins(t)
      PROVE  GivenUp(o)' /\ \A u \in Threads : ~Dropping(u, o) => ~Dropping(u, o)'
  <2>1. life'[o] = life[o]
    BY <1>3 DEF Begins
  <2>2. ~Owned(o)'
    BY <1>3 DEF Begins, Owned
  <2>3. \A u \in Threads : ~Dropping(u, o) => ~Dropping(u, o)'
    BY <1>3 DEF Begins, Dropping
  <2> QED
    BY <2>1, <2>2, <2>3
<1> QED
  BY <1>1, <1>2, <1>3, Steps, OperationBegins

\* An object that nothing owns is never owned again, for all that threads in
\* the middle of an operation still hold it.
THEOREM NeverOwnedAgain ==
  ASSUME NEW o \in Objects
  PROVE  Spec => [](GivenUp(o) => []GivenUp(o))
<1>1. IInv /\ [Next]_vars /\ GivenUp(o) => GivenUp(o)'
  BY GivenUpKept
<1> QED
  BY <1>1, Invariance, PTL DEF Spec

-----------------------------------------------------------------------------
(* Operations end.  A theorem about fairness has what it needs of ENABLED  *)
(* as its hypothesis.                                                      *)

\* The steps that thread t has at most still to take.
Work(t) == (IF adding[t] # Null THEN 1 ELSE 0) + (IF releasing[t] # Null THEN 2 ELSE 0)
           + (IF deleting[t] # Null THEN 1 ELSE 0)

\* At most three steps are left, and none exactly if the thread is idle.
LEMMA WorkType == \A t \in Threads : IInv => Work(t) \in 0..3 /\ (Work(t) = 0 <=> Idle(t))
  BY DEF Work, Idle, IInv, OwnInv, DeletingLast

\* Each step of an operation leaves it fewer.
LEMMA ContinueWorks ==
  ASSUME IInv, NEW t \in Threads, Continue(t)
  PROVE  Work(t)' < Work(t)
<1> USE DEF Work, IInv, OwnInv, DeletingLast, TypeOK
<1>1. CASE AddRef(t)
  BY <1>1 DEF AddRef
<1>2. CASE Release(t)
  BY <1>2 DEF Release
<1>3. CASE DeleteThis(t)
  BY <1>3 DEF DeleteThis
<1> QED
  BY <1>1, <1>2, <1>3 DEF Continue

\* No other thread puts an operation back, and none begins before the last is over.
LEMMA WorkKept ==
  ASSUME IInv, [Next]_vars, NEW t \in Threads, ~Idle(t)
  PROVE  Work(t)' = Work(t) \/ Work(t)' < Work(t)
<1>1. CASE UNCHANGED vars
  BY <1>1 DEF vars, Work
<1>2. ASSUME NEW u \in Threads, Continue(u), u # t
      PROVE  Work(t)' = Work(t)
  BY <1>2 DEF Continue, AddRef, Release, DeleteThis, Work, IInv, TypeOK
<1>3. ASSUME NEW u \in Threads, Begins(u)
      PROVE  Work(t)' = Work(t)
  BY <1>3 DEF Begins, Work
<1> QED
  BY <1>1, <1>2, <1>3, Steps, OperationBegins, ContinueWorks

\* The next step of an operation that has begun is possible.
CanGoOn(t) == [](~Idle(t) => ENABLED <<Continue(t)>>_vars)
\* Thread t finishes whatever it begins.
ComesToItsEnd(t) == []<>Idle(t)

\* Thread t comes to its end, whatever the others do.
LEMMA OperationEnds ==
  ASSUME NEW t \in Threads
  PROVE  FairSpec /\ CanGoOn(t) => ComesToItsEnd(t)
<1>1. FairSpec => Spec /\ GoesOn(t)
  BY DEF FairSpec
<1>2. IInv => Idle(t) \/ Work(t) = 1 \/ Work(t) = 2 \/ Work(t) = 3
  BY WorkType
<1>3. IInv => Work(t) \in 0..3 /\ (Work(t) = 0 <=> Idle(t))
  BY WorkType
<1>4. (IInv => Work(t) \in 0..3 /\ (Work(t) = 0 <=> Idle(t)))'
  BY <1>3, PTL
<1>5. IInv /\ ~Idle(t) /\ [Next]_vars /\ IInv' =>
        /\ Work(t) = 3 => (Work(t) = 3)' \/ (Work(t) = 2)' \/ (Work(t) = 1)' \/ Idle(t)'
        /\ Work(t) = 2 => (Work(t) = 2)' \/ (Work(t) = 1)' \/ Idle(t)'
        /\ Work(t) = 1 => (Work(t) = 1)' \/ Idle(t)'
  BY <1>3, <1>4, WorkKept
<1>6. IInv /\ ~Idle(t) /\ <<Continue(t)>>_vars /\ IInv' =>
        /\ Work(t) = 3 => (Work(t) = 2)' \/ (Work(t) = 1)' \/ Idle(t)'
        /\ Work(t) = 2 => (Work(t) = 1)' \/ Idle(t)'
        /\ Work(t) = 1 => Idle(t)'
  BY <1>3, <1>4, ContinueWorks
<1> QED
  BY <1>1, <1>2, <1>5, <1>6, Invariance, PTL DEF Spec, GoesOn, CanGoOn, ComesToItsEnd

\* Every operation of every thread comes to its end, whatever the other threads
\* do, if its next step is always possible.
THEOREM OperationsEnd ==
  FairSpec /\ (\A t \in Threads : CanGoOn(t)) => \A t \in Threads : ComesToItsEnd(t)
<1>1. ASSUME NEW t \in Threads
      PROVE  FairSpec /\ CanGoOn(t) => ComesToItsEnd(t)
  BY OperationEnds
<1> QED
  BY <1>1

\* A thread that drops an object nothing owns lets go of it for good: it has
\* deleted the object or left that to another that drops it.
THEOREM DroppedForGood ==
  ASSUME NEW o \in Objects, NEW t \in Threads
  PROVE  FairSpec /\ CanGoOn(t) => (GivenUp(o) ~> []~Dropping(t, o))
<1>1. Idle(t) => ~Dropping(t, o)
  BY ObjectsAssumption DEF Idle, Dropping
<1>2. IInv /\ [Next]_vars /\ GivenUp(o) => GivenUp(o)' /\ (~Dropping(t, o) => ~Dropping(t, o)')
  BY GivenUpKept
<1>3. FairSpec => Spec
  BY DEF FairSpec
<1>4. FairSpec /\ CanGoOn(t) => ComesToItsEnd(t)
  BY OperationEnds
<1> QED
  BY <1>1, <1>2, <1>3, <1>4, Invariance, PTL DEF Spec, ComesToItsEnd
=============================================================================
