------------------------ MODULE ModuleRegistryProofs ------------------------
(***************************************************************************)
(* Proofs about ModuleRegistry for any number of threads, names and        *)
(* details.                                                                *)
(***************************************************************************)
EXTENDS ModuleRegistry, TLAPS

\* A request exists during a call, a reply from its effect to its return.
CallInv == \A t \in Threads : /\ pc[t] = "idle" <=> request[t] = NoRequest
                              /\ pc[t] = "unlock" <=> reply[t] # NoReply

\* A thread inside holds the lock in the mode of its call.
LockInv == /\ writer # Null => readers = {}
           /\ \A t \in Threads : Inside(t) =>
                IF request[t].op = "RegisterModule" THEN writer = t ELSE t \in readers

\* Between the lookup and the insertion the name stays free.
FreeInv == \A t \in Threads : pc[t] = "insert" =>
             /\ request[t].op = "RegisterModule"
             /\ registry_[Key(t)] = Null

IInv == TypeOK /\ CallInv /\ LockInv /\ FreeInv

-----------------------------------------------------------------------------
\* A thread that is in a call has a request of one of the two kinds.
LEMMA RequestKinds ==
  ASSUME TypeOK, CallInv, NEW t \in Threads, pc[t] # "idle"
  PROVE  \/ /\ request[t].op = "RegisterModule"
            /\ request[t].detail \in Details
            /\ Key(t) = SpecialerOf[request[t].detail] /\ Key(t) \in Names
         \/ /\ request[t].op = "QueryModule"
            /\ Key(t) = request[t].name /\ Key(t) \in Names
<1>1. request[t] \in Requests
  BY DEF TypeOK, CallInv
<1> QED
  BY <1>1, DetailsAssumption DEF Requests, Key

LEMMA InitIInv == Init => IInv
  BY DEF Init, IInv, TypeOK, CallInv, LockInv, FreeInv, Inside

\* The inductive step.
LEMMA NextIInv == IInv /\ [Next]_vars => IInv'
<1> SUFFICES ASSUME IInv, [Next]_vars PROVE IInv'
  OBVIOUS
<1> USE ThreadsAssumption, DetailsAssumption, RequestsAssumption DEF IInv
<1>1. ASSUME NEW t \in Threads, NEW r \in Requests, Call(t, r)
      PROVE  IInv'
  <2>1. TypeOK'
    BY <1>1 DEF Call, Goto, TypeOK
  <2>2. CallInv'
    BY <1>1 DEF Call, Goto, TypeOK, CallInv
  <2>3. LockInv' /\ FreeInv'
    BY <1>1 DEF Call, Goto, TypeOK, LockInv, FreeInv, Inside, Key
  <2> QED
    BY <2>1, <2>2, <2>3
<1>2. ASSUME NEW t \in Threads, LockExclusive(t)
      PROVE  IInv'
  <2>1. TypeOK' /\ CallInv'
    BY <1>2 DEF LockExclusive, At, Goto, TypeOK, CallInv
  <2>2. LockInv' /\ FreeInv'
    BY <1>2 DEF LockExclusive, At, Goto, TypeOK, LockInv, FreeInv, Inside, Key
  <2> QED
    BY <2>1, <2>2
<1>3. ASSUME NEW t \in Threads, LockForQuery(t)
      PROVE  IInv'
  <2>1. TypeOK' /\ CallInv'
    BY <1>3 DEF LockForQuery, At, Goto, TypeOK, CallInv
  <2>2. LockInv' /\ FreeInv'
    BY <1>3 DEF LockForQuery, At, Goto, TypeOK, LockInv, FreeInv, Inside, Key
  <2> QED
    BY <2>1, <2>2
<1>4. ASSUME NEW t \in Threads, FindExisting(t)
      PROVE  IInv'
  <2>1. TypeOK' /\ CallInv'
    BY <1>4 DEF FindExisting, At, Goto, TypeOK, CallInv
  <2>2. LockInv' /\ FreeInv'
    BY <1>4 DEF FindExisting, At, Goto, TypeOK, LockInv, FreeInv, Inside, Key
  <2> QED
    BY <2>1, <2>2
<1>5. ASSUME NEW t \in Threads, FindFree(t)
      PROVE  IInv'
  <2>1. TypeOK' /\ CallInv'
    BY <1>5 DEF FindFree, At, Goto, TypeOK, CallInv
  <2>2. LockInv' /\ FreeInv'
    BY <1>5 DEF FindFree, At, Goto, TypeOK, LockInv, FreeInv, Inside, Key
  <2> QED
    BY <2>1, <2>2
<1>6. ASSUME NEW t \in Threads, Insert(t)
      PROVE  IInv'
  <2>1. /\ request[t].detail \in Details /\ Key(t) \in Names
        /\ request[t].op = "RegisterModule" /\ pc[t] = "insert"
    BY <1>6, RequestKinds DEF Insert, At
  <2>2. TypeOK' /\ CallInv'
    BY <1>6, <2>1 DEF Insert, Goto, TypeOK, CallInv
  <2>3. LockInv'
    BY <1>6 DEF Insert, At, Goto, TypeOK, LockInv, Inside
  <2>4. \A u \in Threads : u # t => pc[u] # "insert"
    BY <2>1 DEF LockInv, FreeInv, Inside
  <2>5. FreeInv'
    BY <1>6, <2>4 DEF Insert, Goto, TypeOK, FreeInv
  <2> QED
    BY <2>2, <2>3, <2>5
<1>7. ASSUME NEW t \in Threads, FindForQuery(t)
      PROVE  IInv'
  <2>1. Key(t) \in Names
    BY <1>7, RequestKinds DEF FindForQuery, At
  <2>2. TypeOK' /\ CallInv'
    BY <1>7, <2>1 DEF FindForQuery, At, Goto, TypeOK, CallInv
  <2>3. LockInv' /\ FreeInv'
    BY <1>7 DEF FindForQuery, At, Goto, TypeOK, LockInv, FreeInv, Inside, Key
  <2> QED
    BY <2>2, <2>3
<1>8. ASSUME NEW t \in Threads, Return(t)
      PROVE  IInv'
  <2>1. TypeOK' /\ CallInv'
    BY <1>8 DEF Return, Goto, TypeOK, CallInv
  <2>2. LockInv'
    BY <1>8 DEF Return, Goto, TypeOK, LockInv, Inside
  <2>3. FreeInv'
    BY <1>8 DEF Return, Goto, TypeOK, FreeInv, Key
  <2> QED
    BY <2>1, <2>2, <2>3
<1>9. CASE UNCHANGED vars
  BY <1>9 DEF vars, TypeOK, CallInv, LockInv, FreeInv, Inside, Key
<1> QED
  BY <1>1, <1>2, <1>3, <1>4, <1>5, <1>6, <1>7, <1>8, <1>9 DEF Next, Locked

LEMMA Invariance == Spec => []IInv
  BY InitIInv, NextIInv, PTL DEF Spec

-----------------------------------------------------------------------------
(* The lock is given back.                                                 *)

Find(t) == pc[t] = "find"
Leaving(t) == pc[t] \in {"insert", "unlock"}
AboutToUnlock(t) == pc[t] = "unlock"
HasNoLock(t) == writer # t /\ t \notin readers

\* A thread outside the table has no lock.
OutsideInv == \A t \in Threads : Inside(t) \/ HasNoLock(t)

LEMMA OutsideKept == IInv /\ OutsideInv /\ [Next]_vars => OutsideInv'
<1> SUFFICES ASSUME IInv, OutsideInv, [Next]_vars, NEW u \in Threads
             PROVE  Inside(u)' \/ HasNoLock(u)'
  BY DEF OutsideInv
<1> USE ThreadsAssumption DEF IInv, TypeOK, OutsideInv, Inside, HasNoLock
<1>1. CASE UNCHANGED vars
  BY <1>1 DEF vars
<1>2. ASSUME NEW t \in Threads, NEW r \in Requests, Call(t, r)
      PROVE  Inside(u)' \/ HasNoLock(u)'
  BY <1>2 DEF Call, Goto
<1>3. ASSUME NEW t \in Threads, LockExclusive(t) \/ LockForQuery(t)
      PROVE  Inside(u)' \/ HasNoLock(u)'
  BY <1>3 DEF LockExclusive, LockForQuery, At, Goto
<1>4. ASSUME NEW t \in Threads, FindExisting(t) \/ FindFree(t) \/ Insert(t) \/ FindForQuery(t)
      PROVE  Inside(u)' \/ HasNoLock(u)'
  BY <1>4 DEF FindExisting, FindFree, Insert, FindForQuery, At, Goto
<1>5. ASSUME NEW t \in Threads, Return(t)
      PROVE  Inside(u)' \/ HasNoLock(u)'
  BY <1>5 DEF Return, Goto
<1> QED
  BY <1>1, <1>2, <1>3, <1>4, <1>5 DEF Next, Locked

\* A step inside goes onwards.
LEMMA LockedMoves ==
  ASSUME IInv, NEW t \in Threads, Locked(t)
  PROVE  /\ Find(t) => Leaving(t)'
         /\ Leaving(t) => AboutToUnlock(t)' \/ ~Inside(t)'
         /\ AboutToUnlock(t) => ~Inside(t)'
  BY DEF IInv, TypeOK, Inside, Find, Leaving, AboutToUnlock, Locked, FindExisting, FindFree,
         Insert, FindForQuery, Return, At, Goto

\* Only its own steps move a thread that is inside.
LEMMA InsideStays ==
  ASSUME IInv, [Next]_vars, NEW t \in Threads, Inside(t)
  PROVE  pc'[t] = pc[t] \/ Locked(t)
<1>1. CASE UNCHANGED vars
  BY <1>1 DEF vars
<1>2. ASSUME NEW u \in Threads, u # t,
             (\E r \in Requests : Call(u, r)) \/ LockExclusive(u) \/ LockForQuery(u) \/ Locked(u)
      PROVE  pc'[t] = pc[t]
  BY <1>2 DEF Call, LockExclusive, LockForQuery, Locked, FindExisting, FindFree, Insert,
              FindForQuery, Return, Goto, IInv, TypeOK
<1>3. ~((\E r \in Requests : Call(t, r)) \/ LockExclusive(t) \/ LockForQuery(t))
  BY DEF Inside, Call, LockExclusive, LockForQuery, At
<1> QED
  BY <1>1, <1>2, <1>3 DEF Next

\* A thread inside can take its next step.
CanGoOn(t) == [](Inside(t) => ENABLED <<Locked(t)>>_vars)

-----------------------------------------------------------------------------
\* All state keeps its type.
THEOREM TypeCorrect == Spec => []TypeOK
  BY Invariance, PTL DEF IInv

\* The two lock modes exclude every race on the table, for any number of
\* threads (jxx.module.h RegisterModule and QueryModule).
THEOREM RaceFree == Spec => []NoRace
<1>1. IInv => NoRace
  BY ThreadsAssumption DEF IInv, LockInv, FreeInv, NoRace, Inside
<1> QED
  BY <1>1, Invariance, PTL

\* A name that is registered keeps its detail.
THEOREM RegistrationIsFinal == Spec => FirstRegistrationWins
<1>1. IInv /\ [Next]_vars =>
        [\A n \in Names : registry_[n] # Null => registry_'[n] = registry_[n]]_vars
  <2> SUFFICES ASSUME IInv, Next, NEW n \in Names, registry_[n] # Null
               PROVE  registry_'[n] = registry_[n]
    OBVIOUS
  <2>1. ASSUME NEW t \in Threads, Insert(t)
        PROVE  registry_'[n] = registry_[n]
    BY <2>1 DEF Insert, At, IInv, FreeInv, TypeOK
  <2>2. CASE registry_' = registry_
    BY <2>2
  <2> QED
    BY <2>1, <2>2 DEF Next, Locked, Call, LockExclusive, LockForQuery, FindExisting,
                      FindFree, FindForQuery, Return
<1> QED
  BY <1>1, Invariance, PTL DEF Spec, FirstRegistrationWins

\* Whoever holds the lock gives it back, on every return of RegisterModule and
\* QueryModule, if its next step is always possible: while it holds the lock it
\* waits for nobody.
THEOREM LockIsGivenBack == FairSpec /\ (\A t \in Threads : CanGoOn(t)) => LockGivenBack
<1>1. ASSUME NEW t \in Threads
      PROVE  FairSpec /\ CanGoOn(t) => GivenBack(t)
  <2>1. FairSpec => Spec /\ GoesOn(t)
    BY DEF FairSpec
  <2>2. Init => OutsideInv
    BY ThreadsAssumption DEF Init, OutsideInv, HasNoLock
  <2>3. OutsideInv => Inside(t) \/ HasNoLock(t)
    BY DEF OutsideInv
  <2>4. Inside(t) => Find(t) \/ Leaving(t)
    BY DEF Inside, Find, Leaving
  <2>5. IInv /\ Inside(t) /\ [Next]_vars =>
          /\ Find(t) => Find(t)' \/ Leaving(t)'
          /\ Leaving(t) => Leaving(t)' \/ ~Inside(t)'
          /\ AboutToUnlock(t) => AboutToUnlock(t)' \/ ~Inside(t)'
    BY LockedMoves, InsideStays DEF Find, Leaving, AboutToUnlock, Inside
  <2>6. IInv /\ Inside(t) /\ <<Locked(t)>>_vars =>
          /\ Find(t) => Leaving(t)'
          /\ Leaving(t) => AboutToUnlock(t)' \/ ~Inside(t)'
          /\ AboutToUnlock(t) => ~Inside(t)'
    BY LockedMoves
  <2> QED
    BY <2>1, <2>2, <2>3, <2>4, <2>5, <2>6, Invariance, OutsideKept, PTL
       DEF Spec, GoesOn, CanGoOn, GivenBack, HasNoLock
<1> QED
  BY <1>1 DEF LockGivenBack

\* The lock makes every call atomic: the registry implements a map that is
\* written once per name.
THEOREM Refinement == Spec => ImplementsMap
<1>1. Init => Abstract!Init
  BY DEF Init, Abstract!Init
<1>2. IInv /\ [Next]_vars => [Abstract!Next]_(Abstract!vars)
  <2> SUFFICES ASSUME IInv, [Next]_vars PROVE [Abstract!Next]_(Abstract!vars)
    OBVIOUS
  <2> USE RequestsAssumption DEF Abstract!vars, Abstract!Next, Abstract!Pending, IInv
  <2>1. ASSUME NEW t \in Threads, NEW r \in Requests, Call(t, r)
        PROVE  Abstract!Next
    <3>1. Abstract!Call(t, r) /\ r \in Abstract!Requests
      BY <2>1 DEF Call, CallInv, Abstract!Call, Requests, Abstract!Requests
    <3> QED
      BY <3>1
  <2>2. ASSUME NEW t \in Threads, LockExclusive(t) \/ LockForQuery(t) \/ FindFree(t)
        PROVE  UNCHANGED Abstract!vars
    BY <2>2 DEF LockExclusive, LockForQuery, FindFree
  <2>3. ASSUME NEW t \in Threads, FindExisting(t)
        PROVE  Abstract!Next
    <3>1. Abstract!Refuse(t)
      BY <2>3 DEF FindExisting, At, CallInv, Key, Abstract!Refuse
    <3> QED
      BY <3>1
  <2>4. ASSUME NEW t \in Threads, Insert(t)
        PROVE  Abstract!Next
    <3>1. Abstract!Bind(t)
      BY <2>4 DEF Insert, At, CallInv, FreeInv, Key, Abstract!Bind
    <3> QED
      BY <3>1
  <2>5. ASSUME NEW t \in Threads, FindForQuery(t)
        PROVE  Abstract!Next
    <3>1. Abstract!Answer(t)
      BY <2>5, RequestKinds DEF FindForQuery, At, CallInv, Key, Abstract!Answer
    <3> QED
      BY <3>1
  <2>6. ASSUME NEW t \in Threads, Return(t)
        PROVE  Abstract!Next
    <3>1. Abstract!Return(t)
      BY <2>6 DEF Return, CallInv, Abstract!Return
    <3> QED
      BY <3>1
  <2>7. CASE UNCHANGED vars
    BY <2>7 DEF vars
  <2> QED
    BY <2>1, <2>2, <2>3, <2>4, <2>5, <2>6, <2>7 DEF Next, Locked
<1> QED
  BY <1>1, <1>2, Invariance, PTL DEF Spec, ImplementsMap, Abstract!Spec
=============================================================================
