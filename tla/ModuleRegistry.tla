--------------------------- MODULE ModuleRegistry ---------------------------
(***************************************************************************)
(* The registry of built-in modules, one for all runtimes of the process:  *)
(* a hash table behind a shared_mutex.  RegisterModule looks a name up and *)
(* inserts it under the exclusive lock, QueryModule looks it up under the  *)
(* shared one.  An insertion rewrites the table, so it has a duration: a   *)
(* lookup that overlaps one is a data race.                                *)
(***************************************************************************)
EXTENDS FiniteSets

CONSTANTS Threads,      \* the threads of all runtimes
          Names,        \* specialers of built-in modules
          Details,      \* IJxxModuleDetail objects
          SpecialerOf,  \* SpecialerOf[d]: what d.Specialer() returns
          Null,         \* the null BuildinModuleFactory
          NoRequest, NoReply

ASSUME ThreadsAssumption == Null \notin Threads
ASSUME DetailsAssumption == /\ SpecialerOf \in [Details -> Names]
                            /\ Null \notin Details

VARIABLES
  registry_,  \* registry_[n]: the detail registered as n, or Null
  writer,     \* lock_: the thread that holds it exclusively, or Null
  readers,    \* lock_: the threads that share it
  pc,         \* pc[t]: how far thread t is in its call
  request,    \* request[t]: the call it is in, or NoRequest
  reply       \* reply[t]: what the call will return, or NoReply

vars == <<registry_, writer, readers, pc, request, reply>>

Requests == [op : {"RegisterModule"}, detail : Details] \cup [op : {"QueryModule"}, name : Names]

ASSUME RequestsAssumption ==
  /\ NoRequest \notin Requests
  /\ NoReply \notin Details \cup {Null, "JxxNoError", "JxxErrorHasExisted"}

\* key, of either function.
Key(t) == IF request[t].op = "RegisterModule" THEN SpecialerOf[request[t].detail]
                                              ELSE request[t].name

Init == /\ registry_ = [n \in Names |-> Null]
        /\ writer = Null
        /\ readers = {}
        /\ pc = [t \in Threads |-> "idle"]
        /\ request = [t \in Threads |-> NoRequest]
        /\ reply = [t \in Threads |-> NoReply]

At(t, op, place) == /\ pc[t] = place
                    /\ request[t].op = op

Goto(t, place) == pc' = [pc EXCEPT ![t] = place]

Call(t, r) == /\ pc[t] = "idle"
              /\ request' = [request EXCEPT ![t] = r]
              /\ Goto(t, "lock")
              /\ UNCHANGED <<registry_, writer, readers, reply>>

\* Mutant: the registration takes the lock that queries share.
LockShared(t) ==
  /\ At(t, "RegisterModule", "lock")
  /\ writer = Null
  /\ readers' = readers \cup {t}
  /\ Goto(t, "find")
  /\ UNCHANGED <<registry_, writer, request, reply>>

\* unique_lock write_lock(lock_)
LockExclusive(t) ==
  /\ At(t, "RegisterModule", "lock")
  /\ writer = Null /\ readers = {}
  /\ writer' = t
  /\ Goto(t, "find")
  /\ UNCHANGED <<registry_, readers, request, reply>>

\* The name is taken.
FindExisting(t) ==
  /\ At(t, "RegisterModule", "find")
  /\ registry_[Key(t)] # Null
  /\ reply' = [reply EXCEPT ![t] = "JxxErrorHasExisted"]
  /\ Goto(t, "unlock")
  /\ UNCHANGED <<registry_, writer, readers, request>>

\* Mutant: the lookup before the insertion is left out.
FindNothingChecked(t) ==
  /\ At(t, "RegisterModule", "find")
  /\ Goto(t, "insert")
  /\ UNCHANGED <<registry_, writer, readers, request, reply>>

\* The name is free: the insertion begins.
FindFree(t) ==
  /\ At(t, "RegisterModule", "find")
  /\ registry_[Key(t)] = Null
  /\ Goto(t, "insert")
  /\ UNCHANGED <<registry_, writer, readers, request, reply>>

\* registry_[key] = detail ends.
Insert(t) ==
  /\ At(t, "RegisterModule", "insert")
  /\ registry_' = [registry_ EXCEPT ![Key(t)] = request[t].detail]
  /\ reply' = [reply EXCEPT ![t] = "JxxNoError"]
  /\ Goto(t, "unlock")
  /\ UNCHANGED <<writer, readers, request>>

\* shared_lock read_lock(lock_)
LockForQuery(t) ==
  /\ At(t, "QueryModule", "lock")
  /\ writer = Null
  /\ readers' = readers \cup {t}
  /\ Goto(t, "find")
  /\ UNCHANGED <<registry_, writer, request, reply>>

\* Mutant: a query answers null without looking.
FindSkipped(t) ==
  /\ At(t, "QueryModule", "find")
  /\ reply' = [reply EXCEPT ![t] = Null]
  /\ Goto(t, "unlock")
  /\ UNCHANGED <<registry_, writer, readers, request>>

FindForQuery(t) ==
  /\ At(t, "QueryModule", "find")
  /\ reply' = [reply EXCEPT ![t] = registry_[Key(t)]]
  /\ Goto(t, "unlock")
  /\ UNCHANGED <<registry_, writer, readers, request>>

\* Mutant: the early return keeps the lock.
ReturnLocked(t) ==
  /\ pc[t] = "unlock"
  /\ IF reply[t] = "JxxErrorHasExisted"
     THEN UNCHANGED <<writer, readers>>
     ELSE /\ writer' = IF writer = t THEN Null ELSE writer
          /\ readers' = readers \ {t}
  /\ Goto(t, "idle")
  /\ request' = [request EXCEPT ![t] = NoRequest]
  /\ reply' = [reply EXCEPT ![t] = NoReply]
  /\ UNCHANGED registry_

\* Every return destroys the lock object, which unlocks.
Return(t) ==
  /\ pc[t] = "unlock"
  /\ writer' = IF writer = t THEN Null ELSE writer
  /\ readers' = readers \ {t}
  /\ Goto(t, "idle")
  /\ request' = [request EXCEPT ![t] = NoRequest]
  /\ reply' = [reply EXCEPT ![t] = NoReply]
  /\ UNCHANGED registry_

\* The steps of a thread that holds the lock.
Locked(t) == \/ FindExisting(t) \/ FindFree(t) \/ Insert(t)
             \/ FindForQuery(t)
             \/ Return(t)

Next == \E t \in Threads : \/ \E r \in Requests : Call(t, r)
                           \/ LockExclusive(t) \/ LockForQuery(t)
                           \/ Locked(t)

Spec == Init /\ [][Next]_vars

\* A thread that holds the lock goes on.  Nothing is assumed about who gets
\* the lock: shared_mutex promises no order.
GoesOn(t) == WF_vars(Locked(t))
FairSpec == Spec /\ \A t \in Threads : GoesOn(t)

-----------------------------------------------------------------------------
TypeOK == /\ registry_ \in [Names -> Details \cup {Null}]
          /\ writer \in Threads \cup {Null}
          /\ readers \subseteq Threads
          /\ pc \in [Threads -> {"idle", "lock", "find", "insert", "unlock"}]
          /\ request \in [Threads -> Requests \cup {NoRequest}]
          /\ reply \in [Threads -> Details \cup {Null, NoReply, "JxxNoError", "JxxErrorHasExisted"}]

\* A thread that reads or rewrites the hash table.
Inside(t) == pc[t] \in {"find", "insert", "unlock"}

\* No lookup, of any runtime, overlaps an insertion, and no two insertions
\* overlap (jxx.module.h RegisterModule and QueryModule).
NoRace == \A t, u \in Threads :
            t # u /\ pc[t] = "insert" => pc[u] \notin {"find", "insert"}

\* Once a name is registered it keeps its detail for ever: runtimes that load
\* the module early and late get the same one.
FirstRegistrationWins ==
  [][\A n \in Names : registry_[n] # Null => registry_'[n] = registry_[n]]_vars

\* Whoever gets the lock gives it back, also by the early return of
\* RegisterModule, so that the others can get it.
GivenBack(t) == Inside(t) ~> (writer # t /\ t \notin readers)
LockGivenBack == \A t \in Threads : GivenBack(t)

\* The calls of all threads behave as if each took effect at one instant.
Abstract == INSTANCE WriteOnceMap WITH map <- registry_
ImplementsMap == Abstract!Spec
=============================================================================
