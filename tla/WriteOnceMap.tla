---------------------------- MODULE WriteOnceMap ----------------------------
(***************************************************************************)
(* What a registry of modules promises to the threads that use it: every   *)
(* call takes effect at one instant between its call and its return, a     *)
(* name is bound once, and a query returns what the name is bound to at    *)
(* that instant.  ModuleRegistry.tla implements this module with a lock.   *)
(***************************************************************************)
CONSTANTS Threads, Names, Details,
          SpecialerOf,   \* SpecialerOf[d]: the name detail d is registered under
          Null,          \* the answer to a query for a name that is not bound
          NoRequest, NoReply

VARIABLES map,      \* map[n]: the detail bound to name n, or Null
          request,  \* request[t]: the call of thread t, or NoRequest
          reply     \* reply[t]: its answer, or NoReply before it took effect

vars == <<map, request, reply>>

Requests == [op : {"RegisterModule"}, detail : Details] \cup [op : {"QueryModule"}, name : Names]

Init == /\ map = [n \in Names |-> Null]
        /\ request = [t \in Threads |-> NoRequest]
        /\ reply = [t \in Threads |-> NoReply]

Call(t, r) == /\ request[t] = NoRequest
              /\ request' = [request EXCEPT ![t] = r]
              /\ UNCHANGED <<map, reply>>

Pending(t, op) == /\ request[t] # NoRequest
                  /\ request[t].op = op
                  /\ reply[t] = NoReply

Bind(t) == LET d == request[t].detail
           IN /\ Pending(t, "RegisterModule")
              /\ map[SpecialerOf[d]] = Null
              /\ map' = [map EXCEPT ![SpecialerOf[d]] = d]
              /\ reply' = [reply EXCEPT ![t] = "JxxNoError"]
              /\ UNCHANGED request

Refuse(t) == /\ Pending(t, "RegisterModule")
             /\ map[SpecialerOf[request[t].detail]] # Null
             /\ reply' = [reply EXCEPT ![t] = "JxxErrorHasExisted"]
             /\ UNCHANGED <<map, request>>

Answer(t) == /\ Pending(t, "QueryModule")
             /\ reply' = [reply EXCEPT ![t] = map[request[t].name]]
             /\ UNCHANGED <<map, request>>

Return(t) == /\ reply[t] # NoReply
             /\ request' = [request EXCEPT ![t] = NoRequest]
             /\ reply' = [reply EXCEPT ![t] = NoReply]
             /\ UNCHANGED map

Next == \E t \in Threads : \/ \E r \in Requests : Call(t, r)
                           \/ Bind(t) \/ Refuse(t) \/ Answer(t)
                           \/ Return(t)

Spec == Init /\ [][Next]_vars
=============================================================================
