-------------------------- MODULE RuntimeLifecycle --------------------------
(***************************************************************************)
(* What a runtime keeps from the collector, from its construction to the   *)
(* end of its members: the cache (ValueCache), the modules it has loaded,  *)
(* the handlers and promise continuations on its loop.  They are destroyed *)
(* in the reverse of their order in the class, so that some go before the  *)
(* engine's runtime is disposed of and some after it.                      *)
(***************************************************************************)
EXTENDS ValueCache

\* A module enters its exports, which may be a null reference.
EnterModule(m, v) ==
  /\ phase = "open"
  /\ v \in held \cup {Null}
  /\ Assign(<<"running_modules_", m>>, v)
  /\ UNCHANGED <<alive, held, phase, stale>>

-----------------------------------------------------------------------------
(* The loop.                                                               *)

\* An operation begins and its handler takes hold of a value (q = "handlers"), or
\* the engine hands over a continuation, which is posted (q = "tasks").
Post(q, j, v) ==
  /\ phase = "open"
  /\ entries[<<q, j>>] = Null /\ v \in held
  /\ Assign(<<q, j>>, v)
  /\ UNCHANGED <<alive, held, phase, stale>>

\* A handler runs and is destroyed; a continuation runs, and then releases its task.
RunJob(q, j) ==
  /\ phase = "open"
  /\ entries[<<q, j>>] # Null
  /\ held' = held \cup ({entries[<<q, j>>]} \cap Values)
  /\ Assign(<<q, j>>, Null)
  /\ UNCHANGED <<alive, phase, stale>>

-----------------------------------------------------------------------------
(* Scripts and the collector.                                              *)

NewObject(v) ==
  /\ phase = "open" /\ v \in Fresh
  /\ alive' = alive \cup {v} /\ held' = held \cup {v}
  /\ UNCHANGED <<entries, pins, phase, stale>>

Drop(v) ==
  /\ v \in held
  /\ held' = held \ {v}
  /\ UNCHANGED <<entries, alive, pins, phase, stale>>

Collect(v) ==
  /\ v \in alive \ held /\ pins[v] = 0
  /\ alive' = alive \ {v}
  /\ UNCHANGED <<entries, held, pins, phase, stale>>

-----------------------------------------------------------------------------
(* The end of the runtime.                                                 *)

\* The Durables of the slots in S are destroyed.
LetGo(S) ==
  /\ entries' = [s \in Slots |-> IF s \in S THEN Null ELSE entries[s]]
  /\ pins' = [v \in Values |-> pins[v] - Cardinality({s \in S : entries[s] = v})]

Of(maps) == {s \in Slots : s[1] \in maps}

\* The destructor's body: clear() passes over the property ids.
clear ==
  /\ phase = "open" /\ phase' = "cleared"
  /\ LetGo(Of({"strings_", "protos_", "symbols_"}))
  /\ UNCHANGED <<alive, held, stale>>

\* The members behind loop_.
DestroyModules ==
  /\ phase = "cleared" /\ phase' = "unloaded"
  /\ LetGo(Of({"running_modules_"}))
  /\ UNCHANGED <<alive, held, stale>>

\* Mutant: handlers outlive the engine's runtime.
DestroyLoopLate ==
  /\ phase = "unloaded" /\ phase' = "stopped"
  /\ UNCHANGED <<entries, pins, alive, held, stale>>

\* loop_ destroys its handlers.  Of a continuation it has only the address, so that
\* the task stays counted.
DestroyLoop ==
  /\ phase = "unloaded" /\ phase' = "stopped"
  /\ LetGo(Of({"handlers"}))
  /\ UNCHANGED <<alive, held, stale>>

\* runtime_, and with it every value.  cache_ is destroyed after it.
Dispose ==
  /\ phase = "stopped" /\ phase' = "disposed"
  /\ alive' = {} /\ held' = {}
  /\ UNCHANGED <<entries, pins, stale>>

Next == \/ \E t \in Tokens : \/ get_string(t) \/ get_propid(t) \/ get_symbol(t) \/ get_proto(t)
                             \/ \E v \in Values \cup {Null} : put_proto(t, v)
        \/ \E m \in Modules, v \in Values \cup {Null} : EnterModule(m, v)
        \/ \E q \in Queues, j \in Jobs : RunJob(q, j) \/ \E v \in Values : Post(q, j, v)
        \/ \E v \in Values : NewObject(v) \/ Drop(v) \/ Collect(v)
        \/ clear \/ DestroyModules \/ DestroyLoop \/ Dispose

Spec == Init /\ [][Next]_vars

-----------------------------------------------------------------------------
TypeOK == /\ entries \in [Slots -> Values \cup {Garbage, Null}]
          /\ held \subseteq alive /\ alive \subseteq Values
          /\ pins \in [Values -> Nat]
          /\ phase \in {"open", "cleared", "unloaded", "stopped", "disposed"}
          /\ stale \subseteq Tokens

\* The entries of property ids that were collected before they were entered.
Uncounted == {"propids_"} \X stale

\* The other entries that hold a value.
Holders(v) == {s \in Slots \ Uncounted : entries[s] = v}

\* A value is counted once for each entry, handler and task that holds it, and for
\* nothing else: replacing an entry by itself or by what another one holds, erasing,
\* running and clearing balance, and so does an address that is used again while a
\* property id that PropertyId never set (js.object.h:18) is remembered for it.
PinsExact == \A v \in Values : pins[v] = Cardinality(Holders(v))

\* Until the engine's runtime is disposed of nothing that is kept for later, by name or
\* on the loop, refers to a value that was collected, but for a property id that was
\* collected before it was entered.
CachedAlive ==
  phase # "disposed" => \A s \in Slots \ Uncounted : entries[s] \in alive \cup {Garbage, Null}

\* Two tokens never share a string or a symbol, also when the collector gives
\* addresses to new values.
TokensDistinct ==
  \A m \in {"strings_", "symbols_"}, t, u \in Tokens :
    entries[<<m, t>>] = entries[<<m, u>>] /\ entries[<<m, t>>] \in Values => t = u

\* Whoever asks for a string, a symbol or a property id gets the same reference as
\* everybody before, until the cache is cleared.
EntriesStay ==
  [][phase' = "open" =>
       \A s \in Of({"strings_", "symbols_", "propids_"}) :
         entries[s] # Null => entries'[s] = entries[s]]_vars

\* When the engine's runtime goes, all references to its values have been released but
\* those of the property ids and of continuations that have never run.
ReleasedBeforeDisposal ==
  phase = "disposed" =>
    \A v \in Values : pins[v] > 0 => \E s \in Of({"propids_", "tasks"}) : entries[s] = v
=============================================================================
