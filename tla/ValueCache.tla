----------------------------- MODULE ValueCache -----------------------------
(***************************************************************************)
(* The values one runtime remembers by name: strings, prototypes, symbols  *)
(* and property ids.  Each entry is a Durable reference, which keeps its   *)
(* value from the collector; the address of a collected value is used      *)
(* again.  RuntimeLifecycle adds what else of a runtime keeps values.      *)
(***************************************************************************)
EXTENDS Naturals, FiniteSets

CONSTANTS Tokens,   \* the names
          Modules,  \* the paths of modules
          Jobs,     \* places of the loop's queue
          Values,   \* addresses of values of the engine
          Garbage,  \* an uninitialised reference that is no value's address
          Null      \* JS_INVALID_REFERENCE, or no entry

\* The maps of the cache, the exports of the modules, and what the loop has queued:
\* handlers, each with a Durable, and promise continuations.
Maps == {"strings_", "protos_", "symbols_", "propids_"}
Queues == {"handlers", "tasks"}
Slots == (Maps \X Tokens) \cup ({"running_modules_"} \X Modules) \cup (Queues \X Jobs)

ASSUME TokensAssumption == IsFiniteSet(Tokens) /\ IsFiniteSet(Modules) /\ IsFiniteSet(Jobs)
ASSUME ValuesAssumption == Garbage \notin Values /\ Null \notin Values /\ Garbage # Null

VARIABLES
  entries,  \* entries[<<m, t>>]: what map or queue m has for t, or Null
  alive,    \* the values that exist
  held,     \* those a script or the C++ stack can reach
  pins,     \* pins[v]: the references that JsAddRef has counted for v
  phase,    \* of the runtime: "open", and then what its end has come to
  stale     \* the tokens whose property id was collected before it was entered (ghost)

vars == <<entries, alive, held, pins, phase, stale>>

Init == /\ entries = [s \in Slots |-> Null]
        /\ alive = {} /\ held = {}
        /\ pins = [v \in Values |-> 0]
        /\ phase = "open" /\ stale = {}

-----------------------------------------------------------------------------
(* Durable                                                                 *)

\* Mutant: a Durable that does not count.
UncountedRef(p, v) == p

\* JsAddRef for a value that exists; there is none for a null reference, and it
\* refuses garbage.
AddRef(p, v) == IF v \in Values THEN [p EXCEPT ![v] = @ + 1] ELSE p

Release(p, v) == IF v \in Values THEN [p EXCEPT ![v] = @ - 1] ELSE p

\* Mutant: what the entry held stays counted.
AssignKeeping(s, v) == /\ entries' = [entries EXCEPT ![s] = v]
                       /\ pins' = AddRef(pins, v)

\* slot = v: a temporary Durable counts v, the slot lets go of what it held
\* and takes over from the temporary.
Assign(s, v) == /\ entries' = [entries EXCEPT ![s] = v]
                /\ pins' = Release(AddRef(pins, v), entries[s])

-----------------------------------------------------------------------------
(* A program asks for values.                                              *)

Has(m, t) == entries[<<m, t>>] # Null

\* The address of a new value is one that no value has.
Fresh == Values \ alive

Found(m, t) ==
  /\ Has(m, t)
  /\ held' = held \cup ({entries[<<m, t>>]} \cap alive)
  /\ UNCHANGED <<entries, alive, pins, stale>>

Create(m, t, v) ==
  /\ ~ Has(m, t) /\ v \in Fresh
  /\ alive' = alive \cup {v} /\ held' = held \cup {v}
  /\ Assign(<<m, t>>, v)
  /\ UNCHANGED stale

\* Mutant: a string is made for every call.
get_string_anew(t) ==
  /\ phase = "open"
  /\ \E v \in Fresh :
       /\ alive' = alive \cup {v} /\ held' = held \cup {v}
       /\ Assign(<<"strings_", t>>, v)
  /\ UNCHANGED <<phase, stale>>

\* A string that cannot be made throws, and nothing has changed.  Called with a
\* character pointer, get_propid does this too.
get_string(t) ==
  /\ phase = "open"
  /\ Found("strings_", t) \/ \E v \in Values : Create("strings_", t, v)
  /\ UNCHANGED phase

\* What may be left in the variable of PropertyId when the engine refuses: garbage, or
\* an address from an earlier call, of a value that is still there; it is remembered.
EnterLeft(t, g) ==
  /\ Assign(<<"propids_", t>>, g)
  /\ held' = held \cup ({g} \cap Values)
  /\ UNCHANGED <<alive, stale>>

\* Or of one that has been collected: the entry is made, and JsAddRef, which finds no
\* value there, counts nothing.  A new value may get the address.
EnterStale(t, g) ==
  /\ entries' = [entries EXCEPT ![<<"propids_", t>>] = g]
  /\ stale' = stale \cup {t}
  /\ UNCHANGED <<alive, held, pins>>

\* If it is null nothing is remembered.
get_propid(t) ==
  /\ phase = "open"
  /\ \/ Found("propids_", t)
     \/ \E v \in Values : Create("propids_", t, v)
     \/ /\ ~ Has("propids_", t)
        /\ \/ \E g \in alive \cup {Garbage} : EnterLeft(t, g)
           \/ \E g \in Values \ alive : EnterStale(t, g)
  /\ UNCHANGED phase

\* A symbol needs the string of its token.  If the string had to be made, it
\* stays in the cache even when the engine then refuses to make the symbol.
get_symbol(t) ==
  /\ phase = "open"
  /\ \/ Found("symbols_", t)
     \/ Has("strings_", t) /\ \E v \in Values : Create("symbols_", t, v)
     \/ /\ ~ Has("symbols_", t) /\ ~ Has("strings_", t)
        /\ \E s, v \in Fresh :
             /\ s # v
             /\ alive' = alive \cup {s, v} /\ held' = held \cup {s, v}
             /\ entries' = [entries EXCEPT ![<<"strings_", t>>] = s, ![<<"symbols_", t>>] = v]
             /\ pins' = AddRef(AddRef(pins, s), v)
             /\ UNCHANGED stale
     \/ ~ Has("symbols_", t) /\ \E v \in Values : Create("strings_", t, v)
  /\ UNCHANGED phase

get_proto(t) ==
  /\ phase = "open"
  /\ Found("protos_", t)
  /\ UNCHANGED phase

\* put_proto replaces a prototype; with a null one it erases the entry.
put_proto(t, v) ==
  /\ phase = "open"
  /\ v \in held \cup {Null}
  /\ Assign(<<"protos_", t>>, v)
  /\ UNCHANGED <<alive, held, phase, stale>>
=============================================================================
