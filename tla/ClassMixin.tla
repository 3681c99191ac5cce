----------------------------- MODULE ClassMixin -----------------------------
(***************************************************************************)
(* C++ classes as JavaScript sees them: the methods and functions that     *)
(* classes export, JxxMixinObject, which puts those of a class and of its  *)
(* parents on an object, and the stub through which a script calls one.    *)
(*                                                                         *)
(* A mixin visits the parents in order, each with its own parents, and     *)
(* then the class itself; a later entry replaces an earlier one of the     *)
(* same name.  Any call of the engine may fail on the way.                 *)
(***************************************************************************)
EXTENDS Naturals, Sequences, FiniteSets

CONSTANTS
  Classes,    \* class ids, other than that of IJxxObject, which exports nothing
  Parents,    \* Parents[c]: the parents of c, in order
  Methods,    \* Methods[c]: what JXX_EXPORT_METHOD has put in c's table
  Functions,  \* Functions[c]: what JXX_EXPORT_FUNCTION has
  Names,      \* the names of exports
  Ancestors,  \* Ancestors[c]: the classes c inherits from, at any distance
  Winner,     \* Winner[o][c][n]: what inheritance says is n of class c
  Objects,    \* native objects that are the external data of a value
  ClassOf,    \* ClassOf[x]: the class of object x
  Faults,     \* the calls that may fail: "string", "function", "property"
  Nobody      \* no function, no class, no call

Options == SUBSET {"MIXIN_METHOD", "MIXIN_FUNCTION"}

\* An entry of an export table.
Exported(kinds) == [name : Names, kind : kinds]

\* A JavaScript function: the class whose member it calls, of what kind it is,
\* and the class id it was given as callback data.
Fns == [owner : Classes, kind : {"method", "function"}, clsid : Classes]

VARIABLES
  props,    \* props[n]: the function that mixins have put on the target as n
  options,  \* of the mixin under way, or of the last one
  mixed,    \* its class
  stack,    \* its calls, outermost first: the class, and the next thing to do
  lost,     \* something of it has failed (ghost)
  code,     \* what the last mixin returned
  call      \* the last call of a method: the function, the object, and the
            \* class QueryClass gave a pointer for

vars == <<props, options, mixed, stack, lost, code, call>>

Init == /\ props = [n \in Names |-> Nobody]
        /\ options = {} /\ mixed = Nobody /\ stack = <<>>
        /\ lost = FALSE /\ code = "0" /\ call = Nobody

-----------------------------------------------------------------------------
(* JxxMixinObject                                                          *)

\* The export tables of a class, as far as the options ask for them.
Entries(o, c) == (IF "MIXIN_METHOD" \in o THEN Methods[c] ELSE <<>>)
                   \o (IF "MIXIN_FUNCTION" \in o THEN Functions[c] ELSE <<>>)

\* Mutant: the function is given the class that is mixed in.
OuterNative(c, x) == [owner |-> c, kind |-> x.kind, clsid |-> mixed]

\* JsrtNative(item.Callee, name, clsid)
Native(c, x) == [owner |-> c, kind |-> x.kind, clsid |-> c]

Top == stack[Len(stack)]
Advance(s) == [s EXCEPT ![Len(s)].at = @ + 1]

\* A call of JxxMixinObject does its parents first, then its entries.
AtParent == stack # <<>> /\ Top.at <= Len(Parents[Top.clsid])
AtEntry == /\ stack # <<>>
           /\ Top.at > Len(Parents[Top.clsid])
           /\ Top.at <= Len(Parents[Top.clsid]) + Len(Entries(options, Top.clsid))
AtEnd == /\ stack # <<>>
         /\ Top.at > Len(Parents[Top.clsid]) + Len(Entries(options, Top.clsid))
Entry == Entries(options, Top.clsid)[Top.at - Len(Parents[Top.clsid])]

Mixin(c, o) ==
  /\ stack = <<>>
  /\ stack' = <<[clsid |-> c, at |-> 1]>>
  /\ options' = o /\ mixed' = c /\ lost' = FALSE
  /\ UNCHANGED <<props, code, call>>

\* There is no object to mix into.
MixinNothing ==
  /\ stack = <<>>
  /\ code' = "ErrorTypeMismatch"
  /\ UNCHANGED <<props, options, mixed, stack, lost, call>>

Descend ==
  /\ AtParent
  /\ stack' = Append(stack, [clsid |-> Parents[Top.clsid][Top.at], at |-> 1])
  /\ UNCHANGED <<props, options, mixed, lost, code, call>>

\* Mutant: a method that is there already is not replaced.
SetUnlessThere ==
  /\ AtEntry
  /\ props' = IF props[Entry.name] # Nobody THEN props
              ELSE [props EXCEPT ![Entry.name] = Native(Top.clsid, Entry)]
  /\ stack' = Advance(stack)
  /\ UNCHANGED <<options, mixed, lost, code, call>>

SetProperty ==
  /\ AtEntry
  /\ props' = [props EXCEPT ![Entry.name] = Native(Top.clsid, Entry)]
  /\ stack' = Advance(stack)
  /\ UNCHANGED <<options, mixed, lost, code, call>>

\* The property is read-only, or has no id.  Nobody looks at the result.
SetPropertyFails ==
  /\ AtEntry /\ "property" \in Faults
  /\ stack' = Advance(stack)
  /\ lost' = TRUE
  /\ UNCHANGED <<props, options, mixed, code, call>>

\* A call returns.  Its caller, if that is a mixin, goes on unless the code is
\* negative, which none but ErrorTypeMismatch is.
Return(c) ==
  LET outer == SubSeq(stack, 1, Len(stack) - 1)
  IN IF outer = <<>> THEN stack' = <<>> /\ code' = c
                     ELSE stack' = Advance(outer) /\ UNCHANGED code

\* The function cannot be made.
NativeFails ==
  /\ AtEntry /\ "function" \in Faults
  /\ Return("JsErrorOutOfMemory")
  /\ lost' = TRUE
  /\ UNCHANGED <<props, options, mixed, call>>

\* The name cannot be made: Just throws out of all the calls.
JustThrows ==
  /\ AtEntry /\ "string" \in Faults
  /\ stack' = <<>> /\ code' = "exception_t"
  /\ lost' = TRUE
  /\ UNCHANGED <<props, options, mixed, call>>

End ==
  /\ AtEnd
  /\ Return("0")
  /\ UNCHANGED <<props, options, mixed, lost, call>>

-----------------------------------------------------------------------------
(* The stub of a method.                                                   *)

\* Mutant: a parent is asked whether it is the child.
KnowsReversed(x, c) == c = ClassOf[x] \/ ClassOf[x] \in Ancestors[c]

\* QueryClass: the object's class or one it inherits from.
Knows(x, c) == c = ClassOf[x] \/ c \in Ancestors[ClassOf[x]]

\* A script calls a method on a value with external data.  On any other value,
\* without arguments, with new, or if the object does not know the class, the
\* stub throws to itself, and the call has no value.
CallMethod(n, x) ==
  /\ stack = <<>>
  /\ props[n] # Nobody /\ props[n].kind = "method"
  /\ call' = IF Knows(x, props[n].clsid)
             THEN [fn |-> props[n], this |-> x, as |-> props[n].clsid]
             ELSE Nobody
  /\ UNCHANGED <<props, options, mixed, stack, lost, code>>

Next == \/ \E c \in Classes, o \in Options : Mixin(c, o)
        \/ MixinNothing
        \/ Descend
        \/ SetProperty \/ SetPropertyFails \/ NativeFails \/ JustThrows
        \/ End
        \/ \E n \in Names, x \in Objects : CallMethod(n, x)

Spec == Init /\ [][Next]_vars

-----------------------------------------------------------------------------
(* What inheritance says: an entry of the class itself, else what the last *)
(* parent says that says anything.                                         *)

Last(S) == CHOOSE i \in S : \A j \in S : j <= i

\* What a call for class c, which is about to do thing at, has said of name n.
Said(o, c, at, n) ==
  LET own == {i \in DOMAIN Entries(o, c) : Len(Parents[c]) + i < at /\ Entries(o, c)[i].name = n}
      inherited == {j \in DOMAIN Parents[c] : j < at /\ Winner[o][Parents[c][j]][n] # Nobody}
  IN IF own # {} THEN LET x == Entries(o, c)[Last(own)]
                      IN [owner |-> c, kind |-> x.kind, clsid |-> c]
     ELSE IF inherited # {} THEN Winner[o][Parents[c][Last(inherited)]][n]
     ELSE Nobody

ASSUME ClassAssumption ==
  /\ Parents \in [Classes -> Seq(Classes)]
  /\ Methods \in [Classes -> Seq(Exported({"method"}))]
  /\ Functions \in [Classes -> Seq(Exported({"function"}))]
  /\ ClassOf \in [Objects -> Classes]
  /\ Nobody \notin Classes /\ Nobody \notin Fns

ASSUME AncestorsAssumption ==
  /\ Ancestors \in [Classes -> SUBSET Classes]
  /\ \A c \in Classes : /\ c \notin Ancestors[c]
                        /\ \A a \in Classes : a \in Ancestors[c] <=>
                             \E j \in DOMAIN Parents[c] :
                               a = Parents[c][j] \/ a \in Ancestors[Parents[c][j]]
                        /\ IsFiniteSet(Ancestors[c])

ASSUME WinnerAssumption ==
  /\ Winner \in [Options -> [Classes -> [Names -> Fns \cup {Nobody}]]]
  /\ \A o \in Options, c \in Classes, n \in Names :
       Winner[o][c][n] = Said(o, c, Len(Parents[c]) + Len(Entries(o, c)) + 1, n)

-----------------------------------------------------------------------------
Codes == {"0", "ErrorTypeMismatch", "JsErrorOutOfMemory", "exception_t"}

\* The type invariant; the class of a mixin and the data of a function are class
\* ids, which JxxQueryClass and the stub use without a check.
TypeOK == /\ props \in [Names -> Fns \cup {Nobody}]
          /\ options \in Options
          /\ mixed \in Classes \cup {Nobody}
          /\ stack \in Seq([clsid : Classes, at : Nat \ {0}])
          /\ lost \in BOOLEAN
          /\ code \in Codes
          /\ call \in [fn : Fns, this : Objects, as : Classes] \cup {Nobody}

\* A method only ever runs on an object that has the method's class, with a
\* pointer to just that class (README.md: "defense Type-Confusion"), whatever
\* was mixed into the object it is called on, and in which order.
RunsOnItsClass ==
  call # Nobody => /\ call.as = call.fn.owner
                   /\ call.fn.owner \in {ClassOf[call.this]} \cup Ancestors[ClassOf[call.this]]

\* A mixin of which nothing failed has put on the object what inheritance says,
\* over whatever earlier mixins, complete or not, had left there.
MixinInherits ==
  stack = <<>> /\ mixed # Nobody /\ ~ lost =>
    \A n \in Names : Winner[options][mixed][n] # Nobody => props[n] = Winner[options][mixed][n]

\* From c upwards, no class is inherited twice.
IsTree(c) ==
  \A d \in {c} \cup Ancestors[c] : \A i, j \in DOMAIN Parents[d] :
    LET up(k) == {Parents[d][k]} \cup Ancestors[Parents[d][k]]
    IN i # j => up(i) \cap up(j) = {}

\* Where no class is inherited twice, a class's export is never hidden by one
\* that it overrides.
OverridesWin ==
  stack = <<>> /\ mixed # Nobody /\ ~ lost /\ IsTree(mixed) =>
    \A d \in {mixed} \cup Ancestors[mixed] : \A i \in DOMAIN Entries(options, d) :
      props[Entries(options, d)[i].name].owner \notin Ancestors[d]

\* What the description of JxxMixinObject says (jxx.class.h:188 and :193): it
\* mixes the methods in and returns the error code, so that without an error
\* every method of the class is there.
SuccessIsComplete ==
  stack = <<>> /\ mixed # Nobody /\ code = "0" =>
    \A n \in Names : Winner[options][mixed][n] # Nobody => props[n] # Nobody
=============================================================================
