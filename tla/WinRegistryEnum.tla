-------------------------- MODULE WinRegistryEnum --------------------------
(***************************************************************************)
(* _RegEnumKey: a script's function is called with the name of each subkey *)
(* of a key of the Windows registry, and then of each value.  The numbers  *)
(* of names and the longest ones are asked for once, before the first call *)
(* of the function.  Meanwhile others, and the function itself, may add    *)
(* names anywhere and delete them.                                         *)
(*                                                                         *)
(* This is one call, on a key that may have any content when it begins.    *)
(***************************************************************************)
EXTENDS Integers, SequencesExt

CONSTANTS
  Names,    \* of subkeys and of values
  Size,     \* Size[n]: the length of name n
  Faults,   \* the calls that may fail: "info" (RegQueryInfoKeyA), "memory" (Just)
  MaxNames  \* bound: names of each kind

\* The two loops of _RegEnumKey, in this order, each over the names of its kind.
Kinds == {"key", "value"}

ASSUME EnumAssumption == Size \in [Names -> Nat] /\ MaxNames \in [Kinds -> Nat]

VARIABLES
  db,         \* db[k]: the names there are, in the order of their indices
  mode,       \* the loops that the caller asked for
  phase,      \* "idle", "loop", "callback" or "done"
  loop,       \* the loop that is under way, "none" before
  i,          \* its variable
  count,      \* count[k]: the number of names that the key had (cSubKeys, cValues)
  buffer,     \* buffer[k]: the size of the vector for a name and its terminator
  exception,  \* an exception is recorded in the engine
  result,     \* of the call: a null value, or a C++ exception
  before,     \* before[k]: the names at the beginning (ghost)
  visited,    \* visited[k]: the names that the function was called with (ghost)
  broke,      \* broke[k]: it has returned true in loop k (ghost)
  added,      \* added[k], deleted[k]: since the beginning others have (ghost)
  deleted

callVars == <<mode, loop, count, buffer>>
ghostVars == <<before, broke>>
vars == <<db, callVars, phase, i, exception, result, ghostVars, visited, added, deleted>>

Both(x) == [k \in Kinds |-> x]

Lists(k) == {s \in BoundedSeq(Names, MaxNames[k]) : IsInjective(s)}

Init == /\ db \in [Kinds -> Lists("key") \cup Lists("value")]
        /\ \A k \in Kinds : db[k] \in Lists(k)
        /\ mode = {} /\ phase = "idle" /\ loop = "none" /\ i = 0
        /\ count = Both(0) /\ buffer = Both(0)
        /\ exception = FALSE /\ result = "none"
        /\ before = Both(<<>>) /\ visited = Both(<<>>) /\ broke = Both(FALSE)
        /\ added = Both(FALSE) /\ deleted = Both(FALSE)

-----------------------------------------------------------------------------
(* Those who write to the registry: other programs, or the function.  What *)
(* they write before the call is in Init, and after it nobody asks.        *)

Under == phase \in {"loop", "callback"}

Add(k, j, n) ==
  /\ Under /\ Len(db[k]) < MaxNames[k] /\ \A h \in DOMAIN db[k] : db[k][h] # n
  /\ db' = [db EXCEPT ![k] = InsertAt(@, j, n)]
  /\ added' = [added EXCEPT ![k] = TRUE]
  /\ UNCHANGED <<callVars, phase, i, exception, result, ghostVars, visited, deleted>>

Delete(k, j) ==
  /\ Under
  /\ db' = [db EXCEPT ![k] = RemoveAt(@, j)]
  /\ deleted' = [deleted EXCEPT ![k] = TRUE]
  /\ UNCHANGED <<callVars, phase, i, exception, result, ghostVars, visited, added>>

-----------------------------------------------------------------------------
(* The call.                                                               *)

End(r) == /\ phase' = "done" /\ result' = r
          /\ UNCHANGED <<db, callVars, i, exception, ghostVars, visited, added, deleted>>

InfoFails == phase = "idle" /\ "info" \in Faults /\ End("ErrorSyscall")

LongestOf(s) == Max({0} \cup {Size[n] : n \in ToSet(s)})

\* Mutant: there is no room for the terminator.
BufferWithoutNul(s) == LongestOf(s)

\* cbMaxSubKeyLen, cMaxValueNameLen: the longest name and its terminator.
BufferFor(s) == LongestOf(s) + 1

RegQueryInfoKey(m) ==
  /\ phase = "idle"
  /\ mode' = m
  /\ phase' = "loop" /\ loop' = "key" /\ i' = 0
  /\ count' = [k \in Kinds |-> Len(db[k])]
  /\ buffer' = [k \in Kinds |-> BufferFor(db[k])]
  /\ before' = db
  /\ UNCHANGED <<db, exception, result, broke, visited, added, deleted>>

\* The loop goes on.
InLoop == phase = "loop" /\ loop \in mode /\ i < count[loop]

\* RegEnumKeyA and RegEnumValueA answer with the i-th name.
Answers == i < Len(db[loop]) /\ Size[db[loop][i + 1]] < buffer[loop]

\* Mutant: that there are no more names is taken for the end of the loop.
EnumStops ==
  /\ InLoop /\ ~ Answers
  /\ i' = count[loop]
  /\ UNCHANGED <<db, callVars, phase, exception, result, ghostVars, visited, added, deleted>>

EnumFails == InLoop /\ ~ Answers /\ End("ErrorSyscall")

\* Just cannot make a string while an exception is recorded.
JustThrows == InLoop /\ Answers /\ (exception \/ "memory" \in Faults) /\ End("exception_t")

CallFunction ==
  /\ InLoop /\ Answers /\ ~ exception
  /\ phase' = "callback"
  /\ visited' = [visited EXCEPT ![loop] = Append(@, db[loop][i + 1])]
  /\ UNCHANGED <<db, callVars, i, exception, result, ghostVars, added, deleted>>

\* Mutant: the loop does not count.
ReturnsToSame(throws) ==
  /\ phase = "callback"
  /\ phase' = "loop" /\ exception' = throws
  /\ UNCHANGED <<db, callVars, i, result, ghostVars, visited, added, deleted>>

\* The function returns false or throws, and then it has no value, which is false.
ReturnsFalse(throws) ==
  /\ phase = "callback"
  /\ phase' = "loop" /\ i' = i + 1 /\ exception' = throws
  /\ UNCHANGED <<db, callVars, result, ghostVars, visited, added, deleted>>

\* It returns true.
Break ==
  /\ phase = "callback"
  /\ broke' = [broke EXCEPT ![loop] = TRUE]
  /\ IF loop = "key" THEN phase' = "loop" /\ loop' = "value" /\ i' = 0 /\ UNCHANGED result
                     ELSE phase' = "done" /\ result' = "nullptr" /\ UNCHANGED <<loop, i>>
  /\ UNCHANGED <<db, mode, count, buffer, exception, before, visited, added, deleted>>

KeysEnd ==
  /\ phase = "loop" /\ loop = "key" /\ ~ InLoop
  /\ loop' = "value" /\ i' = 0
  /\ UNCHANGED <<db, mode, count, buffer, phase, exception, result>>
  /\ UNCHANGED <<ghostVars, visited, added, deleted>>

ValuesEnd == phase = "loop" /\ loop = "value" /\ ~ InLoop /\ End("nullptr")

Next == \/ \E k \in Kinds : \/ \E j \in 1 .. Len(db[k]) + 1, n \in Names : Add(k, j, n)
                            \/ \E j \in 1 .. Len(db[k]) : Delete(k, j)
        \/ InfoFails
        \/ \E m \in SUBSET Kinds : RegQueryInfoKey(m)
        \/ EnumFails \/ JustThrows \/ CallFunction
        \/ \E throws \in BOOLEAN : ReturnsFalse(throws)
        \/ Break \/ KeysEnd \/ ValuesEnd

Spec == Init /\ [][Next]_vars

-----------------------------------------------------------------------------
\* Names that are deleted while the indices go up may be skipped, but unless names
\* are added the function is never called with one twice.
NoNameTwice == \A k \in Kinds : ~ added[k] => IsInjective(visited[k])

\* A call that returns has called the function with exactly the names that were
\* there at first, in their order, unless the function broke it off or something
\* was added: a deletion does not go unnoticed.
CompleteIsExact ==
  result = "nullptr" => \A k \in mode : ~ broke[k] /\ ~ added[k] => visited[k] = before[k]

\* A call that got its numbers fails in the registry only if names were added or
\* deleted meanwhile.
OnlyChangesFail ==
  result = "ErrorSyscall" /\ loop # "none" => added[loop] \/ deleted[loop]
=============================================================================
