----------------------------- MODULE WinRegistry -----------------------------
(***************************************************************************)
(* Both functions of the Windows registry; a behaviour is a call of one of *)
(* them, during which others write to what it reads.                       *)
(***************************************************************************)
EXTENDS WinRegistryEnum

CONSTANTS MaxSize, Contents, DwordSize, QwordSize, Doubles, Wrap, Nothing

VARIABLES called, value, asked, dwType, cbData, answered, answer, read

Query == INSTANCE WinRegistryQuery WITH phase <- asked, result <- answered

queryVars == <<value, asked, dwType, cbData, answered, answer, read>>

ASSUME QueryConstants == Query!QueryAssumption

\* main calls one of the functions, at a moment when others have left anything there.
CallInit == \/ called = "enum" /\ Init /\ value = Nothing /\ Query!Init
            \/ called = "query" /\ Query!Init /\ db = Both(<<>>) /\ Init

CallNext == /\ UNCHANGED called
            /\ \/ called = "enum" /\ Next /\ UNCHANGED queryVars
               \/ called = "query" /\ Query!Next /\ UNCHANGED vars

CallSpec == CallInit /\ [][CallNext]_<<vars, queryVars, called>>

-----------------------------------------------------------------------------
\* What a query answers is made of the bytes of the value as it was at one instant,
\* if its type was still the one announced (_RegQueryValue); the exceptions are
\* named with the definition in WinRegistryQuery.
AnswerIsExact == Query!AnswerIsExact
=============================================================================
