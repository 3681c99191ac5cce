-------------------------- MODULE WinRegistryQuery --------------------------
(***************************************************************************)
(* _RegQueryValue: a value of the Windows registry is asked for its type   *)
(* and size, and then read into a variable, a vector or a buffer chosen    *)
(* accordingly.  Other programs write and delete it at any time.           *)
(*                                                                         *)
(* A value is its type, its size in bytes, and the number that its bytes   *)
(* make, the lowest first.  The registry checks nothing: a number may have *)
(* any size, and a string may have no terminator or no bytes at all.       *)
(***************************************************************************)
EXTENDS Integers

CONSTANTS
  MaxSize,    \* bound: bytes of a value
  Contents,   \* how many contents so many bytes can have (256 to the power of them)
  DwordSize,  \* bytes of a DWORD and of an int (4)
  QwordSize,  \* bytes of a uint64_t (8)
  Doubles,    \* the whole numbers that a double can be
  Wrap,       \* sizes are DWORDs, modulo Wrap (2^32)
  Nothing,    \* no value
  Faults      \* the calls that may fail: "memory" (ArrayBuffer::Alloc and Just)

\* What WinRegistry assumes.
QueryAssumption ==
  /\ MaxSize \in Nat /\ Wrap \in Nat /\ MaxSize < Wrap
  /\ DwordSize \in 1 .. Wrap - 1 /\ QwordSize \in 1 .. Wrap - 1
  /\ Contents \in [0 .. Wrap - 1 -> Nat \ {0}]
  /\ \A m, n \in 0 .. Wrap - 1 : m <= n => Contents[m] <= Contents[n]
  /\ Doubles \in SUBSET Nat

\* A REG_EXPAND_SZ is treated as a REG_SZ, and a REG_QWORD_LITTLE_ENDIAN is a REG_QWORD.
Dwords == {"REG_DWORD", "REG_DWORD_BIG_ENDIAN"}
Numbers == Dwords \cup {"REG_QWORD"}
Types == Numbers \cup {"REG_BINARY", "REG_SZ", "REG_MULTI_SZ", "REG_NONE"}

OfSize(n) == [type : Types, size : {n}, data : 0 .. Contents[n] - 1]
Values == UNION {OfSize(n) : n \in 0 .. MaxSize}

\* A JavaScript value of a kind: a number, or the bytes and how many there are.
Answers == [kind : {"number", "buffer", "string"}, size : 0 .. Wrap - 1, data : Int]

VARIABLES
  value,   \* what the registry holds
  phase,   \* "idle", "asked" or "done"
  dwType,  \* what the first call answered
  cbData,
  result,  \* "answer", "nullptr" or an exception
  answer,
  read     \* the value at the second call, if it succeeded (ghost)

vars == <<value, phase, dwType, cbData, result, answer, read>>

Init == /\ value \in Values \cup {Nothing}
        /\ phase = "idle" /\ dwType = "REG_NONE" /\ cbData = 0
        /\ result = "none" /\ answer = Nothing /\ read = Nothing

\* What is written when the call is over is nothing to it.
Write(v) == /\ phase # "done" /\ value' = v
            /\ UNCHANGED <<phase, dwType, cbData, result, answer, read>>

-----------------------------------------------------------------------------
End(r) == /\ phase' = "done" /\ result' = r
          /\ UNCHANGED <<value, dwType, cbData>>
EndWithout(r) == End(r) /\ UNCHANGED <<answer, read>>

Ask ==
  /\ phase = "idle" /\ value # Nothing
  /\ phase' = "asked" /\ dwType' = value.type /\ cbData' = value.size
  /\ UNCHANGED <<value, result, answer, read>>

AskFails == phase = "idle" /\ value = Nothing /\ EndWithout("ErrorSyscall")

\* Buffers and vectors of no bytes have no address, and then the second call
\* answers the size alone, however large the value has become.
NoAddress == cbData = 0 /\ dwType \in {"REG_BINARY", "REG_MULTI_SZ"}

\* The second call fails if the value has gone or become too large.
Reads == value # Nothing /\ (value.size <= cbData \/ NoAddress)
ReadFails == phase = "asked" /\ dwType # "REG_NONE" /\ ~ Reads /\ EndWithout("ErrorSyscall")

\* What n bytes hold, zeros at first, when a value has been copied to their beginning.
Low(v, n) == IF v.size <= n THEN v.data ELSE v.data % Contents[n]

\* Just<int>: the upper half of the DWORDs becomes negative.
AsInt(d) == IF 2 * d < Contents[DwordSize] THEN d ELSE d - Contents[DwordSize]

\* Just<double>: one of the doubles next to it.
Distance(x, y) == IF x < y THEN y - x ELSE x - y
AsDouble(d) == {x \in Doubles : \A y \in Doubles : Distance(x, d) <= Distance(y, d)}

\* Mutant: the size that the first call answered is that of the string.
StringOfFirst(v) == LET n == (cbData - 1) % Wrap
                    IN [kind |-> "string", size |-> n, data |-> Low(v, n)]

\* data.resize(cbData - 1), where cbData is what the second call answered: the last
\* byte goes, whatever it is.
String(v) == LET n == (v.size - 1) % Wrap
             IN [kind |-> "string", size |-> n, data |-> Low(v, n)]

\* What may be made of the bytes depends on the type that the first call answered.
\* The bytes of a big-endian number are taken as if it were none.
Made(v) ==
  CASE dwType \in Dwords ->
         {[kind |-> "number", size |-> 1, data |-> AsInt(Low(v, DwordSize))]}
    [] dwType = "REG_QWORD" ->
         {[kind |-> "number", size |-> 1, data |-> d] : d \in AsDouble(Low(v, QwordSize))}
    [] dwType = "REG_BINARY" -> {[kind |-> "buffer", size |-> cbData, data |-> v.data]}
    [] dwType = "REG_SZ" -> {String(v)}

Read ==
  /\ phase = "asked" /\ dwType \notin {"REG_MULTI_SZ", "REG_NONE"} /\ Reads /\ ~ NoAddress
  /\ answer' \in Made(value) /\ read' = value
  /\ End("answer")

\* A number with more bytes than its variable is also written to what lies behind
\* it, which the program may not survive (Read is what happens if it does).
Overruns ==
  /\ phase = "asked" /\ dwType \in Numbers /\ Reads
  /\ value.size > (IF dwType = "REG_QWORD" THEN QwordSize ELSE DwordSize)
  /\ EndWithout("crash")

\* Just cannot make the number or the string, or there is no memory for its bytes.
JustThrows ==
  /\ phase = "asked" /\ dwType \in Numbers \cup {"REG_SZ"} /\ Reads /\ "memory" \in Faults
  /\ EndWithout("exception_t")

\* Nothing is read into a buffer of no bytes.
ReadEmpty ==
  phase = "asked" /\ dwType = "REG_BINARY" /\ Reads /\ NoAddress /\ EndWithout("empty buffer")

\* A buffer that cannot be made has no address either.
AllocFails ==
  /\ phase = "asked" /\ dwType = "REG_BINARY" /\ "memory" \in Faults
  /\ IF value = Nothing THEN EndWithout("ErrorSyscall") ELSE EndWithout("nullptr")

\* An array of strings is made, which the return type does not admit.  If there
\* were no bytes, the first of them is looked at nevertheless.
ReadStrings ==
  /\ phase = "asked" /\ dwType = "REG_MULTI_SZ" /\ Reads
  /\ EndWithout(IF cbData = 0 THEN "crash" ELSE "ErrorTypeMismatch")

ReadNothing == phase = "asked" /\ dwType = "REG_NONE" /\ EndWithout("nullptr")

Next == \/ \E v \in Values \cup {Nothing} : Write(v)
        \/ Ask \/ AskFails
        \/ Read \/ Overruns \/ ReadEmpty \/ ReadFails \/ JustThrows \/ AllocFails
        \/ ReadStrings \/ ReadNothing

Spec == Init /\ [][Next]_vars

-----------------------------------------------------------------------------
\* Nothing but a zero is in a string's last byte.
Terminated(v) == v.size > 0 /\ v.data < Contents[v.size - 1]

\* A number d is the int whose bytes are those of the DWORD n.
IsIntOf(d, n) == /\ d = n \/ d = n - Contents[DwordSize]
                 /\ - Contents[DwordSize] <= 2 * d /\ 2 * d < Contents[DwordSize]

\* If the value has the type that was announced when it is read, the answer is
\* made of all of its bytes and of no others, whatever was written between the
\* two calls (_RegQueryValue): a buffer has them and perhaps zeros behind them; a
\* string has all but its terminator; of a DWORD the answer is the int with the
\* same bytes, which is negative for the upper half of them, and of a big-endian
\* one it is not the number that was stored; a QWORD is exact if it is a double.
\* Nothing is said of a string without terminator, which loses a byte, or has
\* Wrap - 1 of them if it had none, and of a number longer than its variable.
AnswerIsExact ==
  result = "answer" /\ read.type = dwType =>
    \/ /\ dwType = "REG_BINARY" /\ answer.kind = "buffer"
       /\ answer.size >= read.size /\ answer.data = read.data
    \/ /\ dwType = "REG_SZ" /\ answer.kind = "string"
       /\ Terminated(read) => answer.size = read.size - 1 /\ answer.data = read.data
    \/ /\ dwType \in Dwords /\ answer.kind = "number"
       /\ read.size <= DwordSize => IsIntOf(answer.data, read.data)
    \/ /\ dwType = "REG_QWORD" /\ answer.kind = "number"
       /\ read.size <= QwordSize /\ read.data \in Doubles => answer.data = read.data
=============================================================================
