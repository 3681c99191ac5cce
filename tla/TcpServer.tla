------------------------------ MODULE TcpServer ------------------------------
(***************************************************************************)
(* The asynchronous functions of one runtime, on its event loop: accepting *)
(* connections, reading, writing and the continuations of promises.        *)
(*                                                                         *)
(* A call starts an operation and returns at once.  The handler of the     *)
(* operation owns Durable references (pins) to the JavaScript objects it   *)
(* will need, runs on the loop when the operation completes, and calls the *)
(* function it finds in a property of the socket.  One thread runs the     *)
(* scripts and the handlers; the network and the collector interleave.     *)
(*                                                                         *)
(* Function::Call ignores the error of the call, so an exception that a    *)
(* callback throws stays recorded in the engine, which from then on fails  *)
(* every call that makes, reads or runs something.                         *)
(***************************************************************************)
EXTENDS Naturals, FiniteSets

CONSTANTS
  acceptor,    \* the listening socket's JavaScript object
  Sockets,     \* JavaScript objects of connections
  Buffers,     \* ArrayBuffers
  Nothing,     \* no object
  Faults,      \* what may go wrong here: "accept", "memory", "throw", "unset", "other"
  MaxCalls,    \* bound: calls of Listen, and of AsyncReadEx on one socket
  MaxInFlight  \* bound: operations in flight

ASSUME TcpAssumption == /\ acceptor \notin Sockets \cup Buffers
                        /\ Nothing \notin {acceptor} \cup Sockets \cup Buffers
                        /\ Sockets \cap Buffers = {}
                        /\ Faults \subseteq {"accept", "memory", "throw", "unset", "other"}
                        /\ MaxCalls \in Nat /\ MaxInFlight \in Nat

Objects == {acceptor} \cup Sockets \cup Buffers

\* An operation: what it does, with which socket and buffer.
Accept == [kind |-> "accept", on |-> acceptor, buf |-> Nothing]
Task == [kind |-> "task", on |-> Nothing, buf |-> Nothing]
Ops == {Accept, Task} \cup [kind : {"read", "readEx", "write"}, on : Sockets, buf : Buffers]
Uses(op) == {op.on, op.buf} \ {Nothing}

Idle == [op |-> Task, ec |-> FALSE, client |-> Nothing, on |-> FALSE]

VARIABLES
  alive,         \* the objects that exist
  held,          \* those the script can reach
  pins,          \* pins[o]: the references Durable holds to o
  onConnection,  \* the property of the acceptor: "none", "function" or "other"
  onData,        \* onData[s], onWritten[s]: the properties of the sockets
  onWritten,
  pending,       \* pending[op]: how many such operations are in flight
  running,       \* the handler whose callback runs
  exception,     \* an exception is recorded in the engine
  phase,         \* the main thread: "script", then "loop" until run() has
                 \*   "ended" or was "aborted" by a C++ exception
  listens,       \* listens, reads[s]: calls of Listen and of AsyncReadEx (ghost)
  reads

objectVars == <<alive, held, pins>>
propVars == <<onConnection, onData, onWritten>>
ghostVars == <<listens, reads>>
vars == <<objectVars, propVars, pending, running, exception, phase, ghostVars>>

Init == /\ alive = {} /\ held = {}
        /\ pins = [o \in Objects |-> 0]
        /\ onConnection = "none"
        /\ onData = [s \in Sockets |-> "none"]
        /\ onWritten = [s \in Sockets |-> "none"]
        /\ pending = [op \in Ops |-> 0]
        /\ running = Idle
        /\ exception = FALSE
        /\ phase = "script"
        /\ listens = 0
        /\ reads = [s \in Sockets |-> 0]

\* A script runs: the host's, or the callback of a handler.
ScriptRuns == (phase = "script" \/ running.on) /\ ~ exception

InFlight == {op \in Ops : pending[op] > 0}
Room == \A op \in Ops : pending[op] < MaxInFlight /\ Cardinality(InFlight) < MaxInFlight

-----------------------------------------------------------------------------
(* Durable                                                                 *)

\* Mutant: the buffer is not pinned.
PinSocketOnly(op) == [o \in Objects |-> IF o = op.on THEN pins[o] + 1 ELSE pins[o]]

Pin(op) == [o \in Objects |-> IF o \in Uses(op) THEN pins[o] + 1 ELSE pins[o]]

\* Mutant: a Durable that was moved from releases its reference, too.
UnpinTwice(op) == [o \in Objects |-> IF o \in Uses(op) THEN pins[o] - 2 ELSE pins[o]]

\* Mutant: the buffer stays pinned.
UnpinSocketOnly(op) == [o \in Objects |-> IF o = op.on THEN pins[o] - 1 ELSE pins[o]]

\* The handler of op is destroyed, and with it what it captured.
Unpin(op) == [o \in Objects |-> IF o \in Uses(op) THEN pins[o] - 1 ELSE pins[o]]

Start(op) == /\ pending' = [pending EXCEPT ![op] = @ + 1]
             /\ pins' = Pin(op)

-----------------------------------------------------------------------------
(* What a script does.                                                     *)

unchangedByCall == <<propVars, running, exception, phase>>

\* An object is made, a socket's with a native socket.  A script whose call fails
\* gets no value; main does not go on.
Make(o) ==
  /\ ScriptRuns /\ o \notin alive
  /\ alive' = alive \cup {o} /\ held' = held \cup {o}
  /\ UNCHANGED <<pins, propVars, pending, running, exception, phase, ghostVars>>

CreateAcceptor == Make(acceptor)

Socket(s) == Make(s)

NewBuffer(b) == Make(b)

\* The script forgets its last reference to an object.
Drop(o) ==
  /\ ScriptRuns /\ o \in held
  /\ held' = held \ {o}
  /\ UNCHANGED <<alive, pins, propVars, pending, running, exception, phase, ghostVars>>

\* What may be assigned to a property.
Assignable == {"function"} \cup (Faults \cap {"other"}) \cup {v \in {"none"} : "unset" \in Faults}

SetProperty ==
  /\ ScriptRuns
  /\ \/ acceptor \in held /\ onConnection' \in Assignable /\ UNCHANGED <<onData, onWritten>>
     \/ \E s \in held \cap Sockets, v \in Assignable :
          \/ onData' = [onData EXCEPT ![s] = v] /\ UNCHANGED <<onConnection, onWritten>>
          \/ onWritten' = [onWritten EXCEPT ![s] = v] /\ UNCHANGED <<onConnection, onData>>
  /\ UNCHANGED <<objectVars, pending, running, exception, phase, ghostVars>>

\* Listen returns false without a callback; a property that is no function
\* throws, which the stub of the native function turns into no value.
Listen ==
  /\ ScriptRuns /\ acceptor \in held /\ Room
  /\ onConnection = "function"
  /\ listens < MaxCalls
  /\ Start(Accept)
  /\ listens' = listens + 1
  /\ UNCHANGED <<alive, held, reads, unchangedByCall>>

AsyncRead(s, b) ==
  /\ ScriptRuns /\ {s, b} \subseteq held /\ Room
  /\ Start([kind |-> "read", on |-> s, buf |-> b])
  /\ UNCHANGED <<alive, held, ghostVars, unchangedByCall>>

AsyncWrite(s, b) ==
  /\ ScriptRuns /\ {s, b} \subseteq held /\ Room
  /\ Start([kind |-> "write", on |-> s, buf |-> b])
  /\ UNCHANGED <<alive, held, ghostVars, unchangedByCall>>

\* The buffer is a new one, which only the handler knows.
AsyncReadEx(s, b) ==
  /\ ScriptRuns /\ s \in held /\ b \notin alive /\ Room
  /\ reads[s] < MaxCalls
  /\ alive' = alive \cup {b}
  /\ Start([kind |-> "readEx", on |-> s, buf |-> b])
  /\ reads' = [reads EXCEPT ![s] = @ + 1]
  /\ UNCHANGED <<held, listens, unchangedByCall>>

\* A promise settles: its continuation is posted to the loop.
PromiseContinuation ==
  /\ ScriptRuns /\ Room
  /\ Start(Task)
  /\ UNCHANGED <<alive, held, ghostVars, unchangedByCall>>

ScriptStep == \/ CreateAcceptor
              \/ \E s \in Sockets : Socket(s)
              \/ \E b \in Buffers : NewBuffer(b)
              \/ \E o \in Objects : Drop(o)
              \/ SetProperty \/ Listen \/ PromiseContinuation
              \/ \E s \in Sockets, b \in Buffers :
                   AsyncRead(s, b) \/ AsyncWrite(s, b) \/ AsyncReadEx(s, b)

\* The host's script has ended, perhaps by an exception that JxxRunScript
\* leaves recorded, and main calls io_context::run.
Run ==
  /\ phase = "script"
  /\ phase' = "loop"
  /\ exception' \in {FALSE} \cup {v \in {TRUE} : "throw" \in Faults}
  /\ UNCHANGED <<objectVars, propVars, pending, running, ghostVars>>

-----------------------------------------------------------------------------
(* The loop: an operation completes and its handler runs.                  *)

\* Mutant: undefined is not mapped to no value, as GetProperty does.
GetPropertyUndefined(op) ==
  LET v == CASE op.kind = "accept" -> onConnection
             [] op.kind \in {"read", "readEx"} -> onData[op.on]
             [] op.kind = "write" -> onWritten[op.on]
             [] OTHER -> "function"
  IN IF exception THEN "none" ELSE IF v = "none" THEN "other" ELSE v

\* The property a handler reads, no value if the engine refuses.
GetProperty(op) ==
  LET v == CASE op.kind = "accept" -> onConnection
             [] op.kind \in {"read", "readEx"} -> onData[op.on]
             [] op.kind = "write" -> onWritten[op.on]
             [] OTHER -> "function"
  IN IF exception THEN "none" ELSE v

Ready(op) == phase = "loop" /\ ~ running.on /\ pending[op] > 0
Taken(op) == pending' = [pending EXCEPT ![op] = @ - 1]

\* The handler returns without calling anyone, and is destroyed: there is no
\* callback, accepting failed, or no object can be made for the client.
GiveUp(op) ==
  /\ Ready(op) /\ Taken(op)
  /\ \/ GetProperty(op) = "none"
     \/ op = Accept /\ "accept" \in Faults
     \/ op = Accept /\ "memory" \in Faults /\ GetProperty(op) = "function"
  /\ pins' = Unpin(op)
  /\ UNCHANGED <<alive, held, propVars, running, exception, phase, ghostVars>>

\* The property is not a function: Function's constructor throws a C++
\* exception through the handler and out of run().
Escape(op) ==
  /\ Ready(op) /\ Taken(op)
  /\ GetProperty(op) = "other"
  /\ pins' = Unpin(op)
  /\ phase' = "aborted"
  /\ UNCHANGED <<alive, held, propVars, running, exception, ghostVars>>

\* The callback is called, with the socket, the error code and the buffer.
Call(op) ==
  /\ Ready(op) /\ Taken(op) /\ op # Accept
  /\ GetProperty(op) = "function"
  /\ \E ec \in BOOLEAN :
       /\ op = Task => ~ ec
       /\ running' = [op |-> op, ec |-> ec, client |-> Nothing, on |-> TRUE]
  /\ held' = held \cup Uses(op)
  /\ UNCHANGED <<alive, pins, propVars, exception, phase, ghostVars>>

\* A connection is accepted: its object is made and given to onConnection.
CallOnConnection(s) ==
  /\ Ready(Accept) /\ Taken(Accept)
  /\ GetProperty(Accept) = "function"
  /\ s \notin alive
  /\ alive' = alive \cup {s}
  /\ held' = held \cup {acceptor, s}
  /\ running' = [op |-> Accept, ec |-> FALSE, client |-> s, on |-> TRUE]
  /\ UNCHANGED <<pins, propVars, exception, phase, ghostVars>>

-----------------------------------------------------------------------------
(* The callback returns, or throws, and the handler goes on.               *)

Returns == /\ running.on
           /\ running' = Idle
           /\ exception' \in {FALSE} \cup {v \in {TRUE} : "throw" \in Faults}
           /\ UNCHANGED <<propVars, ghostVars>>

\* A handler that has nothing more to do.
Finish ==
  /\ Returns
  /\ running.op.kind \in {"read", "write", "task"} \/ (running.op.kind = "readEx" /\ running.ec)
  /\ pins' = Unpin(running.op)
  /\ UNCHANGED <<alive, held, pending, phase>>

\* Mutant: the acceptor is not armed again.
AcceptOnce ==
  /\ Returns /\ running.op = Accept
  /\ pins' = Unpin(Accept)
  /\ UNCHANGED <<alive, held, pending, phase>>

\* do_accept again: the new handler pins the acceptor and the old one lets go.
AcceptAgain ==
  /\ Returns /\ running.op = Accept
  /\ pending' = [pending EXCEPT ![Accept] = @ + 1]
  /\ UNCHANGED <<objectVars, phase>>

\* Mutant: AsyncReadEx is called before and after the callback.
ReadAgainTwice(b) ==
  /\ Returns /\ running.op.kind = "readEx" /\ ~ running.ec
  /\ ~ exception'
  /\ b \notin alive
  /\ alive' = alive \cup {b}
  /\ LET op == [running.op EXCEPT !.buf = b]
     IN /\ pending' = [pending EXCEPT ![op] = @ + 2]
        /\ pins' = [o \in Objects |-> Unpin(running.op)[o] + IF o \in Uses(op) THEN 2 ELSE 0]
  /\ UNCHANGED <<held, phase>>

\* AsyncReadEx again, with a buffer of its own.
ReadAgain(b) ==
  /\ Returns /\ running.op.kind = "readEx" /\ ~ running.ec
  /\ ~ exception'
  /\ b \notin alive
  /\ alive' = alive \cup {b}
  /\ LET op == [running.op EXCEPT !.buf = b]
     IN /\ pending' = [pending EXCEPT ![op] = @ + 1]
        /\ pins' = [o \in Objects |-> Unpin(running.op)[o] + IF o \in Uses(op) THEN 1 ELSE 0]
  /\ UNCHANGED <<held, phase>>

\* There is no new buffer.  AsyncReadEx returns false, which nobody looks at;
\* with an exception recorded there is no false either, and Just throws a C++
\* exception out of run().
ReadNoMore ==
  /\ Returns /\ running.op.kind = "readEx" /\ ~ running.ec
  /\ exception' \/ "memory" \in Faults
  /\ pins' = Unpin(running.op)
  /\ phase' = IF exception' THEN "aborted" ELSE phase
  /\ UNCHANGED <<alive, held, pending>>

CallbackReturns == \/ Finish \/ AcceptAgain \/ ReadNoMore
                   \/ \E b \in Buffers : ReadAgain(b)

\* io_context::run has nothing more to wait for.
RunEnds ==
  /\ phase = "loop" /\ ~ running.on /\ InFlight = {}
  /\ phase' = "ended"
  /\ UNCHANGED <<objectVars, propVars, pending, running, exception, ghostVars>>

\* What the C++ stack refers to, which the collector scans.
OnStack == IF running.on THEN Uses(running.op) \cup ({running.client} \ {Nothing}) ELSE {}

\* The engine collects an object and finalizes its native socket.
Collect(o) ==
  /\ phase \in {"script", "loop"}
  /\ o \in alive /\ o \notin held \cup OnStack /\ pins[o] = 0
  /\ alive' = alive \ {o}
  /\ onConnection' = IF o = acceptor THEN "none" ELSE onConnection
  /\ onData' = [s \in Sockets |-> IF s = o THEN "none" ELSE onData[s]]
  /\ onWritten' = [s \in Sockets |-> IF s = o THEN "none" ELSE onWritten[s]]
  /\ reads' = [s \in Sockets |-> IF s = o THEN 0 ELSE reads[s]]
  /\ UNCHANGED <<held, pins, pending, running, exception, phase, listens>>

LoopStep == \/ \E op \in Ops : GiveUp(op) \/ Escape(op) \/ Call(op)
            \/ \E s \in Sockets : CallOnConnection(s)

Next == \/ ScriptStep \/ Run \/ LoopStep \/ CallbackReturns \/ RunEnds
        \/ \E o \in Objects : Collect(o)

Spec == Init /\ [][Next]_vars

\* Callbacks return: the scripts that run on the loop do not loop for ever.
FairSpec == Spec /\ WF_vars(CallbackReturns)

-----------------------------------------------------------------------------
TypeOK == /\ held \subseteq alive /\ alive \subseteq Objects
          /\ pins \in [Objects -> Nat]
          /\ onConnection \in {"none", "function", "other"}
          /\ onData \in [Sockets -> {"none", "function", "other"}]
          /\ onWritten \in [Sockets -> {"none", "function", "other"}]
          /\ pending \in [Ops -> Nat]
          /\ running \in [op : Ops, ec : BOOLEAN, client : Sockets \cup {Nothing}, on : BOOLEAN]
          /\ exception \in BOOLEAN
          /\ phase \in {"script", "loop", "ended", "aborted"}
          /\ listens \in Nat /\ reads \in [Sockets -> Nat]

\* What an operation in flight, or the handler that runs, will use exists:
\* the network never writes to a buffer that was collected, and no handler
\* finds its socket finalized.
InFlightAlive == /\ \A op \in InFlight : Uses(op) \subseteq alive
                 /\ OnStack \subseteq alive

\* An object stays pinned no longer than an operation needs it.
NoPinLeft == \A o \in Objects : pins[o] > 0 =>
               \/ \E op \in InFlight : o \in Uses(op)
               \/ running.on /\ o \in Uses(running.op)

\* The read loops of a socket, in flight or calling back.
ReadLoops(s) ==
  LET ops == {op \in InFlight : op.kind = "readEx" /\ op.on = s}
  IN Cardinality(ops) + (IF running.on /\ running.op.kind = "readEx" /\ running.op.on = s
                         THEN 1 ELSE 0)

\* However callbacks call the functions again, the loops that accept and read
\* do not multiply: no more of them than there were calls by the script.
LoopsDoNotMultiply ==
  /\ pending[Accept] + (IF running.on /\ running.op = Accept THEN 1 ELSE 0) <= listens
  /\ \A op \in InFlight : op.kind = "readEx" => pending[op] = 1
  /\ \A s \in Sockets : ReadLoops(s) <= reads[s]

\* A C++ exception leaves run() only because of what a script did: it put
\* something else than a function in a property, or it threw.
AbortedByScript ==
  phase = "aborted" => \/ exception
                       \/ onConnection = "other"
                       \/ \E s \in Sockets : "other" \in {onData[s], onWritten[s]}

\* A server that listens accepts again and again.
AcceptsAgain == (listens > 0) ~> (pending[Accept] > 0)
=============================================================================
