--------------------------- MODULE TcpServerProofs ---------------------------
(***************************************************************************)
(* Proofs about TcpServer for any sockets, buffers and faults, and any     *)
(* number of operations in flight.                                         *)
(***************************************************************************)
EXTENDS TcpServer, Integers, FiniteSetTheorems, TLAPS

\* The operations in flight, each as often as it is, that use object o: the
\* second component counts those that are alike.
Tickets(p, o) == {t \in Ops \X Nat : o \in Uses(t[1]) /\ t[2] \in 1..p[t[1]]}

\* What the handler uses that has been taken from the loop.
Busy == IF running.on THEN Uses(running.op) ELSE {}

One(b) == IF b THEN 1 ELSE 0

\* One operation more or less in flight, and one reference more or less to what it uses.
Plus(p, op) == [p EXCEPT ![op] = @ + 1]
Minus(p, op) == [p EXCEPT ![op] = @ - 1]
PinFor(n, op) == [o \in Objects |-> IF o \in Uses(op) THEN n[o] + 1 ELSE n[o]]
UnpinFor(n, op) == [o \in Objects |-> IF o \in Uses(op) THEN n[o] - 1 ELSE n[o]]

\* An object is pinned once for each operation in flight, and by the handler that runs.
ExactFor(p, n, busy) ==
  \A o \in Objects : /\ IsFiniteSet(Tickets(p, o))
                     /\ n[o] = Cardinality(Tickets(p, o)) + One(o \in busy)
PinInv == ExactFor(pending, pins, Busy)

\* What is pinned, and the client that a callback has been given, exists.
AliveInv == /\ \A o \in Objects : pins[o] > 0 => o \in alive
            /\ running.on /\ running.client # Nothing => running.client \in alive

\* Callbacks run on the loop only.
PhaseInv == (running.on => phase = "loop") /\ AbortedByScript

\* The read loops of s in flight, and the one whose handler runs.
Loops(p, s) == {op \in Ops : p[op] > 0 /\ op.kind = "readEx" /\ op.on = s}
Reads(run, s) == run.on /\ run.op.kind = "readEx" /\ run.op.on = s
Accepts(run) == run.on /\ run.op = Accept

\* LoopsDoNotMultiply, with the finiteness that counting needs.
LoopsFor(p, run, ls, rd) ==
  /\ p[Accept] + One(Accepts(run)) <= ls
  /\ \A op \in Ops : op.kind = "readEx" => p[op] <= 1
  /\ \A s \in Sockets : /\ IsFiniteSet(Loops(p, s))
                        /\ Cardinality(Loops(p, s)) + One(Reads(run, s)) <= rd[s]
LoopInv == LoopsFor(pending, running, listens, reads)

IInv == TypeOK /\ PinInv /\ AliveInv /\ PhaseInv /\ LoopInv

-----------------------------------------------------------------------------
\* What an operation uses are objects.
LEMMA UsesObjects ==
  ASSUME NEW op \in Ops PROVE Uses(op) \subseteq Objects /\ IsFiniteSet(Uses(op))
<1>1. Uses(op) \subseteq Objects
  BY TcpAssumption DEF Uses, Ops, Accept, Task, Objects
<1>2. Uses(op) \subseteq {op.on} \cup {op.buf}
  BY DEF Uses
<1>3. IsFiniteSet({op.on} \cup {op.buf})
  BY FS_Singleton, FS_AddElement
<1> QED
  BY <1>1, <1>2, <1>3, FS_Subset

\* One more operation in flight is one more ticket for what it uses.
LEMMA TicketAdded ==
  ASSUME NEW p \in [Ops -> Nat], NEW op \in Ops, NEW o, IsFiniteSet(Tickets(p, o)),
         NEW q, q = [p EXCEPT ![op] = @ + 1]
  PROVE  /\ IsFiniteSet(Tickets(q, o))
         /\ Cardinality(Tickets(q, o)) = Cardinality(Tickets(p, o)) + One(o \in Uses(op))
<1>0. Cardinality(Tickets(p, o)) \in Nat
  BY FS_CardinalityType
<1>1. CASE o \in Uses(op)
  <2> DEFINE t == <<op, p[op] + 1>>
  <2>1. t \notin Tickets(p, o)
    BY DEF Tickets
  <2>2. Tickets(q, o) = Tickets(p, o) \cup {t}
    <3>1. ASSUME NEW u \in Ops \X Nat
          PROVE  u \in Tickets(q, o) <=> u \in Tickets(p, o) \cup {t}
      BY <1>1 DEF Tickets
    <3>2. t \in Ops \X Nat
      OBVIOUS
    <3> QED
      BY <3>1, <3>2 DEF Tickets
  <2> HIDE DEF t
  <2>3. /\ IsFiniteSet(Tickets(p, o) \cup {t})
        /\ Cardinality(Tickets(p, o) \cup {t}) = Cardinality(Tickets(p, o)) + 1
    BY <2>1, FS_AddElement
  <2> QED
    BY <1>1, <2>2, <2>3 DEF One
<1>2. CASE o \notin Uses(op)
  <2>1. Tickets(q, o) = Tickets(p, o)
    BY <1>2 DEF Tickets
  <2> QED
    BY <1>0, <1>2, <2>1 DEF One
<1> QED
  BY <1>1, <1>2

\* One operation less is one ticket less.
LEMMA TicketTaken ==
  ASSUME NEW p \in [Ops -> Nat], NEW op \in Ops, NEW o, IsFiniteSet(Tickets(p, o)), p[op] > 0,
         NEW q, q = [p EXCEPT ![op] = @ - 1]
  PROVE  /\ IsFiniteSet(Tickets(q, o))
         /\ Cardinality(Tickets(q, o)) = Cardinality(Tickets(p, o)) - One(o \in Uses(op))
<1>1. q \in [Ops -> Nat] /\ p = [q EXCEPT ![op] = @ + 1]
  <2>1. p[op] - 1 \in Nat /\ (p[op] - 1) + 1 = p[op]
    OBVIOUS
  <2>2. q \in [Ops -> Nat] /\ q[op] = p[op] - 1
    BY <2>1
  <2>3. \A x \in Ops : [q EXCEPT ![op] = @ + 1][x] = p[x]
    BY <2>1, <2>2
  <2> QED
    BY <2>2, <2>3
<1>2. Tickets(q, o) \subseteq Tickets(p, o)
  BY DEF Tickets
<1>3. IsFiniteSet(Tickets(q, o))
  BY <1>2, FS_Subset
<1>4. Cardinality(Tickets(q, o)) \in Nat
  BY <1>3, FS_CardinalityType
<1>5. Cardinality(Tickets(p, o)) = Cardinality(Tickets(q, o)) + One(o \in Uses(op))
  BY <1>1, <1>3, TicketAdded
<1> QED
  BY <1>3, <1>4, <1>5 DEF One

\* The counts are numbers.
LEMMA TicketsCount ==
  ASSUME NEW p, NEW n, NEW busy, ExactFor(p, n, busy), NEW o \in Objects
  PROVE  Cardinality(Tickets(p, o)) \in Nat /\ n[o] \in Nat
  BY FS_CardinalityType DEF ExactFor, One

\* An operation starts.
LEMMA Starts ==
  ASSUME NEW p \in [Ops -> Nat], NEW n \in [Objects -> Nat], NEW busy, ExactFor(p, n, busy),
         NEW op \in Ops
  PROVE  /\ ExactFor(Plus(p, op), PinFor(n, op), busy)
         /\ Plus(p, op) \in [Ops -> Nat] /\ PinFor(n, op) \in [Objects -> Nat]
<1> DEFINE q == Plus(p, op)
           m == PinFor(n, op)
<1>0. q = [p EXCEPT ![op] = @ + 1] /\ \A o \in Objects : m[o] = n[o] + One(o \in Uses(op))
  BY DEF Plus, PinFor, One
<1>2. q \in [Ops -> Nat] /\ m \in [Objects -> Nat]
  BY DEF Plus, PinFor
<1> HIDE DEF q, m
<1>1. ASSUME NEW o \in Objects
      PROVE  IsFiniteSet(Tickets(q, o)) /\ m[o] = Cardinality(Tickets(q, o)) + One(o \in busy)
  <2>1. IsFiniteSet(Tickets(p, o)) /\ n[o] = Cardinality(Tickets(p, o)) + One(o \in busy)
    BY DEF ExactFor
  <2>2. Cardinality(Tickets(p, o)) \in Nat
    BY TicketsCount
  <2>3. /\ IsFiniteSet(Tickets(q, o))
        /\ Cardinality(Tickets(q, o)) = Cardinality(Tickets(p, o)) + One(o \in Uses(op))
    BY <1>0, <2>1, TicketAdded
  <2> QED
    BY <1>0, <2>1, <2>2, <2>3 DEF One
<1> QED
  BY <1>1, <1>2 DEF ExactFor, q, m

\* An operation is taken from the loop and its handler destroyed.
LEMMA TakenAndLetGo ==
  ASSUME NEW p \in [Ops -> Nat], NEW n \in [Objects -> Nat], NEW busy, ExactFor(p, n, busy),
         NEW op \in Ops, p[op] > 0
  PROVE  /\ ExactFor(Minus(p, op), UnpinFor(n, op), busy)
         /\ Minus(p, op) \in [Ops -> Nat] /\ UnpinFor(n, op) \in [Objects -> Nat]
<1> DEFINE q == Minus(p, op)
           m == UnpinFor(n, op)
<1>0. /\ q = [p EXCEPT ![op] = @ - 1] /\ m = [o \in Objects |-> m[o]]
      /\ \A o \in Objects : m[o] = n[o] - One(o \in Uses(op))
  BY DEF Minus, UnpinFor, One
<1>2. q \in [Ops -> Nat]
  BY DEF Minus
<1> HIDE DEF q, m
<1>1. ASSUME NEW o \in Objects
      PROVE  /\ IsFiniteSet(Tickets(q, o)) /\ m[o] = Cardinality(Tickets(q, o)) + One(o \in busy)
             /\ m[o] \in Nat
  <2>1. IsFiniteSet(Tickets(p, o)) /\ n[o] = Cardinality(Tickets(p, o)) + One(o \in busy)
    BY DEF ExactFor
  <2>2. Cardinality(Tickets(p, o)) \in Nat
    BY TicketsCount
  <2>3. /\ IsFiniteSet(Tickets(q, o))
        /\ Cardinality(Tickets(q, o)) = Cardinality(Tickets(p, o)) - One(o \in Uses(op))
    BY <1>0, <2>1, TicketTaken
  <2>4. Cardinality(Tickets(q, o)) \in Nat
    BY <2>3, FS_CardinalityType
  <2> QED
    BY <1>0, <2>1, <2>2, <2>3, <2>4 DEF One
<1>3. m \in [Objects -> Nat]
  BY <1>0, <1>1
<1> QED
  BY <1>1, <1>2, <1>3 DEF ExactFor, q, m

\* An operation is taken from the loop and its handler runs: it holds what it pinned.
LEMMA TakenToRun ==
  ASSUME NEW p \in [Ops -> Nat], NEW n, ExactFor(p, n, {}),
         NEW op \in Ops, p[op] > 0, NEW q, q = [p EXCEPT ![op] = @ - 1]
  PROVE  ExactFor(q, n, Uses(op)) /\ q \in [Ops -> Nat]
<1>1. ASSUME NEW o \in Objects
      PROVE  /\ IsFiniteSet(Tickets(q, o))
             /\ n[o] = Cardinality(Tickets(q, o)) + One(o \in Uses(op))
  <2>1. IsFiniteSet(Tickets(p, o)) /\ n[o] = Cardinality(Tickets(p, o))
    <3>1. One(o \in {}) = 0
      BY DEF One
    <3>2. IsFiniteSet(Tickets(p, o)) /\ n[o] = Cardinality(Tickets(p, o)) + 0
      BY <3>1 DEF ExactFor
    <3>3. Cardinality(Tickets(p, o)) \in Nat
      BY TicketsCount
    <3> QED
      BY <3>2, <3>3
  <2>2. Cardinality(Tickets(p, o)) \in Nat
    BY TicketsCount
  <2>3. /\ IsFiniteSet(Tickets(q, o))
        /\ Cardinality(Tickets(q, o)) = Cardinality(Tickets(p, o)) - One(o \in Uses(op))
    BY <2>1, TicketTaken
  <2>4. Cardinality(Tickets(q, o)) \in Nat
    BY <2>3, FS_CardinalityType
  <2> QED
    BY <2>1, <2>2, <2>3, <2>4 DEF One
<1>2. q \in [Ops -> Nat]
  OBVIOUS
<1> QED
  BY <1>1, <1>2 DEF ExactFor

\* The handler that ran is destroyed.
LEMMA RunLetsGo ==
  ASSUME NEW p, NEW n \in [Objects -> Nat], NEW op \in Ops, ExactFor(p, n, Uses(op)),
         NEW m, m = [o \in Objects |-> IF o \in Uses(op) THEN n[o] - 1 ELSE n[o]]
  PROVE  ExactFor(p, m, {}) /\ m \in [Objects -> Nat]
<1>1. ASSUME NEW o \in Objects
      PROVE  /\ IsFiniteSet(Tickets(p, o)) /\ m[o] = Cardinality(Tickets(p, o)) + One(o \in {})
             /\ m[o] \in Nat
  <2>1. IsFiniteSet(Tickets(p, o)) /\ n[o] = Cardinality(Tickets(p, o)) + One(o \in Uses(op))
    BY DEF ExactFor
  <2>2. Cardinality(Tickets(p, o)) \in Nat
    BY TicketsCount
  <2> QED
    BY <2>1, <2>2 DEF One
<1> QED
  BY <1>1 DEF ExactFor

\* An operation in flight has pinned what it uses.
LEMMA InFlightPinned ==
  ASSUME TypeOK, PinInv, NEW op \in Ops, pending[op] > 0, NEW o \in Uses(op)
  PROVE  o \in Objects /\ pins[o] > 0
<1>1. o \in Objects
  BY UsesObjects
<1>2. <<op, 1>> \in Tickets(pending, o)
  BY DEF Tickets, TypeOK
<1>3. IsFiniteSet(Tickets(pending, o))
  BY <1>1 DEF PinInv, ExactFor
<1>4. Cardinality(Tickets(pending, o)) # 0
  BY <1>2, <1>3, FS_EmptySet
<1>5. /\ Cardinality(Tickets(pending, o)) \in Nat
      /\ pins[o] = Cardinality(Tickets(pending, o)) + One(o \in Busy)
  BY <1>1, TicketsCount DEF PinInv, ExactFor
<1> QED
  BY <1>1, <1>4, <1>5 DEF One

\* And so has the handler that runs.
LEMMA BusyPinned ==
  ASSUME TypeOK, PinInv, NEW o \in Busy
  PROVE  o \in Objects /\ pins[o] > 0
<1>1. o \in Objects
  BY UsesObjects DEF Busy, TypeOK
<1>2. /\ Cardinality(Tickets(pending, o)) \in Nat
      /\ pins[o] = Cardinality(Tickets(pending, o)) + 1
  BY <1>1, TicketsCount DEF PinInv, ExactFor, One
<1> QED
  BY <1>1, <1>2

-----------------------------------------------------------------------------
(* Types and pins.                                                         *)

LEMMA PinsKept ==
  ASSUME PinInv, UNCHANGED <<pending, pins, running>> PROVE PinInv'
  BY DEF PinInv, Busy

\* An operation that a script starts.
LEMMA StartKeepsPins ==
  ASSUME TypeOK, PinInv, NEW op \in Ops, Start(op), UNCHANGED running
  PROVE  PinInv' /\ pending' \in [Ops -> Nat] /\ pins' \in [Objects -> Nat]
<1>1. /\ pending \in [Ops -> Nat] /\ pins \in [Objects -> Nat]
      /\ ExactFor(pending, pins, Busy)
  BY DEF TypeOK, PinInv
<1>2. pending' = Plus(pending, op) /\ pins' = PinFor(pins, op)
  BY DEF Start, Pin, Plus, PinFor
<1>3. /\ ExactFor(pending', pins', Busy)
      /\ pending' \in [Ops -> Nat] /\ pins' \in [Objects -> Nat]
  BY <1>1, <1>2, Starts
<1>4. Busy' = Busy
  BY DEF Busy
<1> QED
  BY <1>3, <1>4 DEF PinInv

\* The kinds of operations.
LEMMA Kinds ==
  /\ Accept \in Ops /\ Task \in Ops
  /\ \A k \in {"read", "readEx", "write"}, s \in Sockets, b \in Buffers :
       [kind |-> k, on |-> s, buf |-> b] \in Ops
  /\ \A op \in Ops :
       /\ op.kind \in {"read", "readEx", "write"} =>
            /\ op.on \in Sockets /\ op.buf \in Buffers
            /\ op = [kind |-> op.kind, on |-> op.on, buf |-> op.buf]
       /\ op.kind = "accept" <=> op = Accept
       /\ op.kind = "task" <=> op = Task
       /\ op.kind \in {"accept", "task", "read", "readEx", "write"}
  BY DEF Ops, Accept, Task

\* What a script does keeps the types and the pins.
LEMMA ScriptKeepsPins == TypeOK /\ PinInv /\ ScriptStep => TypeOK' /\ PinInv'
<1> SUFFICES ASSUME TypeOK, PinInv, ScriptStep PROVE TypeOK' /\ PinInv'
  OBVIOUS
<1>1. ASSUME NEW o \in Objects, Make(o)
      PROVE  TypeOK' /\ PinInv'
  <2>1. UNCHANGED <<pending, pins, running>>
    BY <1>1 DEF Make
  <2> QED
    BY <1>1, <2>1, PinsKept DEF Make, TypeOK, propVars, ghostVars
<1>2. ASSUME NEW o \in Objects, Drop(o)
      PROVE  TypeOK' /\ PinInv'
  <2>1. UNCHANGED <<pending, pins, running>>
    BY <1>2 DEF Drop
  <2> QED
    BY <1>2, <2>1, PinsKept DEF Drop, TypeOK, propVars, ghostVars
<1>3. CASE SetProperty
  <2>1. UNCHANGED <<pending, pins, running>>
    BY <1>3 DEF SetProperty, objectVars
  <2>2. Assignable \subseteq {"none", "function", "other"}
    BY DEF Assignable
  <2>3. /\ onConnection' \in {"none", "function", "other"}
        /\ onData' \in [Sockets -> {"none", "function", "other"}]
        /\ onWritten' \in [Sockets -> {"none", "function", "other"}]
    BY <1>3, <2>2 DEF SetProperty, TypeOK
  <2> QED
    BY <1>3, <2>1, <2>3, PinsKept DEF SetProperty, TypeOK, objectVars, ghostVars
<1>4. CASE Listen
  <2>1. Start(Accept) /\ UNCHANGED running /\ Accept \in Ops
    BY <1>4, Kinds DEF Listen, unchangedByCall
  <2>2. PinInv' /\ pending' \in [Ops -> Nat] /\ pins' \in [Objects -> Nat]
    BY <2>1, StartKeepsPins
  <2> QED
    BY <1>4, <2>2 DEF Listen, TypeOK, unchangedByCall, propVars
<1>5. ASSUME NEW s \in Sockets, NEW b \in Buffers, AsyncRead(s, b) \/ AsyncWrite(s, b)
      PROVE  TypeOK' /\ PinInv'
  <2>1. PICK k \in {"read", "write"} : Start([kind |-> k, on |-> s, buf |-> b])
    BY <1>5 DEF AsyncRead, AsyncWrite
  <2>2. UNCHANGED running /\ [kind |-> k, on |-> s, buf |-> b] \in Ops
    BY <1>5, Kinds DEF AsyncRead, AsyncWrite, unchangedByCall
  <2>3. PinInv' /\ pending' \in [Ops -> Nat] /\ pins' \in [Objects -> Nat]
    BY <2>1, <2>2, StartKeepsPins
  <2> QED
    BY <1>5, <2>3
       DEF AsyncRead, AsyncWrite, TypeOK, unchangedByCall, propVars, ghostVars
<1>6. ASSUME NEW s \in Sockets, NEW b \in Buffers, AsyncReadEx(s, b)
      PROVE  TypeOK' /\ PinInv'
  <2>1. /\ Start([kind |-> "readEx", on |-> s, buf |-> b]) /\ UNCHANGED running
        /\ [kind |-> "readEx", on |-> s, buf |-> b] \in Ops
    BY <1>6, Kinds DEF AsyncReadEx, unchangedByCall
  <2>2. PinInv' /\ pending' \in [Ops -> Nat] /\ pins' \in [Objects -> Nat]
    BY <2>1, StartKeepsPins
  <2>3. held' \subseteq alive' /\ alive' \subseteq Objects /\ reads' \in [Sockets -> Nat]
    BY <1>6 DEF AsyncReadEx, TypeOK, Objects
  <2> QED
    BY <1>6, <2>2, <2>3 DEF AsyncReadEx, TypeOK, unchangedByCall, propVars
<1>7. CASE PromiseContinuation
  <2>1. Start(Task) /\ UNCHANGED running /\ Task \in Ops
    BY <1>7, Kinds DEF PromiseContinuation, unchangedByCall
  <2>2. PinInv' /\ pending' \in [Ops -> Nat] /\ pins' \in [Objects -> Nat]
    BY <2>1, StartKeepsPins
  <2> QED
    BY <1>7, <2>2 DEF PromiseContinuation, TypeOK, unchangedByCall, propVars, ghostVars
<1>8. acceptor \in Objects /\ Sockets \subseteq Objects /\ Buffers \subseteq Objects
  BY DEF Objects
<1> QED
  BY <1>1, <1>2, <1>3, <1>4, <1>5, <1>6, <1>7, <1>8
     DEF ScriptStep, CreateAcceptor, Socket, NewBuffer

\* What an operation that completes does.
LEMMA LoopKeepsPins == TypeOK /\ PinInv /\ AliveInv /\ LoopStep => TypeOK' /\ PinInv'
<1> SUFFICES ASSUME TypeOK, PinInv, AliveInv, LoopStep PROVE TypeOK' /\ PinInv'
  OBVIOUS
<1>0. pending \in [Ops -> Nat] /\ pins \in [Objects -> Nat] /\ ExactFor(pending, pins, Busy)
  BY DEF TypeOK, PinInv
<1>1. ASSUME NEW op \in Ops, GiveUp(op) \/ Escape(op)
      PROVE  TypeOK' /\ PinInv'
  <2>1. /\ pending[op] > 0 /\ pending' = Minus(pending, op)
        /\ pins' = UnpinFor(pins, op) /\ UNCHANGED running
    BY <1>1 DEF GiveUp, Escape, Ready, Taken, Unpin, Minus, UnpinFor
  <2>2. /\ ExactFor(pending', pins', Busy)
        /\ pending' \in [Ops -> Nat] /\ pins' \in [Objects -> Nat]
    BY <1>0, <2>1, TakenAndLetGo
  <2>3. Busy' = Busy
    BY <2>1 DEF Busy
  <2> QED
    BY <1>1, <2>2, <2>3 DEF GiveUp, Escape, PinInv, TypeOK, propVars, ghostVars
<1>2. ASSUME NEW op \in Ops, Ready(op), Taken(op), UNCHANGED pins,
             running'.on, running'.op = op
      PROVE  PinInv' /\ pending' \in [Ops -> Nat]
  <2>1. /\ pending[op] > 0 /\ pending' = [pending EXCEPT ![op] = @ - 1]
        /\ Busy = {} /\ Busy' = Uses(op)
    BY <1>2 DEF Ready, Taken, Busy
  <2>2. ExactFor(pending', pins, Uses(op)) /\ pending' \in [Ops -> Nat]
    BY <1>0, <2>1, TakenToRun
  <2> QED
    BY <1>2, <2>1, <2>2 DEF PinInv
<1>3. ASSUME NEW op \in Ops, Call(op)
      PROVE  TypeOK' /\ PinInv'
  <2>1. /\ Ready(op) /\ Taken(op) /\ UNCHANGED pins /\ running'.on /\ running'.op = op
        /\ running' \in [op : Ops, ec : BOOLEAN, client : Sockets \cup {Nothing}, on : BOOLEAN]
    BY <1>3 DEF Call
  <2>2. PinInv' /\ pending' \in [Ops -> Nat]
    BY <1>2, <2>1
  <2>3. Uses(op) \subseteq alive
    BY <1>3, InFlightPinned DEF Call, Ready, AliveInv
  <2> QED
    BY <1>3, <2>1, <2>2, <2>3 DEF Call, TypeOK, propVars, ghostVars
<1>4. ASSUME NEW s \in Sockets, CallOnConnection(s)
      PROVE  TypeOK' /\ PinInv'
  <2>1. /\ Ready(Accept) /\ Taken(Accept) /\ UNCHANGED pins
        /\ running'.on /\ running'.op = Accept /\ Accept \in Ops
        /\ running' \in [op : Ops, ec : BOOLEAN, client : Sockets \cup {Nothing}, on : BOOLEAN]
    BY <1>4, Kinds DEF CallOnConnection
  <2>2. PinInv' /\ pending' \in [Ops -> Nat]
    BY <1>2, <2>1
  <2>3. acceptor \in alive
    <3>1. acceptor \in Uses(Accept)
      BY TcpAssumption DEF Uses, Accept
    <3> QED
      BY <2>1, <3>1, InFlightPinned DEF Ready, AliveInv
  <2>4. held' \subseteq alive' /\ alive' \subseteq Objects
    BY <1>4, <2>3 DEF CallOnConnection, TypeOK, Objects
  <2> QED
    BY <1>4, <2>1, <2>2, <2>4 DEF CallOnConnection, TypeOK, propVars, ghostVars
<1> QED
  BY <1>1, <1>3, <1>4 DEF LoopStep

\* A callback has returned: no handler runs.
LEMMA HandlerDone ==
  CallbackReturns => /\ running.on /\ running' = Idle /\ ~ running'.on
                     /\ exception' \in BOOLEAN /\ UNCHANGED <<propVars, ghostVars>>
<1> SUFFICES ASSUME CallbackReturns
             PROVE  /\ running.on /\ running' = Idle /\ ~ running'.on
                    /\ exception' \in BOOLEAN /\ UNCHANGED <<propVars, ghostVars>>
  OBVIOUS
<1>1. Returns
  BY DEF CallbackReturns, Finish, AcceptAgain, ReadNoMore, ReadAgain
<1> QED
  BY <1>1 DEF Returns, Idle

\* What a handler does when its callback has returned.
LEMMA CallbackKeepsPins == TypeOK /\ PinInv /\ AliveInv /\ CallbackReturns => TypeOK' /\ PinInv'
<1> SUFFICES ASSUME TypeOK, PinInv, AliveInv, CallbackReturns PROVE TypeOK' /\ PinInv'
  OBVIOUS
<1> DEFINE op == running.op
           let == [o \in Objects |-> IF o \in Uses(op) THEN pins[o] - 1 ELSE pins[o]]
<1>0. /\ running.on /\ running' = Idle /\ exception' \in BOOLEAN /\ UNCHANGED <<propVars, ghostVars>>
      /\ Idle \in [op : Ops, ec : BOOLEAN, client : Sockets \cup {Nothing}, on : BOOLEAN]
  BY HandlerDone, Kinds DEF Idle
<1>1. op \in Ops /\ Busy = Uses(op) /\ Busy' = {}
  BY <1>0 DEF Busy, Idle, TypeOK
<1>2. ExactFor(pending, let, {}) /\ let \in [Objects -> Nat] /\ let = Unpin(op)
  <2>1. pins \in [Objects -> Nat] /\ ExactFor(pending, pins, Uses(op))
    BY <1>1 DEF TypeOK, PinInv
  <2>2. ASSUME NEW m, m = [o \in Objects |-> IF o \in Uses(op) THEN pins[o] - 1 ELSE pins[o]]
        PROVE  ExactFor(pending, m, {}) /\ m \in [Objects -> Nat]
    BY <1>1, <2>1, <2>2, RunLetsGo
  <2> QED
    BY <2>2 DEF Unpin
<1> HIDE DEF let
<1>3. CASE Finish \/ ReadNoMore
  <2>1. pins' = let /\ UNCHANGED <<alive, held, pending>>
    BY <1>2, <1>3 DEF Finish, ReadNoMore
  <2>2. PinInv'
    BY <1>1, <1>2, <2>1 DEF PinInv
  <2>3. phase' \in {"script", "loop", "ended", "aborted"}
    BY <1>3 DEF Finish, ReadNoMore, TypeOK
  <2> QED
    BY <1>0, <1>2, <2>1, <2>2, <2>3 DEF TypeOK, propVars, ghostVars
<1>4. ASSUME NEW new \in Ops, pending' = [pending EXCEPT ![new] = @ + 1],
             pins' = [o \in Objects |-> IF o \in Uses(new) THEN let[o] + 1 ELSE let[o]]
      PROVE  PinInv' /\ pending' \in [Ops -> Nat] /\ pins' \in [Objects -> Nat]
  <2>1. pending' = Plus(pending, new) /\ pins' = PinFor(let, new) /\ pending \in [Ops -> Nat]
    BY <1>4 DEF Plus, PinFor, TypeOK
  <2>2. /\ ExactFor(pending', pins', {}) /\ pending' \in [Ops -> Nat]
        /\ pins' \in [Objects -> Nat]
    BY <1>2, <2>1, Starts
  <2> QED
    BY <1>1, <2>2 DEF PinInv
<1>5. CASE AcceptAgain
  <2>1. Accept \in Ops /\ pending' = [pending EXCEPT ![Accept] = @ + 1] /\ op = Accept
    BY <1>5, Kinds DEF AcceptAgain
  <2>2. pins' = [o \in Objects |-> IF o \in Uses(Accept) THEN let[o] + 1 ELSE let[o]]
    <3>1. pins' = pins /\ pins \in [Objects -> Nat]
      BY <1>5 DEF AcceptAgain, objectVars, TypeOK
    <3>2. \A o \in Objects : pins[o] = IF o \in Uses(Accept) THEN let[o] + 1 ELSE let[o]
      BY <1>2, <2>1, <3>1 DEF let
    <3> QED
      BY <3>1, <3>2
  <2>3. PinInv' /\ pending' \in [Ops -> Nat] /\ pins' \in [Objects -> Nat]
    BY <1>4, <2>1, <2>2
  <2> QED
    BY <1>0, <1>5, <2>3 DEF AcceptAgain, TypeOK, propVars, ghostVars, objectVars
<1>6. ASSUME NEW b \in Buffers, ReadAgain(b)
      PROVE  TypeOK' /\ PinInv'
  <2> DEFINE new == [op EXCEPT !.buf = b]
  <2>1. new \in Ops
    <3>1. op.on \in Sockets /\ op = [kind |-> "readEx", on |-> op.on, buf |-> op.buf]
      BY <1>1, <1>6, Kinds DEF ReadAgain
    <3>2. new = [kind |-> "readEx", on |-> op.on, buf |-> b]
      BY <3>1
    <3> QED
      BY <3>1, <3>2, Kinds
  <2>2. pending' = [pending EXCEPT ![new] = @ + 1]
    BY <1>6 DEF ReadAgain
  <2>3. pins' = [o \in Objects |-> IF o \in Uses(new) THEN let[o] + 1 ELSE let[o]]
    <3>1. pins' = [o \in Objects |-> Unpin(op)[o] + IF o \in Uses(new) THEN 1 ELSE 0]
      BY <1>6 DEF ReadAgain
    <3> HIDE DEF new
    <3>2. \A o \in Objects : Unpin(op)[o] + (IF o \in Uses(new) THEN 1 ELSE 0)
                             = IF o \in Uses(new) THEN let[o] + 1 ELSE let[o]
      BY <1>2
    <3> QED
      BY <3>1, <3>2
  <2> HIDE DEF new
  <2>4. PinInv' /\ pending' \in [Ops -> Nat] /\ pins' \in [Objects -> Nat]
    BY <1>4, <2>1, <2>2, <2>3
  <2>5. held' \subseteq alive' /\ alive' \subseteq Objects /\ phase' = phase
    BY <1>6 DEF ReadAgain, TypeOK, Objects
  <2> QED
    BY <1>0, <2>4, <2>5 DEF TypeOK, propVars, ghostVars
<1> QED
  BY <1>3, <1>5, <1>6 DEF CallbackReturns

\* Every step keeps the types and the pins.
LEMMA NextKeepsPins == TypeOK /\ PinInv /\ AliveInv /\ [Next]_vars => TypeOK' /\ PinInv'
<1> SUFFICES ASSUME TypeOK, PinInv, AliveInv, [Next]_vars PROVE TypeOK' /\ PinInv'
  OBVIOUS
<1>1. CASE ScriptStep
  BY <1>1, ScriptKeepsPins
<1>2. CASE LoopStep
  BY <1>2, LoopKeepsPins
<1>3. CASE CallbackReturns
  BY <1>3, CallbackKeepsPins
<1>4. CASE Run \/ RunEnds
  BY <1>4, PinsKept DEF Run, RunEnds, TypeOK, objectVars, propVars, ghostVars
<1>5. ASSUME NEW o \in Objects, Collect(o)
      PROVE  TypeOK' /\ PinInv'
  <2>1. UNCHANGED <<pending, pins, running>>
    BY <1>5 DEF Collect
  <2> QED
    BY <1>5, <2>1, PinsKept DEF Collect, TypeOK
<1>6. CASE UNCHANGED vars
  BY <1>6, PinsKept DEF vars, TypeOK, objectVars, propVars, ghostVars
<1> QED
  BY <1>1, <1>2, <1>3, <1>4, <1>5, <1>6 DEF Next

-----------------------------------------------------------------------------
(* What is pinned exists, and callbacks run on the loop.                   *)

LEMMA ScriptKeepsAlive ==
  TypeOK /\ PinInv /\ AliveInv /\ ScriptStep => AliveInv'
<1> SUFFICES ASSUME TypeOK, PinInv, AliveInv, ScriptStep PROVE AliveInv'
  OBVIOUS
<1>0. Accept \in Ops /\ Task \in Ops
  BY Kinds
<1>1. ASSUME alive \subseteq alive', UNCHANGED <<pins, running>>
      PROVE  AliveInv'
  BY <1>1 DEF AliveInv
<1>2. ASSUME NEW op \in Ops, Start(op), alive \subseteq alive', UNCHANGED running,
             Uses(op) \subseteq alive'
      PROVE  AliveInv'
  <2>1. \A o \in Objects : pins'[o] > 0 => pins[o] > 0 \/ o \in Uses(op)
    BY <1>2 DEF Start, Pin
  <2> QED
    BY <1>2, <2>1 DEF AliveInv
<1>3. ASSUME NEW o \in Objects, Make(o) \/ Drop(o)
      PROVE  AliveInv'
  BY <1>1, <1>3 DEF Make, Drop
<1>4. CASE SetProperty
  BY <1>1, <1>4 DEF SetProperty, objectVars
<1>5. CASE Listen
  <2>1. Uses(Accept) \subseteq held
    BY <1>5 DEF Listen, Uses, Accept
  <2> QED
    BY <1>0, <1>2, <1>5, <2>1 DEF Listen, unchangedByCall, TypeOK
<1>6. CASE PromiseContinuation
  <2>1. Uses(Task) = {}
    BY DEF Uses, Task
  <2> QED
    BY <1>0, <1>2, <1>6, <2>1 DEF PromiseContinuation, unchangedByCall
<1>7. ASSUME NEW s \in Sockets, NEW b \in Buffers,
             AsyncRead(s, b) \/ AsyncWrite(s, b) \/ AsyncReadEx(s, b)
      PROVE  AliveInv'
  <2>1. PICK k \in {"read", "readEx", "write"} : Start([kind |-> k, on |-> s, buf |-> b])
    BY <1>7 DEF AsyncRead, AsyncWrite, AsyncReadEx
  <2>2. alive \subseteq alive' /\ {s, b} \subseteq alive' /\ UNCHANGED running
    BY <1>7 DEF AsyncRead, AsyncWrite, AsyncReadEx, unchangedByCall, TypeOK
  <2>3. Uses([kind |-> k, on |-> s, buf |-> b]) \subseteq {s, b}
    BY DEF Uses
  <2>4. [kind |-> k, on |-> s, buf |-> b] \in Ops
    BY Kinds
  <2> QED
    BY <1>2, <2>1, <2>2, <2>3, <2>4
<1>8. acceptor \in Objects /\ Sockets \subseteq Objects /\ Buffers \subseteq Objects
  BY DEF Objects
<1> QED
  BY <1>3, <1>4, <1>5, <1>6, <1>7, <1>8 DEF ScriptStep, CreateAcceptor, Socket, NewBuffer

LEMMA LoopKeepsAlive == TypeOK /\ AliveInv /\ LoopStep => AliveInv'
<1> SUFFICES ASSUME TypeOK, AliveInv, LoopStep PROVE AliveInv'
  OBVIOUS
<1>1. ASSUME NEW op \in Ops, GiveUp(op) \/ Escape(op)
      PROVE  AliveInv'
  <2>1. \A o \in Objects : pins'[o] > 0 => pins[o] > 0
    BY <1>1 DEF GiveUp, Escape, Unpin, TypeOK
  <2> QED
    BY <1>1, <2>1 DEF GiveUp, Escape, AliveInv
<1>2. ASSUME NEW op \in Ops, Call(op)
      PROVE  AliveInv'
  BY <1>2 DEF Call, AliveInv
<1>3. ASSUME NEW s \in Sockets, CallOnConnection(s)
      PROVE  AliveInv'
  BY <1>3 DEF CallOnConnection, AliveInv
<1> QED
  BY <1>1, <1>2, <1>3 DEF LoopStep

LEMMA CallbackKeepsAlive == TypeOK /\ PinInv /\ AliveInv /\ CallbackReturns => AliveInv'
<1> SUFFICES ASSUME TypeOK, PinInv, AliveInv, CallbackReturns PROVE AliveInv'
  OBVIOUS
<1>0. running.on /\ ~ running'.on /\ running.op \in Ops
  BY HandlerDone DEF TypeOK
<1>1. \A o \in Objects : Unpin(running.op)[o] > 0 => pins[o] > 0
  BY DEF Unpin, TypeOK
<1>2. CASE Finish \/ AcceptAgain \/ ReadNoMore
  BY <1>0, <1>1, <1>2 DEF Finish, AcceptAgain, ReadNoMore, AliveInv, objectVars
<1>3. ASSUME NEW b \in Buffers, ReadAgain(b)
      PROVE  AliveInv'
  <2> DEFINE new == [running.op EXCEPT !.buf = b]
  <2>1. new = [kind |-> "readEx", on |-> running.op.on, buf |-> b]
    BY <1>0, <1>3, Kinds DEF ReadAgain
  <2>2. Uses(new) \subseteq Uses(running.op) \cup {b}
    BY <2>1 DEF Uses
  <2>3. \A o \in Uses(running.op) : o \in alive
    BY <1>0, BusyPinned DEF Busy, AliveInv
  <2>4. alive' = alive \cup {b}
        /\ pins' = [o \in Objects |-> Unpin(running.op)[o] + IF o \in Uses(new) THEN 1 ELSE 0]
    BY <1>3 DEF ReadAgain
  <2> HIDE DEF new
  <2>5. ASSUME NEW o \in Objects, pins'[o] > 0 PROVE o \in alive'
    <3>1. CASE o \in Uses(new)
      BY <2>2, <2>3, <2>4, <3>1
    <3>2. CASE o \notin Uses(new)
      <4>1. pins'[o] = Unpin(running.op)[o] + 0 /\ Unpin(running.op)[o] = Unpin(running.op)[o] + 0
        BY <2>4, <3>2 DEF Unpin, TypeOK
      <4> QED
        BY <1>1, <2>4, <2>5, <4>1 DEF AliveInv
    <3> QED
      BY <3>1, <3>2
  <2> QED
    BY <1>0, <2>5 DEF AliveInv
<1> QED
  BY <1>2, <1>3 DEF CallbackReturns

LEMMA NextKeepsAlive == TypeOK /\ PinInv /\ AliveInv /\ [Next]_vars => AliveInv'
<1> SUFFICES ASSUME TypeOK, PinInv, AliveInv, [Next]_vars PROVE AliveInv'
  OBVIOUS
<1>1. CASE ScriptStep
  BY <1>1, ScriptKeepsAlive
<1>2. CASE LoopStep
  BY <1>2, LoopKeepsAlive
<1>3. CASE CallbackReturns
  BY <1>3, CallbackKeepsAlive
<1>4. CASE Run \/ RunEnds \/ UNCHANGED vars
  BY <1>4 DEF Run, RunEnds, AliveInv, vars, objectVars
<1>5. ASSUME NEW o \in Objects, Collect(o)
      PROVE  AliveInv'
  BY <1>5 DEF Collect, AliveInv, OnStack
<1> QED
  BY <1>1, <1>2, <1>3, <1>4, <1>5 DEF Next

\* After run() has ended, or was aborted, nothing runs any more.
LEMMA NextKeepsPhase == TypeOK /\ PhaseInv /\ [Next]_vars => PhaseInv'
<1> SUFFICES ASSUME TypeOK, PhaseInv, [Next]_vars PROVE PhaseInv'
  OBVIOUS
<1>2. CASE ScriptStep
  <2>1. (phase = "script" \/ running.on) /\ UNCHANGED <<phase, running>>
    BY <1>2 DEF ScriptStep, CreateAcceptor, Socket, NewBuffer, Make, Drop, SetProperty, Listen,
                AsyncRead, AsyncWrite, AsyncReadEx, PromiseContinuation, ScriptRuns,
                unchangedByCall
  <2> QED
    BY <2>1 DEF PhaseInv, AbortedByScript
<1>3. CASE Run \/ RunEnds
  BY <1>3 DEF Run, RunEnds, PhaseInv, AbortedByScript
<1>4. ASSUME NEW op \in Ops, GiveUp(op) \/ Call(op)
      PROVE  PhaseInv'
  BY <1>4 DEF GiveUp, Call, Ready, PhaseInv, AbortedByScript
<1>5. ASSUME NEW op \in Ops, Escape(op)
      PROVE  PhaseInv'
  <2>1. ~ running'.on /\ UNCHANGED propVars
    BY <1>5 DEF Escape, Ready
  <2>2. onConnection = "other" \/ \E s \in Sockets : "other" \in {onData[s], onWritten[s]}
    BY <1>5, Kinds DEF Escape, GetProperty
  <2> QED
    BY <2>1, <2>2 DEF PhaseInv, AbortedByScript, propVars
<1>6. ASSUME NEW s \in Sockets, CallOnConnection(s)
      PROVE  PhaseInv'
  BY <1>6 DEF CallOnConnection, Ready, PhaseInv, AbortedByScript
<1>7. CASE CallbackReturns
  <2>1. ~ running'.on /\ phase = "loop"
    BY <1>7, HandlerDone DEF PhaseInv
  <2>2. phase' = "loop" \/ (phase' = "aborted" /\ exception')
    BY <1>7, <2>1 DEF CallbackReturns, Finish, AcceptAgain, ReadNoMore, ReadAgain
  <2> QED
    BY <2>1, <2>2 DEF PhaseInv, AbortedByScript
<1>8. ASSUME NEW o \in Objects, Collect(o)
      PROVE  PhaseInv'
  BY <1>8 DEF Collect, PhaseInv, AbortedByScript
<1>9. CASE UNCHANGED vars
  BY <1>9 DEF vars, propVars, PhaseInv, AbortedByScript
<1> QED
  BY <1>2, <1>3, <1>4, <1>5, <1>6, <1>7, <1>8, <1>9 DEF Next, LoopStep

-----------------------------------------------------------------------------
(* The loops that accept and read.                                         *)

\* An operation more: a read loop more if it is one.
LEMMA LoopsPlus ==
  ASSUME NEW p \in [Ops -> Nat], NEW op \in Ops, op.kind = "readEx" => p[op] = 0,
         NEW s, IsFiniteSet(Loops(p, s))
  PROVE  /\ IsFiniteSet(Loops(Plus(p, op), s))
         /\ Cardinality(Loops(Plus(p, op), s))
              = Cardinality(Loops(p, s)) + One(op.kind = "readEx" /\ op.on = s)
<1> DEFINE q == Plus(p, op)
<1>0. q = [p EXCEPT ![op] = @ + 1] /\ Cardinality(Loops(p, s)) \in Nat
  BY FS_CardinalityType DEF Plus
<1> HIDE DEF q
<1>1. CASE op.kind = "readEx" /\ op.on = s
  <2>1. op \notin Loops(p, s) /\ Loops(q, s) = Loops(p, s) \cup {op}
    BY <1>0, <1>1 DEF Loops
  <2>2. /\ IsFiniteSet(Loops(p, s) \cup {op})
        /\ Cardinality(Loops(p, s) \cup {op}) = Cardinality(Loops(p, s)) + 1
    BY <2>1, FS_AddElement
  <2> QED
    BY <1>1, <2>1, <2>2 DEF One, q
<1>2. CASE ~ (op.kind = "readEx" /\ op.on = s)
  <2>1. Loops(q, s) = Loops(p, s)
    BY <1>0, <1>2 DEF Loops
  <2> QED
    BY <1>0, <1>2, <2>1 DEF One, q
<1> QED
  BY <1>1, <1>2

\* An operation less: a read loop less if it is one.
LEMMA LoopsMinus ==
  ASSUME NEW p \in [Ops -> Nat], NEW op \in Ops, p[op] > 0, op.kind = "readEx" => p[op] <= 1,
         NEW s, IsFiniteSet(Loops(p, s))
  PROVE  /\ IsFiniteSet(Loops(Minus(p, op), s))
         /\ Cardinality(Loops(Minus(p, op), s))
              = Cardinality(Loops(p, s)) - One(op.kind = "readEx" /\ op.on = s)
<1> DEFINE q == Minus(p, op)
<1>0. q = [p EXCEPT ![op] = @ - 1] /\ Cardinality(Loops(p, s)) \in Nat
  BY FS_CardinalityType DEF Minus
<1> HIDE DEF q
<1>1. CASE op.kind = "readEx" /\ op.on = s
  <2>1. op \in Loops(p, s) /\ Loops(q, s) = Loops(p, s) \ {op}
    BY <1>0, <1>1 DEF Loops
  <2>2. /\ IsFiniteSet(Loops(p, s) \ {op})
        /\ Cardinality(Loops(p, s) \ {op}) = Cardinality(Loops(p, s)) - 1
    BY <2>1, FS_RemoveElement
  <2> QED
    BY <1>1, <2>1, <2>2 DEF One, q
<1>2. CASE ~ (op.kind = "readEx" /\ op.on = s)
  <2>1. Loops(q, s) = Loops(p, s)
    BY <1>0, <1>2 DEF Loops
  <2> QED
    BY <1>0, <1>2, <2>1 DEF One, q
<1> QED
  BY <1>1, <1>2

\* A call starts an operation: Listen and AsyncReadEx are counted.
LEMMA StartKeepsLoops ==
  ASSUME NEW p \in [Ops -> Nat], NEW run, NEW ls \in Nat, NEW rd \in [Sockets -> Nat],
         LoopsFor(p, run, ls, rd), NEW op \in Ops, op.kind = "readEx" => p[op] = 0,
         NEW ls2 \in Nat, ls2 >= ls + One(op = Accept),
         NEW rd2 \in [Sockets -> Nat],
         \A s \in Sockets : rd2[s] >= rd[s] + One(op.kind = "readEx" /\ op.on = s)
  PROVE  LoopsFor(Plus(p, op), run, ls2, rd2)
<1>0. Accept \in Ops /\ Accept.kind = "accept"
  BY Kinds
<1>1. Plus(p, op)[Accept] + One(Accepts(run)) <= ls2
  BY <1>0 DEF Plus, One, LoopsFor
<1>2. \A x \in Ops : x.kind = "readEx" => Plus(p, op)[x] <= 1
  BY DEF Plus, LoopsFor
<1>3. ASSUME NEW s \in Sockets
      PROVE  /\ IsFiniteSet(Loops(Plus(p, op), s))
             /\ Cardinality(Loops(Plus(p, op), s)) + One(Reads(run, s)) <= rd2[s]
  <2>1. /\ IsFiniteSet(Loops(p, s))
        /\ Cardinality(Loops(p, s)) + One(Reads(run, s)) <= rd[s]
        /\ Cardinality(Loops(p, s)) \in Nat
    BY FS_CardinalityType DEF LoopsFor
  <2>2. /\ IsFiniteSet(Loops(Plus(p, op), s))
        /\ Cardinality(Loops(Plus(p, op), s))
             = Cardinality(Loops(p, s)) + One(op.kind = "readEx" /\ op.on = s)
    BY <2>1, LoopsPlus
  <2> QED
    BY <2>1, <2>2 DEF One
<1> QED
  BY <1>1, <1>2, <1>3 DEF LoopsFor

\* An operation completes: its handler runs, or gives up.
LEMMA TakenKeepsLoops ==
  ASSUME NEW p \in [Ops -> Nat], NEW run, NEW ls \in Nat, NEW rd \in [Sockets -> Nat],
         LoopsFor(p, run, ls, rd), ~ run.on, NEW op \in Ops, p[op] > 0,
         NEW run2, run2.on => run2.op = op
  PROVE  LoopsFor(Minus(p, op), run2, ls, rd)
<1>0. Accept \in Ops /\ (op.kind = "readEx" => p[op] <= 1)
  BY Kinds DEF LoopsFor
<1>1. Minus(p, op)[Accept] + One(Accepts(run2)) <= ls
  BY <1>0 DEF Minus, One, Accepts, LoopsFor
<1>2. \A x \in Ops : x.kind = "readEx" => Minus(p, op)[x] <= 1
  BY DEF Minus, LoopsFor
<1>3. ASSUME NEW s \in Sockets
      PROVE  /\ IsFiniteSet(Loops(Minus(p, op), s))
             /\ Cardinality(Loops(Minus(p, op), s)) + One(Reads(run2, s)) <= rd[s]
  <2>1. /\ IsFiniteSet(Loops(p, s))
        /\ Cardinality(Loops(p, s)) + One(Reads(run, s)) <= rd[s]
        /\ Cardinality(Loops(p, s)) \in Nat
    BY FS_CardinalityType DEF LoopsFor
  <2>2. /\ IsFiniteSet(Loops(Minus(p, op), s))
        /\ Cardinality(Loops(Minus(p, op), s))
             = Cardinality(Loops(p, s)) - One(op.kind = "readEx" /\ op.on = s)
    BY <1>0, <2>1, LoopsMinus
  <2>3. Reads(run2, s) => op.kind = "readEx" /\ op.on = s
    BY DEF Reads
  <2> QED
    BY <2>1, <2>2, <2>3 DEF One
<1> QED
  BY <1>1, <1>2, <1>3 DEF LoopsFor

\* The handler has run: it gives up its turn, which a new operation may take.
LEMMA ReturnKeepsLoops ==
  ASSUME NEW p \in [Ops -> Nat], NEW run, NEW ls \in Nat, NEW rd \in [Sockets -> Nat],
         LoopsFor(p, run, ls, rd), NEW run2, ~ run2.on
  PROVE  /\ LoopsFor(p, run2, ls, rd)
         /\ \A op \in Ops :
              /\ run.on /\ op.kind = run.op.kind /\ op.on = run.op.on
              /\ op.kind = "accept" => run.op = Accept
              /\ op.kind = "readEx" => p[op] = 0
              => LoopsFor(Plus(p, op), run2, ls, rd)
<1>0. Accept \in Ops /\ Accept.kind = "accept"
  BY Kinds
<1>1. ASSUME NEW s \in Sockets
      PROVE  /\ IsFiniteSet(Loops(p, s)) /\ Cardinality(Loops(p, s)) \in Nat
             /\ Cardinality(Loops(p, s)) + One(Reads(run, s)) <= rd[s]
             /\ One(Reads(run2, s)) = 0
  BY FS_CardinalityType DEF LoopsFor, One, Reads
<1>2. One(Accepts(run2)) = 0
  BY DEF One, Accepts
<1>3. LoopsFor(p, run2, ls, rd)
  <2>1. p[Accept] + One(Accepts(run2)) <= ls
    BY <1>0, <1>2 DEF LoopsFor, One
  <2>2. \A s \in Sockets : Cardinality(Loops(p, s)) + One(Reads(run2, s)) <= rd[s]
    BY <1>1 DEF One
  <2> QED
    BY <1>1, <2>1, <2>2 DEF LoopsFor
<1>4. ASSUME NEW op \in Ops, run.on, op.kind = run.op.kind, op.on = run.op.on,
             op.kind = "accept" => run.op = Accept, op.kind = "readEx" => p[op] = 0
      PROVE  LoopsFor(Plus(p, op), run2, ls, rd)
  <2>1. Plus(p, op)[Accept] + One(Accepts(run2)) <= ls
    <3>1. op = Accept => One(Accepts(run)) = 1
      BY <1>0, <1>4 DEF One, Accepts
    <3> QED
      BY <1>0, <1>2, <3>1 DEF Plus, LoopsFor, One
  <2>2. \A x \in Ops : x.kind = "readEx" => Plus(p, op)[x] <= 1
    BY <1>4 DEF Plus, LoopsFor
  <2>3. ASSUME NEW s \in Sockets
        PROVE  /\ IsFiniteSet(Loops(Plus(p, op), s))
               /\ Cardinality(Loops(Plus(p, op), s)) + One(Reads(run2, s)) <= rd[s]
    <3>1. /\ IsFiniteSet(Loops(Plus(p, op), s))
          /\ Cardinality(Loops(Plus(p, op), s))
               = Cardinality(Loops(p, s)) + One(op.kind = "readEx" /\ op.on = s)
      BY <1>1, <1>4, LoopsPlus
    <3>2. op.kind = "readEx" /\ op.on = s => Reads(run, s)
      BY <1>4 DEF Reads
    <3> QED
      BY <1>1, <3>1, <3>2 DEF One
  <2> QED
    BY <2>1, <2>2, <2>3 DEF LoopsFor
<1> QED
  BY <1>3, <1>4

\* A buffer that does not exist is used by no operation in flight.
LEMMA NewBufferUnused ==
  ASSUME TypeOK, PinInv, AliveInv, NEW b \in Buffers, b \notin alive,
         NEW op \in Ops, op.buf = b
  PROVE  pending[op] = 0
<1>1. b \in Uses(op)
  BY TcpAssumption DEF Uses
<1>2. ~ (pending[op] > 0)
  BY <1>1, InFlightPinned DEF AliveInv
<1> QED
  BY <1>2 DEF TypeOK

LEMMA ScriptKeepsLoops ==
  TypeOK /\ PinInv /\ AliveInv /\ LoopInv /\ ScriptStep => LoopInv'
<1> SUFFICES ASSUME TypeOK, PinInv, AliveInv, LoopInv, ScriptStep PROVE LoopInv'
  OBVIOUS
<1>0. /\ pending \in [Ops -> Nat] /\ listens \in Nat /\ reads \in [Sockets -> Nat]
      /\ Accept \in Ops /\ Task \in Ops /\ Accept.kind = "accept" /\ Task.kind = "task"
      /\ Accept # Task
  BY Kinds DEF TypeOK, Accept, Task
<1>1. ASSUME UNCHANGED <<pending, running, listens, reads>>
      PROVE  LoopInv'
  BY <1>1 DEF LoopInv
<1>2. ASSUME NEW op \in Ops, Start(op), op # Accept, op.kind # "readEx",
             UNCHANGED <<running, listens, reads>>
      PROVE  LoopInv'
  <2>1. LoopsFor(Plus(pending, op), running, listens, reads)
    <3>1. /\ listens >= listens + One(op = Accept)
          /\ \A s \in Sockets : reads[s] >= reads[s] + One(op.kind = "readEx" /\ op.on = s)
      BY <1>0, <1>2 DEF One
    <3> QED
      BY <1>0, <1>2, <3>1, StartKeepsLoops DEF LoopInv
  <2> QED
    BY <1>2, <2>1 DEF LoopInv, Start, Plus
<1>3. ASSUME NEW o \in Objects, Make(o) \/ Drop(o)
      PROVE  LoopInv'
  BY <1>1, <1>3 DEF Make, Drop, ghostVars
<1>4. CASE SetProperty
  BY <1>1, <1>4 DEF SetProperty, ghostVars
<1>5. CASE Listen
  <2>1. LoopsFor(Plus(pending, Accept), running, listens + 1, reads)
    <3>1. /\ listens + 1 \in Nat /\ listens + 1 >= listens + One(Accept = Accept)
          /\ \A s \in Sockets :
               reads[s] >= reads[s] + One(Accept.kind = "readEx" /\ Accept.on = s)
      BY <1>0 DEF One
    <3> QED
      BY <1>0, <3>1, StartKeepsLoops DEF LoopInv
  <2> QED
    BY <1>5, <2>1 DEF LoopInv, Listen, Start, Plus, unchangedByCall
<1>6. CASE PromiseContinuation
  BY <1>0, <1>2, <1>6 DEF PromiseContinuation, unchangedByCall, ghostVars
<1>7. ASSUME NEW s \in Sockets, NEW b \in Buffers, AsyncRead(s, b) \/ AsyncWrite(s, b)
      PROVE  LoopInv'
  <2>1. PICK k \in {"read", "write"} : Start([kind |-> k, on |-> s, buf |-> b])
    BY <1>7 DEF AsyncRead, AsyncWrite
  <2> DEFINE op == [kind |-> k, on |-> s, buf |-> b]
  <2>2. op \in Ops /\ op # Accept /\ op.kind # "readEx"
    BY Kinds DEF Accept
  <2>3. UNCHANGED <<running, listens, reads>>
    BY <1>7 DEF AsyncRead, AsyncWrite, unchangedByCall, ghostVars
  <2> QED
    BY <1>2, <2>1, <2>2, <2>3
<1>8. ASSUME NEW s \in Sockets, NEW b \in Buffers, AsyncReadEx(s, b)
      PROVE  LoopInv'
  <2> DEFINE op == [kind |-> "readEx", on |-> s, buf |-> b]
             rd == [reads EXCEPT ![s] = @ + 1]
  <2>1. op \in Ops /\ op # Accept /\ op.on = s /\ op.kind = "readEx" /\ op.buf = b
    BY Kinds DEF Accept
  <2>2. /\ Start(op) /\ b \notin alive /\ reads' = rd /\ UNCHANGED <<running, listens>>
    BY <1>8 DEF AsyncReadEx, unchangedByCall
  <2> HIDE DEF op
  <2>3. pending[op] = 0
    BY <2>1, <2>2, NewBufferUnused
  <2>4. /\ rd \in [Sockets -> Nat] /\ listens >= listens + One(op = Accept)
        /\ \A t \in Sockets : rd[t] >= reads[t] + One(op.kind = "readEx" /\ op.on = t)
    BY <1>0, <2>1 DEF One
  <2> HIDE DEF rd
  <2>5. LoopsFor(Plus(pending, op), running, listens, rd)
    BY <1>0, <2>1, <2>3, <2>4, StartKeepsLoops DEF LoopInv
  <2> QED
    BY <2>2, <2>5 DEF LoopInv, Start, Plus
<1>9. acceptor \in Objects /\ Sockets \subseteq Objects /\ Buffers \subseteq Objects
  BY DEF Objects
<1> QED
  BY <1>3, <1>4, <1>5, <1>6, <1>7, <1>8, <1>9
     DEF ScriptStep, CreateAcceptor, Socket, NewBuffer

LEMMA LoopKeepsLoops == TypeOK /\ LoopInv /\ LoopStep => LoopInv'
<1> SUFFICES ASSUME TypeOK, LoopInv, LoopStep PROVE LoopInv'
  OBVIOUS
<1>0. /\ pending \in [Ops -> Nat] /\ listens \in Nat /\ reads \in [Sockets -> Nat]
      /\ Accept \in Ops
  BY Kinds DEF TypeOK
<1>1. ASSUME NEW op \in Ops, Ready(op), Taken(op), running'.on => running'.op = op,
             UNCHANGED ghostVars
      PROVE  LoopInv'
  <2>1. LoopsFor(Minus(pending, op), running', listens, reads)
    BY <1>0, <1>1, TakenKeepsLoops DEF Ready, LoopInv
  <2> QED
    BY <1>1, <2>1 DEF LoopInv, Taken, Minus, ghostVars
<1>2. ASSUME NEW op \in Ops, GiveUp(op) \/ Escape(op)
      PROVE  LoopInv'
  BY <1>1, <1>2 DEF GiveUp, Escape, Ready
<1>3. ASSUME NEW op \in Ops, Call(op)
      PROVE  LoopInv'
  <2>1. running'.op = op
    BY <1>3 DEF Call
  <2> QED
    BY <1>1, <1>3, <2>1 DEF Call
<1>4. ASSUME NEW s \in Sockets, CallOnConnection(s)
      PROVE  LoopInv'
  <2>1. running'.op = Accept
    BY <1>4 DEF CallOnConnection
  <2> QED
    BY <1>0, <1>1, <1>4, <2>1 DEF CallOnConnection
<1> QED
  BY <1>2, <1>3, <1>4 DEF LoopStep

LEMMA CallbackKeepsLoops ==
  TypeOK /\ PinInv /\ AliveInv /\ LoopInv /\ CallbackReturns => LoopInv'
<1> SUFFICES ASSUME TypeOK, PinInv, AliveInv, LoopInv, CallbackReturns PROVE LoopInv'
  OBVIOUS
<1>0. /\ pending \in [Ops -> Nat] /\ listens \in Nat /\ reads \in [Sockets -> Nat]
      /\ running.op \in Ops /\ Accept \in Ops /\ Accept.kind = "accept"
  BY Kinds DEF TypeOK
<1>1. running.on /\ ~ running'.on /\ UNCHANGED <<listens, reads>>
  BY HandlerDone DEF ghostVars
<1>2. /\ LoopsFor(pending, running', listens, reads)
      /\ \A op \in Ops :
              /\ running.on /\ op.kind = running.op.kind /\ op.on = running.op.on
              /\ op.kind = "accept" => running.op = Accept
              /\ op.kind = "readEx" => pending[op] = 0
              => LoopsFor(Plus(pending, op), running', listens, reads)
  BY <1>0, <1>1, ReturnKeepsLoops DEF LoopInv
<1>3. CASE Finish \/ ReadNoMore
  BY <1>1, <1>2, <1>3 DEF Finish, ReadNoMore, LoopInv
<1>4. CASE AcceptAgain
  <2>1. running.op = Accept /\ pending' = Plus(pending, Accept)
    BY <1>4 DEF AcceptAgain, Plus
  <2>2. LoopsFor(Plus(pending, Accept), running', listens, reads)
    BY <1>0, <1>1, <1>2, <2>1
  <2> QED
    BY <1>1, <2>1, <2>2 DEF LoopInv
<1>5. ASSUME NEW b \in Buffers, ReadAgain(b)
      PROVE  LoopInv'
  <2> DEFINE new == [running.op EXCEPT !.buf = b]
  <2>1. /\ running.op.kind = "readEx" /\ b \notin alive
        /\ pending' = [pending EXCEPT ![new] = @ + 1]
    BY <1>5 DEF ReadAgain
  <2>2. new = [kind |-> "readEx", on |-> running.op.on, buf |-> b] /\ running.op.on \in Sockets
    BY <1>0, <2>1, Kinds
  <2>3. /\ new \in Ops /\ new.kind = "readEx" /\ new.on = running.op.on /\ new.buf = b
    BY <2>2, Kinds
  <2> HIDE DEF new
  <2>4. pending[new] = 0
    BY <2>1, <2>3, NewBufferUnused
  <2>5. LoopsFor(Plus(pending, new), running', listens, reads)
    BY <1>1, <1>2, <2>1, <2>3, <2>4
  <2> QED
    BY <1>1, <2>1, <2>5 DEF LoopInv, Plus
<1> QED
  BY <1>3, <1>4, <1>5 DEF CallbackReturns

\* A socket that is collected has no loop: its reads are counted anew.
LEMMA CollectKeepsLoops ==
  ASSUME TypeOK, PinInv, LoopInv, NEW o \in Objects, Collect(o) PROVE LoopInv'
<1>1. /\ pins[o] = 0 /\ UNCHANGED <<pending, running, listens>>
      /\ reads' = [s \in Sockets |-> IF s = o THEN 0 ELSE reads[s]]
  BY DEF Collect
<1>2. ASSUME o \in Sockets
      PROVE  Cardinality(Loops(pending, o)) + One(Reads(running, o)) = 0
  <2>0. o # Nothing
    BY <1>2, TcpAssumption
  <2>1. Loops(pending, o) = {}
    <3>1. ASSUME NEW op \in Loops(pending, o) PROVE FALSE
      <4>1. op \in Ops /\ pending[op] > 0 /\ o \in Uses(op)
        BY <2>0 DEF Loops, Uses
      <4> QED
        BY <1>1, <4>1, InFlightPinned
    <3> QED
      BY <3>1
  <2>2. ~ Reads(running, o)
    <3>1. Reads(running, o) => o \in Busy
      BY <2>0 DEF Reads, Busy, Uses
    <3> QED
      BY <1>1, <3>1, BusyPinned
  <2> QED
    BY <2>1, <2>2, FS_EmptySet DEF One
<1>3. \A s \in Sockets : /\ IsFiniteSet(Loops(pending, s))
                         /\ Cardinality(Loops(pending, s)) + One(Reads(running, s)) <= reads'[s]
  BY <1>1, <1>2 DEF LoopInv, LoopsFor
<1> QED
  BY <1>1, <1>3 DEF LoopInv, LoopsFor

LEMMA NextKeepsLoops ==
  TypeOK /\ PinInv /\ AliveInv /\ LoopInv /\ [Next]_vars => LoopInv'
<1> SUFFICES ASSUME TypeOK, PinInv, AliveInv, LoopInv, [Next]_vars PROVE LoopInv'
  OBVIOUS
<1>1. CASE ScriptStep
  BY <1>1, ScriptKeepsLoops
<1>2. CASE LoopStep
  BY <1>2, LoopKeepsLoops
<1>3. CASE CallbackReturns
  BY <1>3, CallbackKeepsLoops
<1>4. CASE Run \/ RunEnds \/ UNCHANGED vars
  BY <1>4 DEF Run, RunEnds, LoopInv, vars, ghostVars
<1>5. ASSUME NEW o \in Objects, Collect(o)
      PROVE  LoopInv'
  BY <1>5, CollectKeepsLoops
<1> QED
  BY <1>1, <1>2, <1>3, <1>4, <1>5 DEF Next

-----------------------------------------------------------------------------
(* The invariant.                                                          *)

LEMMA InitIInv == Init => IInv
<1> SUFFICES ASSUME Init PROVE IInv
  OBVIOUS
<1>1. TypeOK
  BY Kinds DEF Init, TypeOK, Idle
<1>2. PinInv
  <2>1. ASSUME NEW o \in Objects
        PROVE  IsFiniteSet(Tickets(pending, o)) /\ Cardinality(Tickets(pending, o)) = 0
    <3>1. Tickets(pending, o) = {}
      BY DEF Init, Tickets
    <3> QED
      BY <3>1, FS_EmptySet
  <2>2. Busy = {}
    BY DEF Init, Idle, Busy
  <2> QED
    BY <2>1, <2>2 DEF Init, PinInv, ExactFor, One
<1>3. AliveInv /\ PhaseInv
  BY DEF Init, AliveInv, PhaseInv, AbortedByScript, Idle
<1>4. LoopInv
  <2>1. ASSUME NEW s \in Sockets
        PROVE  IsFiniteSet(Loops(pending, s)) /\ Cardinality(Loops(pending, s)) = 0
    <3>1. Loops(pending, s) = {}
      BY DEF Init, Loops
    <3> QED
      BY <3>1, FS_EmptySet
  <2>2. One(Accepts(running)) = 0 /\ \A s \in Sockets : One(Reads(running, s)) = 0
    BY DEF Init, Idle, One, Accepts, Reads
  <2>3. pending[Accept] = 0
    BY Kinds DEF Init
  <2> QED
    BY <2>1, <2>2, <2>3 DEF Init, LoopInv, LoopsFor
<1> QED
  BY <1>1, <1>2, <1>3, <1>4 DEF IInv

\* The invariant is inductive.
LEMMA NextIInv == IInv /\ [Next]_vars => IInv'
<1> SUFFICES ASSUME IInv, [Next]_vars PROVE IInv'
  OBVIOUS
<1>1. TypeOK' /\ PinInv'
  BY NextKeepsPins DEF IInv
<1>2. AliveInv'
  BY NextKeepsAlive DEF IInv
<1>3. PhaseInv'
  BY NextKeepsPhase DEF IInv
<1>4. LoopInv'
  BY NextKeepsLoops DEF IInv
<1> QED
  BY <1>1, <1>2, <1>3, <1>4 DEF IInv

THEOREM Invariance == Spec => []IInv
<1>1. Init => IInv
  BY InitIInv
<1>2. IInv /\ [Next]_vars => IInv'
  BY NextIInv
<1> QED
  BY <1>1, <1>2, PTL DEF Spec

\* The variables of the model have their types.
THEOREM TypeCorrect == Spec => []TypeOK
<1>1. IInv => TypeOK
  BY DEF IInv
<1> QED
  BY <1>1, Invariance, PTL

\* Whatever callbacks do and whatever is collected in between, the socket and
\* the buffer of an operation in flight, and what a running handler refers to,
\* exist: Durable keeps them.
THEOREM InFlightIsAlive == Spec => []InFlightAlive
<1>1. IInv => InFlightAlive
  <2> SUFFICES ASSUME IInv PROVE InFlightAlive
    OBVIOUS
  <2>1. ASSUME NEW op \in InFlight, NEW o \in Uses(op) PROVE o \in alive
    BY <2>1, InFlightPinned DEF IInv, InFlight, AliveInv
  <2>2. ASSUME NEW o \in OnStack PROVE o \in alive
    <3>1. CASE o \in Busy
      BY <3>1, BusyPinned DEF IInv, AliveInv
    <3>2. CASE o \notin Busy
      BY <2>2, <3>2 DEF OnStack, Busy, IInv, AliveInv
    <3> QED
      BY <3>1, <3>2
  <2> QED
    BY <2>1, <2>2 DEF InFlightAlive
<1> QED
  BY <1>1, Invariance, PTL

\* An object that is pinned is used by an operation in flight or by the handler
\* that runs: none of the ways out of a handler forgets to let go.
THEOREM NoPinIsLeft == Spec => []NoPinLeft
<1>1. IInv => NoPinLeft
  <2> SUFFICES ASSUME IInv, NEW o \in Objects, pins[o] > 0, o \notin Busy
               PROVE  \E op \in InFlight : o \in Uses(op)
    BY DEF NoPinLeft, Busy
  <2>1. Cardinality(Tickets(pending, o)) # 0
    <3>1. /\ pins[o] = Cardinality(Tickets(pending, o)) + One(o \in Busy)
          /\ Cardinality(Tickets(pending, o)) \in Nat
      BY TicketsCount DEF IInv, PinInv, ExactFor
    <3> QED
      BY <3>1 DEF One
  <2>2. PICK t \in Tickets(pending, o) : TRUE
    BY <2>1, FS_EmptySet
  <2>3. t[1] \in Ops /\ o \in Uses(t[1]) /\ pending[t[1]] > 0
    BY <2>2 DEF Tickets, IInv, TypeOK
  <2> QED
    BY <2>3 DEF InFlight
<1> QED
  BY <1>1, Invariance, PTL

\* do_accept and AsyncReadEx, which start themselves again from their handlers,
\* never run more loops than there were calls, however the callbacks call them.
THEOREM LoopsAreBounded == Spec => []LoopsDoNotMultiply
<1>1. IInv => LoopsDoNotMultiply
  <2> SUFFICES ASSUME IInv PROVE LoopsDoNotMultiply
    OBVIOUS
  <2>1. pending[Accept] + (IF running.on /\ running.op = Accept THEN 1 ELSE 0) <= listens
    BY DEF IInv, LoopInv, LoopsFor, Accepts, One
  <2>2. ASSUME NEW op \in InFlight, op.kind = "readEx" PROVE pending[op] = 1
    BY <2>2 DEF IInv, LoopInv, LoopsFor, InFlight, TypeOK
  <2>3. ASSUME NEW s \in Sockets PROVE ReadLoops(s) <= reads[s]
    <3>1. {op \in InFlight : op.kind = "readEx" /\ op.on = s} = Loops(pending, s)
      BY DEF InFlight, Loops
    <3>2. Cardinality(Loops(pending, s)) + One(Reads(running, s)) <= reads[s]
      BY DEF IInv, LoopInv, LoopsFor
    <3> QED
      BY <3>1, <3>2 DEF ReadLoops, Reads, One
  <2> QED
    BY <2>1, <2>2, <2>3 DEF LoopsDoNotMultiply
<1> QED
  BY <1>1, Invariance, PTL

\* io_context::run is left by a C++ exception only after a script has thrown or
\* put something else than a function in a property.
THEOREM AbortsAreTheScripts == Spec => []AbortedByScript
<1>1. IInv => AbortedByScript
  BY DEF IInv, PhaseInv
<1> QED
  BY <1>1, Invariance, PTL

-----------------------------------------------------------------------------
(* A server goes on accepting.                                             *)

\* The loops that accept, in flight or calling back.
AcceptLoops == pending[Accept] + One(Accepts(running))

\* Why a loop may end: its callback is gone, the engine refuses every call, or
\* accepting fails.
MayStop == onConnection # "function" \/ exception \/ Faults \cap {"accept", "memory"} # {}

\* Each call of Listen starts one loop, and no loop ends without a reason.
LEMMA AcceptLoopsKept ==
  ASSUME TypeOK, [Next]_vars, ~ MayStop
  PROVE  AcceptLoops' + listens = AcceptLoops + listens'
<1>0. /\ Accept \in Ops /\ Task \in Ops /\ Task # Accept /\ listens \in Nat
      /\ pending \in [Ops -> Nat] /\ AcceptLoops \in Nat
  BY Kinds DEF TypeOK, AcceptLoops, One, Accept, Task
<1>1. ASSUME UNCHANGED <<pending, running, listens>>
      PROVE  AcceptLoops' + listens = AcceptLoops + listens'
  BY <1>1 DEF AcceptLoops
<1>2. ASSUME NEW op \in Ops, Start(op), op # Accept, UNCHANGED <<running, listens>>
      PROVE  AcceptLoops' + listens = AcceptLoops + listens'
  BY <1>0, <1>2 DEF AcceptLoops, Start
<1>3. CASE ScriptStep
  <2>1. ASSUME NEW o \in Objects, Make(o) \/ Drop(o)
        PROVE  AcceptLoops' + listens = AcceptLoops + listens'
    BY <1>1, <2>1 DEF Make, Drop, ghostVars
  <2>2. CASE SetProperty
    BY <1>1, <2>2 DEF SetProperty, ghostVars
  <2>3. CASE Listen
    BY <1>0, <2>3 DEF Listen, Start, unchangedByCall, AcceptLoops, One
  <2>4. CASE PromiseContinuation
    BY <1>0, <1>2, <2>4 DEF PromiseContinuation, unchangedByCall, ghostVars
  <2>5. ASSUME NEW s \in Sockets, NEW b \in Buffers,
               AsyncRead(s, b) \/ AsyncWrite(s, b) \/ AsyncReadEx(s, b)
        PROVE  AcceptLoops' + listens = AcceptLoops + listens'
    <3>1. PICK k \in {"read", "readEx", "write"} : Start([kind |-> k, on |-> s, buf |-> b])
      BY <2>5 DEF AsyncRead, AsyncWrite, AsyncReadEx
    <3>2. [kind |-> k, on |-> s, buf |-> b] \in Ops /\ [kind |-> k, on |-> s, buf |-> b] # Accept
      BY Kinds DEF Accept
    <3> QED
      BY <1>2, <2>5, <3>1, <3>2
         DEF AsyncRead, AsyncWrite, AsyncReadEx, unchangedByCall, ghostVars
  <2>6. acceptor \in Objects /\ Sockets \subseteq Objects /\ Buffers \subseteq Objects
    BY DEF Objects
  <2> QED
    BY <1>3, <2>1, <2>2, <2>3, <2>4, <2>5, <2>6 DEF ScriptStep, CreateAcceptor, Socket, NewBuffer
<1>4. ASSUME NEW op \in Ops, GiveUp(op) \/ Escape(op)
      PROVE  AcceptLoops' + listens = AcceptLoops + listens'
  <2>1. op # Accept
    BY <1>4 DEF GiveUp, Escape, GetProperty, MayStop, Accept
  <2> QED
    BY <1>0, <1>4, <2>1 DEF GiveUp, Escape, Taken, ghostVars, AcceptLoops
<1>5. ASSUME NEW op \in Ops, Call(op)
      PROVE  AcceptLoops' + listens = AcceptLoops + listens'
  BY <1>0, <1>5 DEF Call, Ready, Taken, ghostVars, AcceptLoops, Accepts, One
<1>6. ASSUME NEW s \in Sockets, CallOnConnection(s)
      PROVE  AcceptLoops' + listens = AcceptLoops + listens'
  BY <1>0, <1>6 DEF CallOnConnection, Ready, Taken, ghostVars, AcceptLoops, Accepts, One
<1>7. CASE CallbackReturns
  <2>1. running.on /\ ~ running'.on /\ listens' = listens
    BY <1>7, HandlerDone DEF ghostVars
  <2>2. CASE AcceptAgain
    BY <1>0, <2>1, <2>2 DEF AcceptAgain, AcceptLoops, Accepts, One
  <2>3. CASE Finish \/ ReadNoMore
    BY <1>0, <2>1, <2>3 DEF Finish, ReadNoMore, AcceptLoops, Accepts, One, Accept
  <2>4. ASSUME NEW b \in Buffers, ReadAgain(b)
        PROVE  AcceptLoops' + listens = AcceptLoops + listens'
    <3> DEFINE new == [running.op EXCEPT !.buf = b]
    <3>1. running.op.kind = "readEx" /\ pending' = [pending EXCEPT ![new] = @ + 1]
      BY <2>4 DEF ReadAgain
    <3>2. new = [kind |-> "readEx", on |-> running.op.on, buf |-> b]
      BY <3>1, Kinds DEF TypeOK
    <3>3. new # Accept /\ running.op # Accept
      BY <3>1, <3>2 DEF Accept
    <3> HIDE DEF new
    <3> QED
      BY <1>0, <2>1, <3>1, <3>3 DEF AcceptLoops, Accepts, One
  <2> QED
    BY <1>7, <2>2, <2>3, <2>4 DEF CallbackReturns
<1>8. CASE Run \/ RunEnds \/ \E o \in Objects : Collect(o)
  BY <1>1, <1>8 DEF Run, RunEnds, Collect, ghostVars
<1>9. CASE UNCHANGED vars
  BY <1>1, <1>9 DEF vars, ghostVars
<1> QED
  BY <1>3, <1>4, <1>5, <1>6, <1>7, <1>8, <1>9 DEF Next, LoopStep

\* Whatever else goes wrong, do_accept starts itself again as long as the
\* acceptor has its callback, the engine works and accepting does not fail.
THEOREM LoopsEndForAReason ==
  Spec => [][MayStop \/ AcceptLoops' + listens = AcceptLoops + listens']_vars
<1>1. IInv /\ [Next]_vars => [MayStop \/ AcceptLoops' + listens = AcceptLoops + listens']_vars
  BY AcceptLoopsKept DEF IInv
<1> QED
  BY <1>1, Invariance, PTL DEF Spec

\* Where nothing goes wrong: every call of Listen has its loop.
ListensOn == /\ ~ exception
             /\ AcceptLoops = listens
             /\ listens > 0 => onConnection = "function"

LEMMA ListensOnKept ==
  ASSUME Faults = {}, IInv, ListensOn, [Next]_vars
  PROVE  ListensOn'
<1>0. Accept \in Ops /\ listens \in Nat /\ pending[Accept] \in Nat
  BY Kinds DEF IInv, TypeOK
<1>1. ~ exception'
  <2>1. CASE ScriptStep
    BY <2>1 DEF ListensOn, ScriptStep, CreateAcceptor, Socket, NewBuffer, Make, Drop, SetProperty,
                Listen, AsyncRead, AsyncWrite, AsyncReadEx, PromiseContinuation, unchangedByCall
  <2>2. CASE LoopStep
    BY <2>2 DEF ListensOn, LoopStep, GiveUp, Escape, Call, CallOnConnection
  <2>3. CASE CallbackReturns
    <3>1. Returns
      BY <2>3 DEF CallbackReturns, Finish, AcceptAgain, ReadNoMore, ReadAgain
    <3> QED
      BY <3>1 DEF Returns
  <2>4. CASE Run \/ RunEnds \/ (\E o \in Objects : Collect(o)) \/ UNCHANGED vars
    BY <2>4 DEF ListensOn, Run, RunEnds, Collect, vars
  <2> QED
    BY <2>1, <2>2, <2>3, <2>4 DEF Next
<1>2. onConnection = "function" => onConnection' = "function" \/ AcceptLoops = 0
  <2> SUFFICES ASSUME onConnection = "function", AcceptLoops # 0 PROVE onConnection' = "function"
    OBVIOUS
  <2>1. ~ Collect(acceptor)
    <3>1. acceptor \in Uses(Accept)
      BY TcpAssumption DEF Uses, Accept
    <3>2. pending[Accept] > 0 \/ Accepts(running)
      BY <1>0 DEF AcceptLoops, One
    <3>3. CASE pending[Accept] > 0
      BY <1>0, <3>1, <3>3, InFlightPinned DEF IInv, Collect
    <3>4. CASE Accepts(running)
      BY <3>1, <3>4 DEF Accepts, Collect, OnStack
    <3> QED
      BY <3>2, <3>3, <3>4
  <2>2. CASE ScriptStep
    BY <2>2 DEF ScriptStep, CreateAcceptor, Socket, NewBuffer, Make, Drop, SetProperty, Assignable,
                Listen, AsyncRead, AsyncWrite, AsyncReadEx, PromiseContinuation, unchangedByCall,
                propVars
  <2>3. CASE LoopStep
    BY <2>3 DEF LoopStep, GiveUp, Escape, Call, CallOnConnection, propVars
  <2>4. CASE CallbackReturns
    BY <2>4, HandlerDone DEF propVars
  <2>5. CASE Run \/ RunEnds \/ UNCHANGED vars
    BY <2>5 DEF Run, RunEnds, vars, propVars
  <2>6. ASSUME NEW o \in Objects, Collect(o)
        PROVE  onConnection' = "function"
    BY <2>1, <2>6 DEF Collect
  <2> QED
    BY <2>2, <2>3, <2>4, <2>5, <2>6 DEF Next
<1>3. listens' = listens \/ (onConnection' = "function" /\ onConnection = "function")
  <2>1. CASE ScriptStep
    BY <2>1 DEF ScriptStep, CreateAcceptor, Socket, NewBuffer, Make, Drop, SetProperty,
                Listen, AsyncRead, AsyncWrite, AsyncReadEx, PromiseContinuation, unchangedByCall,
                propVars, ghostVars
  <2>2. CASE LoopStep
    BY <2>2 DEF LoopStep, GiveUp, Escape, Call, CallOnConnection, ghostVars
  <2>3. CASE CallbackReturns
    BY <2>3, HandlerDone DEF ghostVars
  <2>4. CASE Run \/ RunEnds \/ (\E o \in Objects : Collect(o)) \/ UNCHANGED vars
    BY <2>4 DEF Run, RunEnds, Collect, vars, ghostVars
  <2> QED
    BY <2>1, <2>2, <2>3, <2>4 DEF Next
<1>4. AcceptLoops' = listens'
  <2>1. /\ AcceptLoops \in Nat /\ AcceptLoops' \in Nat /\ listens' \in Nat
        /\ AcceptLoops' <= listens'
    BY NextIInv, Kinds DEF IInv, TypeOK, AcceptLoops, One, LoopInv, LoopsFor
  <2>2. CASE onConnection = "function"
    <3>1. AcceptLoops' + listens = AcceptLoops + listens'
      BY <2>2, AcceptLoopsKept DEF MayStop, ListensOn, IInv
    <3> QED
      BY <1>0, <2>1, <3>1 DEF ListensOn
  <2>3. CASE onConnection # "function"
    BY <1>0, <1>3, <2>1, <2>3 DEF ListensOn
  <2> QED
    BY <2>2, <2>3
<1> QED
  <2>1. listens' > 0 => onConnection' = "function"
    BY <1>0, <1>2, <1>3 DEF ListensOn
  <2> QED
    BY <1>1, <1>4, <2>1 DEF ListensOn

\* A running callback of an accepted connection can return.
CanReturn == [](Accepts(running) => ENABLED <<CallbackReturns>>_vars)

Listening == listens > 0
Accepting == pending[Accept] > 0

\* A server that listens accepts again and again, where nothing goes wrong and a
\* callback can always return: no step of the loop, of a script or of the
\* collector takes the accept loop away.
THEOREM ServerAcceptsAgain ==
  ASSUME Faults = {}
  PROVE  FairSpec /\ CanReturn => AcceptsAgain
<1>1. Init => ListensOn
  BY Kinds DEF Init, ListensOn, AcceptLoops, Accepts, One, Idle
<1>2. IInv /\ ListensOn /\ [Next]_vars => ListensOn'
  BY ListensOnKept
<1>3. IInv /\ ListensOn /\ Listening => Accepting \/ Accepts(running)
  BY Kinds DEF IInv, TypeOK, ListensOn, Listening, Accepting, AcceptLoops, One
<1>4. IInv /\ Accepts(running) /\ CallbackReturns => Accepting'
  <2> SUFFICES ASSUME IInv, Accepts(running), CallbackReturns PROVE Accepting'
    OBVIOUS
  <2>1. AcceptAgain
    BY DEF CallbackReturns, Finish, ReadNoMore, ReadAgain, Accepts, Accept
  <2> QED
    BY <2>1, Kinds DEF AcceptAgain, Accepting, IInv, TypeOK
<1>5. IInv /\ Accepts(running) /\ [Next]_vars => Accepts(running)' \/ Accepting'
  <2>1. UNCHANGED running => (Accepts(running) => Accepts(running)')
    OBVIOUS
  <2>2. Accepts(running) => ~ LoopStep
    BY DEF Accepts, LoopStep, GiveUp, Escape, Call, CallOnConnection, Ready
  <2>3. ScriptStep => UNCHANGED running
    BY DEF ScriptStep, CreateAcceptor, Socket, NewBuffer, Make, Drop, SetProperty, Listen,
           AsyncRead, AsyncWrite, AsyncReadEx, PromiseContinuation, unchangedByCall
  <2>4. Run \/ RunEnds \/ (\E o \in Objects : Collect(o)) => UNCHANGED running
    BY DEF Run, RunEnds, Collect
  <2> QED
    BY <1>4, <2>1, <2>2, <2>3, <2>4 DEF Next, vars
<1>6. IInv /\ Accepts(running) /\ <<CallbackReturns>>_vars => Accepting'
  BY <1>4
<1> QED
  BY <1>1, <1>2, <1>3, <1>5, <1>6, Invariance, PTL
     DEF Spec, FairSpec, CanReturn, AcceptsAgain, Listening, Accepting
=============================================================================
