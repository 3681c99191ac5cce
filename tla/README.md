# chakra-jxx in TLA+

chakra-jxx binds C++ to ChakraCore and puts a small node-like runtime on top: native objects that
JavaScript owns, modules, and TCP on an asio event loop. It carries llhttp, a generated HTTP parser. This directory holds specifications of the
parts whose correctness depends on order, sharing, re-entrance and failure, the TLC configurations
that check them on small instances, and proofs of the properties that matter most for every
instance. All of it is read from the code; `PROJECT.json` maps each definition to its lines.

The code is a work in progress. A few places do not compile as they stand: `LoadModule` uses
`resolved` before it declares it (jxx.module.h:333), `registry_` is never assigned
(jxx.runtime.h:18), `JxxLoadSourceModule` returns nothing (jxx.module.h:149). They are modelled as
what they evidently do, a missing `return` as an indeterminate value.

## The system

| component | state | operations | interacts with |
|---|---|---|---|
| native objects (jxx.class.h, jxx.api.h, jxx.object.h) | an intrusive count per object, smart pointers, the external data of JavaScript objects | `AddRef`, `Release`, `JxxObjectPtr` constructors, `reset`, `detach`; `ExtObject::Create`, `As::New`, `AssignJxxObject`, `TryGetAs`; `JxxRelease` | called by every native function; the collector calls `JxxRelease`; objects may be shared by threads |
| registry of built-in modules (jxx.module.h 205-239) | a hash table, a `shared_mutex` | `RegisterModule`, `QueryModule` | shared by the runtimes of all threads |
| module loader (jxx.module.h 255-402, jxx.runtime.h 50-220) | `running_modules_`, the current context, the engine's exception state | `LoadModule` and one function per kind of module | queries the registry; runs scripts, which call it again |
| search path (jxx.module.h 33-115) | a list of directories | `AddPath`, `RemovePath`, `ResolveEx` | used by the loader |
| TCP functions (jxx.asio.tcp.h 138-321) | operations in flight, the `Durable` references their handlers hold | `CreateAcceptor`, `Socket`, `Listen`, `AsyncRead`, `AsyncReadEx`, `AsyncWrite`, the handlers | started by scripts, completed by the loop, call script functions |
| `Durable` (js.base.h 123-179) | one reference to an engine value | copy, move, `reset` | keeps values from the collector |
| event loop and promises (jxx.runtime.h 277-291) | queued handlers | `post`, `run` | runs handlers and continuations on the runtime's thread |
| runtime lifecycle (jxx.runtime.h 13-68, 273-330) | the engine's runtime, its members, its count | constructor, destructor, `close`, `BeforeCollectCallback`, `JxxCreateRuntime`, `JxxCreateContext` | owns all the above of one thread |
| contexts (js.context.h) | the current context | `Create`, `Scope` | used by loader and continuations |
| value cache (jxx.cc.h) | maps from names to strings, symbols, prototypes, property ids | `get_*`, `put_proto`, `clear` | one per runtime |
| class definitions and mixins (jxx.class.h 65-132, 195-239) | exported methods per class | `JxxMixinObject`, the method stub | makes native functions |
| value types (js.value.h, js.primitive.h, js.array.h, js.arraybuffer.h, js.typedarray.h) | none | type masks, `_as_the`, `Just`, `GetAs` | everywhere |
| native function stubs (js.function.h, js.base.h) | none | argument checks, exceptions to and fro | every native call |
| Windows registry functions (jxx.asio.tcp.h 21-136) | none of their own | query, enumerate | an external database others write to |
| mode.runtime.h | - | - | an earlier draft nothing includes |
| HTTP parser (llhttp/) | one `llhttp_t`: the node it is at, the open span, the flags and lengths of the message | `llhttp_execute`, `llhttp_finish`, `llhttp_pause`, `llhttp_resume`, `llhttp_resume_after_upgrade` | calls the user's callbacks, which may pause or fail it; vendored and generated, not called by the program yet |

### What is hard about it

* **Order of counting.** A slot is exchanged before the new object is counted and the old one
  released, and threads interleave in between. The count has to be exact at every point, or an
  object leaks or is used after its deletion.
* **Re-entrance.** A script that is being loaded loads others, also itself. The table is written
  before the script runs and again after it.
* **Failure half-way.** Scripts throw, engine calls fail, memory runs out. The engine remembers an
  exception and then refuses everything that makes, reads or runs something, and most of the code
  does not look at error codes.
* **Lifetimes across the loop.** An operation outlives the call that began it, while the collector
  runs and scripts drop what they had. Only what the handler pins may be relied on.
* **Input cut anywhere.** The HTTP parser is a `goto` automaton of some 150 states that may be left in the
  middle of a keyword, a number or a span and entered again with another buffer; callbacks can pause it
  at any of its calls, and a connection carries message after message.
* **Destruction in order.** A runtime's members go one by one; what they keep must be released while
  the engine still lives.
* **Locks with early returns,** and lookups that race with insertions.

`PROJECT.json` lists each such place ("hazards") with the properties that cover it.

### What each component must guarantee

* Native objects: counts are exact, nothing deleted is reachable, a pointer holds only objects of
  its class, what nobody owns is deleted, and it all amounts to shared ownership.
* Registry: no lookup overlaps an insertion, a name is bound once, calls are atomic, the lock is
  given back.
* Loader: a script runs once, the context is restored, exports are final, failures leave nothing
  behind, a success returns what everybody else gets.
* TCP: what an operation uses exists, what it pinned is let go, loops neither multiply nor stop
  without a reason, and only scripts can bring down `run()`.
* Value cache: a name keeps its value, no two names share one, every entry pins its value exactly
  once, clearing lets go. Not kept: an entry for a property id that had been collected before it was entered.
* Class definitions: a method runs only on objects of its class; a mixin overrides as the hierarchy
  says.
* Windows registry functions: an answer is made of all bytes of the value as it was at one instant; an enumeration that reports
  success has shown what was there, or something was added meanwhile.
* Runtime: whatever it keeps, in the cache, as a module or on the loop, is alive and counted once, and is
  released before the engine goes.
* HTTP parser: callbacks come in order, once each, whatever they answer; no pointer outlives its
  buffer; a body has one frame and as many bytes as that says; the parser stops where HTTP ends;
  unless it is paused or has failed, `llhttp_finish` accepts no end of the input inside a message; `llhttp_execute`
  returns.

## The modules

| module | models | proofs |
|---|---|---|
| `Ownership` | what shared ownership promises, without counters | - |
| `JxxObject` | native objects, smart pointers, external data; implements `Ownership` | `JxxObjectProofs` |
| `WriteOnceMap` | what a registry promises: atomic calls, a name bound once | - |
| `ModuleRegistry` | the registry and its lock; implements `WriteOnceMap` | `ModuleRegistryProofs` |
| `ModuleLoader` | search path, `LoadModule`, nested evaluations, contexts, the exception state | `ModuleLoaderProofs` |
| `TcpServer` | asynchronous operations, handlers, loop, collector | `TcpServerProofs` |
| `ValueCache` | the cache and its `Durable` entries | with `RuntimeLifecycle` |
| `RuntimeLifecycle` | cache, modules, handlers and continuations of a runtime, collector, destruction of the members; extends `ValueCache` | `RuntimeLifecycleProofs` |
| `ClassMixin` | class hierarchies, `JxxMixinObject`, the method stub | `ClassMixinProofs` |
| `WinRegistryEnum` | `_RegEnumKey` among other writers | with `WinRegistry` |
| `WinRegistryQuery` | the two calls of `_RegQueryValue` among other writers | with `WinRegistry` |
| `WinRegistry` | a call of either | `WinRegistryProofs` |
| `HttpCallbacks` | the order in which the user of the HTTP parser sees callbacks | - |
| `HttpParserState` | its variables, nodes, bytes, and the steps its automaton is made of | with `HttpParser` |
| `HttpStartLine`, `HttpHeaders`, `HttpBody` | one operator per node, in the order of a message | with `HttpParser` |
| `HttpParser` | the calls of llhttp.h and the whole parser; implements `HttpCallbacks` | `HttpParserProofs` |

`MC...` modules give the constants of the instances; each `.cfg` is one run. Definitions whose comment
begins with "Mutant:" are what a plausible bug would make of the definition after them. No
specification uses them; putting one in place makes a run fail, which shows that the property could
have failed.

### JxxObject

`refs` is the field of every slot, be it `JxxObjectPtr::nake_` or the external data of a JavaScript
object; `ref_count` is `ref_count_`. All operations of jxx.api.h 192-249 and jxx.object.h come down to
`Exchange`, the order in which `reset` works: store, then `AddRef` the new, then `Release` the old.
`adding`, `releasing` and `deleting` say how far a thread is, so each of `AddRef`, `Release` and
`delete this` is a step of its own and other threads come between. Assignments through a temporary
are modelled as their net effect; converting copies and moves go through `Cast`, which is
`QueryClass`. A thread uses only its own slots, as each engine has one thread; `HandOver` gives a
pointer to another thread. The collector's `JxxRelease` is `Finalize`.

### ModuleRegistry

One step for each of: locking, the lookup, the insertion, the return. `readers` and `writer` are the
`shared_mutex`; it is granted in no particular order. The refinement maps `registry_` to the
abstract map, whose calls take effect in one step: at the end of the insertion, or at the lookup.

### ModuleLoader

`LoadModule` is modelled from `JxxRuntimeModuleMgmt`, the more complete of two copies.
`running_modules_` is the table. `frames` are the evaluations that have begun and not ended, each in
a context of its own; any of the scripts may load anything at any time. A load without a script is
one step, since nothing can come between; one with a script begins in one step
(`BeginSource`, `BeginBuildin`) and ends in another (`EndSource`, `EndBuildin`). File names are
model values, extensions strings with their dot, package files what their `main` names.

What is assumed of the engine: while an exception is recorded, every call that makes, reads or runs
something fails, and leaves its result null; reference counting, small integers, type queries and
external data still work. A native function that returns with an exception recorded throws it in the
script that called it (`Rethrow`).

### TcpServer

`pending` counts the operations in flight of each kind, `pins` the references that the `Durable`
members of their handlers hold, `held` is what scripts can reach. `CreateAcceptor` and `Socket` make the
native sockets and their objects; one that is collected may be made again. A handler starts (`Call`, `GiveUp`,
`Escape`), a callback runs any script steps, and the handler goes on when it returns
(`CallbackReturns`). Which operation completes next is open, and so is every error code. A handler is
one function object that asio moves and destroys, so its references go when it is done. An
exception that a callback throws stays recorded, because `Function::Call` drops the error
(js.function.h:82).

### ValueCache and RuntimeLifecycle

`entries` has a slot for each place where a runtime keeps a value: the maps of jxx.cc.h by token,
`running_modules_` by path, and the queue of the loop, where a handler keeps what it captured in a
`Durable` and a continuation its task, which it counts by hand (jxx.runtime.h:282, 289). `pins` is what
`JsAddRef` counted, `alive` the addresses in use. A collected address may be given to the next value,
which is what makes an unpinned entry dangerous. `Assign` is what `map[key] = Durable(v)` does: count `v`,
release the old, take over.

`PropertyId` returns an uninitialised variable when the engine refuses (js.object.h:17-21): null, which is not
remembered; `Garbage`, which no value has as its address; the address of a value that is alive; or that of one
which was collected. Of the last, `JsAddRef` finds no value to count, which is an assumption about the engine, and
the entry is made nevertheless (`EnterStale`). A later value may get the address: then the entry holds it
uncounted, and it can be collected under the entry. `stale` remembers the tokens to which this happened, and
`PinsExact` and `CachedAlive` are about all entries but theirs (`Uncounted`). The code does not keep them out;
what the properties say is that this is the only way in, and that it never spoils another entry.

The end is one step per member, in the reverse of their order in the class (jxx.runtime.h 21-30): `clear`
is the destructor's body, then go `running_modules_` (`DestroyModules`), `loop_` (`DestroyLoop`), `runtime_`
(`Dispose`) and, without any effect that the engine could notice, `cache_`. The loop destroys a handler
with its `Durable`, but of a continuation it only has the address, so that `JsRelease` never runs for it.
That the engine's `JsRelease` counts also when no context is current is assumed.

### ClassMixin

`Parents`, `Methods` and `Functions` are the definitions of the classes, which static initialisation
completes before anything is mixed in. `stack` holds the calls of `JxxMixinObject`, each with the class
and the next thing to do: a parent (`Descend`), an entry (`SetProperty` or one of the failures) or the
end. `props` is the target object. It keeps what earlier mixins put there, including those that were
broken off; assignments that scripts make to it are not modelled. `Native` gives a function the class
id it carries as callback data, and `CallMethod` is the stub: it takes the function off the object it
was put on and calls it on any native object. `Knows` is `QueryClass`.

What inheritance says is defined apart from the walk, as `Said` and `Winner`: an entry of the class
itself, else what the last parent says that says anything. `Ancestors` and `Winner` are recursive
notions; they are constants that assumptions define, which TLC evaluates. In a diamond the shared
ancestor is visited twice, and its second visit hides what the first branch overrode
(jxx.class.h 201-206); `OverridesWin` is therefore about trees.

### WinRegistryEnum, WinRegistryQuery, WinRegistry

The first two model one call of a native function each, on a database that others change between any two
system calls; a behaviour of `WinRegistry` is a call of either. `db` and `value` are that database, known only through the calls of the Windows API in
jxx.asio.tcp.h; before the call it may hold anything (`Init`), and after it nobody asks.

In `WinRegistryEnum`, `RegQueryInfoKey` is the call that asks for the numbers and lengths (lines 105 to 111),
`CallFunction` is one turn of a loop up to the script's function, and `ReturnsFalse`, `Break` are what
the function may do. While it runs, `Add` and `Delete` may be its own doing. `added`, `deleted`, `before`,
`visited` and `broke` are ghosts: the history that the properties are about.

In `WinRegistryQuery`, `Ask` is the first call (line 49) and `Read` or one of the failures the second, whose
branch depends on the type that the first one answered. A value is its type, its size and the number that its
bytes make, lowest first. The registry does not check what is written to it: a number may have any size, and a
string any bytes. `Low` is what a variable or a string of so many bytes holds once the value was copied to it.
Four conversions are not exact, and `AnswerIsExact` says of each what is left:

* `Just<int>` of a DWORD (line 54) makes the upper half of the numbers negative (`AsInt`). The bytes are
  the same. Those of a `REG_DWORD_BIG_ENDIAN` are not swapped (line 50), so that the answer is not the number meant.
* `Just<double>` of a QWORD (line 60) is a nearest double (`AsDouble`, ties are open), exact if there is one.
* `data.resize(cbData - 1)` (line 73) takes the last byte of a string, which is a character if the string was stored
  without terminator; if it has no bytes at all the size wraps. Only terminated strings are claimed to be whole.
* The second call writes as many bytes as the first announced, also to a variable that is shorter (lines 53, 59).
  The program may not survive this (`Overruns`); if it does, the number is made of the first bytes, and
  nothing is claimed of it.

How the engine decodes the bytes of a string is left out. A value of several strings is read and then refused, since
the declared type of the result admits no array (line 40). ChakraCore gives a buffer of no bytes a null
address, and `RegQueryValueEx` with a null address answers the size and succeeds; `NoAddress` is that case.

### The HTTP parser

`llhttp__internal__run` is one function with a label per node. Each node has an operator of the same name
(`HeaderValueConnection` is `header_value_connection`), and `current` is the node that the automaton is at,
or, between two calls, goes on from (`_current`). Nodes that only read on to the next letter of a
keyword are one node with the keyword, and `index` says that a part of it has been read; nodes that only
store a value and go on are part of the step that leads to them. `StartLineStep`, `HeadersStep` and
`BodyStep` are the three parts of a message.

The input is not a string. `at` is the byte under `p`, or `End`; it is chosen, when `p` moves, from the
classes of bytes that the node tells apart (`Bytes`). So every input and every way to cut it into
buffers is a behaviour, and two bytes that no node tells apart are one. A number or a keyword is chosen
where it is read: `Methods` are those on which something depends (`CONNECT`), any other is `"other"`, and
likewise `StatusCodes`. The lengths are integers up to `MaxLength`, read digit by digit with the radix
that they have, and the checks for overflow (llhttp.c 516-541, 680-705) are as in the code.

A callback answers 0, `HPE_PAUSED` or another error (`Answers`); `on_headers_complete` also 1 and 2. A
callback with data is called for a span: `span_pos0` is where it begins, in this buffer (`"here"`) or in
one that has been left (`"gone"`), and at the end of a buffer it is called for what there is
(`EndOfBuffer`, llhttp.c 6025-6045). `Execute`, `Pause`, `Resume`, `Finish` are the functions of api.c. As
llhttp.h asks, `llhttp_pause` is not called from a callback and nothing is parsed after `llhttp_finish`.

`HttpCallbacks` knows only which callback came last and in which stage of a message the parser is,
and says what may come next. The refinement maps `stage` to an expression of node, flags and error
(`Stage`).

`llhttp_finish` goes by the field `finish`, and by llhttp.h:285-290 it succeeds if the message was terminated
safely. `FinishIsRight` is about its answer. It names three disagreements, which TLC reaches. A parser that
was paused by `on_message_complete`, or for an upgrade, and was resumed is behind a complete message, but refuses the
end, since only the next node resets `finish`. A body that goes on until the end is not accepted as long as it
has no byte, since `finish` is set behind the first (`RefusedEnds` has both). And a parser that is paused, or
has failed, answers HPE_OK wherever it is, in the middle of a message too (api.c:41-43). Where a pause has
stopped the parser before `on_message_complete` the message counts as open, although no byte of it may be due.

`owed` is a ghost: the length that was read, less what `on_body` got. `leftover` is another: it remembers that
`content_length` was not 0 when a message began (see `http_length` below).

## What the runs check

| run | checks | states |
|---|---|---|
| `object_lifetime` | counts exact at every interleaving, nothing deleted in use, casts safe, `Ownership` implemented, what nobody owns is deleted | 27,004 |
| `registry` | no race on the table, the first registration wins, `WriteOnceMap` implemented, whoever gets the lock gives it back | 10,644 |
| `module_loader` | a script runs once, its context is restored, exports are final, answers and table agree, for every kind of file and package | 180,322 |
| `module_source` | violated: see below | - |
| `tcp_server` | what an operation uses exists, pins balance, loops do not multiply, aborts have a cause | 1,291,184 |
| `tcp_liveness` | a server that listens accepts again | 17,560 |
| `runtime_lifecycle` | counts equal what is kept, what is kept is valid, names are distinct and final, and only property ids and tasks that never ran outlast the engine | 498,873 |
| `class_mixin` | methods run on objects of their class, mixins leave what inheritance says | 76,470 |
| `mixin_complete` | violated: see below | - |
| `win_registry` | no name twice, success means complete, only changes make an enumeration fail; an answer is made of all bytes of the value as it was when read | 2,148,032 |
| `http_parser` | spans and keywords across buffers, sizes of bodies, their frame, `llhttp_finish`, upgrades, `HttpCallbacks` implemented, `llhttp_execute` returns | 662,353 |
| `http_length` | violated: see below | - |

All pass except three. `module_source` shows that the code does not do what its comment says:
`LoadModule` compares `resolved.extension()`, which begins with a dot, to `"js"` (jxx.module.h:385), so
a `.js` file is returned as text and never run, although the comment at jxx.module.h:383 announces
the loading of a source module. Programs that call `LoadSourceModule` themselves do run scripts;
those paths are `Direct`, and they are why `module_loader` sees evaluations at all.

`http_length` shows that `content_length` is not reset when a message begins: a message with a
`Content-Length` whose body `on_headers_complete` ruled out (answer 1, llhttp.h:236) leaves its length
behind, and the digits of the next `Content-Length` are multiplied into it. The body of the next
message then ends at the wrong byte. `BodyIsExact` and `UpgradePauses` are about all messages but those
(`leftover`).

`mixin_complete` shows that `JxxMixinObject` can answer 0 although a method is missing: a parent's
error is passed on only if it is negative (jxx.class.h:204), and `JsErrorOutOfMemory`, the one it
returns, is positive.

### Bounds, and why they are enough

* `object_lifetime`: two threads, two objects, three pointers of two classes, one JavaScript object.
  Two threads are needed for a race and each step involves two slots and one object; the third
  pointer is a bystander whose reference must survive. An object's identity is used once, so each of
  the two objects dies once; a JavaScript object is used again. The counts have no bound but the slots.
* `registry`: three threads, so that a reader can be between two writers; two details claim one name.
* `module_loader`: one name for every kind of file and package (among them a package whose `main` is the
  script, and a built-in module), a directory to search, and `MaxDepth` = 2: a script loads itself, or the
  built-in module that loads it, and throws inside another's load.
* `tcp_server`: one connection, two buffers, two operations in flight (`MaxInFlight`), two calls of
  `Listen` and `AsyncReadEx` each (`MaxCalls`). Two operations can share a socket or a buffer, and a
  callback can start an operation while another is in flight. All faults are on. `tcp_liveness` has no
  faults: with them a server may stop, as the hazards say.
* `runtime_lifecycle`: two tokens in each of four maps, a module, two handlers and two continuations, and two
  addresses, fewer than there are slots, so that they have to be used again and one value is often
  kept by several slots.
* `class_mixin`: five classes, among them a chain, a diamond and one apart; three names, so that a name is
  overridden, inherited and exported by two kinds; objects of three classes; every call may fail.
  `mixin_complete` has only the failure it is about.
* `win_registry` runs either function. The enumeration has three names, one longer than the others, up to three
  subkeys and one value, so that a key can be emptied, reordered and outgrown; any number of changes at
  any time, both loops. The query has values of all types with up to four bytes of two contents each (`Contents`), a DWORD
  of two bytes, a QWORD of three, doubles that above 4 are four apart (`Doubles`), sizes modulo 16 (`Wrap`), and
  any number of writes. So there are values shorter and longer than either variable, numbers in both halves, numbers
  between two doubles and at the same distance from both, and strings with and without terminator.
* `http_parser`: `MaxLength` = 2 with both radices 2, so that a number of two digits may or may not fit,
  and a body can be cut into parts; a parser for both requests and responses, which takes every way that one for
  either does; `CONNECT` and other methods; status code 101, and 0, which stands for those with a body; all
  answers; of the tokens of `Connection` the one that anything but `llhttp_should_keep_alive` depends on. There is no bound on the number of bytes, fields, chunks, messages, buffers
  and pauses. The lengths 0, 1 and 2 are those between which the nodes decide (nothing, the last byte,
  more); the proofs cover every other `MaxLength` and radix. 1xx, 204 and 304 take the way of 101 through
  `llhttp_message_needs_eof`.

Symmetry is used only for safety, over buffers, values, tokens, jobs and names of equal length.

`CHECK_DEADLOCK FALSE` is said where the system may stop: `run()` returns or is left by an
exception, a runtime is disposed of, and an enumeration ends. Everywhere else deadlock is checked.

### Fairness

* `object_lifetime`: weak fairness of `Continue(t)`, the rest of an operation that thread `t` has begun;
  nothing in it waits. No thread has to begin anything.
* `registry`: weak fairness of `Locked(t)`, the steps of a thread that holds the lock. Nobody
  is assumed to get the lock, as `shared_mutex` promises no order.
* `tcp_liveness`: weak fairness of `CallbackReturns`: scripts end. No connection has to arrive.
* `http_parser`: weak fairness of the automaton once it has come to the end of its buffer: it is a
  sequential program whose callbacks return. That buffers end is arithmetic and not assumed here.

## What is proved

TLAPS checks these for all values of the constants that satisfy the modules' assumptions.

* **JxxObject** (any number of objects and classes, finitely many threads and slots): `TypeCorrect`,
  `RefCountCorrect`, `NoUseAfterDelete`, `CastSafety`, and `Refinement`: it implements `Ownership`.
  The count is not inductive: between the exchange of a slot and its `AddRef` the slot owns an object
  that is not counted. `BackedUp` says what keeps that object alive: the same thread has another
  reference to it (the source of the copy, which only this thread can change, or a release it
  has yet to do), or nobody else knows it. With `AddingOwn`, `DeletingLast`,
  `DeletingUnowned` and `DeadEmpty` this is inductive.
  `NoLeak` is the converse of `NoUseAfterDelete`: an object is alive exactly as long as something owns it or
  some thread is in the middle of dropping it. `NeverOwnedAgain`: what the last owner has given up has no
  owner again. `OperationsEnd` and `DroppedForGood` are about liveness (below).
* **ModuleRegistry** (any threads, names, details): `TypeCorrect`, `RaceFree`, `RegistrationIsFinal`, and
  `Refinement`: it implements `WriteOnceMap`. The invariant relates the lock to the place of each
  thread (`LockInv`), the call to its reply (`CallInv`), and says that between lookup and insertion the
  name stays free (`FreeInv`). `LockIsGivenBack` is about liveness (below).
* **ModuleLoader** (any file system, names, search path and depth): `TypeCorrect`, `OneEvaluation`,
  `ContextCorrect`, `EntriesAreFinal`, `FailureEntersNothing`, `SuccessIsEntry`, `AnswersTrue`. `LoadEffect` shows that
  every load, of whatever kind, has one of five effects; the proofs go by effects. The invariant:
  contexts and frames are stacked alike (`FrameInv`), and a script that has run has an entry (`RunInv`).
  `LoadedForGood`: once a load has ended the module is never evaluated again and its exports stay, for ever.
  `CyclesFindTheFirst`: until then everybody finds the object that was its exports when its script began. This
  needs that a file has one frame at most (`CycleInv`). It is about files whose path is not also the name of a
  registered module; nothing in the code keeps the two apart.
* **TcpServer** (any sockets, buffers and faults, any number of operations in flight): `TypeCorrect`,
  `InFlightIsAlive`, `NoPinIsLeft`, `LoopsAreBounded`, `AbortsAreTheScripts`. An object is pinned once for each
  operation in flight that uses it and once by the handler that runs (`PinInv`). The first number would be
  a sum over operations, which needs induction; instead `Tickets` is the set of pairs of an operation
  and a number up to how often it is in flight, and its cardinality is the sum: `TicketAdded` and `TicketTaken` say
  that a start adds one pair and a completion takes one. From this, what is pinned exists (`AliveInv`),
  because the collector takes only what is not. A new buffer is therefore used by no operation
  (`NewBufferUnused`), so that a read that starts is one more loop and never the second of its kind, and a
  socket that is collected has no loop left (`LoopInv`). `LoopsEndForAReason`, with all faults: each call of
  `Listen` is one loop, and none ends unless the callback is gone, an exception is recorded, or accepting
  fails. `ServerAcceptsAgain` follows without faults and is about liveness (below).
* **RuntimeLifecycle** (finitely many tokens, modules and places of the queue, any values): `TypeCorrect`,
  `PinsCorrect`, `NoStaleEntry`, `NoSharing`, `LeftAtTheEnd`, `EntriesAreFinal`. `AssignCounted` is the lemma
  about one assignment: it splits by whether the slot had the value and whether it gets it. `LetGoKeeps`
  is the one about many slots that are destroyed at once: of each value it counts those that go and those
  that stay. The invariant adds `ClearedInv`, which slots are empty at each stage of the end, and `StaleInv`, that an
  entry which is not counted is there and never empties. The theorems about counts and addresses except
  those entries, as the properties do; `StaleKeeps` is the lemma that entering one leaves the others right.
  `ClosingOnlyReleases`: once the runtime begins to close, entries only go and counts only fall.
  `NeverReleased`: what is then in the map of property ids and counted, or waits as a task, stays pinned.
* **ClassMixin** (any hierarchy, exports, objects, faults): `TypeCorrect`, `NoTypeConfusion`,
  `MixinCorrect`, `OverridesWinInTrees`. The invariant says that each waiting call waits for the one of its parent
  (`Chained`), and that the object shows of each name what the innermost call said that said anything
  (`Shows`). `SaidParent` and `SaidEntry` tell what one step of the walk adds.
  That overrides win is about what inheritance says (`TreeOverrides`), and goes by induction over the hierarchy: in
  place of an induction rule, `TopClass` finds in any set of classes one without a parent in it, because
  the ancestors of a parent are fewer. This is where the assumption is used that ancestors are finitely many.
  `RecursionEnds`: each call goes up from all that wait for it (`CallsGoUp`), so that no class is mixed in
  inside itself and the depth is bounded by the number of ancestors, in a diamond too.
* **WinRegistry** (any names, lengths, numbers of names, values, sizes, widths of numbers and set of doubles): `TypeCorrect`, `NamesOnce`, `CompleteCalls`,
  `FailuresAreChanges`, `AnswersAreExact`. While nothing is added, the names to come are not among those that
  the function was called with: a deletion only moves names down (`AheadInv`, with `Removed` for what it does to
  the sequence). `PrefixInv` says that without a deletion the calls so far are the first of the names, and after one
  there are fewer names than were counted, so that a loop cannot come to its end. `NoAnswer` is why a name only
  fails to answer if something changed: no name is longer than the longest (`LongestIs`). `ReadKeeps` goes through the
  types of a query: of `Contents` it uses only that more bytes have no fewer contents, `Remainder` that a terminated string
  loses nothing, and `Nearest` that a double is nearest to itself.
  `CallsBounded`: a function that adds a name whenever it is called is not called for ever. `EnumerationEnds`:
  `StepsLeft` falls with every step of the call and is not raised by what others write.
* **HttpParser** (any answers, types, methods, status codes, tokens, any `MaxLength`, and any radices that
  fit it): `TypeCorrect`, `StaleNothing`, `BodyExact`, `FramedOnce`, `FinishCorrect`, `UpgradeKept`, and
  `OrderKept`: it implements `HttpCallbacks`. The invariant `IInv` goes by groups of nodes. To what the
  properties say it adds which callback an open span is for (`SpanInv`), what the flags say from the end of the head on
  (`FrameInv`), where the length that has been read still is what was declared (`HeadInv`, `BodyInv`), and
  which callbacks may have come last in each group (`LineOrder`, `FieldOrder`, `BodyOrder`). `NoWrap` is the
  arithmetic: where the code's checks let a digit through, the number fits. Each part is shown to be kept by each of the three
  parts of the automaton and by the calls. `StartLineMove` and `HeadersMove` say in short how those parts
  lead on, and the refinement uses only them. `LeftoverHasAReason` says when a length outlives its message, which
  is what `http_length` is about: `on_headers_complete` has ruled out the body, the message was `CONNECT`,
  or the length came in the trailing fields (`LeftInv`); and in no other way. `CallReturns` is about
  liveness. `FinishCorrect` is about what `llhttp_finish` has answered: `FinishInv` ties `finish` to the node, and
  `AnswerInv` the answer to `finish`, after which nothing moves.

**Liveness.** Three of the four liveness properties are theorems for all values of the constants, each with one
hypothesis: that the action which is assumed to be fair is possible whenever it has to be.

| theorem | property | hypothesis | why it ends |
|---|---|---|---|
| `LockIsGivenBack` | `LockGivenBack` | `CanGoOn(t)`: inside, `Locked(t)` is enabled | a thread inside has at most three steps to its `Return`, and no other thread moves it |
| `ServerAcceptsAgain` | `AcceptsAgain` | `CanReturn`: a running callback can return | while an accept is in flight or calls back (`ListensOn`) its return starts the next |
| `CallReturns` | `ExecuteReturns` | `CanEnd`: at the end of a buffer some node can run | `Gotos` counts the gotos that lead on, at most six, and each takes one |
| `OperationsEnd` | - | `CanGoOn(t)`: within an operation `Continue(t)` is enabled | `Work(t)` counts the steps that are left |

TLAPS has no rules for `ENABLED` here, so that the hypotheses cannot be discharged. TLC finds
each of them true in every reachable state of the instances of the runs. They only say that a guard is
met: if one of the first three were false, the property beside it would be violated in its run, by a
behaviour that stops there.

**Only model-checked** is `UnownedIsDeleted`. `DroppedForGood` proves its core: a thread that drops an object which
nobody owns is done with it for good. By `NoLeak` the object is deleted when all threads are; but that
finitely many threads are all done at some time is an induction on a temporal formula, which the provers do not have.

The type invariants of the modules with proofs are theorems; most runs leave them out.

## Hazards without a property

They are of two kinds.

The code does what the hazard says in one step, so that a property would only repeat the line: an entry
of a module that throws is a null reference and stays (jxx.module.h:279); one failed accept ends
accepting (jxx.asio.tcp.h:226); `Call` drops the error (js.function.h:82), whose consequences `TcpServer` does have;
a continuation that is destroyed without having run (jxx.runtime.h:282), which `ReleasedBeforeDisposal`
names as its exception; `Length` tests a type id where a mask is meant (js.array.h:47).

Or no caller gets there: a built-in module that loads itself (jxx.module.h:322), a package's `main` that is
not normalised (jxx.module.h:368), a `Durable` assigned to itself (js.base.h:149), the collector's callback
(jxx.runtime.h:275), which only `JxxCreateRuntime` registers.

## Not modelled

* **`JxxCreateRuntime`, `close()`, `BeforeCollectCallback`**: the program has its runtime on `main`'s stack and
  calls none of them.
* **Values, conversions, arrays, native function stubs**: calls of the engine and templates, without state.
  Where a conversion fails, and what that does to its caller, is part of `ModuleLoader`, `TcpServer`,
  `WinRegistryEnum` and `WinRegistryQuery`.
* **Opening, creating and closing keys of the Windows registry**: one system call each.
* **Bytes, addresses, partial transfers** of TCP and the text of modules: no property is about them.
* **Paths**: a directory is its token; there are no aliases.
* **In llhttp**: the version numbers and `llhttp_should_keep_alive`, whose answer changes nothing in a parser that is
  not built strict; `llhttp_settings_init`; `llhttp_init` of a parser that has been used; the texts of reasons, methods
  and errors.
* **mode.runtime.h** is included by nothing.

## Order of work

Done, the most important first: `Ownership`, `JxxObject`, `WriteOnceMap`, `ModuleRegistry`, `ModuleLoader`,
`TcpServer`, `ValueCache`, `ClassMixin`, `WinRegistryEnum`, `WinRegistryQuery`, then the HTTP parser, from
`HttpCallbacks` down to the nodes, `RuntimeLifecycle`, `WinRegistry`, and the proofs.

Worth doing next:

1. `PathResolver` with aliases: one file under two keys, and its consequence for `EvaluatedOnce`.
2. A server that feeds what it reads to an HTTP parser, once the program has one: `TcpServer` composed with
   `HttpParser`.
3. Order of continuations: posted tasks run in the order of posting.
