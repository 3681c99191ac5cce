------------------------- MODULE ModuleLoaderProofs -------------------------
(***************************************************************************)
(* What ModuleLoader promises holds for every search path, file system,    *)
(* set of names and depth of nesting.  A load has one of five effects      *)
(* (LoadEffect), and the proofs go by these and by the other actions.      *)
(***************************************************************************)
EXTENDS ModuleLoader, SequenceTheorems, TLAPS

Results == [key : Keys \cup Specialers \cup {NullRef}, code : Successes \cup Errors, exports : Values]

\* The effects of a load.
Found == \E k \in Keys : LoadExisting(k)
Failed == \E s \in Keys \cup Specialers, code \in Errors : Fail(s, code)
Entered == \E k \in Keys, e \in Values : Enter(k, e)
Begun == \/ \E p \in Files : BeginSource(p)
         \/ \E s \in Registered : BeginBuildin(s)

Load == \/ \E s \in Specialers : LoadModule(s)
        \/ LoadDirectly

LEMMA KeysAreTyped == /\ Files \subseteq Keys /\ Registered \subseteq Keys
                      /\ Registered \subseteq Specialers
                      /\ Direct \subseteq Files
BY FileSystemAssumption DEF Keys

\* The values that loads make.
LEMMA ValuesAreTyped ==
  /\ NullRef \in Values
  /\ \A k \in Keys : \A w \in {"object", "assigned", "content", "parsed", "undefined"} :
       <<k, w>> \in Values /\ Made(k, w) \in Values
BY DEF Values, Made

LEMMA FailIsFailed ==
  ASSUME NEW s \in Keys \cup Specialers, NEW code \in Errors,
         Fail(s, code)
  PROVE  Failed
BY DEF Failed

LEMMA NullIsTyped == NullRef \in Values
BY DEF Values

\* The functions for the kinds of module have these effects and no other.
LEMMA KindEffect ==
  ASSUME NEW p \in Files,
         LoadSourceModule(p) \/ LoadJsonModule(p) \/ LoadNativeModule(p) \/ LoadFileAsModule(p)
  PROVE  Found \/ Failed \/ Entered \/ Begun
<1>1. p \in Keys
  BY KeysAreTyped
<1>2. NullRef \in Values /\ Made(p, "parsed") \in Values /\ Made(p, "object") \in Values
        /\ Made(p, "content") \in Values
  BY <1>1, ValuesAreTyped
<1>3. CASE LoadExisting(p)
  BY <1>1, <1>3 DEF Found
<1>4. CASE Fail(p, "exception_t")
  BY <1>1, <1>4, FailIsFailed DEF Errors
<1>5. CASE \/ Enter(p, NullRef) \/ Enter(p, Made(p, "parsed"))
           \/ Enter(p, Made(p, "object")) \/ Enter(p, Made(p, "content"))
  BY <1>1, <1>2, <1>5 DEF Entered
<1>6. CASE BeginSource(p)
  BY <1>6 DEF Begun
<1> QED
  BY <1>3, <1>4, <1>5, <1>6
     DEF LoadSourceModule, LoadJsonModule, LoadNativeModule, LoadFileAsModule

LEMMA PathEffect == ASSUME NEW p \in Files, LoadPath(p)
                    PROVE  Found \/ Failed \/ Entered \/ Begun
<1>1. CASE LoadExisting(p)
  BY <1>1, KeysAreTyped DEF Found
<1>2. CASE ~ LoadExisting(p)
  <2>1. LoadSourceModule(p) \/ LoadJsonModule(p) \/ LoadNativeModule(p) \/ LoadFileAsModule(p)
    BY <1>2 DEF LoadPath
  <2> QED
    BY <2>1, KindEffect
<1> QED
  BY <1>1, <1>2

LEMMA LoadEffect == ASSUME Load PROVE Found \/ Failed \/ Entered \/ Begun
<1>1. ASSUME NEW s \in Specialers, LoadModule(s)
      PROVE  Found \/ Failed \/ Entered \/ Begun
  <2>1. CASE s \in Registered /\ LoadBuildinModule(s)
    <3>1. s \in Keys
      BY <2>1, KeysAreTyped
    <3>2. CASE LoadExisting(s)
      BY <3>1, <3>2 DEF Found
    <3>3. CASE BeginBuildin(s)
      BY <2>1, <3>3 DEF Begun
    <3>4. CASE Enter(s, NullRef)
      BY <3>1, <3>4, ValuesAreTyped DEF Entered
    <3>5. CASE Fail(s, "error")
      BY <3>1, <3>5, FailIsFailed DEF Errors
    <3> QED
      BY <2>1, <3>2, <3>3, <3>4, <3>5 DEF LoadBuildinModule
  <2>2. CASE Fail(s, "ecNotExists")
    BY <2>2, FailIsFailed DEF Errors
  <2>3. CASE Fail(s, "ecUnmatch")
    BY <2>3, FailIsFailed DEF Errors
  <2>4. ASSUME NEW p \in Files, LoadPackage(s, p)
        PROVE  Found \/ Failed \/ Entered \/ Begun
    <3>1. ASSUME NEW code \in Errors, Fail(s, code)
          PROVE  Failed
      BY <3>1, FailIsFailed DEF Errors
    <3>2. CASE MainOf[p] \in Files /\ LoadPath(MainOf[p])
      BY <3>2, PathEffect
    <3> QED
      BY <2>4, <3>1, <3>2 DEF LoadPackage
  <2>5. ASSUME NEW p \in Files, LoadPath(p)
        PROVE  Found \/ Failed \/ Entered \/ Begun
    BY <2>5, PathEffect
  <2> QED
    BY <1>1, <2>1, <2>2, <2>3, <2>4, <2>5 DEF LoadModule
<1>2. ASSUME LoadDirectly PROVE Found \/ Failed \/ Entered \/ Begun
  BY <1>2, KeysAreTyped, KindEffect DEF LoadDirectly
<1> QED
  BY <1>1, <1>2 DEF Load

-----------------------------------------------------------------------------
\* Every frame has the context of the one around it to return to.
FrameInv == /\ context = Len(frames)
            /\ Len(frames) <= MaxDepth
            /\ \A i \in 1..Len(frames) : frames[i].prev = i - 1

\* A script has run once at most, and not before its module was entered.
RunInv == \A p \in Files : /\ runs[p] <= 1
                           /\ running_modules_[p] = Absent => runs[p] = 0

IInv == TypeOK /\ FrameInv /\ RunInv

\* The innermost frame.
LEMMA TopFrame ==
  ASSUME TypeOK, FrameInv, frames # <<>>
  PROVE  /\ Len(frames) \in 1..MaxDepth
         /\ Top \in Frames
         /\ Top.key \in Keys
         /\ Top.prev = Len(frames) - 1
         /\ exports_of[context] \in Values
<1>1. Len(frames) \in Nat /\ Len(frames) # 0
  BY DEF TypeOK
<1>2. Len(frames) \in 1..Len(frames) /\ Len(frames) \in 1..MaxDepth
  BY <1>1, ModuleAssumption DEF FrameInv
<1>3. Top \in Frames /\ Top.prev = Len(frames) - 1
  <2>1. frames \in Seq(Frames)
    BY DEF TypeOK
  <2>2. frames[Len(frames)] \in Frames
    BY <1>2, <2>1
  <2>3. frames[Len(frames)].prev = Len(frames) - 1
    BY <1>2 DEF FrameInv
  <2> QED
    BY <2>2, <2>3 DEF Top
<1>4. context \in 0..MaxDepth /\ exports_of \in [0..MaxDepth -> Values]
  BY DEF TypeOK
<1>5. exports_of[context] \in Values
  BY <1>4
<1>6. Top.key \in Keys
  BY <1>3 DEF Frames
<1> QED
  BY <1>2, <1>3, <1>5, <1>6

LEMMA InitIInv == Init => IInv
<1> SUFFICES ASSUME Init PROVE IInv
  OBVIOUS
<1>1. TypeOK
  <2>1. search_path_ \in Seq(Directories)
    BY FileSystemAssumption DEF Init
  <2>2. running_modules_ \in [Keys -> Values \cup {Absent}]
    BY DEF Init
  <2>3. frames \in Seq(Frames) /\ context \in 0..MaxDepth
    BY ModuleAssumption DEF Init
  <2>4. exports_of \in [0..MaxDepth -> Values]
    BY NullIsTyped DEF Init
  <2>5. exception \in BOOLEAN /\ runs \in [Files -> Nat]
    BY DEF Init
  <2>6. result \in Results
    BY NullIsTyped DEF Init, Results, Successes
  <2> QED
    BY <2>1, <2>2, <2>3, <2>4, <2>5, <2>6 DEF TypeOK, Results
<1>2. FrameInv /\ RunInv
  BY ModuleAssumption DEF Init, FrameInv, RunInv
<1> QED
  BY <1>1, <1>2 DEF IInv

\* A new frame for module k, whose exports begin as e.
LEMMA BeginFrame ==
  ASSUME TypeOK, FrameInv, NEW k \in Keys, NEW e \in Values, Begin(k, e)
  PROVE  /\ frames' \in Seq(Frames)
         /\ context' \in 0..MaxDepth
         /\ exports_of' \in [0..MaxDepth -> Values]
         /\ FrameInv'
<1>1. /\ Len(frames) \in Nat /\ Len(frames) < MaxDepth /\ context = Len(frames)
      /\ [key |-> k, prev |-> context] \in Frames
  BY ModuleAssumption DEF Begin, TypeOK, FrameInv, Frames
<1>2. frames' = Append(frames, [key |-> k, prev |-> context])
  BY DEF Begin
<1>3. frames' \in Seq(Frames) /\ Len(frames') = Len(frames) + 1
  BY <1>1, <1>2 DEF TypeOK
<1>4. context' \in 0..MaxDepth /\ exports_of' \in [0..MaxDepth -> Values]
  BY <1>1, ModuleAssumption DEF Begin, TypeOK
<1>5. \A i \in 1..Len(frames') : frames'[i].prev = i - 1
  <2>1. \A i \in 1..Len(frames) : frames'[i] = frames[i]
    BY <1>1, <1>2 DEF TypeOK
  <2>2. frames'[Len(frames) + 1] = [key |-> k, prev |-> context]
    BY <1>1, <1>2 DEF TypeOK
  <2> QED
    BY <1>1, <1>3, <2>1, <2>2 DEF FrameInv
<1>6. context' = Len(frames') /\ Len(frames') <= MaxDepth
  BY <1>1, <1>3, ModuleAssumption DEF Begin
<1> QED
  BY <1>3, <1>4, <1>5, <1>6 DEF FrameInv

LEMMA PrefixOfSeq ==
  ASSUME NEW S, NEW seq \in Seq(S), NEW n \in 0..Len(seq)
  PROVE  /\ SubSeq(seq, 1, n) \in Seq(S)
         /\ Len(SubSeq(seq, 1, n)) = n
         /\ \A i \in 1..n : SubSeq(seq, 1, n)[i] = seq[i]
<1>1. \A i \in 1..n : seq[i] \in S
  BY ElementOfSeq
<1> QED
  BY <1>1, SubSeqProperties

LEMMA RemoveAtTyped ==
  ASSUME NEW S, NEW seq \in Seq(S), NEW i \in 1..Len(seq)
  PROVE  RemoveAt(seq, i) \in Seq(S)
<1>1. SubSeq(seq, 1, i - 1) \in Seq(S)
  BY PrefixOfSeq
<1>2. \A j \in (i + 1)..Len(seq) : seq[j] \in S
  BY ElementOfSeq
<1>3. SubSeq(seq, i + 1, Len(seq)) \in Seq(S)
  BY <1>2, SubSeqProperties
<1> QED
  BY <1>1, <1>3, ConcatProperties DEF RemoveAt

\* The innermost frame ends.
LEMMA PopFrame ==
  ASSUME TypeOK, FrameInv, frames # <<>>, NEW failed \in BOOLEAN, Pop(failed)
  PROVE  /\ frames' \in Seq(Frames)
         /\ context' \in 0..MaxDepth
         /\ exports_of' \in [0..MaxDepth -> Values]
         /\ exception' \in BOOLEAN
         /\ FrameInv'
<1>1. /\ Len(frames) \in 1..MaxDepth /\ Top.prev = Len(frames) - 1
  BY TopFrame
<1>2. frames' = SubSeq(frames, 1, Len(frames) - 1)
  BY DEF Pop
<1>3. /\ frames' \in Seq(Frames)
      /\ Len(frames') = Len(frames) - 1
      /\ \A i \in 1..Len(frames') : frames'[i] = frames[i]
  <2>1. frames \in Seq(Frames) /\ Len(frames) - 1 \in 0..Len(frames)
    BY <1>1, ModuleAssumption DEF TypeOK
  <2> QED
    BY <1>2, <2>1, PrefixOfSeq
<1>4. context' = Len(frames') /\ Len(frames') <= MaxDepth /\ context' \in 0..MaxDepth
  BY <1>1, <1>3, ModuleAssumption DEF Pop
<1>5. exports_of' \in [0..MaxDepth -> Values]
  BY NullIsTyped DEF Pop, TypeOK
<1>6. \A i \in 1..Len(frames') : frames'[i].prev = i - 1
  BY <1>1, <1>3, ModuleAssumption DEF FrameInv
<1> QED
  BY <1>3, <1>4, <1>5, <1>6 DEF FrameInv, Pop

-----------------------------------------------------------------------------
\* The inductive step: each effect of a load, then the other actions.
LEMMA NextIInv == IInv /\ [Next]_vars => IInv'
<1> SUFFICES ASSUME IInv, [Next]_vars PROVE IInv'
  OBVIOUS
<1> USE DEF IInv
<1>1. ASSUME NEW d \in Directories, AddPath(d) \/ RemovePath(d)
      PROVE  IInv'
  <2>1. search_path_' \in Seq(Directories)
    <3>1. ASSUME NEW i \in 1..Len(search_path_), search_path_' = RemoveAt(search_path_, i)
          PROVE  search_path_' \in Seq(Directories)
      BY <3>1, RemoveAtTyped DEF TypeOK
    <3>2. CASE AddPath(d)
      BY <3>2, AppendProperties DEF AddPath, TypeOK
    <3>3. CASE RemovePath(d)
      BY <3>1, <3>3 DEF RemovePath, TypeOK
    <3> QED
      BY <1>1, <3>2, <3>3
  <2> QED
    BY <1>1, <2>1 DEF AddPath, RemovePath, TypeOK, FrameInv, RunInv
<1>2. CASE Found
  <2>1. PICK k \in Keys : LoadExisting(k)
    BY <1>2 DEF Found
  <2>2. result' \in Results
    BY <2>1, AbsentAssumption DEF LoadExisting, Return, Results, Successes, TypeOK
  <2> QED
    BY <2>1, <2>2 DEF LoadExisting, unchangedByReturn, Results, TypeOK, FrameInv, RunInv
<1>3. CASE Failed
  <2>1. PICK s \in Keys \cup Specialers, code \in Errors : Fail(s, code)
    BY <1>3 DEF Failed
  <2>2. result' \in Results
    BY <2>1, NullIsTyped DEF Fail, Return, Results
  <2> QED
    BY <2>1, <2>2 DEF Fail, unchangedByReturn, Results, TypeOK, FrameInv, RunInv
<1>4. CASE Entered
  <2>1. PICK k \in Keys, e \in Values : Enter(k, e)
    BY <1>4 DEF Entered
  <2>2. result' \in Results
    BY <2>1 DEF Enter, Return, Results, Successes
  <2>3. running_modules_' \in [Keys -> Values \cup {Absent}]
    BY <2>1 DEF Enter, TypeOK
  <2>4. RunInv'
    BY <2>1, AbsentAssumption DEF Enter, unchangedByReturn, RunInv, TypeOK, Keys
  <2> QED
    BY <2>1, <2>2, <2>3, <2>4 DEF Enter, unchangedByReturn, Results, TypeOK, FrameInv
<1>5. ASSUME NEW p \in Files, BeginSource(p)
      PROVE  IInv'
  <2>1. p \in Keys /\ <<p, "object">> \in Values
    BY KeysAreTyped, ValuesAreTyped
  <2>2. Begin(p, <<p, "object">>)
    BY <1>5 DEF BeginSource
  <2>3. /\ frames' \in Seq(Frames) /\ context' \in 0..MaxDepth
        /\ exports_of' \in [0..MaxDepth -> Values]
        /\ FrameInv'
    BY <2>1, <2>2, BeginFrame
  <2>4. running_modules_' = [running_modules_ EXCEPT ![p] = <<p, "object">>]
    BY <1>5 DEF BeginSource
  <2>5. running_modules_' \in [Keys -> Values \cup {Absent}]
    BY <2>1, <2>4 DEF TypeOK
  <2>6. RunInv' /\ runs' \in [Files -> Nat]
    <3>1. runs[p] = 0 /\ runs' = [runs EXCEPT ![p] = @ + 1]
      BY <1>5 DEF BeginSource, RunInv
    <3>2. running_modules_'[p] # Absent
      BY <2>1, <2>4, AbsentAssumption DEF TypeOK
    <3>3. \A q \in Files : q # p => running_modules_'[q] = running_modules_[q]
      BY <2>4, KeysAreTyped DEF TypeOK
    <3> QED
      BY <3>1, <3>2, <3>3 DEF RunInv, TypeOK
  <2> QED
    BY <1>5, <2>3, <2>5, <2>6 DEF BeginSource, TypeOK
<1>6. ASSUME NEW s \in Registered, BeginBuildin(s)
      PROVE  IInv'
  <2>1. s \in Keys /\ <<s, "undefined">> \in Values
    BY KeysAreTyped, ValuesAreTyped
  <2>2. Begin(s, <<s, "undefined">>)
    BY <1>6 DEF BeginBuildin
  <2>3. /\ frames' \in Seq(Frames) /\ context' \in 0..MaxDepth
        /\ exports_of' \in [0..MaxDepth -> Values]
        /\ FrameInv'
    BY <2>1, <2>2, BeginFrame
  <2> QED
    BY <1>6, <2>3 DEF BeginBuildin, TypeOK, RunInv
<1>7. CASE AssignExports
  <2>1. Top.key \in Keys /\ context \in 0..MaxDepth
    BY <1>7, TopFrame DEF AssignExports, TypeOK
  <2>2. <<Top.key, "assigned">> \in Values
    BY <2>1, ValuesAreTyped
  <2>3. exports_of' \in [0..MaxDepth -> Values]
    BY <1>7, <2>1, <2>2 DEF AssignExports, TypeOK
  <2> QED
    BY <1>7, <2>3 DEF AssignExports, TypeOK, FrameInv, RunInv
<1>8. ASSUME EndSource \/ EndBuildin
      PROVE  IInv'
  <2>1. /\ frames # <<>> /\ Top.key \in Keys /\ exports_of[context] \in Values
        /\ UNCHANGED <<search_path_, runs>>
    BY <1>8, TopFrame DEF EndSource, EndBuildin
  <2>2. PICK failed \in BOOLEAN, err \in {"error", "ecNone"}, exports \in Values :
          /\ Pop(failed)
          /\ running_modules_' \in {running_modules_,
                                    [running_modules_ EXCEPT ![Top.key] = exports]}
          /\ Return(Top.key, err, exports)
    BY <1>8, <2>1, NullIsTyped DEF EndSource, EndBuildin
  <2>3. /\ frames' \in Seq(Frames) /\ context' \in 0..MaxDepth
        /\ exports_of' \in [0..MaxDepth -> Values]
        /\ exception' \in BOOLEAN /\ FrameInv'
    BY <2>1, <2>2, PopFrame
  <2>4. running_modules_' \in [Keys -> Values \cup {Absent}]
    BY <2>1, <2>2 DEF TypeOK
  <2>5. result' \in Results
    BY <2>1, <2>2 DEF Return, Results, Successes, Errors
  <2>6. RunInv'
    BY <2>1, <2>2, KeysAreTyped, AbsentAssumption DEF RunInv, TypeOK
  <2> QED
    BY <2>1, <2>3, <2>4, <2>5, <2>6 DEF TypeOK, Results
<1>9. CASE Rethrow \/ HostClears
  BY <1>9 DEF Rethrow, HostClears, TypeOK, FrameInv, RunInv
<1>10. CASE UNCHANGED vars
  BY <1>10 DEF vars, TypeOK, FrameInv, RunInv
<1>11. ASSUME Load PROVE IInv'
  BY <1>2, <1>3, <1>4, <1>5, <1>6, <1>11, LoadEffect DEF Begun
<1> QED
  BY <1>1, <1>7, <1>8, <1>9, <1>10, <1>11 DEF Next, Load

LEMMA Inductive == Spec => []IInv
BY InitIInv, NextIInv, PTL DEF Spec

-----------------------------------------------------------------------------
\* The state of the loader keeps its type (jxx.module.h:268-402).
THEOREM TypeCorrect == Spec => []TypeOK
BY Inductive, PTL DEF IInv

\* LoadSourceModule enters a module before it runs its script, so that however
\* loads nest, also in cycles, the script of a file runs once.
THEOREM OneEvaluation == Spec => []EvaluatedOnce
<1>1. IInv => EvaluatedOnce
  BY DEF IInv, RunInv, EvaluatedOnce
<1> QED
  BY <1>1, Inductive, PTL

\* The Scope of each evaluation restores the context of its caller, whether the
\* script ends or throws.
THEOREM ContextCorrect == Spec => []ContextRestored
<1>1. IInv => ContextRestored
  BY DEF IInv, FrameInv, ContextRestored
<1> QED
  BY <1>1, Inductive, PTL

\* The exports of a module that is not being evaluated never change.
THEOREM EntriesAreFinal == Spec => LoadedIsFinal
<1>1. ASSUME IInv, [Next]_vars, NEW k \in Keys, running_modules_[k] # Absent, ~ Evaluating(k)
      PROVE  running_modules_'[k] = running_modules_[k]
  <2> USE DEF IInv
  <2>1. CASE Found \/ Failed
    BY <2>1 DEF Found, Failed, LoadExisting, Fail
  <2>2. CASE Entered
    BY <1>1, <2>2 DEF Entered, Enter, TypeOK
  <2>3. CASE Begun
    BY <1>1, <2>3 DEF Begun, BeginSource, BeginBuildin, TypeOK
  <2>4. CASE EndSource \/ EndBuildin
    <3>1. frames # <<>>
      BY <2>4 DEF EndSource, EndBuildin
    <3>2. Len(frames) \in DOMAIN frames
      BY <1>1, <3>1, TopFrame, ModuleAssumption DEF TypeOK
    <3>3. k # Top.key
      BY <1>1, <3>2 DEF Evaluating, Top
    <3>4. \E e : running_modules_' \in {running_modules_,
                                       [running_modules_ EXCEPT ![Top.key] = e]}
      BY <2>4 DEF EndSource, EndBuildin
    <3> QED
      BY <1>1, <3>3, <3>4 DEF TypeOK
  <2>5. CASE \/ \E d \in Directories : AddPath(d) \/ RemovePath(d)
             \/ AssignExports \/ Rethrow \/ HostClears \/ UNCHANGED vars
    BY <2>5 DEF AddPath, RemovePath, AssignExports, Rethrow, HostClears, vars
  <2>6. Load => Found \/ Failed \/ Entered \/ Begun
    BY LoadEffect
  <2> QED
    BY <1>1, <2>1, <2>2, <2>3, <2>4, <2>5, <2>6 DEF Next, Load
<1>2. IInv /\ [Next]_vars =>
        [\A k \in Keys : running_modules_[k] # Absent /\ ~ Evaluating(k) =>
                           running_modules_'[k] = running_modules_[k]]_vars
  BY <1>1
<1> QED
  BY <1>2, Inductive, PTL DEF Spec, LoadedIsFinal

\* A load that fails, at whichever of its steps, has entered nothing.
THEOREM FailureEntersNothing == Spec => ErrorEntersNothing
<1>1. ASSUME IInv, [Next]_vars, result' # result, result'.code \notin Successes
      PROVE  running_modules_' = running_modules_
  <2>1. CASE Found \/ Failed
    BY <2>1 DEF Found, Failed, LoadExisting, Fail
  <2>2. CASE Entered
    BY <1>1, <2>2 DEF Entered, Enter, Return, Successes
  <2>3. CASE Begun
    BY <1>1, <2>3 DEF Begun, BeginSource, BeginBuildin
  <2>4. CASE EndSource
    BY <1>1, <2>4 DEF EndSource, Return, Successes
  <2>5. CASE EndBuildin
    BY <1>1, <2>5 DEF EndBuildin, Return, Successes
  <2>6. CASE \/ \E d \in Directories : AddPath(d) \/ RemovePath(d)
             \/ AssignExports \/ Rethrow \/ HostClears \/ UNCHANGED vars
    BY <1>1, <2>6 DEF AddPath, RemovePath, AssignExports, Rethrow, HostClears, vars
  <2>7. Load => Found \/ Failed \/ Entered \/ Begun
    BY LoadEffect
  <2> QED
    BY <1>1, <2>1, <2>2, <2>3, <2>4, <2>5, <2>6, <2>7 DEF Next, Load
<1>2. IInv /\ [Next]_vars =>
        [result' # result /\ result'.code \notin Successes =>
           running_modules_' = running_modules_]_vars
  BY <1>1
<1> QED
  BY <1>2, Inductive, PTL DEF Spec, ErrorEntersNothing

\* A load that succeeds returns the exports that the table holds, which are the
\* ones every later load will return.
THEOREM SuccessIsEntry == Spec => SuccessReturnsEntry
<1>1. ASSUME IInv, [Next]_vars, result' # result, result'.code \in Successes
      PROVE  running_modules_'[result'.key] = result'.exports
  <2> USE DEF IInv
  <2>1. CASE Found
    BY <1>1, <2>1 DEF Found, LoadExisting, Return
  <2>2. CASE Failed
    BY <1>1, <2>2 DEF Failed, Fail, Return, Successes, Errors
  <2>3. CASE Entered
    BY <1>1, <2>3 DEF Entered, Enter, Return, TypeOK
  <2>4. CASE Begun
    BY <1>1, <2>4 DEF Begun, BeginSource, BeginBuildin
  <2>5. CASE EndSource \/ EndBuildin
    <3>1. Top.key \in Keys
      BY <1>1, <2>5, TopFrame DEF EndSource, EndBuildin
    <3>2. \E e : /\ running_modules_' = [running_modules_ EXCEPT ![Top.key] = e]
                /\ result'.key = Top.key /\ result'.exports = e
      BY <1>1, <2>5 DEF EndSource, EndBuildin, Return, Successes
    <3> QED
      BY <1>1, <3>1, <3>2 DEF TypeOK
  <2>6. CASE \/ \E d \in Directories : AddPath(d) \/ RemovePath(d)
             \/ AssignExports \/ Rethrow \/ HostClears \/ UNCHANGED vars
    BY <1>1, <2>6 DEF AddPath, RemovePath, AssignExports, Rethrow, HostClears, vars
  <2>7. Load => Found \/ Failed \/ Entered \/ Begun
    BY LoadEffect
  <2> QED
    BY <1>1, <2>1, <2>2, <2>3, <2>4, <2>5, <2>6, <2>7 DEF Next, Load
<1>2. IInv /\ [Next]_vars =>
        [result' # result /\ result'.code \in Successes =>
           running_modules_'[result'.key] = result'.exports]_vars
  BY <1>1
<1> QED
  BY <1>2, Inductive, PTL DEF Spec, SuccessReturnsEntry

\* What a load answers and what the table holds agree.
THEOREM AnswersTrue == Spec => AnswersAgree
  BY FailureEntersNothing, SuccessIsEntry, PTL DEF AnswersAgree

-----------------------------------------------------------------------------
(* What remains of a load, and what cycles of loads find.                  *)

\* Frames come and go with evaluations, and without them a module may only be entered.
LEMMA FramesStay ==
  ASSUME [Next]_vars
  PROVE  \/ Begun \/ EndSource \/ EndBuildin
         \/ /\ UNCHANGED frames
            /\ running_modules_' = running_modules_ \/ Entered
<1>1. CASE Found \/ Failed \/ Entered
  BY <1>1 DEF Found, Failed, Entered, LoadExisting, Fail, Enter, unchangedByReturn
<1>2. CASE \/ \E d \in Directories : AddPath(d) \/ RemovePath(d)
           \/ AssignExports \/ Rethrow \/ HostClears \/ UNCHANGED vars
  BY <1>2 DEF AddPath, RemovePath, AssignExports, Rethrow, HostClears, vars
<1>3. Load => Found \/ Failed \/ Entered \/ Begun
  BY LoadEffect
<1> QED
  BY <1>1, <1>2, <1>3 DEF Next, Load

\* An evaluation begins, of a module that is not entered; a source module is entered then.
LEMMA FrameAdded ==
  ASSUME IInv, Begun
  PROVE  \E l \in Keys :
           /\ running_modules_[l] = Absent
           /\ Len(frames) \in Nat /\ Len(frames') = Len(frames) + 1
           /\ frames'[Len(frames) + 1].key = l
           /\ \A j \in 1 .. Len(frames) : frames'[j] = frames[j]
           /\ running_modules_' = IF l \in Registered THEN running_modules_'
                                  ELSE [running_modules_ EXCEPT ![l] = <<l, "object">>]
           /\ \A k \in Keys \ {l} : running_modules_'[k] = running_modules_[k]
<1>1. PICK l, e :
        /\ l \in Keys /\ running_modules_[l] = Absent /\ Begin(l, e)
        /\ \/ running_modules_' = [running_modules_ EXCEPT ![l] = <<l, "object">>]
           \/ l \in Registered /\ running_modules_' = running_modules_
  BY KeysAreTyped DEF Begun, BeginSource, BeginBuildin
<1>2. frames \in Seq(Frames) /\ frames' = Append(frames, [key |-> l, prev |-> context])
  BY <1>1 DEF IInv, TypeOK, Begin
<1>3. /\ Len(frames) \in Nat /\ Len(frames') = Len(frames) + 1
      /\ frames'[Len(frames) + 1] = [key |-> l, prev |-> context]
      /\ \A j \in 1 .. Len(frames) : frames'[j] = frames[j]
  BY <1>2
<1> QED
  BY <1>1, <1>3 DEF IInv, TypeOK

\* The innermost evaluation ends, and enters no other module.
LEMMA FrameRemoved ==
  ASSUME IInv, EndSource \/ EndBuildin
  PROVE  /\ Len(frames) \in Nat \ {0} /\ Len(frames') = Len(frames) - 1
         /\ \A j \in 1 .. Len(frames') : frames'[j] = frames[j]
         /\ \A k \in Keys : k # frames[Len(frames)].key => running_modules_'[k] = running_modules_[k]
<1>1. frames # <<>> /\ frames \in Seq(Frames) /\ frames' = SubSeq(frames, 1, Len(frames) - 1)
  BY DEF IInv, TypeOK, EndSource, EndBuildin, Pop
<1>2. Len(frames) \in Nat \ {0} /\ Len(frames) - 1 \in 0 .. Len(frames)
  BY <1>1
<1>3. \E e : running_modules_' \in {running_modules_, [running_modules_ EXCEPT ![Top.key] = e]}
  BY DEF EndSource, EndBuildin
<1>4. /\ Len(frames') = Len(frames) - 1
      /\ \A j \in 1 .. Len(frames) - 1 : frames'[j] = frames[j]
  BY <1>1, <1>2, PrefixOfSeq
<1> QED
  BY <1>2, <1>3, <1>4 DEF IInv, TypeOK, Top

\* Who is being evaluated, by number.
LEMMA EvaluatingIs ==
  ASSUME TypeOK, NEW k
  PROVE  Evaluating(k) <=> \E j \in 1 .. Len(frames) : frames[j].key = k
  BY DEF TypeOK, Evaluating

\* Module k has been loaded, with exports v.
Settled(k, v) == running_modules_[k] = v /\ v # Absent /\ ~ Evaluating(k)

\* No step takes a module out of the table or begins its evaluation again.
LEMMA SettledStays ==
  ASSUME NEW k \in Keys, NEW v, IInv, IInv', [Next]_vars, Settled(k, v)
  PROVE  Settled(k, v)'
<1> USE DEF Settled
<1>1. ~ \E j \in 1 .. Len(frames) : frames[j].key = k
  BY EvaluatingIs DEF IInv
<1>2. Evaluating(k)' <=> \E j \in 1 .. Len(frames') : frames'[j].key = k
  BY DEF IInv, TypeOK, Evaluating
<1>3. CASE Begun
  <2>1. PICK l \in Keys :
          /\ running_modules_[l] = Absent
          /\ Len(frames) \in Nat /\ Len(frames') = Len(frames) + 1
          /\ frames'[Len(frames) + 1].key = l
          /\ \A j \in 1 .. Len(frames) : frames'[j] = frames[j]
          /\ \A m \in Keys \ {l} : running_modules_'[m] = running_modules_[m]
    BY <1>3, FrameAdded
  <2>2. k # l
    BY <2>1
  <2>3. \A j \in 1 .. Len(frames') : j \in 1 .. Len(frames) \/ j = Len(frames) + 1
    BY <2>1
  <2> QED
    BY <1>1, <1>2, <2>1, <2>2, <2>3
<1>4. CASE EndSource \/ EndBuildin
  <2>1. /\ Len(frames) \in Nat \ {0} /\ Len(frames') = Len(frames) - 1
        /\ \A j \in 1 .. Len(frames') : frames'[j] = frames[j]
        /\ \A m \in Keys : m # frames[Len(frames)].key => running_modules_'[m] = running_modules_[m]
    BY <1>4, FrameRemoved
  <2>2. Len(frames) \in 1 .. Len(frames) /\ 1 .. Len(frames') \subseteq 1 .. Len(frames)
    BY <2>1
  <2> QED
    BY <1>1, <1>2, <2>1, <2>2
<1>5. CASE UNCHANGED frames /\ (running_modules_' = running_modules_ \/ Entered)
  BY <1>1, <1>2, <1>5 DEF Entered, Enter, IInv, TypeOK
<1> QED
  BY <1>3, <1>4, <1>5, FramesStay

\* Once a module has been loaded its script, or the factory of a registered one, never
\* begins again, and its exports stay the same, whatever is loaded then and whatever fails:
\* also those of a module whose script has thrown.
THEOREM LoadedForGood ==
  ASSUME NEW k \in Keys, NEW CONSTANT v
  PROVE  Spec => [](Settled(k, v) => []Settled(k, v))
<1>1. IInv /\ IInv' /\ [Next]_vars /\ Settled(k, v) => Settled(k, v)'
  BY SettledStays
<1> QED
  BY <1>1, Inductive, PTL DEF Spec

\* The file of a source module: its path is no name of a registered one.
Sources == Files \ Registered

\* A file is evaluated once at a time, and while it is its entry is the object with which
\* its script began.
CycleInv ==
  \A j \in 1 .. Len(frames) : frames[j].key \in Sources =>
    /\ running_modules_[frames[j].key] = <<frames[j].key, "object">>
    /\ \A h \in 1 .. Len(frames) : frames[h].key = frames[j].key => h = j

\* Neither a new frame nor the end of one gives the file of another a second frame or entry.
LEMMA CycleStays ==
  ASSUME IInv, CycleInv, [Next]_vars
  PROVE  CycleInv'
<1> SUFFICES ASSUME NEW j \in 1 .. Len(frames'), frames'[j].key \in Sources
             PROVE  /\ running_modules_'[frames'[j].key] = <<frames'[j].key, "object">>
                    /\ \A h \in 1 .. Len(frames') : frames'[h].key = frames'[j].key => h = j
  BY DEF CycleInv
<1>0. Sources \subseteq Keys /\ \A k \in Keys : <<k, "object">> # Absent
  BY AbsentAssumption, ValuesAreTyped, KeysAreTyped DEF Sources
<1>1. CASE Begun
  <2>1. PICK l \in Keys :
          /\ running_modules_[l] = Absent
          /\ Len(frames) \in Nat /\ Len(frames') = Len(frames) + 1
          /\ frames'[Len(frames) + 1].key = l
          /\ \A h \in 1 .. Len(frames) : frames'[h] = frames[h]
          /\ running_modules_' = IF l \in Registered THEN running_modules_'
                                 ELSE [running_modules_ EXCEPT ![l] = <<l, "object">>]
          /\ \A m \in Keys \ {l} : running_modules_'[m] = running_modules_[m]
    BY <1>1, FrameAdded
  <2>2. \A h \in 1 .. Len(frames') : h \in 1 .. Len(frames) \/ h = Len(frames) + 1
    BY <2>1
  <2>3. \A h \in 1 .. Len(frames) : frames[h].key \in Sources => frames[h].key # l
    BY <1>0, <2>1 DEF CycleInv
  <2>4. CASE j \in 1 .. Len(frames)
    <3>1. frames'[j].key = frames[j].key /\ frames[j].key \in Keys \ {l}
      BY <1>0, <2>1, <2>3, <2>4
    <3>2. \A h \in 1 .. Len(frames') : frames'[h].key = frames[j].key => h \in 1 .. Len(frames)
      BY <2>1, <2>2, <3>1
    <3> QED
      BY <2>1, <2>4, <3>1, <3>2 DEF CycleInv
  <2>5. CASE j = Len(frames) + 1
    <3>1. l \in Sources /\ l \notin Registered
      BY <2>1, <2>5 DEF Sources
    <3>2. running_modules_'[l] = <<l, "object">>
      BY <2>1, <3>1 DEF IInv, TypeOK
    <3> QED
      BY <2>1, <2>2, <2>3, <2>5, <3>1, <3>2
  <2> QED
    BY <2>2, <2>4, <2>5
<1>2. CASE EndSource \/ EndBuildin
  <2>1. /\ Len(frames) \in Nat \ {0} /\ Len(frames') = Len(frames) - 1
        /\ \A h \in 1 .. Len(frames') : frames'[h] = frames[h]
        /\ \A m \in Keys : m # frames[Len(frames)].key => running_modules_'[m] = running_modules_[m]
    BY <1>2, FrameRemoved
  <2>2. /\ Len(frames) \in 1 .. Len(frames) /\ 1 .. Len(frames') \subseteq 1 .. Len(frames)
        /\ j # Len(frames)
    BY <2>1
  <2>3. frames'[j].key = frames[j].key /\ frames[j].key # frames[Len(frames)].key
    BY <2>1, <2>2 DEF CycleInv
  <2>4. running_modules_'[frames'[j].key] = <<frames'[j].key, "object">>
    <3> DEFINE k == frames[j].key
    <3>1. k \in Sources /\ k \in Keys /\ k # frames[Len(frames)].key
      BY <1>0, <2>3
    <3>2. running_modules_[k] = <<k, "object">>
      BY <2>2, <3>1 DEF CycleInv
    <3>3. running_modules_'[k] = running_modules_[k]
      BY <2>1, <3>1
    <3> QED
      BY <2>3, <3>2, <3>3
  <2>5. \A h \in 1 .. Len(frames') : frames'[h].key = frames'[j].key => h = j
    BY <2>1, <2>2, <2>3 DEF CycleInv
  <2> QED
    BY <2>4, <2>5
<1>3. CASE UNCHANGED frames /\ (running_modules_' = running_modules_ \/ Entered)
  <2>1. running_modules_[frames[j].key] # Absent
    BY <1>0, <1>3 DEF CycleInv
  <2>2. running_modules_'[frames[j].key] = running_modules_[frames[j].key]
    BY <1>0, <1>3, <2>1 DEF Entered, Enter, IInv, TypeOK
  <2> QED
    BY <1>3, <2>2 DEF CycleInv
<1> QED
  BY <1>1, <1>2, <1>3, FramesStay

\* What a cycle of loads gets for a file whose script is still running is the object that
\* was its exports when the script began, however often the script has replaced them since.
THEOREM CyclesFindTheFirst ==
  Spec => [](\A p \in Sources : Evaluating(p) => running_modules_[p] = <<p, "object">>)
<1>1. Init => CycleInv
  BY DEF Init, CycleInv
<1>2. IInv /\ CycleInv /\ [Next]_vars => CycleInv'
  BY CycleStays
<1>3. IInv /\ CycleInv =>
        \A p \in Sources : Evaluating(p) => running_modules_[p] = <<p, "object">>
  BY EvaluatingIs DEF IInv, CycleInv
<1> QED
  BY <1>1, <1>2, <1>3, Inductive, PTL DEF Spec
=============================================================================
