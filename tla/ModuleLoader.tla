---------------------------- MODULE ModuleLoader ----------------------------
(***************************************************************************)
(* How one runtime loads modules: the search path, the table               *)
(* running_modules_, the nested evaluation of module scripts, each in a    *)
(* context of its own, and the exception state of the engine.              *)
(*                                                                         *)
(* The runtime is single threaded, but a script that is being evaluated    *)
(* may call back into the loader at any time, so loads nest, also in       *)
(* cycles.  While an exception is recorded and not yet cleared, every call *)
(* of the engine that creates, reads or runs something fails.              *)
(***************************************************************************)
EXTENDS Naturals, Sequences, FiniteSets, SequencesExt

CONSTANTS
  Directories,  \* directories that may be in the search path
  Default,      \* the search path of a new runtime
  Specialers,   \* the names scripts ask for
  Registered,   \* the specialers ModuleRegistry has a detail for
  KindOf,       \* KindOf[p]: what the file system has at path p
  Suffix,       \* Suffix[s]: the extension of specialer s itself, with its dot
  PackageNames, \* the specialers that end in /package.json
  MainOf,       \* MainOf[p]: the path that the "main" of package file p names,
  Malformed,    \*   or that p is not JSON,
  NoObject,     \*   or JSON that is not an object,
  NoMain,       \*   or an object without a main,
  NoString,     \*   or with one that is not a string
  Direct,       \* bound: the paths a program loads itself, without LoadModule
  MaxDepth,     \* bound: loads nested in one another
  NullRef,      \* JS_INVALID_REFERENCE
  Absent        \* no entry in running_modules_

\* The candidates of a specialer: itself, .js, /index.js, /package.json, .jsxm.
Candidates == 0..4
Paths == [dir : Directories, name : Specialers, at : Candidates]
Files == {p \in Paths : KindOf[p] = "file"}
Keys == Files \cup Registered

ASSUME ModuleAssumption == MaxDepth \in Nat

ASSUME FileSystemAssumption ==
  /\ Default \in Seq(Directories)
  /\ KindOf \in [Paths -> {"none", "file", "directory"}]
  /\ Suffix \in [Specialers -> STRING]
  /\ Registered \subseteq Specialers
  /\ PackageNames \subseteq Specialers
  /\ Direct \subseteq Files
  \* Something below p means that p is a directory.
  /\ \A p \in Paths : p.at \in {2, 3} /\ KindOf[p] # "none" =>
                        KindOf[[p EXCEPT !.at = 0]] = "directory"

\* The value of an exports variable: a fresh object, what a script assigned,
\* the content of a file, parsed JSON, or undefined; or no value at all.
Values == (Keys \X {"object", "assigned", "content", "parsed", "undefined"}) \cup {NullRef}

ASSUME AbsentAssumption == Absent \notin Values

\* What a load returns; a code without the part that says what was in error.
Successes == {"ecNone", "ecHasExisted"}
Errors == {"ecIoRead", "ecBadFormat", "ecNotExists", "ecUnmatch", "error", "exception_t"}

Frames == [key : Keys, prev : 0..MaxDepth]

VARIABLES
  search_path_,      \* the directories, in the order they are searched
  running_modules_,  \* running_modules_[k]: the exports of module k, or Absent
  frames,            \* the evaluations that have begun and not ended, outermost first
  context,           \* the current context: the frame that created it, 0 for the host's
  exports_of,        \* exports_of[c]: the global variable exports of context c
  exception,         \* an exception is recorded and not cleared
  runs,              \* runs[p]: how often the script of p was run (ghost)
  result             \* what the last load returned: key, error code and exports

vars == <<search_path_, running_modules_, frames, context, exports_of, exception, runs, result>>

\* JxxRuntime's constructor fills the search path.
Init == /\ search_path_ = Default
        /\ running_modules_ = [k \in Keys |-> Absent]
        /\ frames = <<>>
        /\ context = 0
        /\ exports_of = [c \in 0..MaxDepth |-> NullRef]
        /\ exception = FALSE
        /\ runs = [p \in Files |-> 0]
        /\ result = [key |-> NullRef, code |-> "ecNone", exports |-> NullRef]

Top == frames[Len(frames)]

\* The loader is called by the host or by the script that is running, from a
\* native function that may go on after an exception was recorded.
unchangedByReturn == <<search_path_, frames, context, exports_of, exception, runs>>

Return(key, code, exports) ==
  result' = [key |-> key, code |-> code, exports |-> exports]

-----------------------------------------------------------------------------
(* PathResolver                                                            *)

InSearchPath(d) == \E i \in DOMAIN search_path_ : search_path_[i] = d

AddPath(d) ==
  /\ ~ InSearchPath(d)
  /\ search_path_' = Append(search_path_, d)
  /\ UNCHANGED <<running_modules_, frames, context, exports_of, exception, runs, result>>

RemovePath(d) ==
  /\ \E i \in DOMAIN search_path_ :
       /\ search_path_[i] = d
       /\ search_path_' = RemoveAt(search_path_, i)
  /\ UNCHANGED <<running_modules_, frames, context, exports_of, exception, runs, result>>

\* Where a candidate of s exists: position in the search path, candidate.
At(s, h) == [dir |-> search_path_[h[1]], name |-> s, at |-> h[2]]
Hits(s) == {h \in (DOMAIN search_path_) \X Candidates : KindOf[At(s, h)] # "none"}

\* ResolveEx: the first candidate in the first directory that has any; the
\* empty set if there is none.
ResolveEx(s) ==
  {At(s, h) : h \in {h \in Hits(s) :
                       \A g \in Hits(s) : h[1] < g[1] \/ (h[1] = g[1] /\ h[2] <= g[2])}}

\* resolved.extension(), which begins with the dot.
Extension(p) == CASE p.at = 0 -> Suffix[p.name]
                  [] p.at \in {1, 2} -> ".js"
                  [] p.at = 3 -> ".json"
                  [] p.at = 4 -> ".jsxm"

IsPackage(p) == p.at = 3 \/ (p.at = 0 /\ p.name \in PackageNames)

-----------------------------------------------------------------------------
(* The kinds of module.  Each function looks the key up first.             *)

LoadExisting(k) ==
  /\ running_modules_[k] # Absent
  /\ Return(k, "ecHasExisted", running_modules_[k])
  /\ UNCHANGED <<running_modules_, unchangedByReturn>>

\* Mutant: the key is not looked up.
EnterAgain(k, exports) ==
  /\ running_modules_' = [running_modules_ EXCEPT ![k] = exports]
  /\ Return(k, "ecNone", exports)
  /\ UNCHANGED unchangedByReturn

\* Enters exports for k and returns them; nothing is run.
Enter(k, exports) ==
  /\ running_modules_[k] = Absent
  /\ running_modules_' = [running_modules_ EXCEPT ![k] = exports]
  /\ Return(k, "ecNone", exports)
  /\ UNCHANGED unchangedByReturn

\* A load that fails changes nothing.
Fail(s, code) ==
  /\ Return(s, code, NullRef)
  /\ UNCHANGED <<running_modules_, unchangedByReturn>>

\* What the engine makes, unless it is in the exception state.
Made(k, what) == IF exception THEN NullRef ELSE <<k, what>>

\* A new context becomes the current one and a script is run in it.
Begin(k, exports) ==
  /\ Len(frames) < MaxDepth
  /\ frames' = Append(frames, [key |-> k, prev |-> context])
  /\ context' = Len(frames) + 1
  /\ exports_of' = [exports_of EXCEPT ![Len(frames) + 1] = exports]

\* Mutant: the module is entered only when its script has run.
BeginSourceLate(p) ==
  /\ running_modules_[p] = Absent /\ ~ exception
  /\ Begin(p, <<p, "object">>)
  /\ runs' = [runs EXCEPT ![p] = @ + 1]
  /\ UNCHANGED <<search_path_, running_modules_, exception, result>>

\* The module is entered with an empty exports object before its script runs,
\* which is what a cycle of loads will find.
BeginSource(p) ==
  /\ running_modules_[p] = Absent /\ ~ exception
  /\ running_modules_' = [running_modules_ EXCEPT ![p] = <<p, "object">>]
  /\ Begin(p, <<p, "object">>)
  /\ runs' = [runs EXCEPT ![p] = @ + 1]
  /\ UNCHANGED <<search_path_, exception, result>>

LoadSourceModule(p) ==
  \/ LoadExisting(p)
  \/ \* Just<StringView> cannot make the uri and throws a C++ exception.
     running_modules_[p] = Absent /\ exception /\ Fail(p, "exception_t")
  \/ \* _EvalSourceModule cannot create a context.
     ~ exception /\ Enter(p, NullRef)
  \/ BeginSource(p)

\* JsonParse clears the exception of a text it cannot parse.
LoadJsonModule(p) == \/ LoadExisting(p)
                     \/ Enter(p, Made(p, "parsed"))
                     \/ Enter(p, NullRef)

LoadNativeModule(p) == LoadExisting(p) \/ Enter(p, Made(p, "object"))

LoadFileAsModule(p) == LoadExisting(p) \/ Enter(p, Made(p, "content"))

\* CreateModuleInstance runs a script or a native factory in a context of its
\* own, when there can be one; the module is not entered yet.
BeginBuildin(s) ==
  /\ running_modules_[s] = Absent /\ ~ exception
  /\ Begin(s, <<s, "undefined">>)
  /\ UNCHANGED <<search_path_, running_modules_, exception, runs, result>>

LoadBuildinModule(s) ==
  \/ LoadExisting(s)
  \/ BeginBuildin(s)
  \/ Enter(s, NullRef)
  \/ running_modules_[s] = Absent /\ Fail(s, "error")

-----------------------------------------------------------------------------
(* LoadModule                                                              *)

\* The module at a path, by its extension.  "js" is never an extension.
LoadPath(p) ==
  \/ LoadExisting(p)
  \/ /\ running_modules_[p] = Absent
     /\ CASE Extension(p) \in {"js", "cjs"} -> LoadSourceModule(p)
          [] Extension(p) = "json" -> LoadJsonModule(p)
          [] Extension(p) = "jsxm" -> LoadNativeModule(p)
          [] OTHER -> LoadFileAsModule(p)

\* What is wrong with a package file, and with the path its main names.  JSON
\* that is not an object is refused by js::Object's constructor, which throws.
Refused(p, code) ==
  \/ code = "ecIoRead" /\ exception
  \/ /\ ~ exception
     /\ \/ code = "ecBadFormat" /\ MainOf[p] = Malformed
        \/ code = "exception_t" /\ MainOf[p] = NoObject
        \/ code = "ecNotExists" /\ MainOf[p] = NoMain
        \/ code = "ecUnmatch" /\ MainOf[p] = NoString
        \/ /\ MainOf[p] \in Paths
           /\ \/ code = "ecNotExists" /\ KindOf[MainOf[p]] = "none"
              \/ code = "ecUnmatch" /\ KindOf[MainOf[p]] = "directory"

\* package.json: the module its main names.
LoadPackage(s, p) ==
  \/ \E code \in Errors : Refused(p, code) /\ Fail(s, code)
  \/ ~ exception /\ MainOf[p] \in Files /\ LoadPath(MainOf[p])

LoadModule(s) ==
  \/ s \in Registered /\ LoadBuildinModule(s)
  \/ s \notin Registered /\ ResolveEx(s) = {} /\ Fail(s, "ecNotExists")
  \/ /\ s \notin Registered
     /\ \E p \in ResolveEx(s) :
          \/ KindOf[p] = "directory" /\ Fail(s, "ecUnmatch")
          \/ p \in Files /\ IsPackage(p) /\ LoadPackage(s, p)
          \/ p \in Files /\ ~ IsPackage(p) /\ LoadPath(p)

-----------------------------------------------------------------------------
(* The script of the innermost frame.                                      *)

\* It replaces its exports.
AssignExports ==
  /\ frames # <<>> /\ ~ exception
  /\ exports_of' = [exports_of EXCEPT ![context] = <<Top.key, "assigned">>]
  /\ UNCHANGED <<search_path_, running_modules_, frames, context, exception, runs, result>>

\* Mutant: the context of the caller is not restored when the script fails.
PopForgetful(failed) ==
  /\ frames' = SubSeq(frames, 1, Len(frames) - 1)
  /\ context' = IF failed THEN context ELSE Top.prev
  /\ exports_of' = [exports_of EXCEPT ![context] = NullRef]
  /\ exception' = failed

\* The Scope restores the context; a failure leaves its exception recorded.
Pop(failed) ==
  /\ frames' = SubSeq(frames, 1, Len(frames) - 1)
  /\ context' = Top.prev
  /\ exports_of' = [exports_of EXCEPT ![context] = NullRef]
  /\ exception' = failed

\* Mutant: the exports that were entered first are returned.
EndSourceStale ==
  /\ frames # <<>> /\ Top.key \in Files /\ ~ exception
  /\ \E failed \in BOOLEAN :
       LET exports == IF failed THEN NullRef ELSE exports_of[context]
       IN /\ Pop(failed)
          /\ running_modules_' = [running_modules_ EXCEPT ![Top.key] = exports]
          /\ Return(Top.key, "ecNone", running_modules_[Top.key])
  /\ UNCHANGED <<search_path_, runs>>

\* The script ends or throws; the exports of one that threw cannot be read, and
\* LoadSourceModule does not ask.
EndSource ==
  /\ frames # <<>> /\ Top.key \in Files /\ ~ exception
  /\ \E failed \in BOOLEAN :
       LET exports == IF failed THEN NullRef ELSE exports_of[context]
       IN /\ Pop(failed)
          /\ running_modules_' = [running_modules_ EXCEPT ![Top.key] = exports]
          /\ Return(Top.key, "ecNone", exports)
  /\ UNCHANGED <<search_path_, runs>>

\* CreateModuleInstance returns.  JxxLoadSourceModule has no return statement,
\* so what LoadBuildinModule takes for its error code may be anything.
EndBuildin ==
  /\ frames # <<>> /\ Top.key \in Registered /\ ~ exception
  /\ \E failed \in BOOLEAN, err \in {"error", "ecNone"} :
       LET exports == IF failed THEN NullRef ELSE exports_of[context]
       IN /\ Pop(failed)
          /\ running_modules_' = IF err = "error" THEN running_modules_
                                 ELSE [running_modules_ EXCEPT ![Top.key] = exports]
          /\ Return(Top.key, err, exports)
  /\ UNCHANGED <<search_path_, runs>>

\* The native function returns to the script that called it: the recorded
\* exception is thrown there, and the script catches it.  One that does not
\* catch it ends next.
Rethrow ==
  /\ frames # <<>> /\ exception
  /\ exception' = FALSE
  /\ UNCHANGED <<search_path_, running_modules_, frames, context, exports_of, runs, result>>

\* The host clears the exception with JsGetAndClearException.
HostClears ==
  /\ frames = <<>> /\ exception
  /\ exception' = FALSE
  /\ UNCHANGED <<search_path_, running_modules_, frames, context, exports_of, runs, result>>

-----------------------------------------------------------------------------
\* The functions a program may call with a path of its own.
LoadDirectly ==
  \E p \in Direct : \/ Extension(p) = ".js" /\ LoadSourceModule(p)
                    \/ Extension(p) = ".json" /\ LoadJsonModule(p)
                    \/ Extension(p) = ".jsxm" /\ LoadNativeModule(p)

Next == \/ \E d \in Directories : AddPath(d) \/ RemovePath(d)
        \/ \E s \in Specialers : LoadModule(s)
        \/ LoadDirectly
        \/ AssignExports \/ EndSource \/ EndBuildin
        \/ Rethrow \/ HostClears

Spec == Init /\ [][Next]_vars

-----------------------------------------------------------------------------
TypeOK == /\ search_path_ \in Seq(Directories)
          /\ running_modules_ \in [Keys -> Values \cup {Absent}]
          /\ frames \in Seq(Frames)
          /\ context \in 0..MaxDepth
          /\ exports_of \in [0..MaxDepth -> Values]
          /\ exception \in BOOLEAN
          /\ runs \in [Files -> Nat]
          /\ result \in [key : Keys \cup Specialers \cup {NullRef}, code : Successes \cup Errors,
                         exports : Values]

\* The script of a file is run at most once in a runtime, however loads of it
\* nest: a cycle finds the entry that was made before the script began.
EvaluatedOnce == \A p \in Files : runs[p] <= 1

\* Whenever code of a module runs, the current context is the one made for that
\* module, also after the loads it made inside have ended or failed; and when
\* none runs it is the host's again.
ContextRestored == context = Len(frames)

Evaluating(k) == \E i \in DOMAIN frames : frames[i].key = k

\* The exports of a loaded module never change: everyone who asks after its
\* script has ended gets the same value.
LoadedIsFinal ==
  [][\A k \in Keys : running_modules_[k] # Absent /\ ~ Evaluating(k) =>
                       running_modules_'[k] = running_modules_[k]]_vars

\* A load that returns an error, other than that the module exists, has entered
\* nothing, so that it can be tried again.
ErrorEntersNothing ==
  [][result' # result /\ result'.code \notin Successes =>
       running_modules_' = running_modules_]_vars

\* A load that succeeds returns what the table holds for the module.
SuccessReturnsEntry ==
  [][result' # result /\ result'.code \in Successes =>
       running_modules_'[result'.key] = result'.exports]_vars

\* The answer of a load and the table agree, whichever kind of module it was and
\* whichever of its steps failed (LoadModule and the functions it calls).
AnswersAgree == ErrorEntersNothing /\ SuccessReturnsEntry

\* jxx.module.h:383 says that a .js file is loaded as a source module: its
\* exports are not the text of the file.
SourceIsEvaluated ==
  \A p \in Files : Extension(p) = ".js" => running_modules_[p] # <<p, "content">>
=============================================================================
