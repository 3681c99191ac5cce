--------------------------- MODULE MCModuleLoader ---------------------------
(***************************************************************************)
(* Small instances of ModuleLoader.  The names are a script a.js, a        *)
(* directory d, a data file, an add-on, and packages whose main is a.js,   *)
(* the directory, a missing file, not a string or missing, or that are not *)
(* JSON or not an object; fs is built in.  An instance chooses some.       *)
(***************************************************************************)
EXTENDS ModuleLoader, TLC

CONSTANTS cwd, a, d, pkg, dirpkg, lostpkg, numpkg, nomain, arraypkg, badpkg,
          data, addon, fs

Path(dir, s, i) == [dir |-> dir, name |-> s, at |-> i]

MCDefault == <<cwd>>

MCKindOf == [p \in Paths |->
  CASE p \in {Path(cwd, a, 1), Path(cwd, d, 2), Path(cwd, addon, 4)} -> "file"
    [] p.at = 0 /\ p.name \in PackageNames \cup {data} -> "file"
    [] p = Path(cwd, d, 0) -> "directory"
    [] OTHER -> "none"]

MCSuffix == [s \in Specialers |-> IF s \in PackageNames \cup {data} THEN ".json" ELSE ""]

MCMainOf == [p \in Paths |-> CASE p.name = pkg -> Path(cwd, a, 1)
                               [] p.name = dirpkg -> Path(cwd, d, 0)
                               [] p.name = lostpkg -> Path(cwd, d, 1)
                               [] p.name = numpkg -> NoString
                               [] p.name = nomain -> NoMain
                               [] p.name = arraypkg -> NoObject
                               [] OTHER -> Malformed]

\* What a program loads by a path of its own.
MCDirect == {p \in Files : p.name \in {a, data, addon}}
=============================================================================
