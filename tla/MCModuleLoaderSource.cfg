CONSTANTS
  cwd = cwd
  a = a
  d = d
  pkg = pkg
  dirpkg = dirpkg
  lostpkg = lostpkg
  numpkg = numpkg
  badpkg = badpkg
  nomain = nomain
  arraypkg = arraypkg
  data = data
  addon = addon
  fs = fs
  Malformed = Malformed
  NoString = NoString
  NoMain = NoMain
  NoObject = NoObject
  NullRef = NullRef
  Absent = Absent
  Directories = {cwd}
  Specialers = {a, fs}
  Registered = {fs}
  PackageNames = {}
  Default <- MCDefault
  KindOf <- MCKindOf
  Suffix <- MCSuffix
  MainOf <- MCMainOf
  Direct <- MCDirect
  MaxDepth = 1
SPECIFICATION Spec
INVARIANTS SourceIsEvaluated
