CONSTANTS
  cwd = cwd
  a = a
  d = d
  pkg = pkg
  dirpkg = dirpkg
  lostpkg = lostpkg
  numpkg = numpkg
  badpkg = badpkg
  nomain = nomain
  arraypkg = arraypkg
  data = data
  addon = addon
  fs = fs
  Malformed = Malformed
  NoString = NoString
  NoMain = NoMain
  NoObject = NoObject
  NullRef = NullRef
  Absent = Absent
  Directories = {cwd}
  Specialers = {a, d, pkg, dirpkg, lostpkg, numpkg, nomain, arraypkg, badpkg, data, addon, fs}
  Registered = {fs}
  PackageNames = {pkg, dirpkg, lostpkg, numpkg, nomain, arraypkg, badpkg}
  Default <- MCDefault
  KindOf <- MCKindOf
  Suffix <- MCSuffix
  MainOf <- MCMainOf
  Direct <- MCDirect
  MaxDepth = 2
SPECIFICATION Spec
INVARIANTS EvaluatedOnce ContextRestored
PROPERTIES LoadedIsFinal AnswersAgree
