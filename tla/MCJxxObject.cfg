CONSTANTS
  t1 = t1
  t2 = t2
  o1 = o1
  o2 = o2
  p1 = p1
  p2 = p2
  p3 = p3
  j1 = j1
  Base = Base
  Derived = Derived
  Null = Null
  Threads = {t1, t2}
  Objects = {o1, o2}
  Ptrs = {p1, p2, p3}
  JsObjects = {j1}
  Classes = {Base, Derived}
  ClassOf <- MCClassOf
  ClassesOf <- MCClassesOf
SPECIFICATION FairSpec
INVARIANTS TypeOK RefCountExact NoDangling CastSafe
PROPERTIES ImplementsOwnership UnownedIsDeleted
