CONSTANTS
  t1 = t1
  t2 = t2
  t3 = t3
  fs = fs
  net = net
  fsA = fsA
  fsB = fsB
  netA = netA
  Null = Null
  NoRequest = NoRequest
  NoReply = NoReply
  Threads = {t1, t2, t3}
  Names = {fs, net}
  Details = {fsA, fsB, netA}
  SpecialerOf <- MCSpecialerOf
SPECIFICATION FairSpec
INVARIANTS NoRace
PROPERTIES FirstRegistrationWins ImplementsMap LockGivenBack
