-------------------------- MODULE WinRegistryProofs --------------------------
(***************************************************************************)
(* Proofs about WinRegistry for any names with any lengths, any bounds on  *)
(* how many there are, any values, and any interference.                   *)
(***************************************************************************)
EXTENDS WinRegistry, FiniteSetTheorems, SequenceTheorems, TLAPS

-----------------------------------------------------------------------------
(* The invariant of an enumeration.                                        *)

EnumType ==
  /\ db \in [Kinds -> Seq(Names)] /\ before \in [Kinds -> Seq(Names)]
  /\ visited \in [Kinds -> Seq(Names)]
  /\ count \in [Kinds -> Nat] /\ buffer \in [Kinds -> Nat]
  /\ i \in Nat /\ loop \in {"none"} \cup Kinds /\ mode \subseteq Kinds
  /\ phase \in {"idle", "loop", "callback", "done"}
  /\ added \in [Kinds -> BOOLEAN] /\ deleted \in [Kinds -> BOOLEAN]
  /\ broke \in [Kinds -> BOOLEAN]

\* How far the call is.  Until the numbers are known nothing has happened.
StageInv ==
  /\ phase = "idle" => loop = "none"
  /\ Under => loop \in Kinds
  /\ phase # "done" => result = "none"
  /\ loop = "none" => \A k \in Kinds : ~ added[k] /\ ~ deleted[k] /\ ~ broke[k]
  /\ loop # "none" => \A k \in Kinds : /\ count[k] = Len(before[k])
                                       /\ buffer[k] = BufferFor(before[k])

\* How often the function was called in each loop.
CallsInv ==
  /\ loop = "none" => visited["key"] = <<>>
  /\ loop \in {"none", "key"} => visited["value"] = <<>>
  /\ phase = "loop" => Len(visited[loop]) = i
  /\ phase = "callback" => Len(visited[loop]) = i + 1
  /\ loop # "none" => \A k \in Kinds : Len(visited[k]) <= count[k]

\* Unless names were added, those to come are not among those that were.
AheadInv ==
  \A k \in Kinds :
    /\ IsInjective(db[k])
    /\ ~ added[k] =>
         /\ IsInjective(visited[k])
         /\ \A h \in 1 .. Len(visited[k]), j \in Len(visited[k]) + 1 .. Len(db[k]) :
              visited[k][h] # db[k][j]

\* Unless names were added, those that were are the first of those at the beginning;
\* if names were deleted this is known only at the end, which then is not reached.
PrefixInv ==
  loop # "none" => \A k \in Kinds : ~ added[k] =>
    /\ ~ deleted[k] => db[k] = before[k]
    /\ deleted[k] => Len(db[k]) < count[k]
    /\ ~ deleted[k] \/ Len(visited[k]) = count[k] =>
         \A h \in 1 .. Len(visited[k]) : visited[k][h] = before[k][h]

\* A loop that is over has come to its end, unless the function broke it off.
OverInv ==
  /\ loop = "value" /\ "key" \in mode /\ ~ broke["key"] => Len(visited["key"]) = count["key"]
  /\ result = "nullptr" =>
       /\ loop = "value"
       /\ "value" \in mode /\ ~ broke["value"] => Len(visited["value"]) = count["value"]

EnumInv == /\ EnumType /\ StageInv /\ CallsInv /\ AheadInv /\ PrefixInv /\ OverInv
           /\ OnlyChangesFail

-----------------------------------------------------------------------------
(* Sequences.                                                              *)

LEMMA Removed ==
  ASSUME NEW S, NEW s \in Seq(S), NEW j \in 1 .. Len(s)
  PROVE  /\ RemoveAt(s, j) \in Seq(S) /\ Len(RemoveAt(s, j)) = Len(s) - 1
         /\ \A h \in 1 .. Len(s) - 1 : RemoveAt(s, j)[h] = IF h < j THEN s[h] ELSE s[h + 1]
<1> DEFINE x == SubSeq(s, 1, j - 1)
           y == SubSeq(s, j + 1, Len(s))
<1>0. Len(s) \in Nat /\ \A h \in 1 .. Len(s) : s[h] \in S
  BY LenProperties, ElementOfSeq
<1>1. /\ x \in Seq(S) /\ Len(x) = j - 1 /\ \A h \in 1 .. j - 1 : x[h] = s[h]
  <2>1. j - 1 \in Int /\ 1 \in Int /\ \A h \in 1 .. j - 1 : s[h] \in S
    BY <1>0
  <2>2. /\ x \in Seq(S) /\ Len(x) = IF 1 <= j - 1 THEN (j - 1) - 1 + 1 ELSE 0
        /\ \A h \in 1 .. (j - 1) - 1 + 1 : x[h] = s[1 + h - 1]
    BY <2>1, SubSeqProperties
  <2> QED
    BY <1>0, <2>2
<1>2. /\ y \in Seq(S) /\ Len(y) = Len(s) - j
      /\ \A h \in 1 .. Len(s) - j : y[h] = s[h + j]
  <2>1. j + 1 \in Int /\ Len(s) \in Int /\ \A h \in j + 1 .. Len(s) : s[h] \in S
    BY <1>0
  <2>2. /\ y \in Seq(S) /\ Len(y) = IF j + 1 <= Len(s) THEN Len(s) - (j + 1) + 1 ELSE 0
        /\ \A h \in 1 .. Len(s) - (j + 1) + 1 : y[h] = s[(j + 1) + h - 1]
    BY <2>1, SubSeqProperties
  <2> QED
    BY <1>0, <2>2
<1> HIDE DEF x, y
<1>3. /\ x \o y \in Seq(S) /\ Len(x \o y) = Len(x) + Len(y)
      /\ \A h \in 1 .. Len(x) + Len(y) : (x \o y)[h] = IF h <= Len(x) THEN x[h] ELSE y[h - Len(x)]
  BY <1>1, <1>2, ConcatProperties
<1> DEFINE t == x \o y
<1>4. t \in Seq(S) /\ Len(t) = Len(s) - 1
  BY <1>0, <1>1, <1>2, <1>3
<1>5. ASSUME NEW h \in 1 .. Len(s) - 1
      PROVE  t[h] = IF h < j THEN s[h] ELSE s[h + 1]
  <2>1. t[h] = IF h <= j - 1 THEN x[h] ELSE y[h - (j - 1)]
    BY <1>0, <1>1, <1>2, <1>3
  <2>2. CASE h < j
    BY <1>1, <2>1, <2>2
  <2>3. CASE h >= j
    <3>1. h - (j - 1) \in 1 .. Len(s) - j /\ (h - (j - 1)) + j = h + 1
      BY <1>0, <2>3
    <3> QED
      BY <1>2, <2>1, <2>3, <3>1
  <2>4. h < j \/ h >= j
    BY <1>0
  <2> QED
    BY <2>2, <2>3, <2>4
<1>6. RemoveAt(s, j) = t
  BY DEF RemoveAt, x, y
<1> HIDE DEF t
<1> QED
  BY <1>4, <1>5, <1>6

LEMMA Inserted ==
  ASSUME NEW S, NEW s \in Seq(S), NEW j \in 1 .. Len(s) + 1, NEW e \in S
  PROVE  /\ InsertAt(s, j, e) \in Seq(S) /\ Len(InsertAt(s, j, e)) = Len(s) + 1
         /\ \A h \in 1 .. Len(s) + 1 : /\ h < j => InsertAt(s, j, e)[h] = s[h]
                                       /\ h = j => InsertAt(s, j, e)[h] = e
                                       /\ h > j => InsertAt(s, j, e)[h] = s[h - 1]
<1> DEFINE x == SubSeq(s, 1, j - 1)
           y == SubSeq(s, j, Len(s))
<1>0. Len(s) \in Nat /\ \A h \in 1 .. Len(s) : s[h] \in S
  BY LenProperties, ElementOfSeq
<1>1. /\ x \in Seq(S) /\ Len(x) = j - 1 /\ \A h \in 1 .. j - 1 : x[h] = s[h]
  <2>1. j - 1 \in Int /\ 1 \in Int /\ \A h \in 1 .. j - 1 : s[h] \in S
    BY <1>0
  <2>2. /\ x \in Seq(S) /\ Len(x) = IF 1 <= j - 1 THEN (j - 1) - 1 + 1 ELSE 0
        /\ \A h \in 1 .. (j - 1) - 1 + 1 : x[h] = s[1 + h - 1]
    BY <2>1, SubSeqProperties
  <2> QED
    BY <1>0, <2>2
<1>2. /\ y \in Seq(S) /\ Len(y) = Len(s) - j + 1
      /\ \A h \in 1 .. Len(s) - j + 1 : y[h] = s[h + j - 1]
  <2>1. j \in Int /\ Len(s) \in Int /\ \A h \in j .. Len(s) : s[h] \in S
    BY <1>0
  <2>2. /\ y \in Seq(S) /\ Len(y) = IF j <= Len(s) THEN Len(s) - j + 1 ELSE 0
        /\ \A h \in 1 .. Len(s) - j + 1 : y[h] = s[j + h - 1]
    BY <2>1, SubSeqProperties
  <2> QED
    BY <1>0, <2>2
<1>3. <<e>> \in Seq(S) /\ Len(<<e>>) = 1 /\ <<e>>[1] = e
  OBVIOUS
<1> HIDE DEF x, y
<1>4. /\ x \o <<e>> \in Seq(S) /\ Len(x \o <<e>>) = j
      /\ \A h \in 1 .. j : (x \o <<e>>)[h] = IF h <= j - 1 THEN x[h] ELSE <<e>>[h - (j - 1)]
  BY <1>1, <1>3, ConcatProperties
<1>5. \A h \in 1 .. j : (x \o <<e>>)[h] = IF h < j THEN s[h] ELSE e
  BY <1>1, <1>3, <1>4
<1> DEFINE z == x \o <<e>>
<1> HIDE DEF z
<1>6. /\ z \in Seq(S) /\ Len(z) = j
      /\ \A h \in 1 .. j : z[h] = IF h < j THEN s[h] ELSE e
  BY <1>4, <1>5 DEF z
<1>7. /\ z \o y \in Seq(S) /\ Len(z \o y) = Len(z) + Len(y)
      /\ \A h \in 1 .. Len(z) + Len(y) : (z \o y)[h] = IF h <= Len(z) THEN z[h] ELSE y[h - Len(z)]
  BY <1>2, <1>6, ConcatProperties
<1> DEFINE t == z \o y
<1>8. t \in Seq(S) /\ Len(t) = Len(s) + 1
  BY <1>0, <1>2, <1>6, <1>7
<1>9. ASSUME NEW h \in 1 .. Len(s) + 1
      PROVE  /\ h < j => t[h] = s[h]
             /\ h = j => t[h] = e
             /\ h > j => t[h] = s[h - 1]
  <2>1. t[h] = IF h <= j THEN z[h] ELSE y[h - j]
    BY <1>0, <1>2, <1>6, <1>7
  <2>2. CASE h <= j
    BY <1>6, <2>1, <2>2
  <2>3. CASE h > j
    <3>1. h - j \in 1 .. Len(s) - j + 1 /\ (h - j) + j - 1 = h - 1
      BY <1>0, <2>3
    <3> QED
      BY <1>2, <2>1, <2>3, <3>1
  <2>4. h <= j \/ h > j
    BY <1>0
  <2> QED
    BY <2>2, <2>3, <2>4
<1>10. InsertAt(s, j, e) = t
  BY DEF InsertAt, x, y, z
<1> HIDE DEF t
<1> QED
  BY <1>8, <1>9, <1>10

\* No name in the list is longer than the longest.
LEMMA LongestIs ==
  ASSUME NEW s \in Seq(Names)
  PROVE  LongestOf(s) \in Nat /\ \A h \in 1 .. Len(s) : Size[s[h]] <= LongestOf(s)
<1> DEFINE T(m) == {0} \cup {Size[s[h]] : h \in 1 .. m}
           Bad == {m \in 0 .. Len(s) : ~ \E x \in T(m) : \A y \in T(m) : y <= x}
<1>0. Len(s) \in Nat /\ DOMAIN s = 1 .. Len(s) /\ \A h \in 1 .. Len(s) : Size[s[h]] \in Nat
  BY LenProperties, ElementOfSeq, EnumAssumption
<1>1. ASSUME Bad # {} PROVE FALSE
  <2>1. Bad \in SUBSET Nat
    BY <1>0
  <2>2. PICK m \in Bad : \A k \in Bad : ~ (<<k, m>> \in OpToRel(<, Nat))
    BY <1>1, <2>1, NatLessThanWellFounded, WFMin
  <2>3. m \in 0 .. Len(s) /\ \A k \in Bad : ~ (k < m)
    BY <1>0, <2>1, <2>2 DEF OpToRel
  <2> HIDE DEF Bad
  <2>4. m # 0
    <3>1. T(0) = {0}
      OBVIOUS
    <3>2. \E x \in T(0) : \A y \in T(0) : y <= x
      BY <3>1
    <3>3. 0 \notin Bad
      BY <3>2 DEF Bad
    <3> QED
      BY <2>2, <3>3
  <2>5. m - 1 \in 0 .. Len(s) /\ m - 1 \notin Bad /\ m \in 1 .. Len(s)
    BY <1>0, <2>3, <2>4
  <2>6. PICK x \in T(m - 1) : \A y \in T(m - 1) : y <= x
    BY <2>5 DEF Bad
  <2>7. T(m) = T(m - 1) \cup {Size[s[m]]} /\ Size[s[m]] \in Nat /\ T(m - 1) \subseteq Nat
    BY <1>0, <2>5
  <2> HIDE DEF T
  <2>8. \E y \in T(m) : \A z \in T(m) : z <= y
    <3>1. CASE Size[s[m]] <= x
      BY <2>6, <2>7, <3>1
    <3>2. CASE ~ (Size[s[m]] <= x)
      BY <2>6, <2>7, <3>2
    <3> QED
      BY <3>1, <3>2
  <2> QED
    BY <2>2, <2>8 DEF Bad, T
<1>2. LongestOf(s) = Max(T(Len(s))) /\ T(Len(s)) \subseteq Nat
  <2>1. {Size[n] : n \in ToSet(s)} = {Size[s[h]] : h \in 1 .. Len(s)}
    <3>1. ToSet(s) = {s[h] : h \in 1 .. Len(s)}
      BY <1>0 DEF ToSet
    <3> QED
      BY <3>1
  <2>2. {0} \cup {Size[n] : n \in ToSet(s)} = T(Len(s))
    BY <2>1
  <2>3. LongestOf(s) = Max(T(Len(s)))
    BY <2>2 DEF LongestOf
  <2>4. T(Len(s)) \subseteq Nat
    BY <1>0
  <2> QED
    BY <2>3, <2>4
<1>3. \A h \in 1 .. Len(s) : Size[s[h]] \in T(Len(s))
  OBVIOUS
<1> HIDE DEF T
<1>4. \E x \in T(Len(s)) : \A y \in T(Len(s)) : y <= x
  <2>1. Len(s) \in 0 .. Len(s) /\ Len(s) \notin Bad
    BY <1>0, <1>1
  <2> QED
    BY <2>1
<1>5. Max(T(Len(s))) \in T(Len(s)) /\ \A y \in T(Len(s)) : Max(T(Len(s))) >= y
  <2>1. \E x \in T(Len(s)) : \A y \in T(Len(s)) : x >= y
    BY <1>2, <1>4
  <2> QED
    BY <2>1 DEF Max
<1> QED
  BY <1>2, <1>3, <1>5

-----------------------------------------------------------------------------
(* Each step keeps the invariant.                                          *)

\* What is left alone stays true.
LEMMA EnumKept == EnumInv /\ UNCHANGED vars => EnumInv'
<1> SUFFICES ASSUME EnumInv, UNCHANGED vars PROVE EnumInv'
  OBVIOUS
<1>1. /\ db' = db /\ mode' = mode /\ loop' = loop /\ count' = count /\ buffer' = buffer
      /\ phase' = phase /\ i' = i /\ result' = result /\ before' = before /\ broke' = broke
      /\ visited' = visited /\ added' = added /\ deleted' = deleted
  BY DEF vars, callVars, ghostVars
<1> QED
  BY <1>1 DEF EnumInv, EnumType, StageInv, Under, CallsInv, AheadInv, PrefixInv, OverInv,
              OnlyChangesFail

\* A name is added: of this kind nothing more is said.
LEMMA AddKeeps ==
  ASSUME EnumInv, NEW k \in Kinds, NEW j \in 1 .. Len(db[k]) + 1, NEW n \in Names, Add(k, j, n)
  PROVE  EnumInv'
<1> DEFINE t == InsertAt(db[k], j, n)
<1>1. /\ db' = [db EXCEPT ![k] = t] /\ added' = [added EXCEPT ![k] = TRUE]
      /\ Under /\ \A h \in DOMAIN db[k] : db[k][h] # n
      /\ UNCHANGED <<mode, loop, count, buffer, phase, i, result, before, broke, visited, deleted>>
  BY DEF Add, callVars, ghostVars
<1>2. /\ db[k] \in Seq(Names) /\ Len(db[k]) \in Nat /\ DOMAIN db[k] = 1 .. Len(db[k])
      /\ IsInjective(db[k])
  BY LenProperties DEF EnumInv, EnumType, AheadInv
<1>3. /\ t \in Seq(Names) /\ Len(t) = Len(db[k]) + 1
      /\ \A h \in 1 .. Len(db[k]) + 1 : /\ h < j => t[h] = db[k][h]
                                        /\ h = j => t[h] = n
                                        /\ h > j => t[h] = db[k][h - 1]
  <2>1. \A q \in Seq(Names) : \A m \in 1 .. Len(q) + 1 : InsertAt(q, m, n) \in Seq(Names)
    BY Inserted
  <2>2. \A q \in Seq(Names) : \A m \in 1 .. Len(q) + 1 : Len(InsertAt(q, m, n)) = Len(q) + 1
    BY Inserted
  <2>3. \A q \in Seq(Names) : \A m \in 1 .. Len(q) + 1 : \A h \in 1 .. Len(q) + 1 :
             h < m => InsertAt(q, m, n)[h] = q[h]
    BY Inserted
  <2>4. \A q \in Seq(Names) : \A m \in 1 .. Len(q) + 1 : \A h \in 1 .. Len(q) + 1 :
             h = m => InsertAt(q, m, n)[h] = n
    BY Inserted
  <2>5. \A q \in Seq(Names) : \A m \in 1 .. Len(q) + 1 : \A h \in 1 .. Len(q) + 1 :
             h > m => InsertAt(q, m, n)[h] = q[h - 1]
    BY Inserted
  <2> QED
    BY <1>2, <2>1, <2>2, <2>3, <2>4, <2>5
<1> HIDE DEF t
<1>4. IsInjective(t)
  <2> SUFFICES ASSUME NEW g \in 1 .. Len(t), NEW h \in 1 .. Len(t), g < h PROVE t[g] # t[h]
    <3>1. DOMAIN t = 1 .. Len(t)
      BY <1>3, LenProperties
    <3> QED
      BY <1>2, <1>3, <3>1 DEF IsInjective
  <2>1. \A x, y \in 1 .. Len(db[k]) : x # y => db[k][x] # db[k][y]
    BY <1>2 DEF IsInjective
  <2>2. \A x \in 1 .. Len(db[k]) : db[k][x] # n
    BY <1>1, <1>2
  <2>3. CASE h < j
    BY <1>2, <1>3, <2>1, <2>3
  <2>4. CASE h = j
    BY <1>2, <1>3, <2>2, <2>4
  <2>5. CASE h > j
    <3>1. t[h] = db[k][h - 1] /\ h - 1 \in 1 .. Len(db[k])
      BY <1>2, <1>3, <2>5
    <3>2. CASE g < j
      <4>1. t[g] = db[k][g] /\ g \in 1 .. Len(db[k]) /\ g # h - 1
        BY <1>2, <1>3, <2>5, <3>2
      <4> QED
        BY <2>1, <3>1, <4>1
    <3>3. CASE g = j
      BY <1>2, <1>3, <2>2, <3>1, <3>3
    <3>4. CASE g > j
      <4>1. t[g] = db[k][g - 1] /\ g - 1 \in 1 .. Len(db[k]) /\ g - 1 # h - 1
        BY <1>2, <1>3, <3>4
      <4> QED
        BY <2>1, <3>1, <4>1
    <3>5. g < j \/ g = j \/ g > j
      BY <1>2, <1>3
    <3> QED
      BY <3>2, <3>3, <3>4, <3>5
  <2>6. h < j \/ h = j \/ h > j
    BY <1>2, <1>3
  <2> QED
    BY <2>3, <2>4, <2>5, <2>6
<1>5. /\ db' \in [Kinds -> Seq(Names)] /\ db'[k] = t /\ added'[k]
      /\ \A q \in Kinds : q # k => db'[q] = db[q] /\ (added'[q] <=> added[q])
      /\ added' \in [Kinds -> BOOLEAN]
  BY <1>1, <1>3 DEF EnumInv, EnumType
<1>6. EnumType' /\ StageInv' /\ CallsInv' /\ OverInv' /\ OnlyChangesFail'
  <2>1. loop # "none" /\ result = "none"
    BY <1>1 DEF Under, EnumInv, StageInv, Kinds
  <2> QED
    BY <1>1, <1>5, <2>1
       DEF EnumInv, EnumType, StageInv, Under, CallsInv, OverInv, OnlyChangesFail
<1>7. AheadInv'
  BY <1>1, <1>4, <1>5 DEF EnumInv, AheadInv
<1>8. PrefixInv'
  BY <1>1, <1>5 DEF EnumInv, PrefixInv
<1> QED
  BY <1>6, <1>7, <1>8 DEF EnumInv

\* A name is deleted: those behind it move down, but not among those that were.
LEMMA DeleteKeeps ==
  ASSUME EnumInv, NEW k \in Kinds, NEW j \in 1 .. Len(db[k]), Delete(k, j)
  PROVE  EnumInv'
<1> DEFINE t == RemoveAt(db[k], j)
<1>1. /\ db' = [db EXCEPT ![k] = t] /\ deleted' = [deleted EXCEPT ![k] = TRUE] /\ Under
      /\ UNCHANGED <<mode, loop, count, buffer, phase, i, result, before, broke, visited, added>>
  BY DEF Delete, callVars, ghostVars
<1>2. /\ db[k] \in Seq(Names) /\ Len(db[k]) \in Nat /\ DOMAIN db[k] = 1 .. Len(db[k])
      /\ IsInjective(db[k]) /\ Len(visited[k]) \in Nat
  BY LenProperties DEF EnumInv, EnumType, AheadInv
<1>3. /\ t \in Seq(Names) /\ Len(t) = Len(db[k]) - 1
      /\ \A h \in 1 .. Len(db[k]) - 1 : t[h] = IF h < j THEN db[k][h] ELSE db[k][h + 1]
  BY <1>2, Removed
<1> HIDE DEF t
<1>4. IsInjective(t)
  <2> SUFFICES ASSUME NEW g \in 1 .. Len(t), NEW h \in 1 .. Len(t), g < h PROVE t[g] # t[h]
    <3>1. DOMAIN t = 1 .. Len(t)
      BY <1>3, LenProperties
    <3> QED
      BY <1>2, <1>3, <3>1 DEF IsInjective
  <2>1. \A x, y \in 1 .. Len(db[k]) : x # y => db[k][x] # db[k][y]
    BY <1>2 DEF IsInjective
  <2>2. CASE h < j
    <3>1. g \in 1 .. Len(db[k]) - 1 /\ h \in 1 .. Len(db[k]) - 1 /\ g < j
      BY <1>2, <1>3, <2>2
    <3>2. t[g] = db[k][g] /\ t[h] = db[k][h]
      BY <1>3, <2>2, <3>1
    <3>3. g \in 1 .. Len(db[k]) /\ h \in 1 .. Len(db[k])
      BY <1>2, <3>1
    <3> QED
      BY <2>1, <3>2, <3>3
  <2>3. CASE h >= j
    <3>1. t[h] = db[k][h + 1] /\ h + 1 \in 1 .. Len(db[k])
      BY <1>2, <1>3, <2>3
    <3>2. t[g] \in {db[k][g], db[k][g + 1]} /\ g \in 1 .. Len(db[k]) /\ g + 1 \in 1 .. Len(db[k])
      BY <1>2, <1>3
    <3>3. g # h + 1 /\ g + 1 # h + 1
      OBVIOUS
    <3> QED
      BY <2>1, <3>1, <3>2, <3>3
  <2>4. h < j \/ h >= j
    BY <1>2, <1>3
  <2> QED
    BY <2>2, <2>3, <2>4
<1>5. /\ db' \in [Kinds -> Seq(Names)] /\ db'[k] = t /\ deleted'[k]
      /\ \A q \in Kinds : q # k => db'[q] = db[q] /\ (deleted'[q] <=> deleted[q])
      /\ deleted' \in [Kinds -> BOOLEAN]
  BY <1>1, <1>3 DEF EnumInv, EnumType
<1>6. loop # "none" /\ result = "none"
  BY <1>1 DEF Under, EnumInv, StageInv, Kinds
<1>7. EnumType' /\ StageInv' /\ CallsInv' /\ OverInv' /\ OnlyChangesFail'
  BY <1>1, <1>5, <1>6
     DEF EnumInv, EnumType, StageInv, Under, CallsInv, OverInv, OnlyChangesFail
<1>8. AheadInv'
  <2>1. ASSUME ~ added[k], NEW h \in 1 .. Len(visited[k]), NEW g \in Len(visited[k]) + 1 .. Len(t)
        PROVE  visited[k][h] # t[g]
    <3>1. \A x \in Len(visited[k]) + 1 .. Len(db[k]) : visited[k][h] # db[k][x]
      BY <2>1 DEF EnumInv, AheadInv
    <3>2. /\ g \in Len(visited[k]) + 1 .. Len(db[k]) /\ g + 1 \in Len(visited[k]) + 1 .. Len(db[k])
          /\ t[g] \in {db[k][g], db[k][g + 1]}
      BY <1>2, <1>3
    <3> QED
      BY <3>1, <3>2
  <2>2. \A q \in Kinds : IsInjective(db'[q])
    BY <1>4, <1>5 DEF EnumInv, AheadInv
  <2>3. ASSUME NEW q \in Kinds, ~ added[q], NEW h \in 1 .. Len(visited[q]),
               NEW g \in Len(visited[q]) + 1 .. Len(db'[q])
        PROVE  visited[q][h] # db'[q][g]
    <3>1. CASE q = k
      BY <1>5, <2>1, <2>3, <3>1
    <3>2. CASE q # k
      <4>1. db'[q] = db[q]
        BY <1>5, <3>2
      <4> QED
        BY <2>3, <4>1 DEF EnumInv, AheadInv
    <3> QED
      BY <3>1, <3>2
  <2>4. \A q \in Kinds : ~ added[q] => IsInjective(visited[q])
    BY DEF EnumInv, AheadInv
  <2> QED
    BY <1>1, <2>2, <2>3, <2>4 DEF AheadInv
<1>9. PrefixInv'
  <2>1. ASSUME ~ added[k]
        PROVE  /\ Len(t) < count[k]
               /\ Len(visited[k]) = count[k] =>
                    \A h \in 1 .. Len(visited[k]) : visited[k][h] = before[k][h]
    <3>1. /\ ~ deleted[k] => db[k] = before[k]
          /\ deleted[k] => Len(db[k]) < count[k]
          /\ ~ deleted[k] \/ Len(visited[k]) = count[k] =>
                  \A h \in 1 .. Len(visited[k]) : visited[k][h] = before[k][h]
      BY <1>6, <2>1 DEF EnumInv, PrefixInv
    <3>2. count[k] = Len(before[k]) /\ count[k] \in Nat
      BY <1>6 DEF EnumInv, EnumType, StageInv
    <3>3. Len(t) < count[k]
      BY <1>2, <1>3, <3>1, <3>2
    <3> QED
      BY <3>1, <3>3
  <2> QED
    BY <1>1, <1>5, <1>6, <2>1 DEF EnumInv, PrefixInv
<1> QED
  BY <1>7, <1>8, <1>9 DEF EnumInv

\* The numbers are asked for: nothing has happened before.
LEMMA InfoKeeps ==
  ASSUME EnumInv, NEW m \in SUBSET Kinds, RegQueryInfoKey(m)
  PROVE  EnumInv'
<1>1. /\ phase = "idle" /\ mode' = m /\ phase' = "loop" /\ loop' = "key" /\ i' = 0
      /\ count' = [k \in Kinds |-> Len(db[k])] /\ buffer' = [k \in Kinds |-> BufferFor(db[k])]
      /\ before' = db /\ UNCHANGED <<db, result, broke, visited, added, deleted>>
  BY DEF RegQueryInfoKey
<1>2. loop = "none" /\ visited = [k \in Kinds |-> <<>>] /\ result = "none"
  BY <1>1 DEF EnumInv, EnumType, StageInv, CallsInv, Kinds
<1>3. \A k \in Kinds : Len(db[k]) \in Nat /\ BufferFor(db[k]) \in Nat
  <2> SUFFICES ASSUME NEW k \in Kinds PROVE Len(db[k]) \in Nat /\ BufferFor(db[k]) \in Nat
    OBVIOUS
  <2>1. db[k] \in Seq(Names)
    BY DEF EnumInv, EnumType
  <2>2. LongestOf(db[k]) \in Nat
    BY <2>1, LongestIs
  <2> QED
    BY <2>1, <2>2, LenProperties DEF BufferFor
<1>4. EnumType' /\ StageInv'
  BY <1>1, <1>2, <1>3 DEF EnumInv, EnumType, StageInv, Under, Kinds
<1>5. CallsInv' /\ OverInv' /\ OnlyChangesFail'
  BY <1>1, <1>2, <1>3 DEF CallsInv, OverInv, OnlyChangesFail, Kinds
<1>6. AheadInv'
  BY <1>1 DEF EnumInv, AheadInv
<1>7. PrefixInv'
  BY <1>1, <1>2 DEF EnumInv, StageInv, PrefixInv, Kinds
<1> QED
  BY <1>4, <1>5, <1>6, <1>7 DEF EnumInv

\* The i-th name does not answer only if the names are not those that were counted.
LEMMA NoAnswer ==
  ASSUME EnumInv, InLoop, ~ Answers
  PROVE  added[loop] \/ deleted[loop]
<1> SUFFICES ASSUME ~ added[loop], ~ deleted[loop] PROVE Answers
  OBVIOUS
<1>1. loop \in Kinds /\ i < count[loop] /\ i \in Nat /\ db[loop] \in Seq(Names)
  BY DEF InLoop, EnumInv, EnumType
<1>2. loop # "none"
  BY <1>1 DEF Kinds
<1>3. db[loop] = before[loop] /\ count[loop] = Len(db[loop]) /\ buffer[loop] = BufferFor(db[loop])
  BY <1>1, <1>2 DEF EnumInv, StageInv, PrefixInv
<1>4. i + 1 \in 1 .. Len(db[loop])
  BY <1>1, <1>3, LenProperties
<1>5. Size[db[loop][i + 1]] <= LongestOf(db[loop]) /\ LongestOf(db[loop]) \in Nat
  BY <1>1, <1>4, LongestIs
<1>6. Size[db[loop][i + 1]] \in Nat
  BY <1>1, <1>4, ElementOfSeq, EnumAssumption
<1> QED
  BY <1>1, <1>3, <1>5, <1>6 DEF Answers, BufferFor

\* The call ends with an exception.
LEMMA FailKeeps == EnumInv /\ (InfoFails \/ EnumFails \/ JustThrows) => EnumInv'
<1> SUFFICES ASSUME EnumInv, InfoFails \/ EnumFails \/ JustThrows PROVE EnumInv'
  OBVIOUS
<1>1. /\ phase' = "done" /\ result' \in {"ErrorSyscall", "exception_t"}
      /\ UNCHANGED <<db, mode, loop, count, buffer, i, before, broke, visited, added, deleted>>
  BY DEF InfoFails, EnumFails, JustThrows, End, callVars, ghostVars
<1>2. OnlyChangesFail'
  <2>1. CASE InfoFails
    BY <1>1, <2>1 DEF InfoFails, EnumInv, StageInv, OnlyChangesFail
  <2>2. CASE EnumFails
    BY <1>1, <2>2, NoAnswer DEF EnumFails, OnlyChangesFail
  <2>3. CASE JustThrows
    BY <2>3 DEF JustThrows, End, OnlyChangesFail
  <2> QED
    BY <2>1, <2>2, <2>3
<1>3. EnumType' /\ StageInv' /\ CallsInv'
  BY <1>1 DEF EnumInv, EnumType, StageInv, Under, CallsInv
<1>4. AheadInv' /\ PrefixInv' /\ OverInv'
  BY <1>1 DEF EnumInv, AheadInv, PrefixInv, OverInv
<1> QED
  BY <1>2, <1>3, <1>4 DEF EnumInv

\* The function is called with a name: it is none of those that were.
LEMMA CallKeeps == EnumInv /\ CallFunction => EnumInv'
<1> SUFFICES ASSUME EnumInv, CallFunction PROVE EnumInv'
  OBVIOUS
<1> DEFINE n == db[loop][i + 1]
           w == visited[loop]
           v == Append(w, n)
<1>1. /\ phase = "loop" /\ loop \in Kinds /\ i < count[loop] /\ i < Len(db[loop])
      /\ phase' = "callback" /\ visited' = [visited EXCEPT ![loop] = v]
      /\ UNCHANGED <<db, mode, loop, count, buffer, i, result, before, broke, added, deleted>>
  BY DEF CallFunction, InLoop, Answers, callVars, ghostVars, EnumInv, EnumType
<1>2. /\ loop # "none" /\ i \in Nat /\ count[loop] \in Nat /\ db[loop] \in Seq(Names)
      /\ w \in Seq(Names) /\ Len(w) = i /\ result = "none"
      /\ Len(db[loop]) \in Nat /\ DOMAIN db[loop] = 1 .. Len(db[loop]) /\ DOMAIN w = 1 .. i
  BY <1>1, LenProperties DEF EnumInv, EnumType, StageInv, CallsInv, Kinds
<1>3. i + 1 \in 1 .. Len(db[loop]) /\ n \in Names
  BY <1>1, <1>2, ElementOfSeq
<1>4. /\ v \in Seq(Names) /\ Len(v) = i + 1 /\ v[i + 1] = n
      /\ \A h \in 1 .. i : v[h] = w[h]
  BY <1>2, <1>3, AppendProperties
<1> HIDE DEF v
<1>5. /\ visited' \in [Kinds -> Seq(Names)] /\ visited'[loop] = v
      /\ \A k \in Kinds : k # loop => visited'[k] = visited[k]
  BY <1>1, <1>4 DEF EnumInv, EnumType
<1>6. EnumType' /\ StageInv'
  BY <1>1, <1>2, <1>5 DEF EnumInv, EnumType, StageInv, Under
<1>7. CallsInv'
  <2>1. \A k \in Kinds : Len(visited'[k]) <= count[k]
    BY <1>1, <1>2, <1>4, <1>5 DEF EnumInv, CallsInv
  <2>2. loop = "key" => visited'["value"] = <<>>
    BY <1>5 DEF EnumInv, CallsInv, Kinds
  <2> QED
    BY <1>1, <1>2, <1>4, <1>5, <2>1, <2>2 DEF CallsInv
<1>8. AheadInv'
  <2>1. \A k \in Kinds : IsInjective(db'[k])
    BY <1>1 DEF EnumInv, AheadInv
  <2>2. ASSUME NEW k \in Kinds, ~ added[k]
        PROVE  /\ IsInjective(visited'[k])
               /\ \A h \in 1 .. Len(visited'[k]), j \in Len(visited'[k]) + 1 .. Len(db[k]) :
                    visited'[k][h] # db[k][j]
    <3>1. CASE k # loop
      BY <1>5, <2>2, <3>1 DEF EnumInv, AheadInv
    <3>2. CASE k = loop
      <4>1. /\ \A x, y \in 1 .. i : w[x] = w[y] => x = y
            /\ \A h \in 1 .. i, j \in i + 1 .. Len(db[loop]) : w[h] # db[loop][j]
            /\ \A x, y \in 1 .. Len(db[loop]) : db[loop][x] = db[loop][y] => x = y
        BY <1>1, <1>2, <2>2, <3>2 DEF EnumInv, AheadInv, IsInjective
      <4>2. \A h \in 1 .. i : w[h] # n
        BY <1>2, <1>3, <4>1
      <4>3. \A h \in 1 .. i + 1 : h \in 1 .. i \/ h = i + 1
        BY <1>2
      <4>4. \A x, y \in 1 .. i + 1 : v[x] = v[y] => x = y
        BY <1>4, <4>1, <4>2, <4>3
      <4>5. IsInjective(v)
        BY <1>4, <4>4, LenProperties DEF IsInjective
      <4>6. ASSUME NEW h \in 1 .. i + 1, NEW j \in (i + 1) + 1 .. Len(db[loop])
            PROVE  v[h] # db[loop][j]
        <5>1. j \in i + 1 .. Len(db[loop]) /\ j \in 1 .. Len(db[loop]) /\ j # i + 1
          BY <1>2
        <5> QED
          BY <1>3, <1>4, <4>1, <4>3, <5>1
      <4> QED
        BY <1>4, <1>5, <3>2, <4>5, <4>6
    <3> QED
      BY <3>1, <3>2
  <2> QED
    BY <1>1, <2>1, <2>2 DEF AheadInv
<1>9. PrefixInv'
  <2>1. ASSUME NEW k \in Kinds, ~ added[k]
        PROVE  /\ ~ deleted[k] => db[k] = before[k]
               /\ deleted[k] => Len(db[k]) < count[k]
               /\ ~ deleted[k] \/ Len(visited'[k]) = count[k] =>
                    \A h \in 1 .. Len(visited'[k]) : visited'[k][h] = before[k][h]
    <3>1. /\ ~ deleted[k] => db[k] = before[k]
          /\ deleted[k] => Len(db[k]) < count[k]
          /\ ~ deleted[k] \/ Len(visited[k]) = count[k] =>
               \A h \in 1 .. Len(visited[k]) : visited[k][h] = before[k][h]
      BY <1>2, <2>1 DEF EnumInv, PrefixInv
    <3>2. CASE k # loop
      BY <1>5, <3>1, <3>2
    <3>3. CASE k = loop /\ deleted[k]
      BY <1>1, <1>2, <1>4, <1>5, <3>1, <3>3
    <3>4. CASE k = loop /\ ~ deleted[k]
      <4>1. \A h \in 1 .. i + 1 : h \in 1 .. i \/ h = i + 1
        BY <1>2
      <4>2. \A h \in 1 .. i + 1 : v[h] = before[k][h]
        BY <1>2, <1>4, <3>1, <3>4, <4>1
      <4> QED
        BY <1>4, <1>5, <3>1, <3>4, <4>2
    <3> QED
      BY <3>2, <3>3, <3>4
  <2> QED
    BY <1>1, <2>1 DEF PrefixInv
<1>10. OverInv' /\ OnlyChangesFail'
  BY <1>1, <1>2, <1>5 DEF EnumInv, OverInv, OnlyChangesFail, Kinds
<1> QED
  BY <1>6, <1>7, <1>8, <1>9, <1>10 DEF EnumInv

\* The function returns false, or throws.
LEMMA ReturnKeeps ==
  ASSUME EnumInv, NEW throws \in BOOLEAN, ReturnsFalse(throws)
  PROVE  EnumInv'
<1>1. /\ phase = "callback" /\ phase' = "loop" /\ i' = i + 1 /\ UNCHANGED <<db, mode, loop, count>>
      /\ UNCHANGED <<buffer, result, before, broke, visited, added, deleted>>
  BY DEF ReturnsFalse, callVars, ghostVars
<1>2. EnumType'
  BY <1>1 DEF EnumInv, EnumType
<1>3. StageInv'
  BY <1>1 DEF EnumInv, StageInv, Under
<1>4. CallsInv'
  BY <1>1 DEF EnumInv, CallsInv
<1>5. AheadInv' /\ PrefixInv' /\ OverInv' /\ OnlyChangesFail'
  BY <1>1 DEF EnumInv, AheadInv, PrefixInv, OverInv, OnlyChangesFail
<1> QED
  BY <1>2, <1>3, <1>4, <1>5 DEF EnumInv

\* A loop is over: it has come to its end, or the function has broken it off.
LEMMA OverKeeps == EnumInv /\ (Break \/ KeysEnd \/ ValuesEnd) => EnumInv'
<1> SUFFICES ASSUME EnumInv, Break \/ KeysEnd \/ ValuesEnd PROVE EnumInv'
  OBVIOUS
<1>1. UNCHANGED <<db, mode, count, buffer, before, visited, added, deleted>>
  BY DEF Break, KeysEnd, ValuesEnd, End, callVars, ghostVars
<1>2. /\ Under /\ loop \in Kinds /\ loop # "none" /\ result = "none"
      /\ \A k \in Kinds : (broke[k] => broke'[k]) /\ (k # loop => (broke'[k] <=> broke[k]))
      /\ broke' \in [Kinds -> BOOLEAN]
      /\ \/ loop = "key" /\ loop' = "value" /\ phase' = "loop" /\ i' = 0 /\ result' = "none"
         \/ loop = "value" /\ loop' = "value" /\ phase' = "done" /\ i' = i /\ result' = "nullptr"
  BY DEF Break, KeysEnd, ValuesEnd, End, callVars, ghostVars, EnumInv, EnumType, StageInv, Under, Kinds
<1>3. loop \in mode /\ ~ broke'[loop] => Len(visited[loop]) = count[loop]
  <2>1. CASE Break
    BY <1>2, <2>1 DEF Break, EnumInv, EnumType
  <2>2. CASE KeysEnd \/ ValuesEnd
    <3>1. phase = "loop" /\ ~ InLoop
      BY <2>2 DEF KeysEnd, ValuesEnd
    <3>2. Len(visited[loop]) = i /\ i <= count[loop] /\ i \in Nat /\ count[loop] \in Nat
      BY <1>2, <3>1 DEF EnumInv, EnumType, CallsInv
    <3> QED
      BY <3>1, <3>2 DEF InLoop
  <2> QED
    BY <2>1, <2>2
<1>4. EnumType' /\ StageInv' /\ CallsInv'
  BY <1>1, <1>2 DEF EnumInv, EnumType, StageInv, Under, CallsInv, Kinds
<1>5. AheadInv' /\ PrefixInv' /\ OnlyChangesFail'
  BY <1>1, <1>2 DEF EnumInv, AheadInv, PrefixInv, OnlyChangesFail
<1>6. OverInv'
  BY <1>1, <1>2, <1>3 DEF EnumInv, OverInv, Kinds
<1> QED
  BY <1>4, <1>5, <1>6 DEF EnumInv

LEMMA EnumStep == EnumInv /\ [Next]_vars => EnumInv'
<1> SUFFICES ASSUME EnumInv, [Next]_vars PROVE EnumInv'
  OBVIOUS
<1>1. CASE UNCHANGED vars
  BY <1>1, EnumKept
<1>2. ASSUME NEW k \in Kinds, NEW j \in 1 .. Len(db[k]) + 1, NEW n \in Names, Add(k, j, n)
      PROVE  EnumInv'
  BY <1>2, AddKeeps
<1>3. ASSUME NEW k \in Kinds, NEW j \in 1 .. Len(db[k]), Delete(k, j)
      PROVE  EnumInv'
  BY <1>3, DeleteKeeps
<1>4. CASE InfoFails \/ EnumFails \/ JustThrows
  BY <1>4, FailKeeps
<1>5. ASSUME NEW m \in SUBSET Kinds, RegQueryInfoKey(m)
      PROVE  EnumInv'
  BY <1>5, InfoKeeps
<1>6. CASE CallFunction
  BY <1>6, CallKeeps
<1>7. ASSUME NEW throws \in BOOLEAN, ReturnsFalse(throws)
      PROVE  EnumInv'
  BY <1>7, ReturnKeeps
<1>8. CASE Break \/ KeysEnd \/ ValuesEnd
  BY <1>8, OverKeeps
<1> QED
  BY <1>1, <1>2, <1>3, <1>4, <1>5, <1>6, <1>7, <1>8 DEF Next

LEMMA EnumBegins == Init => EnumInv
<1> SUFFICES ASSUME Init PROVE EnumInv
  OBVIOUS
<1>1. \A k \in Kinds : db[k] \in Seq(Names) /\ IsInjective(db[k])
  <2> SUFFICES ASSUME NEW k \in Kinds PROVE db[k] \in Seq(Names) /\ IsInjective(db[k])
    OBVIOUS
  <2>1. db[k] \in BoundedSeq(Names, MaxNames[k]) /\ IsInjective(db[k])
    BY DEF Init, Lists
  <2>2. PICK m \in 0 .. MaxNames[k] : db[k] \in [1 .. m -> Names]
    BY <2>1 DEF BoundedSeq, SeqOf
  <2>3. m \in Nat
    BY EnumAssumption, <2>2
  <2> QED
    BY <2>1, <2>2, <2>3
<1>2. db \in [Kinds -> Seq(Names)]
  BY <1>1 DEF Init
<1>3. <<>> \in Seq(Names) /\ Len(<<>>) = 0 /\ IsInjective(<<>>)
  BY DEF IsInjective
<1>4. EnumType /\ StageInv /\ CallsInv
  BY <1>2, <1>3 DEF Init, Both, EnumType, StageInv, Under, CallsInv, Kinds
<1>5. AheadInv
  BY <1>1, <1>3 DEF Init, Both, AheadInv
<1>6. PrefixInv /\ OverInv /\ OnlyChangesFail
  BY DEF Init, PrefixInv, OverInv, OnlyChangesFail
<1> QED
  BY <1>4, <1>5, <1>6 DEF EnumInv

-----------------------------------------------------------------------------
(* The invariant of a query.                                               *)

QueryInv == /\ value \in Query!Values \cup {Nothing}
            /\ asked # "done" => answered = "none"
            /\ AnswerIsExact

LEMMA QueryBegins == CallInit => QueryInv
BY DEF CallInit, Query!Init, QueryInv, AnswerIsExact, Query!AnswerIsExact

\* A number less than a modulus is its own remainder.
LEMMA Remainder == \A d, n \in Nat : d < n => d % n = d
OBVIOUS

\* Only a number itself is as near to it as it is.
LEMMA Nearest == \A x, d \in Nat : Query!Distance(x, d) <= Query!Distance(d, d) => x = d
BY DEF Query!Distance

\* What the registry holds has as many contents as its size allows.
LEMMA ValueShape ==
  ASSUME NEW v \in Query!Values
  PROVE  /\ v.type \in Query!Types /\ v.size \in 0 .. Wrap - 1 /\ Contents[v.size] \in Nat
         /\ v.data \in Nat /\ v.data < Contents[v.size]
<1>1. PICK n \in 0 .. MaxSize : v \in Query!OfSize(n)
  BY DEF Query!Values
<1>2. Contents[n] \in Nat /\ n \in 0 .. Wrap - 1
  BY <1>1, QueryConstants DEF Query!QueryAssumption
<1> QED
  BY <1>1, <1>2 DEF Query!OfSize

\* The answer is made of what is read.
LEMMA ReadKeeps == QueryInv /\ Query!Read => QueryInv'
<1> SUFFICES ASSUME QueryInv, Query!Read PROVE QueryInv'
  OBVIOUS
<1>1. /\ value # Nothing /\ answer' \in Query!Made(value) /\ read' = value
      /\ value.size <= cbData /\ UNCHANGED <<value, dwType, cbData>>
      /\ asked' = "done" /\ dwType \notin {"REG_MULTI_SZ", "REG_NONE"}
  BY DEF Query!Read, Query!Reads, Query!End
<1>2. /\ value \in Query!Values /\ value.type \in Query!Types
      /\ value.size \in 0 .. Wrap - 1 /\ Contents[value.size] \in Nat
      /\ value.data \in Nat /\ value.data < Contents[value.size]
  BY <1>1, ValueShape DEF QueryInv
<1>3. /\ Wrap \in Nat /\ DwordSize \in 0 .. Wrap - 1 /\ QwordSize \in 0 .. Wrap - 1
      /\ \A n \in 0 .. Wrap - 1 : Contents[n] \in Nat
      /\ \A m, n \in 0 .. Wrap - 1 : m <= n => Contents[m] <= Contents[n]
      /\ Doubles \in SUBSET Nat
  BY QueryConstants DEF Query!QueryAssumption
<1>4. CASE dwType \in Query!Dwords
  <2>1. answer' = [kind |-> "number", size |-> 1,
                   data |-> Query!AsInt(Query!Low(value, DwordSize))]
    BY <1>1, <1>4 DEF Query!Made, Query!Dwords
  <2>2. ASSUME value.size <= DwordSize
        PROVE  Query!IsIntOf(answer'.data, value.data)
    <3>1. value.data < Contents[DwordSize] /\ Contents[DwordSize] \in Nat
      BY <1>2, <1>3, <2>2
    <3>2. answer'.data = Query!AsInt(value.data)
      BY <2>1, <2>2 DEF Query!Low
    <3> QED
      BY <1>2, <3>1, <3>2 DEF Query!IsIntOf, Query!AsInt
  <2> QED
    BY <1>1, <1>4, <2>1, <2>2 DEF QueryInv, AnswerIsExact, Query!AnswerIsExact, Query!IsIntOf
<1>5. CASE dwType = "REG_QWORD"
  <2>1. /\ answer'.kind = "number"
        /\ answer'.data \in Query!AsDouble(Query!Low(value, QwordSize))
    BY <1>1, <1>5 DEF Query!Made, Query!Dwords
  <2>2. ASSUME value.size <= QwordSize, value.data \in Doubles
        PROVE  answer'.data = value.data
    <3>1. /\ answer'.data \in Doubles
          /\ Query!Distance(answer'.data, value.data) <= Query!Distance(value.data, value.data)
      BY <2>1, <2>2 DEF Query!Low, Query!AsDouble
    <3> QED
      BY <1>2, <1>3, <3>1, Nearest
  <2> QED
    BY <1>1, <1>5, <2>1, <2>2 DEF QueryInv, AnswerIsExact, Query!AnswerIsExact
<1>6. CASE dwType = "REG_BINARY"
  <2>1. answer' = [kind |-> "buffer", size |-> cbData, data |-> value.data]
    BY <1>1, <1>6 DEF Query!Made, Query!Dwords
  <2> QED
    BY <1>1, <1>6, <2>1 DEF QueryInv, AnswerIsExact, Query!AnswerIsExact
<1>7. CASE dwType = "REG_SZ"
  <2>1. answer' = Query!String(value) /\ answer'.kind = "string"
    BY <1>1, <1>7 DEF Query!Made, Query!Dwords, Query!String
  <2>2. ASSUME Query!Terminated(value)
        PROVE  answer'.size = value.size - 1 /\ answer'.data = value.data
    <3>1. value.size - 1 \in 0 .. Wrap - 1 /\ value.data < Contents[value.size - 1]
      BY <1>2, <1>3, <2>2 DEF Query!Terminated
    <3>2. (value.size - 1) % Wrap = value.size - 1
      BY <1>3, <3>1, Remainder
    <3>3. value.data % Contents[value.size - 1] = value.data
      BY <1>2, <1>3, <3>1, Remainder
    <3> QED
      BY <2>1, <3>2, <3>3 DEF Query!String, Query!Low
  <2> QED
    BY <1>1, <1>7, <2>1, <2>2 DEF QueryInv, AnswerIsExact, Query!AnswerIsExact, Query!Terminated
<1>8. CASE value.type # dwType
  BY <1>1, <1>8 DEF QueryInv, AnswerIsExact, Query!AnswerIsExact
<1> QED
  BY <1>1, <1>2, <1>4, <1>5, <1>6, <1>7, <1>8 DEF Query!Types, Query!Numbers

LEMMA QueryStep == QueryInv /\ (Query!Next \/ UNCHANGED queryVars) => QueryInv'
<1> SUFFICES ASSUME QueryInv, Query!Next \/ UNCHANGED queryVars PROVE QueryInv'
  OBVIOUS
<1>1. CASE UNCHANGED queryVars
  BY <1>1 DEF queryVars, QueryInv, AnswerIsExact, Query!AnswerIsExact
<1>2. ASSUME NEW v \in Query!Values \cup {Nothing}, Query!Write(v)
      PROVE  QueryInv'
  BY <1>2 DEF Query!Write, QueryInv, AnswerIsExact, Query!AnswerIsExact
<1>3. CASE Query!Ask
  BY <1>3 DEF Query!Ask, QueryInv, AnswerIsExact, Query!AnswerIsExact
<1>4. CASE Query!Read
  BY <1>4, ReadKeeps
<1>5. ASSUME NEW r, r # "answer", Query!EndWithout(r)
      PROVE  QueryInv'
  BY <1>5 DEF Query!EndWithout, Query!End, QueryInv, AnswerIsExact, Query!AnswerIsExact
<1>6. CASE Query!AskFails \/ Query!Overruns \/ Query!ReadEmpty \/ Query!ReadFails
             \/ Query!JustThrows \/ Query!AllocFails \/ Query!ReadStrings \/ Query!ReadNothing
  BY <1>5, <1>6 DEF Query!AskFails, Query!Overruns, Query!ReadEmpty, Query!ReadFails,
                    Query!JustThrows, Query!AllocFails, Query!ReadStrings, Query!ReadNothing
<1> QED
  BY <1>1, <1>2, <1>3, <1>4, <1>6 DEF Query!Next

-----------------------------------------------------------------------------
(* Both together.                                                          *)

CallInv == EnumInv /\ QueryInv

LEMMA Invariance == CallSpec => []CallInv
<1>1. CallInit => CallInv
  BY EnumBegins, QueryBegins DEF CallInit, CallInv
<1>2. CallInv /\ [CallNext]_<<vars, queryVars, called>> => CallInv'
  BY EnumStep, QueryStep DEF CallNext, CallInv
<1> QED
  BY <1>1, <1>2, PTL DEF CallSpec

\* Every variable of an enumeration keeps its type (_RegEnumKey).
THEOREM TypeCorrect == CallSpec => []EnumType
<1>1. CallInv => EnumType
  BY DEF CallInv, EnumInv
<1> QED
  BY <1>1, Invariance, PTL

\* While no name is added the function is called with no name twice, whoever
\* deletes names (_RegEnumKey).
THEOREM NamesOnce == CallSpec => []NoNameTwice
<1>1. CallInv => NoNameTwice
  BY DEF CallInv, EnumInv, AheadInv, NoNameTwice
<1> QED
  BY <1>1, Invariance, PTL

\* A call that returns has gone through the names there were, unless a name was
\* added or the function broke it off (_RegEnumKey).
THEOREM CompleteCalls == CallSpec => []CompleteIsExact
<1>1. CallInv => CompleteIsExact
  <2> SUFFICES ASSUME CallInv, result = "nullptr", NEW k \in mode, ~ broke[k], ~ added[k]
               PROVE  visited[k] = before[k]
    BY DEF CompleteIsExact
  <2>1. k \in Kinds /\ loop = "value" /\ loop # "none"
    BY DEF CallInv, EnumInv, EnumType, OverInv
  <2>2. Len(visited[k]) = count[k] /\ count[k] = Len(before[k])
    BY <2>1 DEF CallInv, EnumInv, StageInv, OverInv, Kinds
  <2>3. \A h \in 1 .. Len(visited[k]) : visited[k][h] = before[k][h]
    BY <2>1, <2>2 DEF CallInv, EnumInv, PrefixInv
  <2>4. visited[k] \in Seq(Names) /\ before[k] \in Seq(Names)
    BY <2>1 DEF CallInv, EnumInv, EnumType
  <2> QED
    BY <2>2, <2>3, <2>4, SeqEqual
<1> QED
  BY <1>1, Invariance, PTL

\* An enumeration fails in the registry only if names came or went (_RegEnumKey).
THEOREM FailuresAreChanges == CallSpec => []OnlyChangesFail
<1>1. CallInv => OnlyChangesFail
  BY DEF CallInv, EnumInv
<1> QED
  BY <1>1, Invariance, PTL

\* What a query answers is made of all the bytes that it read, whatever is written
\* between its two calls, for any widths, contents and doubles; not for a string
\* without terminator or a number longer than its variable (_RegQueryValue).
THEOREM AnswersAreExact == CallSpec => []AnswerIsExact
<1>1. CallInv => AnswerIsExact
  BY DEF CallInv, QueryInv
<1> QED
  BY <1>1, Invariance, PTL

-----------------------------------------------------------------------------
(* _RegEnumKey ends.                                                       *)

\* The calls of the function are bounded by the names that there were at first.
CallsAreBounded == loop # "none" => \A k \in Kinds : Len(visited[k]) <= Len(before[k])

\* The function is called at most as often as there were names when the enumeration
\* began, also when every call of it adds more names to the key (_RegEnumKey).
THEOREM CallsBounded == CallSpec => []CallsAreBounded
<1>1. CallInv => CallsAreBounded
  BY DEF CallInv, EnumInv, CallsInv, StageInv, CallsAreBounded
<1> QED
  BY <1>1, Invariance, PTL

\* How many steps an enumeration has left once it has got its numbers: of each name two,
\* and the end of each loop.
LoopSteps(k) == 2 * (count[k] - i) - (IF phase = "callback" THEN 1 ELSE 0)
StepsLeft == CASE ~ Under -> 0
               [] Under /\ loop = "key" -> LoopSteps("key") + 2 * count["value"] + 2
               [] OTHER -> LoopSteps("value") + 1

\* Others write something.
Write == \E k \in Kinds : \/ \E j \in 1 .. Len(db[k]) + 1, n \in Names : Add(k, j, n)
                         \/ \E j \in 1 .. Len(db[k]) : Delete(k, j)

\* Every step of an enumeration brings it nearer to its end, and no write of others, nor of
\* the function that it calls, sets it back: with the numbers that it got at first it takes at
\* most two steps for each name and one for the end of each loop (_RegEnumKey).
THEOREM EnumerationEnds ==
  CallSpec => [][Under => /\ StepsLeft \in Nat
                          /\ \/ StepsLeft' < StepsLeft
                             \/ StepsLeft' = StepsLeft /\ Write]_vars
<1>1. ASSUME EnumInv, Under
      PROVE  /\ StepsLeft \in Nat /\ count \in [Kinds -> Nat] /\ i \in Nat
             /\ loop \in Kinds /\ Kinds = {"key", "value"}
             /\ phase = "loop" => i <= count[loop]
             /\ phase = "callback" => i + 1 <= count[loop]
  <2>1. /\ count \in [Kinds -> Nat] /\ i \in Nat /\ loop \in Kinds /\ Kinds = {"key", "value"}
        /\ count["key"] \in Nat /\ count["value"] \in Nat
    BY <1>1 DEF EnumInv, EnumType, StageInv, Kinds
  <2>2. /\ phase = "loop" => i <= count[loop]
        /\ phase = "callback" => i + 1 <= count[loop]
    BY <1>1, <2>1 DEF EnumInv, CallsInv, Kinds
  <2>3. StepsLeft \in Nat
    BY <1>1, <2>1, <2>2 DEF StepsLeft, LoopSteps, Under
  <2> QED
    BY <2>1, <2>2, <2>3
<1>2. ASSUME EnumInv, Next, Under
      PROVE  StepsLeft' < StepsLeft \/ (StepsLeft' = StepsLeft /\ Write)
  <2>0. /\ StepsLeft \in Nat /\ count["key"] \in Nat /\ count["value"] \in Nat /\ i \in Nat
        /\ loop \in {"key", "value"}
        /\ phase = "loop" => i <= count[loop]
        /\ phase = "callback" => i + 1 <= count[loop]
    BY <1>1, <1>2
  <2>1. CASE Write
    <3>1. UNCHANGED <<callVars, phase, i>>
      BY <2>1 DEF Write, Add, Delete
    <3>2. StepsLeft' = StepsLeft
      BY <3>1 DEF StepsLeft, LoopSteps, Under, callVars
    <3> QED
      BY <2>1, <3>2
  <2>2. CASE EnumFails \/ JustThrows
    <3>1. ~ Under' /\ Under
      BY <1>2, <2>2 DEF EnumFails, JustThrows, End, Under
    <3>2. StepsLeft' = 0 /\ StepsLeft > 0
      BY <2>0, <3>1 DEF StepsLeft, LoopSteps, Under
    <3> QED
      BY <3>2
  <2>3. CASE CallFunction
    <3>1. /\ phase = "loop" /\ phase' = "callback" /\ i < count[loop]
          /\ UNCHANGED <<loop, count, i>>
      BY <2>3 DEF CallFunction, InLoop, callVars
    <3> QED
      BY <2>0, <3>1 DEF StepsLeft, LoopSteps, Under
  <2>4. CASE \E throws \in BOOLEAN : ReturnsFalse(throws)
    BY <2>0, <2>4 DEF ReturnsFalse, StepsLeft, LoopSteps, Under, callVars
  <2>5. CASE Break
    BY <2>0, <2>5 DEF Break, StepsLeft, LoopSteps, Under
  <2>6. CASE KeysEnd
    BY <2>0, <2>6 DEF KeysEnd, StepsLeft, LoopSteps, Under
  <2>7. CASE ValuesEnd
    BY <2>0, <2>7 DEF ValuesEnd, End, StepsLeft, LoopSteps, Under
  <2>8. ~ InfoFails /\ ~ \E m \in SUBSET Kinds : RegQueryInfoKey(m)
    BY <1>2 DEF InfoFails, RegQueryInfoKey, Under
  <2> QED
    BY <1>2, <2>1, <2>2, <2>3, <2>4, <2>5, <2>6, <2>7, <2>8 DEF Next, Write
<1>3. CallInv /\ [CallNext]_<<vars, queryVars, called>> =>
        [Under => /\ StepsLeft \in Nat
                  /\ \/ StepsLeft' < StepsLeft
                     \/ StepsLeft' = StepsLeft /\ Write]_vars
  BY <1>1, <1>2 DEF CallNext, CallInv
<1> QED
  BY <1>3, Invariance, PTL DEF CallSpec
=============================================================================
