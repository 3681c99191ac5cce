-------------------------- MODULE ClassMixinProofs --------------------------
(***************************************************************************)
(* Proofs about ClassMixin for any hierarchy of classes, any exports, any  *)
(* objects and any set of faults.                                          *)
(***************************************************************************)
EXTENDS ClassMixin, Integers, SequenceTheorems, FiniteSetTheorems, WellFoundedInduction, TLAPS

Calls == [clsid : Classes, at : Nat \ {0}]

\* The number at which a call of a mixin for class c is at its end.
EndOf(o, c) == Len(Parents[c]) + Len(Entries(o, c)) + 1

\* In calls s, each but the innermost waits for the one of its parent.
Chained(o, s) ==
  /\ \A k \in 1 .. Len(s) : s[k].at <= EndOf(o, s[k].clsid)
  /\ \A k \in 1 .. Len(s) - 1 : /\ s[k].at <= Len(Parents[s[k].clsid])
                                /\ s[k + 1].clsid = Parents[s[k].clsid][s[k].at]

\* What the k-th of calls s has said of n.
SaidBy(o, s, k, n) == Said(o, s[k].clsid, s[k].at, n)

\* The object has of each name what the innermost call said that said anything.
Shows(o, s, p) ==
  \A k \in 1 .. Len(s), n \in Names :
    SaidBy(o, s, k, n) # Nobody /\ (\A l \in k + 1 .. Len(s) : SaidBy(o, s, l, n) = Nobody)
      => p[n] = SaidBy(o, s, k, n)

StackInv == /\ stack # <<>> => mixed = stack[1].clsid
            /\ Chained(options, stack)

ShowsInv == ~ lost => Shows(options, stack, props)

\* A function that a mixin made has the class id of its owner.
OwnData == \A n \in Names : props[n] # Nobody => props[n].clsid = props[n].owner

IInv == TypeOK /\ RunsOnItsClass /\ OwnData /\ StackInv /\ ShowsInv /\ MixinInherits

-----------------------------------------------------------------------------
(* The constants.                                                          *)

LEMMA EntriesType ==
  ASSUME NEW o \in Options, NEW c \in Classes
  PROVE  /\ Parents[c] \in Seq(Classes)
         /\ Entries(o, c) \in Seq(Exported({"method", "function"}))
<1> DEFINE E == Exported({"method", "function"})
<1>1. Exported({"method"}) \subseteq E /\ Exported({"function"}) \subseteq E
  BY DEF Exported
<1>2. Methods[c] \in Seq(Exported({"method"})) /\ Functions[c] \in Seq(Exported({"function"}))
  BY ClassAssumption
<1>3. Methods[c] \in Seq(E)
  BY <1>1, <1>2, SeqMonotonic
<1>4. Functions[c] \in Seq(E)
  BY <1>1, <1>2, SeqMonotonic
<1>5. <<>> \in Seq(E)
  BY EmptySeq
<1> HIDE DEF E
<1>6. \A s, t \in Seq(E) : s \o t \in Seq(E)
  BY ConcatProperties
<1>7. Entries(o, c) \in Seq(E)
  BY <1>3, <1>4, <1>5, <1>6 DEF Entries
<1> QED
  BY <1>7, ClassAssumption DEF E

LEMMA EndOfType ==
  ASSUME NEW o \in Options, NEW c \in Classes
  PROVE  /\ Len(Parents[c]) \in Nat /\ Len(Entries(o, c)) \in Nat
         /\ DOMAIN Parents[c] = 1 .. Len(Parents[c])
         /\ DOMAIN Entries(o, c) = 1 .. Len(Entries(o, c))
         /\ EndOf(o, c) \in Nat
         /\ EndOf(o, c) = Len(Parents[c]) + Len(Entries(o, c)) + 1
BY EntriesType, LenProperties DEF EndOf

LEMMA LastIs ==
  ASSUME NEW S \in SUBSET Int, NEW m \in S, \A j \in S : j <= m
  PROVE  Last(S) = m
<1>1. \A i \in S : (\A j \in S : j <= i) => i = m
  OBVIOUS
<1> QED
  BY <1>1 DEF Last

-----------------------------------------------------------------------------
(* What a call says, step by step.                                         *)

LEMMA SaidStart ==
  ASSUME NEW o \in Options, NEW c \in Classes, NEW n \in Names
  PROVE  Said(o, c, 1, n) = Nobody
<1>1. {i \in DOMAIN Entries(o, c) : Len(Parents[c]) + i < 1 /\ Entries(o, c)[i].name = n} = {}
  BY EndOfType
<1>2. {j \in DOMAIN Parents[c] : j < 1 /\ Winner[o][Parents[c][j]][n] # Nobody} = {}
  BY EndOfType
<1> QED
  BY <1>1, <1>2 DEF Said

LEMMA SaidParent ==
  ASSUME NEW o \in Options, NEW c \in Classes, NEW n \in Names,
         NEW at \in 1 .. Len(Parents[c])
  PROVE  LET w == Winner[o][Parents[c][at]][n]
         IN Said(o, c, at + 1, n) = IF w # Nobody THEN w ELSE Said(o, c, at, n)
<1> DEFINE own(a) == {i \in DOMAIN Entries(o, c) : Len(Parents[c]) + i < a /\ Entries(o, c)[i].name = n}
           inh(a) == {j \in DOMAIN Parents[c] : j < a /\ Winner[o][Parents[c][j]][n] # Nobody}
           w == Winner[o][Parents[c][at]][n]
<1>1. own(at) = {} /\ own(at + 1) = {}
  BY EndOfType
<1>2. \A a : own(a) = {} => Said(o, c, a, n) = IF inh(a) # {} THEN Winner[o][Parents[c][Last(inh(a))]][n]
                                                            ELSE Nobody
  BY DEF Said
<1>3. CASE w = Nobody
  <2>1. inh(at + 1) = inh(at)
    BY <1>3, EndOfType
  <2> QED
    BY <1>1, <1>2, <1>3, <2>1
<1>4. CASE w # Nobody
  <2>1. at \in inh(at + 1) /\ inh(at + 1) \in SUBSET Int /\ \A j \in inh(at + 1) : j <= at
    BY <1>4, EndOfType
  <2> HIDE DEF inh
  <2>2. Last(inh(at + 1)) = at
    BY <2>1, LastIs
  <2> QED
    BY <1>1, <1>2, <1>4, <2>1, <2>2
<1> QED
  BY <1>3, <1>4

LEMMA SaidEntry ==
  ASSUME NEW o \in Options, NEW c \in Classes, NEW n \in Names,
         NEW i \in 1 .. Len(Entries(o, c))
  PROVE  LET at == Len(Parents[c]) + i
             x == Entries(o, c)[i]
         IN Said(o, c, at + 1, n) = IF x.name = n THEN Native(c, x) ELSE Said(o, c, at, n)
<1> DEFINE own(a) == {h \in DOMAIN Entries(o, c) : Len(Parents[c]) + h < a /\ Entries(o, c)[h].name = n}
           inh(a) == {j \in DOMAIN Parents[c] : j < a /\ Winner[o][Parents[c][j]][n] # Nobody}
           at == Len(Parents[c]) + i
           x == Entries(o, c)[i]
<1>1. at \in Nat /\ i \in DOMAIN Entries(o, c)
  BY EndOfType
<1>2. \A a : Said(o, c, a, n) = IF own(a) # {} THEN Native(c, Entries(o, c)[Last(own(a))])
                                ELSE IF inh(a) # {} THEN Winner[o][Parents[c][Last(inh(a))]][n]
                                ELSE Nobody
  BY DEF Said, Native
<1>3. CASE x.name = n
  <2>1. i \in own(at + 1) /\ own(at + 1) \in SUBSET Int /\ \A j \in own(at + 1) : j <= i
    BY <1>1, <1>3, EndOfType
  <2> HIDE DEF own
  <2>2. Last(own(at + 1)) = i
    BY <2>1, LastIs
  <2> QED
    BY <1>2, <1>3, <2>1, <2>2
<1>4. CASE x.name # n
  <2>1. own(at + 1) = own(at)
    BY <1>1, <1>4, EndOfType
  <2>2. inh(at + 1) = inh(at)
    BY <1>1, EndOfType
  <2> QED
    BY <1>2, <1>4, <2>1, <2>2
<1> QED
  BY <1>3, <1>4

LEMMA SaidEnd ==
  ASSUME NEW o \in Options, NEW c \in Classes, NEW n \in Names
  PROVE  Said(o, c, EndOf(o, c), n) = Winner[o][c][n]
BY WinnerAssumption DEF EndOf

-----------------------------------------------------------------------------
(* The calls, as sequences.                                                *)

LEMMA AdvanceType ==
  ASSUME NEW s \in Seq(Calls), s # <<>>
  PROVE  LET t == Advance(s) IN
         /\ t \in Seq(Calls) /\ Len(t) = Len(s) /\ t # <<>>
         /\ t[Len(s)].clsid = s[Len(s)].clsid /\ t[Len(s)].at = s[Len(s)].at + 1
         /\ \A k \in 1 .. Len(s) - 1 : t[k] = s[k]
<1> DEFINE e == [s[Len(s)] EXCEPT !.at = @ + 1]
<1>1. Len(s) \in Nat \ {0} /\ Len(s) \in 1 .. Len(s)
  BY EmptySeq
<1>2. s[Len(s)] \in Calls
  BY <1>1, ElementOfSeq
<1>3. e \in Calls /\ e.clsid = s[Len(s)].clsid /\ e.at = s[Len(s)].at + 1
  BY <1>2 DEF Calls
<1>4. Advance(s) = [s EXCEPT ![Len(s)] = e]
  BY DEF Advance
<1> HIDE DEF e
<1>5. /\ [s EXCEPT ![Len(s)] = e] \in Seq(Calls)
      /\ Len([s EXCEPT ![Len(s)] = e]) = Len(s)
      /\ \A j \in 1 .. Len(s) : [s EXCEPT ![Len(s)] = e][j] = IF j = Len(s) THEN e ELSE s[j]
  BY <1>1, <1>3, ExceptSeq
<1> DEFINE t == Advance(s)
<1>6. /\ t \in Seq(Calls) /\ Len(t) = Len(s)
      /\ \A j \in 1 .. Len(s) : t[j] = IF j = Len(s) THEN e ELSE s[j]
  BY <1>4, <1>5
<1> HIDE DEF t
<1>7. t # <<>>
  BY <1>1, <1>6, EmptySeq
<1>8. t[Len(s)].clsid = s[Len(s)].clsid /\ t[Len(s)].at = s[Len(s)].at + 1
  BY <1>1, <1>3, <1>6
<1>9. \A k \in 1 .. Len(s) - 1 : t[k] = s[k]
  BY <1>1, <1>6
<1> QED
  BY <1>6, <1>7, <1>8, <1>9 DEF t

LEMMA OuterType ==
  ASSUME NEW s \in Seq(Calls), s # <<>>
  PROVE  LET t == SubSeq(s, 1, Len(s) - 1) IN
         /\ t \in Seq(Calls) /\ Len(t) = Len(s) - 1
         /\ t = <<>> <=> Len(s) = 1
         /\ \A k \in 1 .. Len(s) - 1 : t[k] = s[k]
<1> DEFINE t == SubSeq(s, 1, Len(s) - 1)
<1>1. Len(s) \in Nat /\ Len(s) >= 1
  <2>1. Len(s) \in Nat /\ Len(s) # 0
    BY EmptySeq
  <2> QED
    BY <2>1
<1>2. \A i \in 1 .. Len(s) - 1 : s[i] \in Calls
  BY <1>1, ElementOfSeq
<1>3. /\ t \in Seq(Calls)
      /\ Len(t) = IF 1 <= Len(s) - 1 THEN (Len(s) - 1) - 1 + 1 ELSE 0
      /\ \A i \in 1 .. (Len(s) - 1) - 1 + 1 : t[i] = s[1 + i - 1]
  BY <1>1, <1>2, SubSeqProperties
<1> HIDE DEF t
<1>4. Len(t) = Len(s) - 1 /\ \A i \in 1 .. Len(s) - 1 : t[i] = s[i]
  <2>1. Len(t) = Len(s) - 1
    <3>1. Len(t) = IF 1 <= Len(s) - 1 THEN (Len(s) - 1) - 1 + 1 ELSE 0
      BY <1>3
    <3>2. \A n \in Nat : n >= 1 => (IF 1 <= n - 1 THEN (n - 1) - 1 + 1 ELSE 0) = n - 1
      OBVIOUS
    <3> QED
      BY <1>1, <3>1, <3>2
  <2>2. ASSUME NEW i \in 1 .. Len(s) - 1
        PROVE  t[i] = s[i]
    <3>1. i \in 1 .. (Len(s) - 1) - 1 + 1 /\ 1 + i - 1 = i
      BY <1>1
    <3>2. t[i] = s[1 + i - 1]
      BY <1>3, <3>1
    <3> QED
      BY <3>1, <3>2
  <2> QED
    BY <2>1, <2>2
<1>5. t = <<>> <=> Len(t) = 0
  BY <1>3, EmptySeq
<1>6. t \in Seq(Calls) /\ Len(t) = Len(s) - 1 /\ (t = <<>> <=> Len(s) = 1)
      /\ \A k \in 1 .. Len(s) - 1 : t[k] = s[k]
  BY <1>1, <1>3, <1>4, <1>5
<1> QED
  BY <1>6 DEF t

\* A parent's mixin starts.
LEMMA DescendShows ==
  ASSUME NEW o \in Options, NEW p, NEW s \in Seq(Calls), s # <<>>,
         Chained(o, s),
         s[Len(s)].at <= Len(Parents[s[Len(s)].clsid])
  PROVE  LET c == Parents[s[Len(s)].clsid][s[Len(s)].at]
             t == Append(s, [clsid |-> c, at |-> 1])
         IN /\ t \in Seq(Calls) /\ t # <<>> /\ t[1].clsid = s[1].clsid
            /\ Chained(o, t) /\ (Shows(o, s, p) => Shows(o, t, p))
<1> DEFINE L == Len(s)
           c == Parents[s[L].clsid][s[L].at]
           e == [clsid |-> c, at |-> 1]
           t == Append(s, e)
<1>1. L \in Nat \ {0} /\ L \in 1 .. L
  BY EmptySeq
<1>2. s[L] \in Calls /\ s[L].clsid \in Classes /\ s[L].at \in Nat \ {0}
  <2>1. s[L] \in Calls
    BY <1>1, ElementOfSeq
  <2> QED
    BY <2>1 DEF Calls
<1>3. c \in Classes
  <2>1. s[L].at \in 1 .. Len(Parents[s[L].clsid])
    BY <1>2, EndOfType
  <2> QED
    BY <1>2, <2>1, EntriesType, ElementOfSeq
<1>4. e \in Calls /\ e.clsid = c /\ e.at = 1
  BY <1>3 DEF Calls
<1> HIDE DEF e
<1>5. /\ t \in Seq(Calls) /\ t # <<>> /\ Len(t) = L + 1
      /\ t[L + 1] = e /\ \A k \in 1 .. L : t[k] = s[k]
  BY <1>4, AppendProperties
<1> HIDE DEF t
<1>6. 1 <= EndOf(o, c)
  BY <1>3, EndOfType
<1>7. Chained(o, t)
  <2>1. ASSUME NEW k \in 1 .. Len(t)
        PROVE  t[k].at <= EndOf(o, t[k].clsid)
    <3>1. CASE k = L + 1
      BY <1>4, <1>5, <1>6, <3>1
    <3>2. CASE k # L + 1
      <4>1. k \in 1 .. L
        BY <1>1, <1>5, <3>2
      <4> QED
        BY <1>5, <4>1 DEF Chained
    <3> QED
      BY <3>1, <3>2
  <2>2. ASSUME NEW k \in 1 .. Len(t) - 1
        PROVE  t[k].at <= Len(Parents[t[k].clsid]) /\ t[k + 1].clsid = Parents[t[k].clsid][t[k].at]
    <3>1. k \in 1 .. L
      BY <1>1, <1>5
    <3>2. CASE k = L
      BY <1>1, <1>4, <1>5, <3>1, <3>2
    <3>3. CASE k # L
      <4>1. k \in 1 .. Len(s) - 1 /\ k + 1 \in 1 .. L
        BY <1>1, <3>1, <3>3
      <4>2. t[k] = s[k] /\ t[k + 1] = s[k + 1]
        BY <1>5, <3>1, <4>1
      <4> QED
        BY <4>1, <4>2 DEF Chained
    <3> QED
      BY <3>2, <3>3
  <2> QED
    BY <2>1, <2>2 DEF Chained
<1>8. ASSUME Shows(o, s, p)
      PROVE  Shows(o, t, p)
  <2>1. \A n \in Names : SaidBy(o, t, L + 1, n) = Nobody
    BY <1>3, <1>4, <1>5, SaidStart DEF SaidBy
  <2>2. \A k \in 1 .. L, n \in Names : SaidBy(o, t, k, n) = SaidBy(o, s, k, n)
    BY <1>5 DEF SaidBy
  <2> SUFFICES ASSUME NEW k \in 1 .. Len(t), NEW n \in Names, SaidBy(o, t, k, n) # Nobody,
                      \A l \in k + 1 .. Len(t) : SaidBy(o, t, l, n) = Nobody
               PROVE  p[n] = SaidBy(o, t, k, n)
    BY DEF Shows
  <2>3. k \in 1 .. L
    BY <1>1, <1>5, <2>1
  <2>4. ASSUME NEW l \in k + 1 .. Len(s)
        PROVE  SaidBy(o, s, l, n) = Nobody
    <3>1. l \in 1 .. L /\ l \in k + 1 .. Len(t)
      BY <1>1, <1>5, <2>3
    <3> QED
      BY <2>2, <3>1
  <2>5. k \in 1 .. Len(s) /\ SaidBy(o, s, k, n) # Nobody
    BY <2>2, <2>3
  <2>6. p[n] = SaidBy(o, s, k, n)
    BY <1>8, <2>4, <2>5 DEF Shows
  <2> QED
    BY <2>2, <2>3, <2>6
<1>9. t[1].clsid = s[1].clsid
  BY <1>1, <1>5
<1> QED
  BY <1>5, <1>7, <1>8, <1>9 DEF t, e

\* The innermost call goes on to its next thing to do.
LEMMA AdvanceChained ==
  ASSUME NEW o \in Options, NEW s \in Seq(Calls), s # <<>>, Chained(o, s),
         s[Len(s)].at < EndOf(o, s[Len(s)].clsid)
  PROVE  LET t == Advance(s)
         IN t \in Seq(Calls) /\ t # <<>> /\ t[1].clsid = s[1].clsid /\ Chained(o, t)
<1> DEFINE L == Len(s)
           t == Advance(s)
<1>1. L \in Nat /\ L # 0
  BY EmptySeq
<1>2. /\ t \in Seq(Calls) /\ t # <<>> /\ Len(t) = L
      /\ t[L].clsid = s[L].clsid /\ t[L].at = s[L].at + 1
      /\ \A k \in 1 .. L - 1 : t[k] = s[k]
  BY AdvanceType
<1> HIDE DEF t
<1>3. s[L].clsid \in Classes /\ s[L].at \in Nat
  <2>1. s[L] \in Calls
    BY <1>1, ElementOfSeq
  <2> QED
    BY <2>1 DEF Calls
<1>4. t[L].at <= EndOf(o, t[L].clsid)
  BY <1>2, <1>3, EndOfType
<1>5. ASSUME NEW k \in 1 .. Len(t)
      PROVE  t[k].at <= EndOf(o, t[k].clsid)
  <2>1. CASE k = L
    BY <1>4, <2>1
  <2>2. CASE k # L
    <3>1. k \in 1 .. L - 1 /\ k \in 1 .. Len(s)
      BY <1>1, <1>2, <2>2
    <3> QED
      BY <1>2, <3>1 DEF Chained
  <2> QED
    BY <2>1, <2>2
<1>6. ASSUME NEW k \in 1 .. Len(t) - 1
      PROVE  t[k].at <= Len(Parents[t[k].clsid]) /\ t[k + 1].clsid = Parents[t[k].clsid][t[k].at]
  <2>1. k \in 1 .. Len(s) - 1 /\ t[k] = s[k]
    BY <1>2
  <2>2. t[k + 1].clsid = s[k + 1].clsid
    <3>1. k + 1 = L \/ k + 1 \in 1 .. L - 1
      BY <1>1, <2>1
    <3> QED
      BY <1>2, <3>1
  <2> QED
    BY <2>1, <2>2 DEF Chained
<1>7. t[1].clsid = s[1].clsid
  <2>1. \A n \in Nat \ {0} : n # 1 => 1 \in 1 .. n - 1
    OBVIOUS
  <2>2. L # 1 => 1 \in 1 .. L - 1
    BY <1>1, <2>1
  <2> QED
    BY <1>2, <2>2
<1> QED
  BY <1>2, <1>5, <1>6, <1>7 DEF t, Chained

\* The innermost call puts its next function on the object.
LEMMA EntryShows ==
  ASSUME NEW o \in Options, NEW p \in [Names -> Fns \cup {Nobody}],
         NEW s \in Seq(Calls), s # <<>>,
         s[Len(s)].at > Len(Parents[s[Len(s)].clsid]),
         s[Len(s)].at < EndOf(o, s[Len(s)].clsid)
  PROVE  LET c == s[Len(s)].clsid
             x == Entries(o, c)[s[Len(s)].at - Len(Parents[c])]
         IN /\ x.name \in Names /\ Native(c, x) \in Fns
            /\ Shows(o, s, p) => Shows(o, Advance(s), [p EXCEPT ![x.name] = Native(c, x)])
<1> DEFINE L == Len(s)
           c == s[L].clsid
           i == s[L].at - Len(Parents[c])
           x == Entries(o, c)[i]
           f == Native(c, x)
           t == Advance(s)
           q == [p EXCEPT ![x.name] = f]
<1>1. L \in Nat /\ L # 0
  BY EmptySeq
<1>2. /\ t \in Seq(Calls) /\ t # <<>> /\ Len(t) = L
      /\ t[L].clsid = c /\ t[L].at = s[L].at + 1
      /\ \A k \in 1 .. L - 1 : t[k] = s[k]
  BY AdvanceType
<1> HIDE DEF t
<1>3. c \in Classes /\ s[L].at \in Nat
  <2>1. s[L] \in Calls
    BY <1>1, ElementOfSeq
  <2> QED
    BY <2>1 DEF Calls
<1>4. i \in 1 .. Len(Entries(o, c)) /\ s[L].at = Len(Parents[c]) + i
  BY <1>3, EndOfType
<1>5. x \in Exported({"method", "function"})
  BY <1>3, <1>4, EntriesType, ElementOfSeq
<1>6. x.name \in Names /\ f \in Fns /\ f # Nobody
  <2>1. x.name \in Names /\ x.kind \in {"method", "function"}
    BY <1>5 DEF Exported
  <2> HIDE DEF x
  <2>2. f \in Fns
    BY <1>3, <2>1 DEF Native, Fns
  <2> QED
    BY <2>1, <2>2, ClassAssumption
<1>7. \A n \in Names : SaidBy(o, t, L, n) = IF x.name = n THEN f ELSE SaidBy(o, s, L, n)
  <2> SUFFICES ASSUME NEW n \in Names
               PROVE  SaidBy(o, t, L, n) = IF x.name = n THEN f ELSE SaidBy(o, s, L, n)
    OBVIOUS
  <2>1. Said(o, c, Len(Parents[c]) + i + 1, n) = IF x.name = n THEN f ELSE Said(o, c, Len(Parents[c]) + i, n)
    <3> HIDE DEF i
    <3> QED
      BY <1>3, <1>4, SaidEntry
  <2> HIDE DEF i, f, x
  <2> QED
    BY <1>2, <1>4, <2>1 DEF SaidBy
<1> HIDE DEF i, f, x
<1>8. \A k \in 1 .. L - 1, n \in Names : SaidBy(o, t, k, n) = SaidBy(o, s, k, n)
  BY <1>2 DEF SaidBy
<1>9. ASSUME Shows(o, s, p)
      PROVE  Shows(o, t, q)
  <2> SUFFICES ASSUME NEW k \in 1 .. Len(t), NEW n \in Names, SaidBy(o, t, k, n) # Nobody,
                      \A l \in k + 1 .. Len(t) : SaidBy(o, t, l, n) = Nobody
               PROVE  q[n] = SaidBy(o, t, k, n)
    BY DEF Shows
  <2>1. CASE n = x.name
    <3>1. SaidBy(o, t, L, n) = f
      BY <1>7, <2>1
    <3>2. k = L
      <4>1. k # L => L \in k + 1 .. Len(t)
        BY <1>1, <1>2
      <4> QED
        BY <1>6, <3>1, <4>1
    <3> QED
      BY <1>6, <2>1, <3>1, <3>2
  <2>2. CASE n # x.name
    <3>1. \A l \in 1 .. L : SaidBy(o, t, l, n) = SaidBy(o, s, l, n)
      <4>1. \A l \in 1 .. L : l = L \/ l \in 1 .. L - 1
        BY <1>1
      <4>2. SaidBy(o, t, L, n) = SaidBy(o, s, L, n)
        BY <1>7, <2>2
      <4> QED
        BY <1>8, <4>1, <4>2
    <3>2. k \in 1 .. Len(s) /\ SaidBy(o, t, k, n) = SaidBy(o, s, k, n)
      BY <1>2, <3>1
    <3>3. \A l \in k + 1 .. Len(s) : SaidBy(o, s, l, n) = Nobody
      <4>1. \A l \in k + 1 .. Len(s) : l \in 1 .. L /\ l \in k + 1 .. Len(t)
        BY <1>1, <1>2
      <4> QED
        BY <3>1, <4>1
    <3>4. p[n] = SaidBy(o, s, k, n)
      BY <1>9, <3>2, <3>3 DEF Shows
    <3> QED
      BY <1>6, <2>2, <3>2, <3>4
  <2> QED
    BY <2>1, <2>2
<1> QED
  BY <1>6, <1>9 DEF t, f, x, i

\* The innermost call returns to its caller, which goes on.
LEMMA ReturnChained ==
  ASSUME NEW o \in Options, NEW s \in Seq(Calls), s # <<>>, Chained(o, s),
         SubSeq(s, 1, Len(s) - 1) # <<>>
  PROVE  LET t == Advance(SubSeq(s, 1, Len(s) - 1))
         IN t \in Seq(Calls) /\ t # <<>> /\ t[1].clsid = s[1].clsid /\ Chained(o, t)
<1> DEFINE L == Len(s)
           r == SubSeq(s, 1, Len(s) - 1)
           t == Advance(r)
<1>1. L \in Nat /\ L # 0
  BY EmptySeq
<1>2. /\ r \in Seq(Calls) /\ Len(r) = L - 1 /\ r # <<>> /\ L # 1
      /\ \A k \in 1 .. L - 1 : r[k] = s[k]
  BY OuterType
<1> HIDE DEF r
<1>3. L - 1 \in Nat /\ L - 1 # 0 /\ L - 1 \in 1 .. L - 1 /\ 1 \in 1 .. L - 1
  <2>1. \A n \in Nat : n # 0 /\ n # 1 => n - 1 \in Nat /\ n - 1 # 0 /\ n - 1 \in 1 .. n - 1 /\ 1 \in 1 .. n - 1
    OBVIOUS
  <2> QED
    BY <1>1, <1>2, <2>1
<1>4. Chained(o, r)
  <2>1. ASSUME NEW k \in 1 .. Len(r)
        PROVE  r[k].at <= EndOf(o, r[k].clsid)
    <3>1. k \in 1 .. Len(s) /\ r[k] = s[k]
      BY <1>1, <1>2
    <3> QED
      BY <3>1 DEF Chained
  <2>2. ASSUME NEW k \in 1 .. Len(r) - 1
        PROVE  r[k].at <= Len(Parents[r[k].clsid]) /\ r[k + 1].clsid = Parents[r[k].clsid][r[k].at]
    <3>1. k \in 1 .. Len(s) - 1 /\ r[k] = s[k] /\ r[k + 1] = s[k + 1]
      BY <1>1, <1>2
    <3> QED
      BY <3>1 DEF Chained
  <2> QED
    BY <2>1, <2>2 DEF Chained
<1>5. r[Len(r)].at < EndOf(o, r[Len(r)].clsid)
  <2>1. s[L - 1] \in Calls
    <3>1. L - 1 \in 1 .. Len(s)
      BY <1>1, <1>3
    <3> QED
      BY <3>1, ElementOfSeq
  <2>2. s[L - 1].clsid \in Classes /\ s[L - 1].at \in Nat
    BY <2>1 DEF Calls
  <2>3. s[L - 1].at <= Len(Parents[s[L - 1].clsid])
    BY <1>3 DEF Chained
  <2>4. s[L - 1].at < EndOf(o, s[L - 1].clsid)
    BY <2>2, <2>3, EndOfType
  <2> QED
    BY <1>2, <1>3, <2>4
<1>6. t \in Seq(Calls) /\ t # <<>> /\ t[1].clsid = r[1].clsid /\ Chained(o, t)
  BY <1>2, <1>4, <1>5, AdvanceChained
<1>7. r[1].clsid = s[1].clsid
  BY <1>2, <1>3
<1> QED
  BY <1>6, <1>7 DEF t, r

\* When the innermost call has done everything, what its caller says includes
\* what it said.
LEMMA ReturnShows ==
  ASSUME NEW o \in Options, NEW p, NEW s \in Seq(Calls), s # <<>>,
         Chained(o, s), Shows(o, s, p),
         s[Len(s)].at = EndOf(o, s[Len(s)].clsid),
         SubSeq(s, 1, Len(s) - 1) # <<>>
  PROVE  Shows(o, Advance(SubSeq(s, 1, Len(s) - 1)), p)
<1> DEFINE L == Len(s)
           M == L - 1
           r == SubSeq(s, 1, Len(s) - 1)
           t == Advance(r)
           d == s[M].clsid
           c == s[L].clsid
<1>1. L \in Nat /\ L # 0
  BY EmptySeq
<1>2. /\ r \in Seq(Calls) /\ Len(r) = L - 1 /\ r # <<>> /\ L # 1
      /\ \A k \in 1 .. L - 1 : r[k] = s[k]
  BY OuterType
<1>3. M \in Nat /\ M # 0 /\ M \in 1 .. M /\ L = M + 1
  <2>1. \A n \in Nat : n # 0 /\ n # 1 => n - 1 \in Nat /\ n - 1 # 0 /\ n - 1 \in 1 .. n - 1 /\ n = (n - 1) + 1
    OBVIOUS
  <2> QED
    BY <1>1, <1>2, <2>1
<1> HIDE DEF r
<1>4. /\ Len(t) = Len(r) /\ t[Len(r)].clsid = r[Len(r)].clsid /\ t[Len(r)].at = r[Len(r)].at + 1
      /\ \A k \in 1 .. Len(r) - 1 : t[k] = r[k]
  BY <1>2, AdvanceType
<1> HIDE DEF t
<1>5. s[L] \in Calls /\ s[M] \in Calls
  <2>1. L \in 1 .. Len(s) /\ M \in 1 .. Len(s)
    BY <1>1, <1>3
  <2> QED
    BY <2>1, ElementOfSeq
<1>6. c \in Classes /\ d \in Classes /\ s[M].at \in Nat \ {0}
  BY <1>5 DEF Calls
<1>7. s[M].at \in 1 .. Len(Parents[d]) /\ c = Parents[d][s[M].at]
  <2>1. s[M].at <= Len(Parents[d]) /\ s[M + 1].clsid = Parents[d][s[M].at]
    BY <1>3 DEF Chained
  <2> QED
    BY <1>3, <1>6, <2>1, EndOfType
<1>8. Len(t) = M /\ t[M].clsid = d /\ t[M].at = s[M].at + 1 /\ \A k \in 1 .. M - 1 : t[k] = s[k]
  BY <1>2, <1>3, <1>4
<1>9. \A n \in Names : SaidBy(o, s, L, n) = Winner[o][c][n]
  BY <1>6, SaidEnd DEF SaidBy
<1>10. \A n \in Names :
         SaidBy(o, t, M, n) = IF Winner[o][c][n] # Nobody THEN Winner[o][c][n] ELSE SaidBy(o, s, M, n)
  <2> SUFFICES ASSUME NEW n \in Names
               PROVE  SaidBy(o, t, M, n) = IF Winner[o][c][n] # Nobody THEN Winner[o][c][n]
                                                                      ELSE SaidBy(o, s, M, n)
    OBVIOUS
  <2>1. LET w == Winner[o][Parents[d][s[M].at]][n]
        IN Said(o, d, s[M].at + 1, n) = IF w # Nobody THEN w ELSE Said(o, d, s[M].at, n)
    <3> HIDE DEF d, M
    <3> QED
      BY <1>6, <1>7, SaidParent
  <2> QED
    BY <1>7, <1>8, <2>1 DEF SaidBy
<1> HIDE DEF M, c, d
<1>11. \A k \in 1 .. M - 1, n \in Names : SaidBy(o, t, k, n) = SaidBy(o, s, k, n)
  BY <1>8 DEF SaidBy
<1> SUFFICES ASSUME NEW k \in 1 .. Len(t), NEW n \in Names, SaidBy(o, t, k, n) # Nobody,
                    \A l \in k + 1 .. Len(t) : SaidBy(o, t, l, n) = Nobody
             PROVE  p[n] = SaidBy(o, t, k, n)
  BY DEF Shows, t, r
<1>12. k \in 1 .. M /\ (k # M => k \in 1 .. M - 1 /\ M \in k + 1 .. Len(t))
  BY <1>3, <1>8
<1>13. CASE Winner[o][c][n] # Nobody
  <2>1. SaidBy(o, t, M, n) = Winner[o][c][n]
    BY <1>10, <1>13
  <2>2. k = M
    BY <1>12, <1>13, <2>1
  <2>3. SaidBy(o, s, L, n) = Winner[o][c][n]
    BY <1>9
  <2>4. L \in 1 .. Len(s) /\ \A l \in L + 1 .. Len(s) : SaidBy(o, s, l, n) = Nobody
    BY <1>1
  <2>5. p[n] = SaidBy(o, s, L, n)
    BY <1>13, <2>3, <2>4 DEF Shows
  <2> QED
    BY <2>1, <2>2, <2>3, <2>5
<1>14. CASE Winner[o][c][n] = Nobody
  <2>1. \A l \in 1 .. M : SaidBy(o, t, l, n) = SaidBy(o, s, l, n)
    <3>1. \A l \in 1 .. M : l = M \/ l \in 1 .. M - 1
      BY <1>3
    <3>2. SaidBy(o, t, M, n) = SaidBy(o, s, M, n)
      BY <1>10, <1>14
    <3> QED
      BY <1>11, <3>1, <3>2
  <2>2. SaidBy(o, s, L, n) = Nobody
    BY <1>9, <1>14
  <2>3. \A l \in k + 1 .. Len(s) : SaidBy(o, s, l, n) = Nobody
    <3>1. \A l \in k + 1 .. Len(s) : l = L \/ (l \in 1 .. M /\ l \in k + 1 .. Len(t))
      BY <1>1, <1>3, <1>8, <1>12
    <3> QED
      BY <2>1, <2>2, <3>1
  <2>4. k \in 1 .. Len(s) /\ SaidBy(o, s, k, n) = SaidBy(o, t, k, n)
    BY <1>1, <1>3, <1>12, <2>1
  <2>5. p[n] = SaidBy(o, s, k, n)
    BY <2>3, <2>4 DEF Shows
  <2> QED
    BY <2>4, <2>5
<1> QED
  BY <1>13, <1>14

-----------------------------------------------------------------------------
(* The inductive invariant.                                                *)

LEMMA InitInv == Init => IInv
<1> SUFFICES ASSUME Init PROVE IInv
  OBVIOUS
<1>1. stack = <<>> /\ Len(stack) = 0 /\ stack \in Seq(Calls)
  BY EmptySeq DEF Init
<1>2. TypeOK
  BY <1>1 DEF Init, TypeOK, Calls, Codes, Options
<1>3. RunsOnItsClass /\ OwnData /\ MixinInherits
  BY DEF Init, RunsOnItsClass, OwnData, MixinInherits
<1>4. StackInv
  BY <1>1 DEF StackInv, Chained
<1>5. ShowsInv
  BY <1>1 DEF ShowsInv, Shows
<1> QED
  BY <1>2, <1>3, <1>4, <1>5 DEF IInv

\* Of the innermost call, all that the invariant says.
LEMMA TopType ==
  ASSUME IInv, stack # <<>>
  PROVE  /\ options \in Options /\ stack \in Seq(Calls)
         /\ Len(stack) \in Nat /\ Len(stack) # 0
         /\ Top \in Calls /\ Top.clsid \in Classes /\ Top.at \in Nat \ {0}
         /\ Top.at <= EndOf(options, Top.clsid)
<1>1. options \in Options /\ stack \in Seq(Calls) /\ Chained(options, stack)
  BY DEF IInv, TypeOK, StackInv, Calls
<1>2. Len(stack) \in Nat /\ Len(stack) # 0
  BY <1>1, EmptySeq
<1>3. Top \in Calls /\ Top.at <= EndOf(options, Top.clsid)
  <2>1. Len(stack) \in 1 .. Len(stack)
    BY <1>2
  <2> QED
    BY <1>1, <2>1, ElementOfSeq DEF Top, Chained
<1>4. Top.clsid \in Classes /\ Top.at \in Nat \ {0}
  BY <1>3 DEF Calls
<1> QED
  BY <1>1, <1>2, <1>3, <1>4

\* A mixin starts with nothing said.
LEMMA MixinStep ==
  ASSUME IInv, NEW c \in Classes, NEW o \in Options, Mixin(c, o)
  PROVE  IInv'
<1> DEFINE e == [clsid |-> c, at |-> 1]
<1>1. /\ stack' = <<e>> /\ options' = o /\ mixed' = c /\ lost' = FALSE
      /\ props' = props /\ code' = code /\ call' = call
  BY DEF Mixin
<1>2. e \in Calls /\ e.clsid = c /\ e.at = 1
  BY DEF Calls
<1> HIDE DEF e
<1>3. /\ stack' \in Seq(Calls) /\ stack' # <<>> /\ Len(stack') = 1 /\ stack'[1] = e
  BY <1>1, <1>2
<1>4. TypeOK'
  BY <1>1, <1>3 DEF IInv, TypeOK, Calls
<1>5. RunsOnItsClass' /\ OwnData' /\ MixinInherits'
  BY <1>1, <1>3 DEF IInv, RunsOnItsClass, OwnData, MixinInherits
<1>6. Chained(o, stack')
  <2>1. 1 <= EndOf(o, c)
    BY EndOfType
  <2> QED
    BY <1>2, <1>3, <2>1 DEF Chained
<1>7. Shows(o, stack', props)
  <2>1. \A n \in Names : SaidBy(o, stack', 1, n) = Nobody
    BY <1>2, <1>3, SaidStart DEF SaidBy
  <2> QED
    BY <1>3, <2>1 DEF Shows
<1>8. StackInv'
  BY <1>1, <1>2, <1>3, <1>6 DEF StackInv
<1>9. ShowsInv'
  BY <1>1, <1>7 DEF ShowsInv
<1> QED
  BY <1>4, <1>5, <1>8, <1>9 DEF IInv

LEMMA DescendStep ==
  ASSUME IInv, Descend
  PROVE  IInv'
<1> DEFINE c == Parents[Top.clsid][Top.at]
<1>1. /\ stack # <<>> /\ Top.at <= Len(Parents[Top.clsid])
      /\ stack' = Append(stack, [clsid |-> c, at |-> 1])
      /\ UNCHANGED <<props, options, mixed, lost, code, call>>
  BY DEF Descend, AtParent
<1>2. options \in Options /\ stack \in Seq(Calls)
  BY <1>1, TopType
<1>3. Chained(options, stack) /\ mixed = stack[1].clsid /\ (~ lost => Shows(options, stack, props))
  BY <1>1 DEF IInv, StackInv, ShowsInv
<1>4. /\ stack' \in Seq(Calls) /\ stack' # <<>> /\ stack'[1].clsid = stack[1].clsid
      /\ Chained(options, stack')
  BY <1>1, <1>2, <1>3, DescendShows DEF Top
<1>5. ~ lost => Shows(options, stack', props)
  BY <1>1, <1>2, <1>3, DescendShows DEF Top
<1>6. TypeOK'
  BY <1>1, <1>4 DEF IInv, TypeOK, Calls
<1>7. RunsOnItsClass' /\ OwnData' /\ MixinInherits'
  BY <1>1, <1>4 DEF IInv, RunsOnItsClass, OwnData, MixinInherits
<1>8. StackInv' /\ ShowsInv'
  BY <1>1, <1>3, <1>4, <1>5 DEF StackInv, ShowsInv
<1> QED
  BY <1>6, <1>7, <1>8 DEF IInv

LEMMA SetPropertyStep ==
  ASSUME IInv, SetProperty
  PROVE  IInv'
<1> DEFINE c == Top.clsid
           x == Entries(options, c)[Top.at - Len(Parents[c])]
           f == Native(c, x)
<1>1. /\ AtEntry /\ stack # <<>>
      /\ Top.at > Len(Parents[c]) /\ Top.at <= Len(Parents[c]) + Len(Entries(options, c))
      /\ props' = [props EXCEPT ![x.name] = f] /\ stack' = Advance(stack)
      /\ UNCHANGED <<options, mixed, lost, code, call>>
  BY DEF SetProperty, AtEntry, Entry
<1>2. options \in Options /\ stack \in Seq(Calls) /\ c \in Classes /\ Top.at \in Nat
  BY <1>1, TopType
<1>3. Top.at < EndOf(options, c)
  <2>1. /\ Len(Parents[c]) \in Nat /\ Len(Entries(options, c)) \in Nat
        /\ EndOf(options, c) = Len(Parents[c]) + Len(Entries(options, c)) + 1
    BY <1>2, EndOfType
  <2> HIDE DEF c
  <2> QED
    BY <1>1, <1>2, <2>1
<1>4. Chained(options, stack) /\ mixed = stack[1].clsid /\ (~ lost => Shows(options, stack, props))
  BY <1>1 DEF IInv, StackInv, ShowsInv
<1>5. /\ stack' \in Seq(Calls) /\ stack' # <<>> /\ stack'[1].clsid = stack[1].clsid
      /\ Chained(options, stack')
  BY <1>1, <1>2, <1>3, <1>4, AdvanceChained DEF Top
<1>6. props \in [Names -> Fns \cup {Nobody}]
  BY DEF IInv, TypeOK
<1>7. x.name \in Names /\ f \in Fns /\ (~ lost => Shows(options, stack', props'))
  <2>1. Top = stack[Len(stack)]
    BY DEF Top
  <2>2. x.name \in Names /\ f \in Fns
    BY <1>1, <1>2, <1>3, <1>6, <2>1, EntryShows
  <2>3. ~ lost => Shows(options, Advance(stack), [props EXCEPT ![x.name] = f])
    BY <1>1, <1>2, <1>3, <1>4, <1>6, <2>1, EntryShows
  <2> QED
    BY <1>1, <2>2, <2>3
<1>8. f.clsid = f.owner
  BY DEF Native
<1> HIDE DEF f, x
<1>9. TypeOK'
  BY <1>1, <1>5, <1>6, <1>7 DEF IInv, TypeOK, Calls
<1>10. OwnData'
  BY <1>1, <1>6, <1>7, <1>8 DEF IInv, OwnData
<1>11. RunsOnItsClass' /\ MixinInherits'
  BY <1>1, <1>5 DEF IInv, RunsOnItsClass, MixinInherits
<1>12. StackInv' /\ ShowsInv'
  BY <1>1, <1>4, <1>5, <1>7 DEF StackInv, ShowsInv
<1> QED
  BY <1>9, <1>10, <1>11, <1>12 DEF IInv

LEMMA SetPropertyFailsStep ==
  ASSUME IInv, SetPropertyFails
  PROVE  IInv'
<1>1. /\ stack # <<>> /\ Top.at <= Len(Parents[Top.clsid]) + Len(Entries(options, Top.clsid))
      /\ stack' = Advance(stack) /\ lost' = TRUE
      /\ UNCHANGED <<props, options, mixed, code, call>>
  BY DEF SetPropertyFails, AtEntry
<1>2. options \in Options /\ stack \in Seq(Calls) /\ Top.clsid \in Classes /\ Top.at \in Nat
  BY <1>1, TopType
<1> DEFINE c == Top.clsid
<1>3. Top.at < EndOf(options, c)
  <2>1. /\ Len(Parents[c]) \in Nat /\ Len(Entries(options, c)) \in Nat
        /\ EndOf(options, c) = Len(Parents[c]) + Len(Entries(options, c)) + 1
    BY <1>2, EndOfType
  <2>2. Top.at <= Len(Parents[c]) + Len(Entries(options, c))
    BY <1>1
  <2> HIDE DEF c
  <2> QED
    BY <1>2, <2>1, <2>2
<1>4. Chained(options, stack) /\ mixed = stack[1].clsid
  BY <1>1 DEF IInv, StackInv
<1>5. /\ stack' \in Seq(Calls) /\ stack' # <<>> /\ stack'[1].clsid = stack[1].clsid
      /\ Chained(options, stack')
  BY <1>1, <1>2, <1>3, <1>4, AdvanceChained DEF Top
<1>6. TypeOK'
  BY <1>1, <1>5 DEF IInv, TypeOK, Calls
<1>7. RunsOnItsClass' /\ OwnData' /\ MixinInherits' /\ ShowsInv'
  BY <1>1, <1>5 DEF IInv, RunsOnItsClass, OwnData, MixinInherits, ShowsInv
<1>8. StackInv'
  BY <1>1, <1>4, <1>5 DEF StackInv
<1> QED
  BY <1>6, <1>7, <1>8 DEF IInv

\* A call returns, at its end or because something failed.
LEMMA ReturnStep ==
  ASSUME IInv, stack # <<>>, NEW c \in Codes, Return(c),
         UNCHANGED <<props, options, mixed, call>>,
         lost' = TRUE \/ (lost' = lost /\ Top.at = EndOf(options, Top.clsid))
  PROVE  IInv'
<1> DEFINE r == SubSeq(stack, 1, Len(stack) - 1)
<1>1. options \in Options /\ stack \in Seq(Calls)
  BY TopType
<1>2. Chained(options, stack) /\ mixed = stack[1].clsid /\ (~ lost => Shows(options, stack, props))
  BY DEF IInv, StackInv, ShowsInv
<1>3. lost' \in BOOLEAN
  BY DEF IInv, TypeOK
<1>4. RunsOnItsClass' /\ OwnData'
  BY DEF IInv, RunsOnItsClass, OwnData
<1>5. CASE r = <<>>
  <2>1. stack' = <<>> /\ Len(stack') = 0 /\ stack' \in Seq(Calls) /\ code' = c
    BY <1>5, EmptySeq DEF Return
  <2>2. TypeOK'
    BY <1>3, <2>1 DEF IInv, TypeOK, Calls
  <2>3. MixinInherits'
    <3>1. SUFFICES ASSUME ~ lost', NEW n \in Names, Winner[options][mixed][n] # Nobody
                   PROVE  props[n] = Winner[options][mixed][n]
      BY DEF MixinInherits
    <3>2. Len(stack) = 1
      BY <1>1, <1>5, OuterType
    <3>3. stack[1] = Top /\ mixed = Top.clsid /\ Top.at = EndOf(options, Top.clsid) /\ ~ lost
      BY <1>2, <3>1, <3>2 DEF Top
    <3>4. Top.clsid \in Classes
      BY TopType
    <3>5. SaidBy(options, stack, 1, n) = Winner[options][mixed][n]
      BY <1>1, <3>3, <3>4, SaidEnd DEF SaidBy
    <3>6. 1 \in 1 .. Len(stack) /\ \A l \in 1 + 1 .. Len(stack) : SaidBy(options, stack, l, n) = Nobody
      BY <3>2
    <3> QED
      BY <1>2, <3>1, <3>3, <3>5, <3>6 DEF Shows
  <2>4. StackInv' /\ ShowsInv'
    BY <2>1 DEF StackInv, Chained, ShowsInv, Shows
  <2> QED
    BY <1>4, <2>2, <2>3, <2>4 DEF IInv
<1>6. CASE r # <<>>
  <2>1. stack' = Advance(r) /\ code' = code
    BY <1>6 DEF Return
  <2>2. /\ stack' \in Seq(Calls) /\ stack' # <<>> /\ stack'[1].clsid = stack[1].clsid
        /\ Chained(options, stack')
    BY <1>1, <1>2, <1>6, <2>1, ReturnChained
  <2>3. ~ lost' => Shows(options, stack', props)
    BY <1>1, <1>2, <1>6, <2>1, ReturnShows DEF Top
  <2>4. TypeOK'
    BY <1>3, <2>1, <2>2 DEF IInv, TypeOK, Calls
  <2>5. MixinInherits'
    BY <2>2 DEF MixinInherits
  <2>6. StackInv' /\ ShowsInv'
    BY <1>2, <2>2, <2>3 DEF StackInv, ShowsInv
  <2> QED
    BY <1>4, <2>4, <2>5, <2>6 DEF IInv
<1> QED
  BY <1>5, <1>6

LEMMA JustThrowsStep ==
  ASSUME IInv, JustThrows
  PROVE  IInv'
<1>1. /\ stack' = <<>> /\ code' = "exception_t" /\ lost' = TRUE
      /\ UNCHANGED <<props, options, mixed, call>>
  BY DEF JustThrows
<1>2. Len(stack') = 0 /\ stack' \in Seq(Calls)
  BY <1>1, EmptySeq
<1>3. TypeOK'
  BY <1>1, <1>2 DEF IInv, TypeOK, Calls, Codes
<1>4. RunsOnItsClass' /\ OwnData' /\ MixinInherits'
  BY <1>1 DEF IInv, RunsOnItsClass, OwnData, MixinInherits
<1>5. StackInv' /\ ShowsInv'
  BY <1>1, <1>2 DEF StackInv, Chained, ShowsInv
<1> QED
  BY <1>3, <1>4, <1>5 DEF IInv

\* A method runs only if the object knows the class it was made for.
LEMMA CallMethodStep ==
  ASSUME IInv, NEW n \in Names, NEW x \in Objects, CallMethod(n, x)
  PROVE  IInv'
<1>1. /\ UNCHANGED <<props, options, mixed, stack, lost, code>>
      /\ props[n] # Nobody
      /\ call' = IF Knows(x, props[n].clsid)
                 THEN [fn |-> props[n], this |-> x, as |-> props[n].clsid]
                 ELSE Nobody
  BY DEF CallMethod
<1>2. props[n] \in Fns /\ props[n].clsid = props[n].owner
  BY <1>1 DEF IInv, TypeOK, OwnData
<1>3. props[n].clsid \in Classes
  BY <1>2 DEF Fns
<1>4. TypeOK'
  <2>1. call' \in [fn : Fns, this : Objects, as : Classes] \cup {Nobody}
    BY <1>1, <1>2, <1>3
  <2> QED
    BY <1>1, <2>1 DEF IInv, TypeOK
<1>5. RunsOnItsClass'
  <2>1. CASE Knows(x, props[n].clsid)
    <3>1. call'.as = props[n].clsid /\ call'.fn = props[n] /\ call'.this = x
      BY <1>1, <2>1
    <3>2. props[n].clsid \in {ClassOf[x]} \cup Ancestors[ClassOf[x]]
      BY <2>1 DEF Knows
    <3> QED
      BY <1>2, <3>1, <3>2 DEF RunsOnItsClass
  <2>2. CASE ~ Knows(x, props[n].clsid)
    BY <1>1, <2>2 DEF RunsOnItsClass
  <2> QED
    BY <2>1, <2>2
<1>6. OwnData' /\ MixinInherits'
  BY <1>1 DEF IInv, OwnData, MixinInherits
<1>7. StackInv' /\ ShowsInv'
  BY <1>1 DEF IInv, StackInv, ShowsInv
<1> QED
  BY <1>4, <1>5, <1>6, <1>7 DEF IInv

LEMMA NextInv == IInv /\ [Next]_vars => IInv'
<1> SUFFICES ASSUME IInv, [Next]_vars PROVE IInv'
  OBVIOUS
<1>1. CASE \E c \in Classes, o \in Options : Mixin(c, o)
  BY <1>1, MixinStep
<1>2. CASE MixinNothing \/ UNCHANGED vars
  <2>1. UNCHANGED <<props, options, mixed, stack, lost, call>> /\ code' \in Codes
    BY <1>2 DEF MixinNothing, vars, Codes, IInv, TypeOK
  <2> QED
    BY <2>1 DEF IInv, TypeOK, RunsOnItsClass, OwnData, StackInv, ShowsInv, MixinInherits
<1>3. CASE Descend
  BY <1>3, DescendStep
<1>4. CASE SetProperty
  BY <1>4, SetPropertyStep
<1>5. CASE SetPropertyFails
  BY <1>5, SetPropertyFailsStep
<1>6. CASE NativeFails
  <2>1. /\ stack # <<>> /\ Return("JsErrorOutOfMemory") /\ lost' = TRUE
        /\ UNCHANGED <<props, options, mixed, call>> /\ "JsErrorOutOfMemory" \in Codes
    BY <1>6 DEF NativeFails, AtEntry, Codes
  <2> QED
    BY <2>1, ReturnStep
<1>7. CASE JustThrows
  BY <1>7, JustThrowsStep
<1>8. CASE End
  <2>1. /\ stack # <<>> /\ Return("0") /\ lost' = lost
        /\ UNCHANGED <<props, options, mixed, call>> /\ "0" \in Codes
        /\ Top.at > Len(Parents[Top.clsid]) + Len(Entries(options, Top.clsid))
    BY <1>8 DEF End, AtEnd, Codes
  <2> DEFINE c == Top.clsid
             m == Len(Parents[c])
             k == Len(Entries(options, c))
  <2>2. Top.at = EndOf(options, c)
    <3>1. Top.at \in Nat /\ Top.at <= EndOf(options, c)
      BY <2>1, TopType
    <3>2. c \in Classes /\ options \in Options
      BY <2>1, TopType
    <3>3. m \in Nat /\ k \in Nat /\ EndOf(options, c) = m + k + 1
      BY <3>2, EndOfType
    <3>4. Top.at > m + k
      BY <2>1
    <3> HIDE DEF m, k
    <3> QED
      BY <3>1, <3>3, <3>4
  <2> QED
    BY <2>1, <2>2, ReturnStep
<1>9. CASE \E n \in Names, x \in Objects : CallMethod(n, x)
  BY <1>9, CallMethodStep
<1> QED
  BY <1>1, <1>2, <1>3, <1>4, <1>5, <1>6, <1>7, <1>8, <1>9 DEF Next

\* The inductive invariant holds of every behaviour of mixins and calls.
THEOREM Invariance == Spec => []IInv
<1>1. Init => IInv
  BY InitInv
<1>2. IInv /\ [Next]_vars => IInv'
  BY NextInv
<1> QED
  BY <1>1, <1>2, PTL DEF Spec

-----------------------------------------------------------------------------
\* The state of JxxMixinObject's calls and the functions it makes (js.function.h,
\* JsrtNative) always have a class that exists.
THEOREM TypeCorrect == Spec => []TypeOK
<1>1. IInv => TypeOK
  BY DEF IInv
<1> QED
  BY <1>1, Invariance, PTL

\* The method stub never calls a member on an object of another class, for any
\* hierarchy and whatever was mixed into what.
THEOREM NoTypeConfusion == Spec => []RunsOnItsClass
<1>1. IInv => RunsOnItsClass
  BY DEF IInv
<1> QED
  BY <1>1, Invariance, PTL

\* A mixin that nothing disturbs leaves on the object what inheritance says, for
\* any hierarchy and any exports: its walk over parents and tables computes Winner.
THEOREM MixinCorrect == Spec => []MixinInherits
<1>1. IInv => MixinInherits
  BY DEF IInv
<1> QED
  BY <1>1, Invariance, PTL

-----------------------------------------------------------------------------
(* Overriding, by induction over the hierarchy.                            *)

\* A set of numbers has a least one.
LEMMA LeastNumber ==
  ASSUME NEW S \in SUBSET Nat, S # {}
  PROVE  \E m \in S : \A k \in S : m <= k
<1>1. PICK m \in S : \A k \in S : ~ (<<k, m>> \in OpToRel(<, Nat))
  BY NatLessThanWellFounded, WFMin
<1>2. \A k \in S : ~ (k < m)
  BY <1>1 DEF OpToRel
<1> QED
  BY <1>2

\* A set of places in a sequence has a last one.
LEMMA LastIn ==
  ASSUME NEW k \in Nat, NEW S \in SUBSET (1 .. k), S # {}
  PROVE  Last(S) \in S
<1>1. {k - i : i \in S} \in SUBSET Nat /\ {k - i : i \in S} # {}
  OBVIOUS
<1>2. PICK m \in {k - i : i \in S} : \A j \in {k - i : i \in S} : m <= j
  BY <1>1, LeastNumber
<1>3. PICK i \in S : m = k - i
  BY <1>2
<1>4. \A j \in S : j <= i
  BY <1>2, <1>3
<1>5. S \in SUBSET Int
  OBVIOUS
<1> QED
  BY <1>3, <1>4, <1>5, LastIs

\* The ancestors of a parent are fewer.
LEMMA ParentsAncestors ==
  ASSUME NEW c \in Classes, NEW j \in DOMAIN Parents[c]
  PROVE  LET p == Parents[c][j] IN
         /\ p \in Classes /\ p \in Ancestors[c] /\ Ancestors[p] \subseteq Ancestors[c]
         /\ Cardinality(Ancestors[p]) \in Nat /\ Cardinality(Ancestors[c]) \in Nat
         /\ Cardinality(Ancestors[p]) < Cardinality(Ancestors[c])
<1> DEFINE p == Parents[c][j]
<1>1. p \in Classes
  BY ClassAssumption, ElementOfSeq, LenProperties
<1> HIDE DEF p
<1>2. /\ p \notin Ancestors[p] /\ IsFiniteSet(Ancestors[p]) /\ IsFiniteSet(Ancestors[c])
      /\ Ancestors[p] \subseteq Classes /\ Ancestors[c] \subseteq Classes
  BY <1>1, AncestorsAssumption
<1>3. \A a \in Classes : a = p \/ a \in Ancestors[p] => a \in Ancestors[c]
  BY AncestorsAssumption DEF p
<1>4. p \in Ancestors[c] /\ Ancestors[p] \subseteq Ancestors[c] /\ Ancestors[p] # Ancestors[c]
  BY <1>1, <1>2, <1>3
<1>5. /\ Cardinality(Ancestors[p]) \in Nat /\ Cardinality(Ancestors[c]) \in Nat
      /\ Cardinality(Ancestors[p]) < Cardinality(Ancestors[c])
  BY <1>2, <1>4, FS_CardinalityType, FS_Subset
<1> QED
  BY <1>1, <1>4, <1>5 DEF p

\* Of any classes there is one none of whose parents is among them.
LEMMA TopClass ==
  ASSUME NEW T \in SUBSET Classes, T # {}
  PROVE  \E c \in T : \A j \in DOMAIN Parents[c] : Parents[c][j] \notin T
<1> DEFINE N == {Cardinality(Ancestors[c]) : c \in T}
<1>1. \A c \in T : Cardinality(Ancestors[c]) \in Nat
  BY AncestorsAssumption, FS_CardinalityType
<1>2. N \in SUBSET Nat /\ N # {}
  BY <1>1
<1>3. PICK m \in N : \A k \in N : m <= k
  BY <1>2, LeastNumber
<1>4. PICK c \in T : m = Cardinality(Ancestors[c])
  BY <1>3
<1>5. ASSUME NEW j \in DOMAIN Parents[c], Parents[c][j] \in T PROVE FALSE
  <2>1. Cardinality(Ancestors[Parents[c][j]]) < m /\ m \in Nat
    BY <1>2, <1>3, <1>4, ParentsAncestors
  <2>2. Cardinality(Ancestors[Parents[c][j]]) \in N /\ N \in SUBSET Nat
    BY <1>2, <1>5
  <2>3. m <= Cardinality(Ancestors[Parents[c][j]])
    BY <1>3, <2>2
  <2> QED
    BY <2>1, <2>2, <2>3
<1> QED
  BY <1>4, <1>5

\* A class and those it inherits from.
Up(c) == {c} \cup Ancestors[c]

LEMMA UpParents ==
  ASSUME NEW c \in Classes, NEW a \in Ancestors[c]
  PROVE  a \in Classes /\ \E j \in DOMAIN Parents[c] : a \in Up(Parents[c][j])
BY AncestorsAssumption DEF Up

\* The ancestors of an ancestor are ancestors.
LEMMA AncestorsTransitive ==
  ASSUME NEW c \in Classes, NEW a \in Ancestors[c]
  PROVE  Ancestors[a] \subseteq Ancestors[c]
<1> DEFINE Good(k) == \A x \in Ancestors[k] : Ancestors[x] \subseteq Ancestors[k]
           T == {k \in Classes : ~ Good(k)}
<1>1. ASSUME T # {} PROVE FALSE
  <2>1. PICK k \in T : \A j \in DOMAIN Parents[k] : Parents[k][j] \notin T
    BY <1>1, TopClass
  <2>2. ASSUME NEW x \in Ancestors[k] PROVE Ancestors[x] \subseteq Ancestors[k]
    <3>1. PICK j \in DOMAIN Parents[k] : x \in Up(Parents[k][j])
      BY <2>1, <2>2, UpParents
    <3>2. /\ Parents[k][j] \in Classes /\ Ancestors[Parents[k][j]] \subseteq Ancestors[k]
      BY <2>1, ParentsAncestors
    <3>3. Good(Parents[k][j])
      BY <2>1, <3>2
    <3> QED
      BY <3>1, <3>2, <3>3 DEF Up
  <2> QED
    BY <2>1, <2>2
<1> QED
  BY <1>1

\* The class exports n.
Exports(o, c, n) == \E i \in DOMAIN Entries(o, c) : Entries(o, c)[i].name = n

\* What inheritance says is the class's own, else that of a parent.
LEMMA WinnerIs ==
  ASSUME NEW o \in Options, NEW c \in Classes, NEW n \in Names
  PROVE  /\ Exports(o, c, n) => Winner[o][c][n] # Nobody /\ Winner[o][c][n].owner = c
         /\ ~ Exports(o, c, n) /\ Winner[o][c][n] # Nobody =>
              \E j \in DOMAIN Parents[c] : /\ Winner[o][Parents[c][j]][n] # Nobody
                                           /\ Winner[o][c][n] = Winner[o][Parents[c][j]][n]
         /\ (\E j \in DOMAIN Parents[c] : Winner[o][Parents[c][j]][n] # Nobody)
              => Winner[o][c][n] # Nobody
<1> DEFINE at == EndOf(o, c)
           own == {i \in DOMAIN Entries(o, c) : Len(Parents[c]) + i < at /\ Entries(o, c)[i].name = n}
           inh == {j \in DOMAIN Parents[c] : j < at /\ Winner[o][Parents[c][j]][n] # Nobody}
<1>1. /\ Winner[o][c][n] = Said(o, c, at, n)
      /\ Len(Parents[c]) \in Nat /\ Len(Entries(o, c)) \in Nat
      /\ DOMAIN Parents[c] = 1 .. Len(Parents[c]) /\ DOMAIN Entries(o, c) = 1 .. Len(Entries(o, c))
      /\ at = Len(Parents[c]) + Len(Entries(o, c)) + 1
  BY SaidEnd, EndOfType
<1>2. /\ own = {i \in DOMAIN Entries(o, c) : Entries(o, c)[i].name = n}
      /\ inh = {j \in DOMAIN Parents[c] : Winner[o][Parents[c][j]][n] # Nobody}
  BY <1>1
<1>3. Said(o, c, at, n) = IF own # {} THEN LET x == Entries(o, c)[Last(own)]
                                           IN [owner |-> c, kind |-> x.kind, clsid |-> c]
                          ELSE IF inh # {} THEN Winner[o][Parents[c][Last(inh)]][n]
                          ELSE Nobody
  BY DEF Said
<1> HIDE DEF at, own, inh
<1>4. CASE Exports(o, c, n)
  <2>1. own # {}
    BY <1>2, <1>4 DEF Exports
  <2>2. Last(own) \in own
    BY <1>1, <1>2, <2>1, LastIn
  <2>3. Entries(o, c)[Last(own)] \in Exported({"method", "function"})
    BY <1>1, <1>2, <2>2, EntriesType, ElementOfSeq
  <2>4. Winner[o][c][n] = [owner |-> c, kind |-> Entries(o, c)[Last(own)].kind, clsid |-> c]
    BY <1>1, <1>3, <2>1
  <2>5. Winner[o][c][n] \in Fns
    BY <2>3, <2>4 DEF Fns, Exported
  <2> QED
    BY <1>4, <2>4, <2>5, ClassAssumption
<1>5. CASE ~ Exports(o, c, n) /\ inh # {}
  <2>1. own = {}
    BY <1>2, <1>5 DEF Exports
  <2>2. Last(inh) \in inh
    BY <1>1, <1>2, <1>5, LastIn
  <2> QED
    BY <1>1, <1>2, <1>3, <1>5, <2>1, <2>2
<1>6. CASE ~ Exports(o, c, n) /\ inh = {}
  <2>1. own = {}
    BY <1>2, <1>6 DEF Exports
  <2> QED
    BY <1>1, <1>2, <1>3, <1>6, <2>1
<1> QED
  BY <1>4, <1>5, <1>6

\* Inheritance says something of every name that the class or an ancestor exports,
\* and nothing but what they export.
LEMMA WinnerFound ==
  ASSUME NEW o \in Options, NEW n \in Names, NEW c \in Classes
  PROVE  /\ Winner[o][c][n] # Nobody => Winner[o][c][n].owner \in Up(c)
         /\ \A d \in Up(c) : Exports(o, d, n) => Winner[o][c][n] # Nobody
<1> DEFINE Good(k) == /\ Winner[o][k][n] # Nobody => Winner[o][k][n].owner \in Up(k)
                      /\ \A d \in Up(k) : Exports(o, d, n) => Winner[o][k][n] # Nobody
           T == {k \in Classes : ~ Good(k)}
<1>1. ASSUME T # {} PROVE FALSE
  <2>1. PICK k \in T : \A j \in DOMAIN Parents[k] : Parents[k][j] \notin T
    BY <1>1, TopClass
  <2>2. ASSUME NEW j \in DOMAIN Parents[k]
        PROVE  Good(Parents[k][j]) /\ Up(Parents[k][j]) \subseteq Up(k)
    BY <2>1, ParentsAncestors DEF Up
  <2>3. ASSUME Winner[o][k][n] # Nobody PROVE Winner[o][k][n].owner \in Up(k)
    <3>1. CASE Exports(o, k, n)
      BY <2>1, <3>1, WinnerIs DEF Up
    <3>2. CASE ~ Exports(o, k, n)
      <4>1. PICK j \in DOMAIN Parents[k] : /\ Winner[o][Parents[k][j]][n] # Nobody
                                           /\ Winner[o][k][n] = Winner[o][Parents[k][j]][n]
        BY <2>1, <2>3, <3>2, WinnerIs
      <4> QED
        BY <2>2, <4>1
    <3> QED
      BY <3>1, <3>2
  <2>4. ASSUME NEW d \in Up(k), Exports(o, d, n) PROVE Winner[o][k][n] # Nobody
    <3>1. CASE d = k
      BY <2>1, <2>4, <3>1, WinnerIs
    <3>2. CASE d # k
      <4>1. PICK j \in DOMAIN Parents[k] : d \in Up(Parents[k][j])
        BY <2>1, <2>4, <3>2, UpParents DEF Up
      <4>2. Winner[o][Parents[k][j]][n] # Nobody
        BY <2>2, <2>4, <4>1
      <4> QED
        BY <2>1, <4>2, WinnerIs
    <3> QED
      BY <3>1, <3>2
  <2> QED
    BY <2>1, <2>3, <2>4
<1> QED
  BY <1>1

\* In a tree, what inheritance says of a name that class d exports is not of an ancestor of d.
LEMMA TreeOverrides ==
  ASSUME NEW o \in Options, NEW n \in Names, NEW c \in Classes, IsTree(c),
         NEW d \in Up(c), Exports(o, d, n)
  PROVE  Winner[o][c][n].owner \notin Ancestors[d]
<1> DEFINE Good(k) == IsTree(k) => \A e \in Up(k) :
                        Exports(o, e, n) => Winner[o][k][n].owner \notin Ancestors[e]
           T == {k \in Classes : ~ Good(k)}
<1>1. ASSUME T # {} PROVE FALSE
  <2>1. PICK k \in T : \A j \in DOMAIN Parents[k] : Parents[k][j] \notin T
    BY <1>1, TopClass
  <2>2. IsTree(k)
    BY <2>1
  <2>3. ASSUME NEW e \in Up(k), Exports(o, e, n)
        PROVE  Winner[o][k][n].owner \notin Ancestors[e]
    <3>1. CASE Exports(o, k, n)
      <4>1. Winner[o][k][n].owner = k
        BY <2>1, <3>1, WinnerIs
      <4>2. k \notin Ancestors[k] /\ Ancestors[e] \subseteq Ancestors[k]
        BY <2>1, AncestorsAssumption, AncestorsTransitive DEF Up
      <4> QED
        BY <4>1, <4>2
    <3>2. CASE ~ Exports(o, k, n)
      <4>1. Winner[o][k][n] # Nobody
        BY <2>1, <2>3, WinnerFound
      <4>2. PICK j \in DOMAIN Parents[k] : /\ Winner[o][Parents[k][j]][n] # Nobody
                                           /\ Winner[o][k][n] = Winner[o][Parents[k][j]][n]
        BY <2>1, <3>2, <4>1, WinnerIs
      <4>3. PICK i \in DOMAIN Parents[k] : e \in Up(Parents[k][i])
        BY <2>1, <2>3, <3>2, UpParents DEF Up
      <4>4. /\ Parents[k][i] \in Classes /\ Parents[k][j] \in Classes
            /\ Parents[k][i] \in Ancestors[k] /\ Ancestors[Parents[k][i]] \subseteq Ancestors[k]
        BY <2>1, ParentsAncestors
      <4>5. CASE i = j
        <5>1. IsTree(Parents[k][i])
          BY <2>2, <4>4 DEF IsTree
        <5>2. Good(Parents[k][i])
          BY <2>1, <4>4
        <5> QED
          BY <2>3, <4>2, <4>3, <4>5, <5>1, <5>2
      <4>6. CASE i # j
        <5>1. Up(Parents[k][i]) \cap Up(Parents[k][j]) = {}
          BY <2>2, <4>6 DEF IsTree, Up
        <5>2. Winner[o][k][n].owner \in Up(Parents[k][j])
          BY <4>2, <4>4, WinnerFound
        <5>3. Ancestors[e] \subseteq Up(Parents[k][i])
          BY <4>3, <4>4, AncestorsTransitive DEF Up
        <5> QED
          BY <5>1, <5>2, <5>3
      <4> QED
        BY <4>5, <4>6
    <3> QED
      BY <3>1, <3>2
  <2> QED
    BY <2>1, <2>3
<1> QED
  BY <1>1

\* JxxMixinObject: where no class is inherited twice, an export is never hidden
\* by one that it overrides, whatever was on the object before.
THEOREM OverridesWinInTrees == Spec => []OverridesWin
<1>1. IInv => OverridesWin
  <2> SUFFICES ASSUME IInv, stack = <<>>, mixed # Nobody, ~ lost, IsTree(mixed),
                      NEW d \in Up(mixed), NEW i \in DOMAIN Entries(options, d)
               PROVE  props[Entries(options, d)[i].name].owner \notin Ancestors[d]
    BY DEF OverridesWin, Up
  <2> DEFINE n == Entries(options, d)[i].name
  <2>1. options \in Options /\ mixed \in Classes
    BY DEF IInv, TypeOK
  <2>2. d \in Classes
    BY <2>1, AncestorsAssumption DEF Up
  <2>3. n \in Names /\ Exports(options, d, n)
    <3>1. Entries(options, d)[i] \in Exported({"method", "function"})
      BY <2>1, <2>2, EntriesType, EndOfType, ElementOfSeq
    <3> QED
      BY <3>1 DEF Exported, Exports
  <2> HIDE DEF n
  <2>4. Winner[options][mixed][n] # Nobody
    BY <2>1, <2>3, WinnerFound
  <2>5. props[n] = Winner[options][mixed][n]
    BY <2>3, <2>4 DEF IInv, MixinInherits
  <2>6. Winner[options][mixed][n].owner \notin Ancestors[d]
    BY <2>1, <2>3, TreeOverrides
  <2> QED
    BY <2>5, <2>6 DEF n
<1> QED
  BY <1>1, Invariance, PTL

-----------------------------------------------------------------------------
(* The recursion of JxxMixinObject.                                        *)

\* The calls are numbered from 1, each with a class.
LEMMA StackType ==
  ASSUME IInv
  PROVE  /\ Len(stack) \in Nat /\ (stack # <<>> => 1 \in 1 .. Len(stack))
         /\ \A k \in 1 .. Len(stack) : stack[k].clsid \in Classes /\ stack[k].at \in Nat \ {0}
<1>1. stack \in Seq(Calls)
  BY DEF IInv, TypeOK, Calls
<1>2. \A k \in 1 .. Len(stack) : stack[k] \in Calls
  BY <1>1, ElementOfSeq
<1>3. Len(stack) \in Nat /\ (stack # <<>> => Len(stack) # 0)
  BY <1>1, EmptySeq, LenProperties
<1> QED
  BY <1>2, <1>3 DEF Calls

\* From a call to the one it waits for the class goes up, and so from it to all of them.
LEMMA CallsGoUp ==
  ASSUME IInv, NEW k \in 1 .. Len(stack)
  PROVE  \A j \in 1 .. k - 1 : stack[k].clsid \in Ancestors[stack[j].clsid]
<1> DEFINE P(n) == \A j \in 1 .. Len(stack) : j < n /\ n <= Len(stack) => stack[n].clsid \in Ancestors[stack[j].clsid]
           Bad == {n \in 1 .. Len(stack) : ~ P(n)}
<1>0. Len(stack) \in Nat /\ \A n \in 1 .. Len(stack) : stack[n].clsid \in Classes
  BY StackType
<1> HIDE DEF P
<1>1. ASSUME Bad # {} PROVE FALSE
  <2>0. Bad \in SUBSET Nat
    BY <1>0
  <2>1. PICK n \in Bad : \A m \in Bad : n <= m
    BY <1>1, <2>0, LeastNumber
  <2>2. PICK j \in 1 .. Len(stack) : j < n /\ stack[n].clsid \notin Ancestors[stack[j].clsid]
    BY <2>1 DEF P
  <2>3. n \in 1 .. Len(stack) /\ n - 1 \in 1 .. Len(stack) - 1 /\ n - 1 \in 1 .. Len(stack) /\ (n - 1) + 1 = n
    BY <1>0, <2>1, <2>2
  <2> DEFINE a == stack[n - 1]
  <2>4. a.clsid \in Classes /\ a.at \in Nat \ {0}
    BY <2>3, StackType
  <2>5. a.at <= Len(Parents[a.clsid]) /\ stack[n].clsid = Parents[a.clsid][a.at]
    BY <2>3 DEF IInv, StackInv, Chained
  <2> HIDE DEF a
  <2>6. a.at \in DOMAIN Parents[a.clsid]
    <3>1. Parents[a.clsid] \in Seq(Classes)
      BY <2>4, ClassAssumption
    <3>2. DOMAIN Parents[a.clsid] = 1 .. Len(Parents[a.clsid]) /\ Len(Parents[a.clsid]) \in Nat
      BY <3>1, LenProperties
    <3> QED
      BY <2>4, <2>5, <3>2
  <2>7. stack[n].clsid \in Ancestors[a.clsid]
    BY <2>4, <2>5, <2>6, ParentsAncestors
  <2>8. j # n - 1
    BY <2>2, <2>7 DEF a
  <2>9. P(n - 1)
    BY <1>0, <2>1, <2>3
  <2>10. a.clsid \in Ancestors[stack[j].clsid]
    BY <1>0, <2>2, <2>3, <2>8, <2>9 DEF P, a
  <2>11. stack[j].clsid \in Classes
    BY <1>0
  <2> QED
    BY <2>2, <2>7, <2>10, <2>11, AncestorsTransitive
<1>2. P(k)
  BY <1>1
<1> QED
  BY <1>0, <1>2 DEF P

\* No class is on the stack twice, and there are no more calls than ancestors and one.
ClassesOnce == \A j, k \in 1 .. Len(stack) : stack[j].clsid = stack[k].clsid => j = k
DepthIsBounded == stack # <<>> => Len(stack) <= Cardinality(Ancestors[mixed]) + 1

\* JxxMixinObject recurses for the parents of a class and theirs, also where a class is
\* inherited twice: never for a class for which a call is under way, and never deeper than
\* there are ancestors.
THEOREM RecursionEnds == Spec => [](ClassesOnce /\ DepthIsBounded)
<1>1. ASSUME IInv
      PROVE  \A j, k \in 1 .. Len(stack) : stack[j].clsid = stack[k].clsid => j = k
  <2>1. ASSUME NEW j \in 1 .. Len(stack), NEW k \in 1 .. Len(stack), j < k
        PROVE  stack[j].clsid # stack[k].clsid
    <3>1. stack[k].clsid \in Ancestors[stack[j].clsid] /\ stack[j].clsid \in Classes
      BY <1>1, <2>1, CallsGoUp, StackType
    <3> QED
      BY <3>1, AncestorsAssumption
  <2>2. \A j, k \in 1 .. Len(stack) : j < k \/ k < j \/ j = k
    OBVIOUS
  <2> QED
    BY <2>1, <2>2
<1>2. ASSUME IInv, stack # <<>>
      PROVE  Len(stack) <= Cardinality(Ancestors[mixed]) + 1
  <2> DEFINE f == [k \in 1 .. Len(stack) |-> stack[k].clsid]
             A == Ancestors[mixed]
  <2>1. /\ Len(stack) \in Nat /\ 1 \in 1 .. Len(stack) /\ mixed = stack[1].clsid /\ mixed \in Classes
    BY <1>2, StackType DEF IInv, StackInv
  <2>2. IsFiniteSet(A) /\ mixed \notin A /\ Cardinality(A) \in Nat
    BY <2>1, AncestorsAssumption, FS_CardinalityType
  <2>3. IsFiniteSet(Up(mixed)) /\ Cardinality(Up(mixed)) = Cardinality(A) + 1
    <3>1. Up(mixed) = A \cup {mixed}
      BY DEF Up
    <3> QED
      BY <2>2, <3>1, FS_AddElement
  <2>4. \A k \in 1 .. Len(stack) : stack[k].clsid \in Up(mixed)
    <3>1. ASSUME NEW k \in 1 .. Len(stack), k # 1 PROVE stack[k].clsid \in A
      BY <1>2, <2>1, <3>1, CallsGoUp
    <3> QED
      BY <2>1, <3>1 DEF Up
  <2>5. f \in Injection(1 .. Len(stack), Up(mixed))
    BY <1>1, <1>2, <2>4 DEF Injection, IsInjective
  <2>6. IsFiniteSet(1 .. Len(stack)) /\ Cardinality(1 .. Len(stack)) = Len(stack)
    <3>1. 1 \in Int /\ Len(stack) \in Int /\ Len(stack) >= 1
      BY <2>1
    <3> QED
      BY <3>1, FS_Interval
  <2>7. Cardinality(1 .. Len(stack)) <= Cardinality(Up(mixed))
    BY <2>3, <2>5, <2>6, FS_Injection DEF ExistsInjection
  <2> QED
    BY <2>3, <2>6, <2>7
<1>3. IInv => ClassesOnce /\ DepthIsBounded
  BY <1>1, <1>2 DEF ClassesOnce, DepthIsBounded
<1> QED
  BY <1>3, Invariance, PTL
=============================================================================
