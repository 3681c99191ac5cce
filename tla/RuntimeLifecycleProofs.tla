----------------------- MODULE RuntimeLifecycleProofs -----------------------
(***************************************************************************)
(* Proofs about RuntimeLifecycle for any finite sets of tokens, modules    *)
(* and places of the queue, and any values.                                *)
(***************************************************************************)
EXTENDS RuntimeLifecycle, Integers, FiniteSetTheorems, TLAPS

References == Values \cup {Garbage, Null}

\* The slots whose references are counted.
CountedSlots == Slots \ Uncounted

\* Of a cache e and counts p: every count is the number of entries in slots C.
HoldersIn(C, e, v) == {s \in C : e[s] = v}
Counted(C, e, p) == \A v \in Values : p[v] = Cardinality(HoldersIn(C, e, v))

\* An uncounted entry is there, and is an address.
StaleInv == \A t \in stale : entries[<<"propids_", t>>] \in Values

\* What the end of the runtime has come to has let go of its slots.
CacheSlots == Of({"strings_", "protos_", "symbols_"})
ClearedInv ==
  /\ phase # "open" => \A s \in CacheSlots : entries[s] = Null
  /\ phase \in {"unloaded", "stopped", "disposed"} =>
       \A s \in Of({"running_modules_"}) : entries[s] = Null
  /\ phase \in {"stopped", "disposed"} => \A s \in Of({"handlers"}) : entries[s] = Null

IInv == TypeOK /\ PinsExact /\ CachedAlive /\ TokensDistinct /\ ClearedInv /\ StaleInv

-----------------------------------------------------------------------------
\* The slots are finitely many, so that entries can be counted (PinsExact).
LEMMA SlotsFinite == IsFiniteSet(Slots)
<1>1. IsFiniteSet(Maps)
  <2>1. IsFiniteSet({"strings_"} \cup {"protos_"})
    BY FS_Singleton, FS_AddElement
  <2>2. IsFiniteSet({"strings_"} \cup {"protos_"} \cup {"symbols_"})
    BY <2>1, FS_AddElement
  <2>3. IsFiniteSet({"strings_"} \cup {"protos_"} \cup {"symbols_"} \cup {"propids_"})
    BY <2>2, FS_AddElement
  <2>4. Maps = {"strings_"} \cup {"protos_"} \cup {"symbols_"} \cup {"propids_"}
    BY DEF Maps
  <2> QED
    BY <2>3, <2>4
<1>2. IsFiniteSet(Queues) /\ IsFiniteSet({"running_modules_"})
  <2>1. IsFiniteSet({"handlers"} \cup {"tasks"})
    BY FS_Singleton, FS_AddElement
  <2>2. Queues = {"handlers"} \cup {"tasks"}
    BY DEF Queues
  <2> QED
    BY <2>1, <2>2, FS_Singleton
<1>3. /\ IsFiniteSet(Maps \X Tokens) /\ IsFiniteSet(Queues \X Jobs)
      /\ IsFiniteSet({"running_modules_"} \X Modules)
  BY <1>1, <1>2, TokensAssumption, FS_Product
<1>4. IsFiniteSet((Maps \X Tokens) \cup ({"running_modules_"} \X Modules))
  BY <1>3, FS_Union
<1> QED
  BY <1>3, <1>4, FS_Union DEF Slots

\* The entries that hold a value are finitely many.
LEMMA HoldersFinite ==
  ASSUME NEW C \in SUBSET Slots, NEW e, NEW v
  PROVE  IsFiniteSet(HoldersIn(C, e, v)) /\ Cardinality(HoldersIn(C, e, v)) \in Nat
<1>1. HoldersIn(C, e, v) \in SUBSET Slots
  BY DEF HoldersIn
<1> QED
  BY <1>1, SlotsFinite, FS_Subset, FS_CardinalityType

\* The same of the state.
LEMMA HoldersAreFinite ==
  ASSUME NEW v
  PROVE  IsFiniteSet(Holders(v)) /\ Cardinality(Holders(v)) \in Nat
<1>1. CountedSlots \in SUBSET Slots /\ Holders(v) = HoldersIn(CountedSlots, entries, v)
  BY DEF CountedSlots, Holders, HoldersIn
<1> QED
  BY <1>1, HoldersFinite

\* Assigning to a slot (Durable's move assignment from a temporary) keeps the
\* counts right, whatever the slot held and whatever it gets.
LEMMA AssignCounted ==
  ASSUME NEW C \in SUBSET Slots, NEW e \in [Slots -> References],
         NEW p \in [Values -> Nat], Counted(C, e, p), NEW s \in C, NEW x \in References
  PROVE  LET q == Release(AddRef(p, x), e[s])
         IN q \in [Values -> Nat] /\ Counted(C, [e EXCEPT ![s] = x], q)
<1> DEFINE f == [e EXCEPT ![s] = x]
           q == Release(AddRef(p, x), e[s])
<1>1. q \in [Values -> Int]
  BY DEF Release, AddRef
<1>2. ASSUME NEW v \in Values
      PROVE  q[v] = Cardinality(HoldersIn(C, f, v)) /\ q[v] \in Nat
  <2> DEFINE H == HoldersIn(C, e, v)
  <2>1. IsFiniteSet(H) /\ Cardinality(H) \in Nat /\ p[v] = Cardinality(H)
    BY HoldersFinite DEF Counted
  <2>2. Cardinality(HoldersIn(C, f, v)) \in Nat
    BY HoldersFinite
  <2>3. CASE e[s] = v /\ x = v
    <3>1. HoldersIn(C, f, v) = H
      BY <2>3 DEF HoldersIn
    <3>2. q[v] = p[v]
      BY <2>3 DEF Release, AddRef
    <3> QED
      BY <3>1, <3>2, <2>1
  <2>4. CASE e[s] = v /\ x # v
    <3>1. HoldersIn(C, f, v) = H \ {s} /\ s \in H
      BY <2>4 DEF HoldersIn
    <3>2. q[v] = p[v] - 1
      BY <2>4 DEF Release, AddRef
    <3>3. Cardinality(HoldersIn(C, f, v)) = Cardinality(H) - 1
      <4> HIDE DEF H
      <4>1. Cardinality(H \ {s}) = Cardinality(H) - 1
        BY <3>1, <2>1, FS_RemoveElement
      <4> QED
        BY <3>1, <4>1
    <3> QED
      BY <3>2, <3>3, <2>1, <2>2
  <2>5. CASE e[s] # v /\ x = v
    <3>1. HoldersIn(C, f, v) = H \cup {s} /\ s \notin H
      BY <2>5 DEF HoldersIn
    <3>2. q[v] = p[v] + 1
      BY <2>5 DEF Release, AddRef
    <3>3. Cardinality(HoldersIn(C, f, v)) = Cardinality(H) + 1
      BY <3>1, <2>1, FS_AddElement
    <3> QED
      BY <3>2, <3>3, <2>1
  <2>6. CASE e[s] # v /\ x # v
    <3>1. HoldersIn(C, f, v) = H
      BY <2>6 DEF HoldersIn
    <3>2. q[v] = p[v]
      BY <2>6 DEF Release, AddRef
    <3> QED
      BY <3>1, <3>2, <2>1
  <2> QED
    BY <2>3, <2>4, <2>5, <2>6
<1>3. q \in [Values -> Nat]
  BY <1>1, <1>2
<1> QED
  BY <1>2, <1>3 DEF Counted

\* The same with the two results named.
Put(e, s, x) == [e EXCEPT ![s] = x]
Recount(p, x, y) == Release(AddRef(p, x), y)

LEMMA PutCounted ==
  ASSUME NEW C \in SUBSET Slots, NEW e \in [Slots -> References],
         NEW p \in [Values -> Nat], Counted(C, e, p), NEW s \in C, NEW x \in References
  PROVE  /\ Recount(p, x, e[s]) \in [Values -> Nat]
         /\ Put(e, s, x) \in [Slots -> References]
         /\ Counted(C, Put(e, s, x), Recount(p, x, e[s]))
<1>1. Release(AddRef(p, x), e[s]) \in [Values -> Nat]
  BY AssignCounted
<1>2. Counted(C, [e EXCEPT ![s] = x], Release(AddRef(p, x), e[s]))
  BY AssignCounted
<1> QED
  BY <1>1, <1>2 DEF Put, Recount

-----------------------------------------------------------------------------
\* The new runtime's cache is empty.
LEMMA InitIInv == Init => IInv
<1> SUFFICES ASSUME Init PROVE IInv
  OBVIOUS
<1> USE DEF Init
<1>1. TypeOK
  BY DEF TypeOK
<1>2. PinsExact
  <2>1. \A v \in Values : Holders(v) = {}
    BY ValuesAssumption DEF Holders
  <2> QED
    BY <2>1, FS_EmptySet DEF PinsExact
<1>3. CachedAlive /\ TokensDistinct /\ ClearedInv /\ StaleInv
  BY ValuesAssumption DEF CachedAlive, TokensDistinct, ClearedInv, StaleInv, Slots, Maps
<1> QED
  BY <1>1, <1>2, <1>3 DEF IInv

\* PinsExact says Counted of the state.
LEMMA PinsAreCounted == PinsExact <=> Counted(CountedSlots, entries, pins)
  BY DEF PinsExact, Counted, Holders, HoldersIn, CountedSlots

\* Two entries are made in empty slots.
LEMMA TwoCounted ==
  ASSUME TypeOK, PinsExact, NEW a \in CountedSlots, NEW b \in CountedSlots, a # b,
         entries[a] = Null, entries[b] = Null, NEW x \in References, NEW y \in References
  PROVE  /\ AddRef(AddRef(pins, x), y) \in [Values -> Nat]
         /\ Put(Put(entries, a, x), b, y) \in [Slots -> References]
         /\ Counted(CountedSlots, Put(Put(entries, a, x), b, y), AddRef(AddRef(pins, x), y))
<1> DEFINE e1 == Put(entries, a, x)
           p1 == Recount(pins, x, entries[a])
           e2 == Put(e1, b, y)
           p2 == Recount(p1, y, e1[b])
<1>1. /\ entries \in [Slots -> References] /\ pins \in [Values -> Nat]
      /\ CountedSlots \in SUBSET Slots /\ Counted(CountedSlots, entries, pins)
  BY PinsAreCounted DEF TypeOK, References, CountedSlots
<1>2. e1[b] = Null /\ e2 = Put(Put(entries, a, x), b, y)
  BY <1>1 DEF Put
<1>3. p1 = AddRef(pins, x) /\ p2 = AddRef(AddRef(pins, x), y)
  BY <1>2, ValuesAssumption DEF Recount, Release
<1>4. /\ p1 \in [Values -> Nat] /\ Counted(CountedSlots, e1, p1)
      /\ e1 \in [Slots -> References]
  BY <1>1, PutCounted
<1> HIDE DEF e1, p1
<1>5. /\ p2 \in [Values -> Nat] /\ Counted(CountedSlots, e2, p2)
      /\ e2 \in [Slots -> References]
  BY <1>1, <1>4, PutCounted
<1> QED
  BY <1>2, <1>3, <1>5

\* One assignment keeps type and counts.
LEMMA AssignKeeps ==
  ASSUME TypeOK, PinsExact, NEW s \in CountedSlots, NEW x \in References, Assign(s, x),
         UNCHANGED stale
  PROVE  /\ entries' \in [Slots -> References] /\ pins' \in [Values -> Nat]
         /\ PinsExact'
         /\ entries' = [entries EXCEPT ![s] = x]
<1>1. entries \in [Slots -> References] /\ pins \in [Values -> Nat]
  BY DEF TypeOK, References
<1>2. Counted(CountedSlots, entries, pins) /\ CountedSlots \in SUBSET Slots
  BY PinsAreCounted DEF CountedSlots
<1>3. pins' \in [Values -> Nat] /\ Counted(CountedSlots, entries', pins')
  BY <1>1, <1>2, AssignCounted DEF Assign
<1>4. PinsExact'
  BY <1>3 DEF PinsExact, Counted, Holders, HoldersIn, CountedSlots, Uncounted
<1> QED
  BY <1>1, <1>3, <1>4 DEF Assign

\* An uncounted entry belongs to a token that has one.
LEMMA EmptyIsCounted ==
  ASSUME StaleInv, NEW m \in Maps, NEW t \in Tokens, ~ Has(m, t)
  PROVE  <<m, t>> \in CountedSlots
BY ValuesAssumption DEF StaleInv, Has, CountedSlots, Uncounted, Slots

\* It stays as long as no assignment is made to it.
LEMMA StaleStays ==
  ASSUME TypeOK, StaleInv, UNCHANGED stale, NEW s \in CountedSlots, NEW x,
         entries' = [entries EXCEPT ![s] = x]
  PROVE  StaleInv'
<1>1. ASSUME NEW t \in stale
      PROVE  <<"propids_", t>> \in Slots /\ <<"propids_", t>> # s
  BY DEF TypeOK, Slots, Maps, CountedSlots, Uncounted
<1>2. \A t \in stale : entries'[<<"propids_", t>>] = entries[<<"propids_", t>>]
  BY <1>1 DEF TypeOK
<1> QED
  BY <1>2 DEF StaleInv

\* A new value in an empty slot: nobody else has it.
LEMMA CreateKeeps ==
  ASSUME IInv, phase = "open", UNCHANGED phase,
         NEW m \in Maps, NEW t \in Tokens, NEW v \in Values, Create(m, t, v)
  PROVE  IInv'
<1> USE DEF IInv
<1>0. <<m, t>> \in CountedSlots /\ v \in References /\ v \notin alive /\ UNCHANGED stale
  BY EmptyIsCounted DEF References, Create, Fresh
<1>1. /\ entries' \in [Slots -> References] /\ pins' \in [Values -> Nat] /\ PinsExact'
      /\ entries' = [entries EXCEPT ![<<m, t>>] = v]
  BY <1>0, AssignKeeps DEF Create
<1>2. TypeOK'
  BY <1>1 DEF TypeOK, Create, References
<1>3. CachedAlive' /\ StaleInv'
  BY <1>0, <1>1, StaleStays DEF CachedAlive, Create, TypeOK, Uncounted
<1>4. \A s \in Slots \ Uncounted : entries[s] # v
  BY <1>0, ValuesAssumption DEF CachedAlive
<1>5. TokensDistinct'
  <2> SUFFICES ASSUME NEW n \in {"strings_", "symbols_"}, NEW a \in Tokens, NEW b \in Tokens,
                      entries'[<<n, a>>] = entries'[<<n, b>>], entries'[<<n, a>>] \in Values
               PROVE  a = b
    BY DEF TokensDistinct
  <2>1. <<n, a>> \in Slots \ Uncounted /\ <<n, b>> \in Slots \ Uncounted
    BY DEF Slots, Maps, Uncounted
  <2>2. CASE entries'[<<n, a>>] = v
    BY <2>1, <2>2, <1>1, <1>4 DEF TypeOK
  <2>3. CASE entries'[<<n, a>>] # v
    BY <2>1, <2>3, <1>1 DEF TypeOK, TokensDistinct
  <2> QED
    BY <2>2, <2>3
<1>6. ClearedInv'
  BY DEF ClearedInv
<1> QED
  BY <1>1, <1>2, <1>3, <1>5, <1>6

\* A hit changes no entry.
LEMMA FoundKeeps ==
  ASSUME IInv, UNCHANGED phase, phase = "open", NEW m \in Maps, NEW t \in Tokens, Found(m, t)
  PROVE  IInv'
<1> USE DEF IInv
<1>1. TypeOK'
  BY DEF TypeOK, Found
<1>2. PinsExact' /\ CachedAlive' /\ TokensDistinct' /\ ClearedInv' /\ StaleInv'
  BY DEF Found, PinsExact, Holders, Uncounted, CachedAlive, TokensDistinct, ClearedInv, StaleInv
<1> QED
  BY <1>1, <1>2

\* A symbol and its string are made by one call.
LEMMA TwoMadeKeeps ==
  ASSUME IInv, phase = "open", UNCHANGED phase, NEW t \in Tokens,
         ~ Has("symbols_", t), ~ Has("strings_", t),
         NEW x \in Fresh, NEW y \in Fresh, x # y,
         alive' = alive \cup {x, y}, held' = held \cup {x, y},
         entries' = [entries EXCEPT ![<<"strings_", t>>] = x, ![<<"symbols_", t>>] = y],
         pins' = AddRef(AddRef(pins, x), y), UNCHANGED stale
  PROVE  IInv'
<1> USE DEF IInv
<1> DEFINE a == <<"strings_", t>>
           b == <<"symbols_", t>>
<1>1. /\ a \in Slots /\ b \in Slots /\ a # b /\ a \notin Uncounted /\ b \notin Uncounted
      /\ x \in Values /\ y \in Values /\ x \notin alive /\ y \notin alive
      /\ entries \in [Slots -> References] /\ pins \in [Values -> Nat]
      /\ entries[a] = Null /\ entries[b] = Null
  BY DEF Slots, Maps, Fresh, TypeOK, References, Has, Uncounted
<1>5. /\ pins' \in [Values -> Nat] /\ Counted(CountedSlots, entries', pins')
      /\ entries' \in [Slots -> References]
  <2> DEFINE f == Put(Put(entries, a, x), b, y)
             q == AddRef(AddRef(pins, x), y)
  <2>1. a \in CountedSlots /\ b \in CountedSlots /\ x \in References /\ y \in References
    BY <1>1 DEF CountedSlots, References
  <2>2. q \in [Values -> Nat] /\ f \in [Slots -> References] /\ Counted(CountedSlots, f, q)
    <3> HIDE DEF a, b
    <3> QED
      BY <1>1, <2>1, TwoCounted
  <2>3. f = entries'
    BY <1>1 DEF Put
  <2> QED
    BY <2>2, <2>3
<1>6. TypeOK'
  BY <1>1, <1>5 DEF TypeOK, References
<1>7. PinsExact'
  BY <1>5 DEF Counted, HoldersIn, PinsExact, Holders, CountedSlots, Uncounted
<1>8. \A s \in Slots : entries'[s] = IF s = a THEN x ELSE IF s = b THEN y ELSE entries[s]
  BY <1>1 DEF TypeOK
<1>9. CachedAlive'
  <2>1. alive' = alive \cup {x, y}
    OBVIOUS
  <2>2. \A s \in Slots \ Uncounted : entries[s] \in alive \cup {Garbage, Null}
    BY DEF CachedAlive
  <2> HIDE DEF a, b, IInv
  <2>3. \A s \in Slots \ Uncounted : entries'[s] \in alive' \cup {Garbage, Null}
    BY <1>8, <2>1, <2>2
  <2> QED
    BY <2>3 DEF CachedAlive, Uncounted
<1>10. \A s \in Slots \ Uncounted : entries[s] # x /\ entries[s] # y
  BY <1>1, ValuesAssumption DEF CachedAlive
<1>11. TokensDistinct'
  <2> SUFFICES ASSUME NEW n \in {"strings_", "symbols_"}, NEW c \in Tokens, NEW d \in Tokens,
                      entries'[<<n, c>>] = entries'[<<n, d>>], entries'[<<n, c>>] \in Values
               PROVE  c = d
    BY DEF TokensDistinct
  <2>1. <<n, c>> \in Slots \ Uncounted /\ <<n, d>> \in Slots \ Uncounted
    BY DEF Slots, Maps, Uncounted
  <2>2. CASE entries'[<<n, c>>] \in {x, y}
    BY <2>1, <2>2, <1>8, <1>10
  <2>3. CASE entries'[<<n, c>>] \notin {x, y}
    <3>1. entries'[<<n, c>>] = entries[<<n, c>>] /\ entries'[<<n, d>>] = entries[<<n, d>>]
      BY <2>1, <2>3, <1>8
    <3> QED
      BY <3>1 DEF TokensDistinct
  <2> QED
    BY <2>2, <2>3
<1>12. StaleInv'
  BY <1>1, <1>8 DEF StaleInv, Slots, Maps, TypeOK
<1> QED
  BY <1>6, <1>7, <1>9, <1>11, <1>12 DEF ClearedInv

\* A reference that is no new value, or none: what a failed call left, a prototype,
\* the exports of a module, what a job holds.
LEMMA AssignOldKeeps ==
  ASSUME IInv, phase = "open", UNCHANGED <<phase, alive, stale>>, held' \subseteq alive,
         NEW s \in CountedSlots, NEW x \in alive \cup {Garbage, Null}, Assign(s, x),
         s[1] \notin {"strings_", "symbols_"}
  PROVE  IInv'
<1> USE DEF IInv
<1>1. x \in References
  BY DEF References, TypeOK
<1>2. /\ entries' \in [Slots -> References] /\ pins' \in [Values -> Nat] /\ PinsExact'
      /\ entries' = [entries EXCEPT ![s] = x]
  BY <1>1, AssignKeeps
<1>3. TypeOK' /\ CachedAlive' /\ StaleInv'
  BY <1>2, StaleStays DEF TypeOK, CachedAlive, References, Uncounted
<1>4. TokensDistinct'
  <2> SUFFICES ASSUME NEW n \in {"strings_", "symbols_"}, NEW a \in Tokens, NEW b \in Tokens,
                      entries'[<<n, a>>] = entries'[<<n, b>>], entries'[<<n, a>>] \in Values
               PROVE  a = b
    BY DEF TokensDistinct
  <2>1. <<n, a>> \in Slots /\ <<n, b>> \in Slots
    BY DEF Slots, Maps
  <2>2. <<n, a>> # s /\ <<n, b>> # s
    BY <2>1, <1>2 DEF TypeOK
  <2> QED
    BY <2>1, <2>2, <1>2 DEF TypeOK, TokensDistinct
<1> QED
  BY <1>2, <1>3, <1>4 DEF ClearedInv

\* A property id that was collected before it is entered: nothing is counted, and the
\* slot, which held nothing, is left out from then on.
LEMMA StaleKeeps ==
  ASSUME IInv, phase = "open", UNCHANGED phase, NEW t \in Tokens, ~ Has("propids_", t),
         NEW g \in Values \ alive, EnterStale(t, g)
  PROVE  IInv'
<1> USE DEF IInv
<1> DEFINE s == <<"propids_", t>>
<1>1. /\ s \in Slots /\ entries[s] = Null
      /\ UNCHANGED <<alive, held, pins>> /\ Uncounted' = Uncounted \cup {s}
      /\ entries' = [entries EXCEPT ![s] = g]
  BY DEF Slots, Maps, Has, EnterStale, Uncounted
<1> HIDE DEF s
<1>2. TypeOK'
  BY <1>1 DEF TypeOK, EnterStale
<1>3. \A r \in Slots \ Uncounted' : entries'[r] = entries[r] /\ r \notin Uncounted
  BY <1>1 DEF TypeOK
<1>4. ASSUME NEW v \in Values
      PROVE  Holders(v)' = Holders(v)
  <2>1. s \notin Holders(v)
    BY <1>1, ValuesAssumption DEF Holders
  <2> QED
    BY <1>1, <1>3, <2>1 DEF Holders
<1>5. PinsExact'
  BY <1>1, <1>4 DEF PinsExact
<1>6. CachedAlive'
  BY <1>1, <1>3 DEF CachedAlive
<1>7. TokensDistinct' /\ ClearedInv'
  <2>1. \A r \in Slots : r[1] # "propids_" => entries'[r] = entries[r]
    BY <1>1 DEF TypeOK, s
  <2> QED
    BY <2>1 DEF TokensDistinct, ClearedInv, CacheSlots, Of, Slots, Maps
<1>8. StaleInv'
  BY <1>1 DEF StaleInv, EnterStale, TypeOK, Slots, Maps, s
<1> QED
  BY <1>2, <1>5, <1>6, <1>7, <1>8

\* Slots that are let go of release what they held, and no other value.
LEMMA LetGoKeeps ==
  ASSUME IInv, NEW S \in SUBSET CountedSlots, LetGo(S), UNCHANGED <<alive, held, stale>>
  PROVE  /\ \A s \in Slots : entries'[s] = IF s \in S THEN Null ELSE entries[s]
         /\ entries' \in [Slots -> References] /\ pins' \in [Values -> Nat]
         /\ PinsExact' /\ TokensDistinct' /\ StaleInv'
         /\ \A s \in Slots \ Uncounted' : entries'[s] \in {entries[s], Null} /\ s \notin Uncounted
<1> USE DEF IInv
<1>1. S \subseteq Slots \ Uncounted
  BY DEF CountedSlots
<1>2. \A s \in Slots : entries'[s] = IF s \in S THEN Null ELSE entries[s]
  BY DEF LetGo
<1>3. ASSUME NEW v \in Values
      PROVE  pins'[v] = Cardinality(Holders(v)') /\ pins'[v] \in Nat
  <2> DEFINE C == {s \in S : entries[s] = v}
             H == Holders(v)
             K == H \ C
  <2>1. C \in SUBSET H /\ K \in SUBSET H
    BY <1>1 DEF Holders
  <2>2. IsFiniteSet(H)
    BY HoldersAreFinite
  <2>3. IsFiniteSet(C) /\ IsFiniteSet(K)
    BY <2>1, <2>2, FS_Subset
  <2>4. Cardinality(C) \in Nat /\ Cardinality(K) \in Nat
    BY <2>3, FS_CardinalityType
  <2>5. Cardinality(C \cup K) = Cardinality(C) + Cardinality(K) - Cardinality(C \cap K)
    BY <2>3, FS_Union
  <2>6. C \cup K = H /\ C \cap K = {}
    BY <2>1
  <2>7. Cardinality(H) = Cardinality(C) + Cardinality(K)
    <3>1. Cardinality(C \cap K) = 0
      BY <2>6, FS_EmptySet
    <3> HIDE DEF C, K, H
    <3>2. Cardinality(H) = Cardinality(C) + Cardinality(K) - 0
      BY <2>5, <2>6, <3>1
    <3> QED
      BY <2>4, <3>2
  <2>8. Holders(v)' = K
    BY <1>2, ValuesAssumption DEF Holders, Uncounted
  <2>9. pins'[v] = Cardinality(H) - Cardinality(C)
    BY DEF LetGo, PinsExact
  <2> QED
    BY <2>4, <2>7, <2>8, <2>9
<1>4. entries' \in [Slots -> References] /\ pins' \in [Values -> Nat]
  BY <1>3 DEF LetGo, TypeOK, References
<1>5. PinsExact'
  BY <1>3 DEF PinsExact
<1>6. TokensDistinct'
  <2> SUFFICES ASSUME NEW n \in {"strings_", "symbols_"}, NEW a \in Tokens, NEW b \in Tokens,
                      entries'[<<n, a>>] = entries'[<<n, b>>], entries'[<<n, a>>] \in Values
               PROVE  a = b
    BY DEF TokensDistinct
  <2>1. <<n, a>> \in Slots /\ <<n, b>> \in Slots
    BY DEF Slots, Maps
  <2>2. entries[<<n, a>>] = entries'[<<n, a>>] /\ entries[<<n, b>>] = entries'[<<n, b>>]
    BY <1>2, <2>1, ValuesAssumption
  <2> QED
    BY <2>2 DEF TokensDistinct
<1>7. StaleInv'
  BY <1>1, <1>2 DEF StaleInv, TypeOK, Uncounted, Slots, Maps
<1>8. \A s \in Slots \ Uncounted' : entries'[s] \in {entries[s], Null} /\ s \notin Uncounted
  BY <1>2 DEF Uncounted
<1> QED
  BY <1>2, <1>4, <1>5, <1>6, <1>7, <1>8

\* The steps of the destructor.
LEMMA EndKeeps == ASSUME IInv, clear \/ DestroyModules \/ DestroyLoop PROVE IInv'
<1> USE DEF IInv
<1>1. ASSUME NEW S \in SUBSET CountedSlots, LetGo(S), UNCHANGED <<alive, held, stale>>,
             phase # "disposed",
             phase' \in {"open", "cleared", "unloaded", "stopped", "disposed"}
      PROVE  TypeOK' /\ PinsExact' /\ CachedAlive' /\ TokensDistinct' /\ StaleInv'
  <2>1. /\ entries' \in [Slots -> References] /\ pins' \in [Values -> Nat]
        /\ PinsExact' /\ TokensDistinct' /\ StaleInv'
        /\ \A s \in Slots \ Uncounted' : entries'[s] \in {entries[s], Null} /\ s \notin Uncounted
    BY <1>1, LetGoKeeps
  <2>2. TypeOK'
    BY <1>1, <2>1 DEF TypeOK, References
  <2>3. CachedAlive'
    BY <1>1, <2>1 DEF CachedAlive
  <2> QED
    BY <2>1, <2>2, <2>3
<1>2. ASSUME NEW S \in SUBSET CountedSlots, LetGo(S), UNCHANGED <<alive, held, stale>>
      PROVE  \A s \in Slots : entries'[s] = IF s \in S THEN Null ELSE entries[s]
  BY <1>2 DEF LetGo
<1>3. /\ CacheSlots \in SUBSET CountedSlots
      /\ Of({"running_modules_"}) \in SUBSET CountedSlots /\ Of({"handlers"}) \in SUBSET CountedSlots
      /\ CacheSlots \subseteq Slots
  BY DEF CacheSlots, Of, CountedSlots, Uncounted
<1>4. CASE clear
  <2>1. /\ LetGo(CacheSlots) /\ UNCHANGED <<alive, held, stale>>
        /\ phase = "open" /\ phase' = "cleared"
    BY <1>4 DEF clear, CacheSlots
  <2>2. ClearedInv'
    BY <1>2, <1>3, <2>1 DEF ClearedInv
  <2> QED
    BY <1>1, <1>3, <2>1, <2>2
<1>5. CASE DestroyModules
  <2>1. /\ LetGo(Of({"running_modules_"})) /\ UNCHANGED <<alive, held, stale>>
        /\ phase = "cleared" /\ phase' = "unloaded"
    BY <1>5 DEF DestroyModules
  <2>2. ClearedInv'
    BY <1>2, <1>3, <2>1 DEF ClearedInv, CountedSlots
  <2> QED
    BY <1>1, <1>3, <2>1, <2>2
<1>6. CASE DestroyLoop
  <2>1. /\ LetGo(Of({"handlers"})) /\ UNCHANGED <<alive, held, stale>>
        /\ phase = "unloaded" /\ phase' = "stopped"
    BY <1>6 DEF DestroyLoop
  <2>2. Of({"running_modules_"}) \subseteq Slots /\ Of({"handlers"}) \subseteq Slots
    BY DEF Of
  <2>3. ClearedInv'
    BY <1>2, <1>3, <2>1, <2>2 DEF ClearedInv
  <2> QED
    BY <1>1, <1>3, <2>1, <2>3
<1> QED
  BY <1>4, <1>5, <1>6

\* Modules and jobs.
LEMMA JobsKeep ==
  ASSUME IInv,
         \/ \E m \in Modules, v \in Values \cup {Null} : EnterModule(m, v)
         \/ \E q \in Queues, j \in Jobs : RunJob(q, j) \/ \E v \in Values : Post(q, j, v)
  PROVE  IInv'
<1> USE DEF IInv
<1>1. ASSUME NEW m \in Modules, NEW v \in Values \cup {Null}, EnterModule(m, v)
      PROVE  IInv'
  <2> DEFINE s == <<"running_modules_", m>>
  <2>1. s \in CountedSlots /\ s[1] \notin {"strings_", "symbols_"}
    BY DEF Slots, CountedSlots, Uncounted
  <2>2. v \in alive \cup {Garbage, Null} /\ held' \subseteq alive
    BY <1>1 DEF EnterModule, TypeOK
  <2> QED
    BY <1>1, <2>1, <2>2, AssignOldKeeps DEF EnterModule
<1>2. ASSUME NEW q \in Queues, NEW j \in Jobs
      PROVE  <<q, j>> \in CountedSlots /\ <<q, j>>[1] \notin {"strings_", "symbols_"}
  BY DEF Slots, Queues, CountedSlots, Uncounted
<1>3. ASSUME NEW q \in Queues, NEW j \in Jobs, NEW v \in Values, Post(q, j, v)
      PROVE  IInv'
  <2>1. v \in alive \cup {Garbage, Null} /\ held' \subseteq alive
    BY <1>3 DEF Post, TypeOK
  <2> QED
    BY <1>2, <1>3, <2>1, AssignOldKeeps DEF Post
<1>4. ASSUME NEW q \in Queues, NEW j \in Jobs, RunJob(q, j)
      PROVE  IInv'
  <2>1. held' \subseteq alive
    BY <1>2, <1>4, ValuesAssumption DEF RunJob, TypeOK, CachedAlive, CountedSlots
  <2>2. Assign(<<q, j>>, Null) /\ phase = "open" /\ UNCHANGED <<phase, alive, stale>>
    BY <1>4 DEF RunJob
  <2> QED
    BY <1>2, <2>1, <2>2, AssignOldKeeps
<1> QED
  BY <1>1, <1>3, <1>4

\* Objects come and go beside the cache, and the runtime ends.
LEMMA OthersKeep ==
  ASSUME IInv, Dispose \/ \E v \in Values : NewObject(v) \/ Drop(v) \/ Collect(v)
  PROVE  IInv'
<1> USE DEF IInv
<1>1. UNCHANGED <<entries, pins, stale>>
  BY DEF Dispose, NewObject, Drop, Collect
<1>2. PinsExact' /\ TokensDistinct' /\ StaleInv'
  BY <1>1 DEF PinsExact, Holders, Uncounted, TokensDistinct, StaleInv
<1>3. CASE Dispose
  BY <1>1, <1>2, <1>3 DEF Dispose, TypeOK, CachedAlive, ClearedInv
<1>4. ASSUME NEW v \in Values, NewObject(v) \/ Drop(v)
      PROVE  IInv'
  BY <1>1, <1>2, <1>4 DEF NewObject, Drop, Fresh, TypeOK, CachedAlive, Uncounted, ClearedInv
<1>5. ASSUME NEW v \in Values, Collect(v)
      PROVE  IInv'
  <2>1. Holders(v) = {}
    <3>1. Cardinality(Holders(v)) = 0
      BY <1>5 DEF Collect, PinsExact
    <3> QED
      BY <3>1, HoldersAreFinite, FS_EmptySet
  <2>2. CachedAlive'
    BY <1>1, <1>5, <2>1 DEF CachedAlive, Collect, Holders, Uncounted
  <2> QED
    BY <1>1, <1>2, <1>5, <2>2 DEF Collect, TypeOK, ClearedInv
<1> QED
  BY <1>3, <1>4, <1>5

\* The inductive step.
LEMMA NextIInv == IInv /\ [Next]_vars => IInv'
<1> SUFFICES ASSUME IInv, [Next]_vars PROVE IInv'
  OBVIOUS
<1>0. "strings_" \in Maps /\ "protos_" \in Maps /\ "symbols_" \in Maps /\ "propids_" \in Maps
  BY DEF Maps
<1>1. ASSUME NEW t \in Tokens, get_string(t)
      PROVE  IInv'
  BY <1>0, <1>1, FoundKeeps, CreateKeeps DEF get_string
<1>2. ASSUME NEW t \in Tokens, get_propid(t)
      PROVE  IInv'
  <2>1. phase = "open" /\ UNCHANGED phase
    BY <1>2 DEF get_propid
  <2>2. CASE Found("propids_", t)
    BY <1>0, <2>1, <2>2, FoundKeeps
  <2>3. CASE \E v \in Values : Create("propids_", t, v)
    BY <1>0, <2>1, <2>3, CreateKeeps
  <2>4. CASE /\ ~ Has("propids_", t)
             /\ \E g \in alive \cup {Garbage} : EnterLeft(t, g)
    <3>1. <<"propids_", t>> \in CountedSlots
      BY <1>0, <2>4, EmptyIsCounted DEF IInv
    <3>2. held' \subseteq alive
      BY <2>4, ValuesAssumption DEF EnterLeft, IInv, TypeOK
    <3> QED
      BY <2>1, <2>4, <3>1, <3>2, AssignOldKeeps DEF EnterLeft
  <2>5. CASE ~ Has("propids_", t) /\ \E g \in Values \ alive : EnterStale(t, g)
    BY <2>1, <2>5, StaleKeeps
  <2> QED
    BY <1>2, <2>2, <2>3, <2>4, <2>5 DEF get_propid
<1>3. ASSUME NEW t \in Tokens, get_symbol(t)
      PROVE  IInv'
  <2>1. phase = "open" /\ UNCHANGED phase
    BY <1>3 DEF get_symbol
  <2>2. CASE Found("symbols_", t)
    BY <1>0, <2>1, <2>2, FoundKeeps
  <2>3. CASE \E v \in Values : Create("symbols_", t, v) \/ Create("strings_", t, v)
    BY <1>0, <2>1, <2>3, CreateKeeps
  <2>4. CASE /\ ~ Has("symbols_", t) /\ ~ Has("strings_", t)
             /\ \E s, v \in Fresh :
                  /\ s # v
                  /\ alive' = alive \cup {s, v} /\ held' = held \cup {s, v}
                  /\ entries' = [entries EXCEPT ![<<"strings_", t>>] = s,
                                                ![<<"symbols_", t>>] = v]
                  /\ pins' = AddRef(AddRef(pins, s), v)
                  /\ UNCHANGED stale
    BY <2>1, <2>4, TwoMadeKeeps
  <2> QED
    BY <1>3, <2>2, <2>3, <2>4 DEF get_symbol
<1>4. ASSUME NEW t \in Tokens, get_proto(t)
      PROVE  IInv'
  BY <1>0, <1>4, FoundKeeps DEF get_proto
<1>5. ASSUME NEW t \in Tokens, NEW v \in Values \cup {Null}, put_proto(t, v)
      PROVE  IInv'
  <2>1. <<"protos_", t>> \in CountedSlots /\ v \in alive \cup {Garbage, Null} /\ held' \subseteq alive
    BY <1>0, <1>5 DEF Slots, CountedSlots, Uncounted, put_proto, IInv, TypeOK
  <2> QED
    BY <1>5, <2>1, AssignOldKeeps DEF put_proto
<1>6. CASE clear \/ DestroyModules \/ DestroyLoop
  BY <1>6, EndKeeps
<1>7. CASE Dispose \/ \E v \in Values : NewObject(v) \/ Drop(v) \/ Collect(v)
  BY <1>7, OthersKeep
<1>8. CASE UNCHANGED vars
  BY <1>8 DEF vars, IInv, TypeOK, PinsExact, Holders, Uncounted, CachedAlive, TokensDistinct,
              ClearedInv, StaleInv
<1>9. CASE \/ \E m \in Modules, v \in Values \cup {Null} : EnterModule(m, v)
           \/ \E q \in Queues, j \in Jobs : RunJob(q, j) \/ \E v \in Values : Post(q, j, v)
  BY <1>9, JobsKeep
<1> QED
  BY <1>1, <1>2, <1>3, <1>4, <1>5, <1>6, <1>7, <1>8, <1>9 DEF Next

LEMMA Invariance == Spec => []IInv
<1> QED
  BY InitIInv, NextIInv, PTL DEF Spec

-----------------------------------------------------------------------------
\* Every variable of the runtime keeps its type; no count becomes negative.
THEOREM TypeCorrect == Spec => []TypeOK
<1>1. IInv => TypeOK
  BY DEF IInv
<1> QED
  BY <1>1, Invariance, PTL

\* Every value is pinned once for each entry, handler and task that holds it, except an
\* entry whose property id had been collected before it was entered (Uncounted).
THEOREM PinsCorrect == Spec => []PinsExact
<1>1. IInv => PinsExact
  BY DEF IInv
<1> QED
  BY <1>1, Invariance, PTL

\* Nothing that a living runtime keeps refers to a collected value, except an entry
\* whose property id had been collected before it was entered (Uncounted).
THEOREM NoStaleEntry == Spec => []CachedAlive
<1>1. IInv => CachedAlive
  BY DEF IInv
<1> QED
  BY <1>1, Invariance, PTL

\* Two tokens never share a string or a symbol.
THEOREM NoSharing == Spec => []TokensDistinct
<1>1. IInv => TokensDistinct
  BY DEF IInv
<1> QED
  BY <1>1, Invariance, PTL

\* When the engine's runtime is disposed of only property ids and the tasks of
\* continuations that have never run are still pinned.
THEOREM LeftAtTheEnd == Spec => []ReleasedBeforeDisposal
<1>1. IInv => ReleasedBeforeDisposal
  <2> SUFFICES ASSUME IInv, phase = "disposed", NEW v \in Values, pins[v] > 0
               PROVE  \E s \in Of({"propids_", "tasks"}) : entries[s] = v
    BY DEF ReleasedBeforeDisposal
  <2>1. Holders(v) # {}
    BY FS_EmptySet DEF IInv, PinsExact
  <2>2. PICK s \in Slots : entries[s] = v
    BY <2>1 DEF Holders
  <2>3. entries[s] # Null
    BY <2>2, ValuesAssumption
  <2>4. s[1] \notin {"strings_", "protos_", "symbols_", "running_modules_", "handlers"}
    BY <2>3 DEF IInv, ClearedInv, CacheSlots, Of
  <2>5. s[1] \in Maps \cup {"running_modules_"} \cup Queues
    BY DEF Slots
  <2>6. s \in Of({"propids_", "tasks"})
    BY <2>4, <2>5 DEF Of, Maps, Queues
  <2> QED
    BY <2>2, <2>6
<1> QED
  BY <1>1, Invariance, PTL

\* What a token was given it keeps until the cache is cleared.
THEOREM EntriesAreFinal == Spec => EntriesStay
<1> DEFINE Final == Of({"strings_", "symbols_", "propids_"})
<1>1. ASSUME TypeOK, [Next]_vars, phase' = "open", NEW s \in Final, entries[s] # Null
      PROVE  entries'[s] = entries[s]
  <2>0. s \in Slots /\ s[1] \in {"strings_", "symbols_", "propids_"}
    BY DEF Of
  <2>1. entries \in [Slots -> Values \cup {Garbage, Null}]
    BY <1>1 DEF TypeOK
  <2> HIDE DEF Final
  <2>2. ASSUME NEW r, NEW x, Assign(r, x), r # s
        PROVE  entries'[s] = entries[s]
    BY <2>0, <2>1, <2>2 DEF Assign
  <2>3. ASSUME NEW m, NEW t, NEW v, Create(m, t, v)
        PROVE  entries'[s] = entries[s]
    BY <1>1, <2>2, <2>3 DEF Create, Has
  <2>4. ASSUME NEW m, NEW t, Found(m, t)
        PROVE  entries'[s] = entries[s]
    BY <2>4 DEF Found
  <2>5. ASSUME NEW t \in Tokens, get_string(t) \/ get_proto(t)
        PROVE  entries'[s] = entries[s]
    BY <2>3, <2>4, <2>5 DEF get_string, get_proto
  <2>6. ASSUME NEW t \in Tokens, get_propid(t)
        PROVE  entries'[s] = entries[s]
    <3>1. ASSUME ~ Has("propids_", t), NEW g, EnterLeft(t, g) \/ EnterStale(t, g)
          PROVE  entries'[s] = entries[s]
      <4>1. s # <<"propids_", t>>
        BY <1>1, <3>1 DEF Has
      <4> QED
        BY <2>0, <2>1, <2>2, <3>1, <4>1 DEF EnterLeft, EnterStale
    <3> QED
      BY <2>3, <2>4, <2>6, <3>1 DEF get_propid
  <2>7. ASSUME NEW t \in Tokens, get_symbol(t)
        PROVE  entries'[s] = entries[s]
    <3>1. ASSUME ~ Has("symbols_", t), ~ Has("strings_", t), NEW x, NEW y,
                 entries' = [entries EXCEPT ![<<"strings_", t>>] = x, ![<<"symbols_", t>>] = y]
          PROVE  entries'[s] = entries[s]
      <4>1. s # <<"strings_", t>> /\ s # <<"symbols_", t>>
        BY <1>1, <3>1 DEF Has
      <4> QED
        BY <2>0, <2>1, <3>1, <4>1
    <3> QED
      BY <2>3, <2>4, <2>7, <3>1 DEF get_symbol
  <2>8. ASSUME NEW m \in {"protos_", "running_modules_"} \cup Queues, NEW k, NEW x,
               Assign(<<m, k>>, x)
        PROVE  entries'[s] = entries[s]
    <3>1. s # <<m, k>>
      BY <2>0 DEF Queues
    <3> QED
      BY <2>2, <2>8, <3>1
  <2>9. ASSUME NEW t \in Tokens, NEW v, put_proto(t, v)
        PROVE  entries'[s] = entries[s]
    BY <2>8, <2>9 DEF put_proto
  <2>10. ASSUME NEW m \in Modules, NEW v, EnterModule(m, v)
         PROVE  entries'[s] = entries[s]
    BY <2>8, <2>10 DEF EnterModule
  <2>11. ASSUME NEW q \in Queues, NEW j \in Jobs, RunJob(q, j) \/ \E v \in Values : Post(q, j, v)
         PROVE  entries'[s] = entries[s]
    BY <2>8, <2>11 DEF RunJob, Post
  <2>12. ASSUME NEW v \in Values, NewObject(v) \/ Drop(v) \/ Collect(v)
         PROVE  entries'[s] = entries[s]
    BY <2>12 DEF NewObject, Drop, Collect
  <2>13. ~ clear /\ ~ DestroyModules /\ ~ DestroyLoop /\ ~ Dispose
    BY <1>1 DEF clear, DestroyModules, DestroyLoop, Dispose
  <2>14. CASE UNCHANGED vars
    BY <2>14 DEF vars
  <2> QED
    BY <1>1, <2>5, <2>6, <2>7, <2>9, <2>10, <2>11, <2>12, <2>13, <2>14 DEF Next
<1>2. TypeOK /\ [Next]_vars =>
        [phase' = "open" => \A s \in Of({"strings_", "symbols_", "propids_"}) :
                              entries[s] # Null => entries'[s] = entries[s]]_vars
  BY <1>1
<1> QED
  BY <1>2, TypeCorrect, PTL DEF Spec, EntriesStay

-----------------------------------------------------------------------------
(* The end of the runtime only lets go.                                    *)

\* What clear() passes over and what nobody destroys: the entries of property ids and the
\* tasks of continuations.
Leftovers == Of({"propids_", "tasks"})

\* A step that takes hold of nothing.
Releases ==
  /\ phase' # "open" /\ alive' \subseteq alive /\ stale' = stale
  /\ \A s \in Slots : entries'[s] \in {entries[s], Null}
  /\ \A s \in Leftovers : entries'[s] = entries[s]
  /\ \A v \in Values : pins'[v] <= pins[v]

\* No action that is possible then assigns an entry.
LEMMA ClosingReleases == IInv /\ IInv' /\ [Next]_vars /\ phase # "open" => Releases
<1> SUFFICES ASSUME IInv, IInv', [Next]_vars, phase # "open" PROVE Releases
  OBVIOUS
<1>1. \/ clear \/ DestroyModules \/ DestroyLoop \/ Dispose
      \/ \E v \in Values : Drop(v) \/ Collect(v)
      \/ UNCHANGED vars
  BY DEF Next, get_string, get_propid, get_symbol, get_proto, put_proto, EnterModule, Post,
         RunJob, NewObject
<1>2. ASSUME NEW S \in {Of({"running_modules_"}), Of({"handlers"})}, LetGo(S)
      PROVE  /\ \A s \in Slots : entries'[s] \in {entries[s], Null}
             /\ \A s \in Leftovers : entries'[s] = entries[s]
  BY <1>2 DEF LetGo, Leftovers, Of
<1>3. /\ phase' # "open" /\ alive' \subseteq alive /\ stale' = stale
      /\ \A s \in Slots : entries'[s] \in {entries[s], Null}
      /\ \A s \in Leftovers : entries'[s] = entries[s]
  BY <1>1, <1>2 DEF clear, DestroyModules, DestroyLoop, Dispose, Drop, Collect, vars
<1>4. ASSUME NEW v \in Values
      PROVE  pins'[v] <= pins[v]
  <2>1. Holders(v)' \subseteq Holders(v)
    BY <1>3, ValuesAssumption DEF Holders, Uncounted
  <2>2. IsFiniteSet(Holders(v))
    BY HoldersAreFinite
  <2>3. Cardinality(Holders(v)') <= Cardinality(Holders(v))
    BY <2>1, <2>2, FS_Subset
  <2> QED
    BY <2>3 DEF IInv, PinsExact
<1> QED
  BY <1>3, <1>4 DEF Releases

\* Once the runtime closes nothing takes hold of a value any more, whatever the destructors
\* of its members release and the collector takes: no entry is made or replaced, no count
\* goes up, and the runtime is never open again.
THEOREM ClosingOnlyReleases == Spec => [][phase # "open" => Releases]_vars
<1>1. IInv /\ IInv' /\ [Next]_vars => [phase # "open" => Releases]_vars
  BY ClosingReleases
<1> QED
  BY <1>1, Invariance, PTL DEF Spec

\* Entry s holds v, which is pinned for it, and the runtime is closing.
HeldAtTheEnd(s, v) == phase # "open" /\ entries[s] = v /\ pins[v] > 0

\* A property id that is cached, or a task that has not run, when the runtime begins to
\* close is never released: its value stays pinned until the engine's runtime is disposed
\* of, and after that.  A property id that was collected before it was entered
\* (Uncounted) never was pinned.
THEOREM NeverReleased ==
  ASSUME NEW s \in Leftovers, NEW v \in Values
  PROVE  Spec => [](phase # "open" /\ entries[s] = v /\ s \notin Uncounted => []HeldAtTheEnd(s, v))
<1> DEFINE Closing == phase # "open" /\ entries[s] = v /\ s \notin Uncounted
<1>1. IInv /\ IInv' /\ [Next]_vars /\ Closing => Closing'
  BY ClosingReleases DEF Releases, Uncounted
<1>2. IInv /\ Closing => HeldAtTheEnd(s, v)
  <2> SUFFICES ASSUME IInv, Closing PROVE pins[v] > 0
    BY DEF HeldAtTheEnd
  <2>1. s \in Holders(v)
    BY DEF Holders, Leftovers, Of
  <2>2. IsFiniteSet(Holders(v))
    BY HoldersAreFinite
  <2>3. Cardinality(Holders(v)) \in Nat /\ Cardinality(Holders(v)) # 0
    BY <2>1, <2>2, FS_CardinalityType, FS_EmptySet
  <2> QED
    BY <2>3 DEF IInv, PinsExact
<1> HIDE DEF Closing
<1>3. Spec => [](Closing => []HeldAtTheEnd(s, v))
  BY <1>1, <1>2, Invariance, PTL DEF Spec
<1> QED
  BY <1>3 DEF Closing
=============================================================================
