----------------------- MODULE ConfigOverridesProofs -----------------------
(* Proofs about ConfigOverrides, for any contents, environments and number  *)
(* of rewrites: a load returns what the file held at some moment of that    *)
(* load; on attributes the environment has the last word over the file, as  *)
(* long as no entry replaces an object that has attributes; and on the      *)
(* arguments of the decision function as long as the file keeps to lower    *)
(* case.                                                                    *)
EXTENDS ConfigOverrides, NatRecursion, TLAPS

\* The part of the state that loads and rewrites agree on.
LoadType ==
  /\ file \in [content: Contents, stamp: 1..MaxStamp]
  /\ cache \in [stamp: 0..MaxStamp, content: Contents \ {Broken}]
  /\ phase \in {"idle", "open", "loaded"} /\ statted \in 0..MaxStamp
  /\ held \subseteq Contents /\ reused \subseteq 1..MaxStamp

\* Stamps only grow; the cache has the file's content if it has its stamp and no rewrite
\* kept that stamp.
CacheFresh ==
  /\ cache.stamp <= file.stamp
  /\ cache.stamp = file.stamp /\ file.stamp \notin reused => cache.content = file.content

\* A load knows what the file holds now among what it has held meanwhile, and found its
\* stamp or an earlier one.
LoadUnderWay ==
  phase # "idle" => file.content \in held /\ statted \in 1..file.stamp

LoadInv == LoadType /\ CacheFresh /\ LoadUnderWay /\ LoadIsCurrent

-----------------------------------------------------------------------------
\* No load is under way at first, and nothing is cached.
LEMMA LoadInit == Init => LoadInv
<1> SUFFICES ASSUME Init PROVE LoadInv
  OBVIOUS
<1> USE ConfigAssumption DEF Init, None
<1>1. file \in [content: Contents, stamp: {1}] /\ phase = "idle" /\ cache = [stamp |-> 0, content |-> Missing]
  OBVIOUS
<1>2. LoadType
  BY DEF LoadType
<1>3. CacheFresh
  BY DEF CacheFresh
<1> QED BY <1>2, <1>3 DEF LoadInv, LoadUnderWay, LoadIsCurrent

\* A load finds the cached content, and that is current, or has to open the file.
LEMMA StatKeeps ==
  ASSUME LoadInv, Stat
  PROVE  LoadInv'
<1>1. /\ LoadType /\ CacheFresh
      /\ phase' \in {"open", "loaded"} /\ statted' = file.stamp /\ held' = {file.content}
      /\ UNCHANGED <<file, env, reused, cache>>
  BY DEF LoadInv, Stat, Loaded
<1>2. file.stamp \in 1..MaxStamp /\ file.content \in Contents
  BY <1>1 DEF LoadType
<1>3. LoadType'
  BY <1>1, <1>2, ConfigAssumption DEF LoadType
<1>4. CacheFresh' /\ LoadUnderWay'
  BY <1>1, <1>2 DEF CacheFresh, LoadUnderWay
<1>5. ASSUME phase' = "loaded", statted' \notin reused'
      PROVE  overrides' = Merge(Parsed(file.content), env)
  <2>1. CASE file.content = Missing
    BY <2>1 DEF Stat, Loaded
  <2>2. CASE file.content # Missing /\ Cached
    BY <1>1, <1>5, <2>2 DEF Stat, Loaded, Cached, CacheFresh
  <2>3. CASE file.content # Missing /\ ~Cached
    BY <1>5, <2>3 DEF Stat
  <2> QED BY <2>1, <2>2, <2>3
<1>6. LoadIsCurrent'
  BY <1>1, <1>5 DEF LoadIsCurrent
<1> QED BY <1>3, <1>4, <1>6 DEF LoadInv

\* What is cached has the stamp found before the file was opened: if the file has been
\* rewritten in between, its own stamp is another one by now, or the stamp was reused.
LEMMA ReadKeeps ==
  ASSUME LoadInv, Read
  PROVE  LoadInv'
<1>1. /\ LoadType /\ CacheFresh /\ LoadUnderWay
      /\ phase = "open" /\ phase' = "loaded" /\ overrides' = Merge(Parsed(file.content), env)
      /\ cache' = cache \/ (cache' = [stamp |-> statted, content |-> file.content]
                            /\ file.content # Broken)
      /\ UNCHANGED <<file, env, held, reused, statted>>
  BY DEF LoadInv, Read, Loaded, fileVars
<1>2. /\ file \in [content: Contents, stamp: 1..MaxStamp]
      /\ file.content \in held /\ statted \in 1..file.stamp
  BY <1>1 DEF LoadUnderWay, LoadType
<1>3. LoadType'
  <2>1. cache' \in [stamp: 0..MaxStamp, content: Contents \ {Broken}]
    BY <1>1, <1>2, ConfigAssumption DEF LoadType
  <2> QED BY <1>1, <2>1 DEF LoadType
<1>4. CacheFresh'
  BY <1>1, <1>2 DEF CacheFresh
<1>5. LoadUnderWay' /\ LoadIsCurrent'
  BY <1>1, <1>2 DEF LoadUnderWay, LoadIsCurrent
<1> QED BY <1>3, <1>4, <1>5 DEF LoadInv

\* A decision ends the load.
LEMMA DecisionKeeps ==
  ASSUME LoadInv, ApplyOverrides \/ DecideKwargs
  PROVE  LoadInv'
<1>1. /\ LoadType /\ CacheFresh
      /\ phase' = "idle" /\ statted' = 0 /\ held' = {}
      /\ UNCHANGED <<file, reused, cache>>
  BY DEF LoadInv, ApplyOverrides, DecideKwargs, Over, None
<1>2. LoadType' /\ CacheFresh'
  BY <1>1, ConfigAssumption DEF LoadType, CacheFresh
<1> QED BY <1>1, <1>2 DEF LoadInv, LoadUnderWay, LoadIsCurrent

\* A rewrite gives the file a stamp that nothing has seen, or reuses one.
LEMMA RewriteKeeps ==
  ASSUME LoadInv, NEW content \in Contents, Rewrite(content)
  PROVE  LoadInv'
<1>1. /\ LoadType /\ CacheFresh /\ LoadUnderWay /\ LoadIsCurrent
      /\ held' = IF phase = "idle" THEN {} ELSE held \cup {content}
      /\ UNCHANGED <<env, cache, phase, statted, overrides>>
  BY DEF LoadInv, Rewrite
<1>2. /\ file.stamp \in 1..MaxStamp /\ cache.stamp \in 0..MaxStamp
      /\ file'.content = content
      /\ \/ file.stamp < MaxStamp /\ reused' = reused /\ file'.stamp = file.stamp + 1
         \/ reused' = reused \cup {file.stamp} /\ file'.stamp = file.stamp
  BY <1>1 DEF Rewrite, LoadType
<1>3. LoadType'
  <2>1. file' \in [content: Contents, stamp: 1..MaxStamp]
    BY <1>1, <1>2, ConfigAssumption DEF Rewrite, LoadType
  <2> QED BY <1>1, <1>2, <2>1 DEF LoadType
<1>4. CacheFresh'
  BY <1>1, <1>2, ConfigAssumption DEF CacheFresh
<1>5. LoadUnderWay'
  BY <1>1, <1>2, ConfigAssumption DEF LoadUnderWay
<1>6. LoadIsCurrent'
  <2>1. phase = "loaded" => held \subseteq held'
    BY <1>1
  <2>2. reused \subseteq reused'
    BY <1>2
  <2> QED BY <1>1, <2>1, <2>2 DEF LoadIsCurrent
<1> QED BY <1>3, <1>4, <1>5, <1>6 DEF LoadInv

\* LoadInv is inductive.
THEOREM LoadInvariant == Spec => []LoadInv
<1>1. LoadInv /\ [Next]_vars => LoadInv'
  <2> SUFFICES ASSUME LoadInv, [Next]_vars PROVE LoadInv'
    OBVIOUS
  <2>1. CASE UNCHANGED vars
    BY <2>1 DEF vars, fileVars, LoadInv, LoadType, CacheFresh, LoadUnderWay, LoadIsCurrent
  <2> QED BY <2>1, StatKeeps, ReadKeeps, DecisionKeeps, RewriteKeeps DEF Next
<1> QED BY <1>1, LoadInit, PTL DEF Spec

\* A load never returns what the file did not hold during that load, cached or not,
\* whenever the file is rewritten, unless a rewrite kept the stamp the load has found:
\* for every set of contents and environments and any number of rewrites.
THEOREM LoadCurrent == Spec => []LoadIsCurrent
<1>1. LoadInv => LoadIsCurrent
  BY DEF LoadInv
<1> QED BY <1>1, LoadInvariant, PTL

-----------------------------------------------------------------------------
(* Coercion and assignment                                                 *)

Owners == {"instance", "module"}
IsTree(as) == as = [o \in Owners |-> [q \in DOMAIN as[o] |-> as[o][q]]]
SameNames(as, bs) == \A o \in Owners : DOMAIN as[o] = DOMAIN bs[o]

\* The attributes there are.
Slots(as) == UNION {{o} \X DOMAIN as[o] : o \in Owners}

\* Two trees of the same names that agree on what is in T.
AgreeOn(T, as, bs) == \A t \in T : Existing(as, t) = Existing(bs, t)

\* Nothing that e may set has attributes of its own.
IsLeaf(as, t) == \A q \in DOMAIN as[t[1]] : ~IsStrictPrefix(t[2], q)
SetsLeaves(as, e) == \A t \in Reached(as, e) : IsLeaf(as, t)

\* A set of numbers has a least one.
LEMMA LeastExists ==
  ASSUME NEW S, S \subseteq Nat, S # {}
  PROVE  Min(S) \in S /\ \A n \in S : Min(S) <= n
<1> DEFINE R == {p \in Nat \X Nat : p[1] < p[2]}
<1>1. IsWellFoundedOn(R, Nat)
  BY LessWF
<1> HIDE DEF R
<1>2. PICK x \in S : \A y \in S : <<y, x>> \notin R
  BY <1>1, WFMin, Zenon
<1>3. ASSUME NEW y \in S PROVE x <= y
  <2>1. <<y, x>> \in Nat \X Nat /\ x \in Nat /\ y \in Nat
    OBVIOUS
  <2>2. ~(y < x)
    BY <1>2, <2>1 DEF R
  <2> QED BY <2>1, <2>2
<1> QED BY <1>2, <1>3 DEF Min

\* A value is kept by a coercion to its own type and by a merge into itself.
LEMMA ValueStays ==
  ASSUME NEW o, IsValue(o)
  PROVE  Coerce(o, o) = o /\ DeepMerge(o, o) = o
<1>1. Coerce(o, o) = o
  BY DEF Coerce, CoerceToBool, CoerceToInt, CoerceToFloat
<1>2. CASE o.type = "dict"
  <2>1. DeepMerge(o, o) = Dict([x \in DOMAIN o.items |-> o.items[x]])
    BY <1>2 DEF DeepMerge
  <2> QED BY <1>1, <1>2, <2>1 DEF Dict, IsValue
<1>3. CASE o.type # "dict"
  BY <1>1, <1>3 DEF DeepMerge
<1> QED BY <1>2, <1>3

\* An override that has been coerced and merged in changes nothing the second time.
LEMMA CoerceTwice ==
  ASSUME NEW e, NEW o, IsValue(o), Coerce(e, o) # Raises,
         NEW new, new = DeepMerge(e, Coerce(e, o))
  PROVE  Coerce(new, o) # Raises /\ DeepMerge(new, Coerce(new, o)) = new
<1>1. CASE e.type = "dict" /\ o.type = "dict"
  <2>1. Coerce(e, o) = o
    BY <1>1 DEF Coerce
  <2> DEFINE both == [x \in DOMAIN e.items \cup DOMAIN o.items |->
                       IF x \in DOMAIN o.items THEN o.items[x] ELSE e.items[x]]
  <2>2. new = Dict(both)
    BY <1>1, <2>1 DEF DeepMerge
  <2>3. new.type = "dict" /\ new.items = both
    BY <2>2 DEF Dict
  <2>4. Coerce(new, o) = o
    BY <1>1, <2>3 DEF Coerce
  <2>5. [x \in DOMAIN both \cup DOMAIN o.items |->
          IF x \in DOMAIN o.items THEN o.items[x] ELSE both[x]] = both
    OBVIOUS
  <2>6. DeepMerge(new, o) = Dict(both)
    BY <1>1, <2>3, <2>5 DEF DeepMerge
  <2> QED BY <2>1, <2>2, <2>4, <2>6
<1>2. CASE e.type # "dict" \/ o.type # "dict"
  <2>1. Coerce(e, o) = o \/ Coerce(e, o).type \in {"bool", "int", "float"}
    BY DEF Coerce, CoerceToBool, CoerceToInt, CoerceToFloat, Value, Raises
  <2>2. new = Coerce(e, o)
    BY <1>2, <2>1 DEF DeepMerge, Coerce
  <2>3. CASE new = o
    BY <2>2, <2>3, ValueStays
  <2>4. CASE new # o
    <3>1. e.type \in {"bool", "int", "float"} /\ new.type = e.type /\ o.type # "null"
      BY <2>2, <2>4 DEF Coerce, CoerceToBool, CoerceToInt, CoerceToFloat, Value, Raises
    <3>2. Coerce(new, o) = new
      BY <2>2, <3>1 DEF Coerce
    <3> QED BY <2>2, <3>1, <3>2 DEF DeepMerge
  <2> QED BY <2>3, <2>4
<1> QED BY <1>1, <1>2

\* A slot is an owner and a path of it.
LEMMA SlotFacts ==
  ASSUME NEW as
  PROVE  /\ \A t \in Slots(as) : t = <<t[1], t[2]>> /\ t[1] \in Owners /\ t[2] \in DOMAIN as[t[1]]
         /\ \A o \in Owners : \A q \in DOMAIN as[o] : <<o, q>> \in Slots(as)
<1>1. ASSUME NEW t \in Slots(as)
      PROVE  t = <<t[1], t[2]>> /\ t[1] \in Owners /\ t[2] \in DOMAIN as[t[1]]
  <2>1. PICK o \in Owners : t \in {o} \X DOMAIN as[o]
    BY DEF Slots
  <2> DEFINE D == DOMAIN as[o]
  <2>2. t = <<t[1], t[2]>> /\ t[1] = o /\ t[2] \in D
    <3> HIDE DEF D
    <3>1. t \in {o} \X D
      BY <2>1 DEF D
    <3> QED BY <3>1
  <2> QED BY <2>2
<1>2. ASSUME NEW o \in Owners, NEW q \in DOMAIN as[o] PROVE <<o, q>> \in Slots(as)
  <2>1. <<o, q>> \in {o} \X DOMAIN as[o]
    OBVIOUS
  <2> QED BY <2>1 DEF Slots
<1> QED BY <1>1, <1>2

\* The targets of an entry are attributes that are there, and depend on names only.
LEMMA TargetsAreSlots ==
  ASSUME NEW as, NEW e
  PROVE  Reached(as, e) \subseteq Slots(as)
<1>1. ASSUME NEW c PROVE Targets(as, c) \subseteq Slots(as)
  <2>1. Walk(DOMAIN as["instance"], Path(c)) \subseteq DOMAIN as["instance"]
    BY DEF Walk
  <2>2. Walk(DOMAIN as["module"], Path(c)) \subseteq DOMAIN as["module"]
    BY DEF Walk
  <2> DEFINE at(o) == {o} \X Walk(DOMAIN as[o], Path(c))
  <2>3. at("instance") \subseteq Slots(as) /\ at("module") \subseteq Slots(as)
    <3>1. ASSUME NEW o \in Owners PROVE at(o) \subseteq {o} \X DOMAIN as[o]
      BY <2>1, <2>2 DEF Owners
    <3> QED BY <3>1 DEF Slots, Owners
  <2>4. Targets(as, c) \in {at("instance"), at("module")}
    BY DEF Targets
  <2> HIDE DEF at
  <2> QED BY <2>3, <2>4
<1> QED BY <1>1 DEF Reached

\* Trees of the same names have the same slots and targets.
LEMMA SameTargets ==
  ASSUME NEW as, NEW bs, SameNames(as, bs)
  PROVE  /\ Slots(as) = Slots(bs)
         /\ \A c : Targets(as, c) = Targets(bs, c)
         /\ \A e : Reached(as, e) = Reached(bs, e)
         /\ \A e : SetsLeaves(as, e) => SetsLeaves(bs, e)
<1>1. /\ DOMAIN as["instance"] = DOMAIN bs["instance"]
      /\ DOMAIN as["module"] = DOMAIN bs["module"]
  BY DEF SameNames, Owners
<1>2. Slots(as) = Slots(bs)
  BY DEF SameNames, Slots
<1>3. ASSUME NEW c PROVE Targets(as, c) = Targets(bs, c)
  BY <1>1 DEF Targets
<1>4. ASSUME NEW e PROVE Reached(as, e) = Reached(bs, e)
  BY <1>3 DEF Reached
<1>5. ASSUME NEW e, SetsLeaves(as, e) PROVE SetsLeaves(bs, e)
  <2>1. ASSUME NEW t \in Reached(bs, e) PROVE IsLeaf(bs, t)
    <3>1. t \in Reached(as, e) /\ t[1] \in Owners
      BY <1>4, TargetsAreSlots, SlotFacts
    <3>2. DOMAIN as[t[1]] = DOMAIN bs[t[1]]
      BY <3>1 DEF SameNames
    <3> QED BY <1>5, <3>1, <3>2 DEF SetsLeaves, IsLeaf
  <2> QED BY <2>1 DEF SetsLeaves
<1> QED BY <1>2, <1>3, <1>4, <1>5

\* setattr leaves a tree, and changes nothing else than a leaf it is applied to.
LEMMA SetTree ==
  ASSUME NEW as, IsTree(as), NEW t \in Slots(as), NEW v
  PROVE  IsTree(SetAttr(as, t[1], t[2], v))
<1> DEFINE bs == SetAttr(as, t[1], t[2], v)
           low == [q \in {q \in DOMAIN as[t[1]] : ~IsStrictPrefix(t[2], q)} |->
                    IF q = t[2] THEN v ELSE as[t[1]][q]]
<1>1. t[1] \in Owners /\ DOMAIN as = Owners
  BY SlotFacts DEF IsTree
<1>2. bs = [as EXCEPT ![t[1]] = low]
  BY DEF SetAttr
<1>3. low = [q \in DOMAIN low |-> low[q]]
  OBVIOUS
<1> HIDE DEF low
<1>4. bs = [o \in Owners |-> IF o = t[1] THEN low ELSE as[o]]
  BY <1>1, <1>2 DEF IsTree
<1> HIDE DEF bs
<1>5. ASSUME NEW o \in Owners PROVE bs[o] = [q \in DOMAIN bs[o] |-> bs[o][q]]
  <2>1. as[o] = [q \in DOMAIN as[o] |-> as[o][q]]
    BY DEF IsTree
  <2> QED BY <1>3, <1>4, <2>1
<1>6. bs = [o \in Owners |-> bs[o]]
  BY <1>4
<1>7. IsTree(bs)
  BY <1>5, <1>6 DEF IsTree
<1> QED BY <1>7 DEF bs

\* setattr on a leaf keeps the names and every other slot.
LEMMA SetLeaf ==
  ASSUME NEW as, IsTree(as), NEW t \in Slots(as), IsLeaf(as, t), NEW v
  PROVE  /\ SameNames(as, SetAttr(as, t[1], t[2], v))
         /\ Existing(SetAttr(as, t[1], t[2], v), t) = v
         /\ AgreeOn(Slots(as) \ {t}, as, SetAttr(as, t[1], t[2], v))
         /\ v = Existing(as, t) => SetAttr(as, t[1], t[2], v) = as
<1> DEFINE bs == SetAttr(as, t[1], t[2], v)
<1>1. t = <<t[1], t[2]>> /\ t[1] \in Owners /\ t[2] \in DOMAIN as[t[1]] /\ DOMAIN as = Owners
  BY SlotFacts DEF IsTree
<1> DEFINE low == [q \in DOMAIN as[t[1]] |-> IF q = t[2] THEN v ELSE as[t[1]][q]]
<1>2. {q \in DOMAIN as[t[1]] : ~IsStrictPrefix(t[2], q)} = DOMAIN as[t[1]]
  BY DEF IsLeaf
<1>3. bs = [as EXCEPT ![t[1]] = low]
  BY <1>2 DEF SetAttr
<1> HIDE DEF bs
<1>4. /\ \A o \in Owners : o # t[1] => bs[o] = as[o]
      /\ bs[t[1]] = low
  BY <1>1, <1>3
<1>5. SameNames(as, bs)
  BY <1>1, <1>4 DEF SameNames
<1>6. Existing(bs, t) = v
  BY <1>1, <1>4 DEF Existing
<1>7. ASSUME NEW u \in Slots(as) \ {t} PROVE Existing(as, u) = Existing(bs, u)
  <2>1. u = <<u[1], u[2]>> /\ u[1] \in Owners /\ u[2] \in DOMAIN as[u[1]]
    BY SlotFacts
  <2>2. u[1] # t[1] \/ u[2] # t[2]
    BY <1>1, <2>1
  <2>3. CASE u[1] = t[1]
    <3>1. low[u[2]] = as[t[1]][u[2]]
      BY <2>1, <2>2, <2>3
    <3> HIDE DEF low
    <3> QED BY <1>4, <2>3, <3>1 DEF Existing
  <2>4. CASE u[1] # t[1]
    BY <1>4, <2>1, <2>4 DEF Existing
  <2> QED BY <2>3, <2>4
<1>8. ASSUME v = Existing(as, t) PROVE bs = as
  <2>1. as[t[1]] = [q \in DOMAIN as[t[1]] |-> as[t[1]][q]]
    BY <1>1 DEF IsTree
  <2>2. low = as[t[1]]
    BY <1>8, <2>1 DEF Existing
  <2> HIDE DEF low
  <2>3. [as EXCEPT ![t[1]] = as[t[1]]] = as
    BY <1>1 DEF IsTree
  <2> QED BY <1>3, <2>2, <2>3
<1> QED BY <1>5, <1>6, <1>7, <1>8 DEF AgreeOn, bs

-----------------------------------------------------------------------------
(* One entry                                                               *)

\* What each candidate of e can set, the attribute that is taken then, and the assignment.
Offers(as, e) == [n \in Attempts(e.key) |-> Settable(as, Candidate(e.key, n), e.value)]
Chosen(e, S) == CHOOSE t \in S[Min({n \in Attempts(e.key) : S[n] # {}})] : TRUE
NewValue(as, e, t) == DeepMerge(Existing(as, t), Coerce(Existing(as, t), e.value))
Written(as, e, t) == SetAttr(as, t[1], t[2], NewValue(as, e, t))

\* Either no candidate can set anything, or t is set.
Nothing(e, S) == \A n \in Attempts(e.key) : S[n] = {}
Sets(as, e, t) ==
  /\ t \in Reached(as, e) /\ t \in Slots(as)
  /\ Coerce(Existing(as, t), e.value) # Raises

\* The candidates of a key are numbered.
LEMMA AttemptsAreNumbers ==
  ASSUME NEW key
  PROVE  Attempts(key) \subseteq Nat
<1>1. ASSUME NEW n \in Attempts(key) PROVE n \in Nat
  <2>1. n = 0 \/ n \in 1..(Len(key) - 1)
    BY Zenon DEF Attempts
  <2> QED BY <2>1
<1> QED BY <1>1

\* An entry changes nothing, or the slot that its first settable candidate leads to.
LEMMA EntryIs ==
  ASSUME NEW as, NEW e
  PROVE  \/ Nothing(e, Offers(as, e)) /\ ApplyEntry(as, e) = as
         \/ /\ Sets(as, e, Chosen(e, Offers(as, e)))
            /\ ApplyEntry(as, e) = Written(as, e, Chosen(e, Offers(as, e)))
<1> DEFINE settable(n) == Settable(as, Candidate(e.key, n), e.value)
           good == {n \in Attempts(e.key) : settable(n) # {}}
           S == Offers(as, e)
           t == Chosen(e, S)
<1>1. \A n \in Attempts(e.key) : S[n] = settable(n)
  BY DEF Offers
<1>2. good \subseteq Attempts(e.key) /\ good \subseteq Nat
  BY AttemptsAreNumbers
<1>3. good = {n \in Attempts(e.key) : S[n] # {}}
  <2> HIDE DEF S, settable
  <2> QED BY <1>1
<1>4. CASE good = {}
  <2>1. ApplyEntry(as, e) = as
    BY <1>4 DEF ApplyEntry
  <2> QED BY <1>1, <1>4, <2>1 DEF Nothing
<1>5. CASE good # {}
  <2>1. Min(good) \in good
    <3> HIDE DEF good
    <3> QED BY <1>2, <1>5, LeastExists
  <2>2. S[Min(good)] = settable(Min(good)) /\ settable(Min(good)) # {} /\ Min(good) \in Attempts(e.key)
    <3>1. \A n \in good : n \in Attempts(e.key) /\ settable(n) # {}
      OBVIOUS
    <3> HIDE DEF good, S, settable
    <3> QED BY <1>1, <2>1, <3>1
  <2>3. t = CHOOSE u \in settable(Min(good)) : TRUE
    <3>1. t = CHOOSE u \in S[Min({n \in Attempts(e.key) : S[n] # {}})] : TRUE
      BY DEF Chosen
    <3> HIDE DEF good, S, settable, t
    <3> QED BY <1>3, <2>2, <3>1
  <2>4. t \in settable(Min(good))
    <3> HIDE DEF good, S, settable, t
    <3> QED BY <2>2, <2>3
  <2>5. t \in Targets(as, Candidate(e.key, Min(good))) /\ Coerce(Existing(as, t), e.value) # Raises
    <3> HIDE DEF good, t
    <3> QED BY <2>4 DEF Settable
  <2>6. t \in Reached(as, e)
    <3> HIDE DEF good, t
    <3> QED BY <2>2, <2>5 DEF Reached
  <2>7. t \in Slots(as)
    BY <2>6, TargetsAreSlots
  <2>8. ApplyEntry(as, e) = Written(as, e, t)
    <3>1. ApplyEntry(as, e) =
            LET u == CHOOSE u \in settable(Min(good)) : TRUE
            IN  SetAttr(as, u[1], u[2], DeepMerge(Existing(as, u), Coerce(Existing(as, u), e.value)))
      BY <1>5 DEF ApplyEntry
    <3> HIDE DEF good, settable, t
    <3> QED BY <2>3, <3>1 DEF Written, NewValue
  <2> QED BY <2>5, <2>6, <2>7, <2>8 DEF Sets
<1> QED BY <1>4, <1>5

\* An entry leaves a tree.
LEMMA EntryTree ==
  ASSUME NEW as, IsTree(as), NEW e
  PROVE  IsTree(ApplyEntry(as, e))
<1> DEFINE t == Chosen(e, Offers(as, e))
<1>1. ApplyEntry(as, e) = as \/ (t \in Slots(as) /\ ApplyEntry(as, e) = Written(as, e, t))
  BY EntryIs DEF Sets
<1> HIDE DEF t
<1>2. t \in Slots(as) => IsTree(Written(as, e, t))
  BY SetTree DEF Written
<1> QED BY <1>1, <1>2

\* What is written into a leaf.
LEMMA WrittenIs ==
  ASSUME NEW as, IsTree(as), NEW e, SetsLeaves(as, e), NEW t, Sets(as, e, t)
  PROVE  /\ SameNames(as, Written(as, e, t))
         /\ Existing(Written(as, e, t), t) = NewValue(as, e, t)
         /\ AgreeOn(Slots(as) \ {t}, as, Written(as, e, t))
         /\ NewValue(as, e, t) = Existing(as, t) => Written(as, e, t) = as
<1>1. IsLeaf(as, t) /\ t \in Slots(as)
  BY DEF SetsLeaves, Sets
<1>2. Written(as, e, t) = SetAttr(as, t[1], t[2], NewValue(as, e, t))
  BY DEF Written
<1> DEFINE v == NewValue(as, e, t)
<1> HIDE DEF v
<1>3. /\ SameNames(as, SetAttr(as, t[1], t[2], v))
      /\ Existing(SetAttr(as, t[1], t[2], v), t) = v
      /\ AgreeOn(Slots(as) \ {t}, as, SetAttr(as, t[1], t[2], v))
      /\ v = Existing(as, t) => SetAttr(as, t[1], t[2], v) = as
  BY <1>1, SetLeaf
<1> QED BY <1>2, <1>3 DEF v

\* An entry that sets leaves keeps the names and whatever it does not reach.
LEMMA EntryKeeps ==
  ASSUME NEW as, IsTree(as), NEW e, SetsLeaves(as, e)
  PROVE  /\ SameNames(as, ApplyEntry(as, e))
         /\ AgreeOn(Slots(as) \ Reached(as, e), as, ApplyEntry(as, e))
<1> DEFINE t == Chosen(e, Offers(as, e))
           bs == ApplyEntry(as, e)
<1>1. CASE bs = as
  BY <1>1 DEF SameNames, AgreeOn
<1>2. CASE Sets(as, e, t) /\ bs = Written(as, e, t)
  <2> HIDE DEF t, bs
  <2>1. SameNames(as, bs) /\ AgreeOn(Slots(as) \ {t}, as, bs) /\ t \in Reached(as, e)
    BY <1>2, WrittenIs DEF Sets
  <2> QED BY <2>1 DEF AgreeOn, bs
<1> QED BY <1>1, <1>2, EntryIs

\* Once an entry has been applied, it changes nothing as long as what it reaches stays.
LEMMA EntryTwice ==
  ASSUME NEW as, IsTree(as), NEW e, SetsLeaves(as, e), IsValue(e.value),
         NEW cs, IsTree(cs), SameNames(as, cs), AgreeOn(Reached(as, e), ApplyEntry(as, e), cs)
  PROVE  ApplyEntry(cs, e) = cs
<1> DEFINE S == Offers(as, e)
           t == Chosen(e, S)
           bs == ApplyEntry(as, e)
           raises(ds, u) == Coerce(Existing(ds, u), e.value) = Raises
<1>1. (Nothing(e, S) /\ bs = as) \/ (Sets(as, e, t) /\ bs = Written(as, e, t))
  BY EntryIs
<1>2. /\ Slots(as) = Slots(cs) /\ Reached(as, e) = Reached(cs, e) /\ SetsLeaves(cs, e)
      /\ \A c : Targets(as, c) = Targets(cs, c)
  BY SameTargets
<1>3. ASSUME \A u \in Reached(as, e) : raises(as, u) <=> raises(cs, u)
      PROVE  S = Offers(cs, e)
  <2>1. ASSUME NEW n \in Attempts(e.key)
        PROVE  Settable(as, Candidate(e.key, n), e.value) = Settable(cs, Candidate(e.key, n), e.value)
    <3>1. Targets(as, Candidate(e.key, n)) = Targets(cs, Candidate(e.key, n))
      BY <1>2
    <3>2. Targets(as, Candidate(e.key, n)) \subseteq Reached(as, e)
      BY <2>1 DEF Reached
    <3> QED BY <1>3, <3>1, <3>2 DEF Settable
  <2> QED BY <2>1 DEF Offers
<1> HIDE DEF S, t, bs
<1>4. CASE Nothing(e, S) /\ bs = as
  <2>1. S = Offers(cs, e)
    BY <1>3, <1>4 DEF AgreeOn, bs
  <2>2. Nothing(e, Offers(cs, e))
    BY <1>4, <2>1
  <2>3. ASSUME NEW n \in Attempts(e.key) PROVE Settable(cs, Candidate(e.key, n), e.value) = {}
    BY <2>2 DEF Nothing, Offers
  <2> QED BY <2>3 DEF ApplyEntry
<1>5. CASE Sets(as, e, t) /\ bs = Written(as, e, t)
  <2> DEFINE v == NewValue(as, e, t)
  <2>1. Existing(bs, t) = v /\ AgreeOn(Slots(as) \ {t}, as, bs)
    BY <1>5, WrittenIs
  <2>2. t \in Reached(as, e) /\ Reached(as, e) \subseteq Slots(as)
    BY <1>5, TargetsAreSlots DEF Sets
  <2>3. Existing(cs, t) = v /\ \A u \in Reached(as, e) \ {t} : Existing(cs, u) = Existing(as, u)
    BY <2>1, <2>2 DEF AgreeOn, bs
  <2>4. Coerce(v, e.value) # Raises /\ DeepMerge(v, Coerce(v, e.value)) = v
    BY <1>5, CoerceTwice DEF Sets, NewValue
  <2> HIDE DEF v
  <2>5. \A u \in Reached(as, e) : raises(as, u) <=> raises(cs, u)
    BY <1>5, <2>3, <2>4 DEF Sets
  <2>6. S = Offers(cs, e)
    BY <1>3, <2>5
  <2>7. t = Chosen(e, Offers(cs, e))
    BY <2>6 DEF t
  <2>8. ApplyEntry(cs, e) = cs \/ (Sets(cs, e, t) /\ ApplyEntry(cs, e) = Written(cs, e, t))
    BY <2>7, EntryIs
  <2>9. NewValue(cs, e, t) = Existing(cs, t)
    BY <2>3, <2>4 DEF NewValue
  <2>10. Sets(cs, e, t) => Written(cs, e, t) = cs
    BY <1>2, <2>9, WrittenIs
  <2> QED BY <2>8, <2>10
<1> QED BY <1>4, <1>5, <1>1

-----------------------------------------------------------------------------
(* All entries                                                             *)

\* f is the run through the entries es from the tree as.
Goes(f, as, es) ==
  f = [n \in 0..Len(es) |-> IF n = 0 THEN as ELSE ApplyEntry(f[n - 1], es[n])]

\* The entries can be applied one at a time, to the last.
LEMMA RunExists ==
  ASSUME NEW as, NEW es, Len(es) \in Nat
  PROVE  \E f : Goes(f, as, es)
<1> DEFINE G(f, k) == f = [n \in 0..k |-> IF n = 0 THEN as ELSE ApplyEntry(f[n - 1], es[n])]
           S == {k \in Nat : \E f : G(f, k)}
<1>1. 0 \in S
  <2> DEFINE f == [n \in 0..0 |-> as]
  <2>1. G(f, 0)
    OBVIOUS
  <2> HIDE DEF f
  <2> QED BY <2>1
<1>2. ASSUME NEW k \in Nat, k \in S PROVE k + 1 \in S
  <2>1. PICK f : G(f, k)
    BY <1>2
  <2> DEFINE g == [n \in 0..(k + 1) |-> IF n <= k THEN f[n] ELSE ApplyEntry(f[k], es[k + 1])]
  <2>2. ASSUME NEW n \in 0..(k + 1)
        PROVE  g[n] = IF n = 0 THEN as ELSE ApplyEntry(g[n - 1], es[n])
    <3>1. CASE n = 0
      <4>1. 0 \in 0..k /\ 0 \in 0..(k + 1) /\ 0 <= k
        OBVIOUS
      <4>2. f[0] = as
        BY <2>1, <4>1
      <4> QED BY <3>1, <4>1, <4>2
    <3>2. CASE n \in 1..k
      <4>1. n \in 0..k /\ n - 1 \in 0..(k + 1) /\ n # 0 /\ n <= k /\ n - 1 <= k
        BY <3>2
      <4>2. f[n] = ApplyEntry(f[n - 1], es[n])
        BY <2>1, <4>1
      <4> QED BY <4>1, <4>2
    <3>3. CASE n = k + 1
      <4>1. n - 1 = k /\ k \in 0..(k + 1) /\ n # 0 /\ ~(n <= k)
        BY <3>3
      <4>2. g[k] = f[k]
        BY <4>1
      <4> QED BY <3>3, <4>1, <4>2
    <3> QED BY <3>1, <3>2, <3>3
  <2>3. g = [n \in 0..(k + 1) |-> g[n]]
    OBVIOUS
  <2> HIDE DEF g
  <2>4. G(g, k + 1)
    BY <2>2, <2>3
  <2> QED BY <2>4
<1> HIDE DEF S
<1>3. Len(es) \in S
  BY <1>1, <1>2, SetInduction
<1>4. PICK f : G(f, Len(es))
  BY <1>3 DEF S
<1> QED BY <1>4 DEF Goes

\* f takes the tree as through the entries es, one at a time.
RunOf(f, as, es) == f[0] = as /\ \A n \in 1..Len(es) : f[n] = ApplyEntry(f[n - 1], es[n])

\* What the entries are applied to is where such a run ends.
LEMMA AppliedIs ==
  ASSUME NEW as, NEW es, Len(es) \in Nat
  PROVE  \E f : RunOf(f, as, es) /\ Applied(as, es) = f[Len(es)]
<1> DEFINE f == CHOOSE f : Goes(f, as, es)
<1>1. Goes(f, as, es)
  BY RunExists
<1>2. Applied(as, es) = f[Len(es)]
  BY DEF Applied, Goes
<1> HIDE DEF f
<1>3. f[0] = as
  <2>1. 0 \in 0..Len(es)
    OBVIOUS
  <2> QED BY <1>1, <2>1 DEF Goes
<1>4. ASSUME NEW n \in 1..Len(es) PROVE f[n] = ApplyEntry(f[n - 1], es[n])
  <2>1. n \in 0..Len(es) /\ n # 0
    OBVIOUS
  <2> QED BY <1>1, <2>1 DEF Goes
<1> QED BY <1>2, <1>3, <1>4 DEF RunOf

-----------------------------------------------------------------------------
(* Merging                                                                 *)

KeysOnce(es) == \A m, n \in DOMAIN es : es[m].key = es[n].key => m = n

\* What the file and the first k variables have been merged to: the keys of the file at
\* their places, and what follows are variables; each of the k is there.
MergedTo(merged, es, vs, k) ==
  /\ merged \in Seq(Entries) /\ Len(merged) >= Len(es)
  /\ KeysOnce(merged)
  /\ \A n \in 1..Len(es) : merged[n].key = es[n].key
  /\ \A n \in (Len(es) + 1)..Len(merged) : \E j \in 1..k : merged[n] = vs[j]
  /\ \A j \in 1..k : \E n \in 1..Len(merged) : merged[n] = vs[j]

\* One variable more.
LEMMA PutKeeps ==
  ASSUME NEW es \in Seq(Entries), NEW vs \in Seq(Entries), KeysOnce(vs),
         NEW k \in Nat, k < Len(vs), NEW old, MergedTo(old, es, vs, k)
  PROVE  MergedTo(Put(old, vs[k + 1]), es, vs, k + 1)
<1> DEFINE v == vs[k + 1]
           new == Put(old, v)
           place(n) == old[n].key = v.key
<1>1. /\ old \in Seq(Entries) /\ Len(old) \in Nat /\ Len(es) \in Nat /\ Len(vs) \in Nat
      /\ Len(old) >= Len(es) /\ DOMAIN old = 1..Len(old) /\ KeysOnce(old)
      /\ k + 1 \in 1..Len(vs) /\ v \in Entries
  BY DEF MergedTo
<1>2. \A j \in 1..k : vs[j].key # v.key
  BY <1>1 DEF KeysOnce
<1>3. CASE \E n \in DOMAIN old : place(n)
  <2>1. new = [n \in DOMAIN old |-> IF place(n) THEN v ELSE old[n]]
    BY <1>3 DEF Put
  <2> HIDE DEF new
  <2>2. /\ new \in Seq(Entries) /\ Len(new) = Len(old) /\ DOMAIN new = DOMAIN old
        /\ \A n \in 1..Len(old) : new[n] = IF place(n) THEN v ELSE old[n]
    <3>1. \A n \in 1..Len(old) : old[n] \in Entries
      BY <1>1
    <3>2. new \in [1..Len(old) -> Entries]
      BY <1>1, <2>1, <3>1
    <3> QED BY <1>1, <2>1, <3>2
  <2> HIDE DEF v
  <2>3. \A n \in 1..Len(old) : new[n].key = old[n].key
    BY <2>2
  <2>4. KeysOnce(new)
    BY <1>1, <2>2, <2>3 DEF KeysOnce
  <2>5. \A n \in 1..Len(es) : new[n].key = es[n].key
    BY <1>1, <2>3 DEF MergedTo
  <2>6. ASSUME NEW n \in (Len(es) + 1)..Len(new) PROVE \E j \in 1..(k + 1) : new[n] = vs[j]
    <3>1. n \in 1..Len(old) /\ n \in (Len(es) + 1)..Len(old)
      BY <1>1, <2>2
    <3>2. PICK j \in 1..k : old[n] = vs[j]
      BY <3>1 DEF MergedTo
    <3>3. new[n] = vs[j] /\ j \in 1..(k + 1)
      BY <1>2, <2>2, <3>1, <3>2
    <3> QED BY <3>3
  <2>7. ASSUME NEW j \in 1..(k + 1) PROVE \E n \in 1..Len(new) : new[n] = vs[j]
    <3>1. CASE j = k + 1
      BY <1>1, <1>3, <2>2, <3>1 DEF v
    <3>2. CASE j # k + 1
      <4>1. j \in 1..k
        BY <3>2
      <4>2. PICK n \in 1..Len(old) : old[n] = vs[j]
        BY <4>1 DEF MergedTo
      <4>3. new[n] = vs[j]
        BY <1>2, <2>2, <4>1, <4>2
      <4> QED BY <2>2, <4>3
    <3> QED BY <3>1, <3>2
  <2> QED BY <1>1, <2>2, <2>4, <2>5, <2>6, <2>7 DEF MergedTo, new, v
<1>4. CASE ~ \E n \in DOMAIN old : place(n)
  <2>1. new = Append(old, v)
    BY <1>4 DEF Put
  <2> HIDE DEF new
  <2>2. /\ new \in Seq(Entries) /\ Len(new) = Len(old) + 1 /\ DOMAIN new = 1..(Len(old) + 1)
        /\ new[Len(old) + 1] = v
        /\ \A n \in 1..Len(old) : new[n] = old[n]
    BY <1>1, <2>1
  <2>3. KeysOnce(new)
    <3>1. \A n \in 1..Len(old) : new[n].key # v.key
      BY <1>1, <1>4, <2>2
    <3> HIDE DEF v
    <3>2. SUFFICES ASSUME NEW m \in DOMAIN new, NEW n \in DOMAIN new, new[m].key = new[n].key
                   PROVE  m = n
      BY DEF KeysOnce
    <3>3. m = Len(old) + 1 \/ m \in 1..Len(old)
      BY <1>1, <2>2
    <3>4. n = Len(old) + 1 \/ n \in 1..Len(old)
      BY <1>1, <2>2
    <3> QED BY <1>1, <2>2, <3>1, <3>2, <3>3, <3>4 DEF KeysOnce
  <2> HIDE DEF v
  <2>4. \A n \in 1..Len(es) : new[n].key = es[n].key
    BY <1>1, <2>2 DEF MergedTo
  <2>5. ASSUME NEW n \in (Len(es) + 1)..Len(new) PROVE \E j \in 1..(k + 1) : new[n] = vs[j]
    <3>1. CASE n = Len(old) + 1
      BY <2>2, <3>1 DEF v
    <3>2. CASE n # Len(old) + 1
      <4>1. n \in 1..Len(old) /\ n \in (Len(es) + 1)..Len(old)
        BY <1>1, <2>2, <3>2
      <4>2. PICK j \in 1..k : old[n] = vs[j]
        BY <4>1 DEF MergedTo
      <4> QED BY <2>2, <4>1, <4>2
    <3> QED BY <3>1, <3>2
  <2>6. ASSUME NEW j \in 1..(k + 1) PROVE \E n \in 1..Len(new) : new[n] = vs[j]
    <3>1. CASE j = k + 1
      BY <1>1, <2>2, <3>1 DEF v
    <3>2. CASE j # k + 1
      <4>1. j \in 1..k
        BY <3>2
      <4>2. PICK n \in 1..Len(old) : old[n] = vs[j]
        BY <4>1 DEF MergedTo
      <4> QED BY <1>1, <2>2, <4>2
    <3> QED BY <3>1, <3>2
  <2> QED BY <1>1, <2>2, <2>3, <2>4, <2>5, <2>6 DEF MergedTo, new, v
<1> QED BY <1>3, <1>4

\* What a load merges: MergedTo for the file and all the variables.
LEMMA MergeIs ==
  ASSUME NEW es \in Seq(Entries), NEW vs \in Seq(Entries), KeysOnce(es), KeysOnce(vs)
  PROVE  MergedTo(Merge(es, vs), es, vs, Len(vs))
<1> DEFINE N == Len(vs)
           D(h) == [n \in 0..N |-> IF n = 0 THEN es ELSE Put(h[n - 1], vs[n])]
           G == [n \in 1..N |-> [m \in Seq(Entries) |-> Put(m, vs[n])]]
           f == CHOOSE h : h = D(h)
<1>1. N \in Nat /\ \A n \in 1..N : vs[n] \in Entries
  OBVIOUS
<1>2. G \in [1..N -> [Seq(Entries) -> Seq(Entries)]]
  <2>1. ASSUME NEW n \in 1..N, NEW m \in Seq(Entries) PROVE Put(m, vs[n]) \in Seq(Entries)
    <3>1. vs[n] \in Entries
      BY <1>1
    <3>2. CASE \E i \in DOMAIN m : m[i].key = vs[n].key
      <4>1. \A i \in 1..Len(m) : (IF m[i].key = vs[n].key THEN vs[n] ELSE m[i]) \in Entries
        BY <3>1
      <4>2. Put(m, vs[n]) \in [1..Len(m) -> Entries]
        BY <3>2, <4>1 DEF Put
      <4> QED BY <4>2
    <3>3. CASE ~ \E i \in DOMAIN m : m[i].key = vs[n].key
      BY <3>1, <3>3 DEF Put
    <3> QED BY <3>2, <3>3
  <2> QED BY <2>1
<1>3. PICK g \in [0..N -> Seq(Entries)] : Steps(g, es, G, N)
  <2> HIDE DEF G, N
  <2> QED BY <1>1, <1>2, StepsExist, Zenon
<1>4. g = D(g)
  <2>1. ASSUME NEW n \in 0..N PROVE g[n] = D(g)[n]
    <3>1. CASE n = 0
      BY <1>3, <3>1 DEF Steps
    <3>2. CASE n # 0
      <4>1. n \in 1..N /\ n - 1 \in 0..N
        BY <1>1, <3>2
      <4>2. g[n] = G[n][g[n - 1]] /\ g[n - 1] \in Seq(Entries)
        BY <1>3, <4>1 DEF Steps
      <4>3. G[n][g[n - 1]] = Put(g[n - 1], vs[n])
        BY <4>1, <4>2
      <4> QED BY <3>2, <4>2, <4>3
    <3> QED BY <3>1, <3>2
  <2> HIDE DEF G
  <2>2. g = [n \in 0..N |-> g[n]]
    OBVIOUS
  <2> QED BY <2>1, <2>2
<1>5. f = D(f)
  <2> HIDE DEF D
  <2> QED BY <1>4
<1>6. Merge(es, vs) = f[N]
  BY DEF Merge
<1> HIDE DEF f, G
<1>7. f[0] = es
  <2>1. 0 \in 0..N
    BY <1>1
  <2> QED BY <1>5, <2>1
<1>8. \A n \in 1..N : f[n] = Put(f[n - 1], vs[n])
  <2>1. ASSUME NEW n \in 1..N PROVE f[n] = Put(f[n - 1], vs[n])
    <3>1. n \in 0..N /\ n # 0
      OBVIOUS
    <3> QED BY <1>5, <3>1
  <2> QED BY <2>1
<1> DEFINE S == {k \in Nat : k <= N => MergedTo(f[k], es, vs, k)}
<1>9. 0 \in S
  BY <1>7 DEF MergedTo
<1>10. ASSUME NEW k \in Nat, k \in S PROVE k + 1 \in S
  <2>1. SUFFICES ASSUME k + 1 <= N PROVE MergedTo(f[k + 1], es, vs, k + 1)
    OBVIOUS
  <2>2. MergedTo(f[k], es, vs, k) /\ k < Len(vs) /\ k + 1 \in 1..N /\ (k + 1) - 1 = k
    BY <1>1, <1>10, <2>1
  <2>3. f[k + 1] = Put(f[k], vs[k + 1])
    BY <1>8, <2>2
  <2> QED BY <2>2, <2>3, PutKeeps
<1> HIDE DEF S
<1>11. N \in S
  BY <1>1, <1>9, <1>10, SetInduction
<1> QED BY <1>1, <1>6, <1>11 DEF S

-----------------------------------------------------------------------------
(* The environment over the file                                           *)

\* A tree of the same names.
Like(as, bs) == IsTree(bs) /\ SameNames(as, bs)

\* Entries that set leaves keep the names all the way.
LEMMA RunKeeps ==
  ASSUME NEW as, IsTree(as), NEW es, Len(es) \in Nat, \A n \in 1..Len(es) : SetsLeaves(as, es[n]),
         NEW f, RunOf(f, as, es)
  PROVE  \A n \in 0..Len(es) : Like(as, f[n])
<1> DEFINE N == Len(es)
           S == {k \in Nat : k <= N => Like(as, f[k])}
<1>1. Like(as, f[0])
  BY DEF RunOf, Like, SameNames
<1>2. ASSUME NEW k \in Nat, k + 1 <= N, Like(as, f[k])
      PROVE  Like(as, f[k + 1])
  <2>1. k + 1 \in 1..Len(es) /\ (k + 1) - 1 = k
    BY <1>2
  <2>2. f[k + 1] = ApplyEntry(f[k], es[k + 1]) /\ SetsLeaves(as, es[k + 1])
    BY <2>1 DEF RunOf
  <2> DEFINE c == f[k]
             e == es[k + 1]
  <2> HIDE DEF c, e
  <2>3. IsTree(c) /\ SameNames(as, c) /\ SetsLeaves(as, e)
    BY <1>2, <2>2 DEF Like, c, e
  <2>4. SetsLeaves(c, e)
    BY <2>3, SameTargets
  <2>5. IsTree(ApplyEntry(c, e)) /\ SameNames(c, ApplyEntry(c, e))
    BY <2>3, <2>4, EntryTree, EntryKeeps
  <2>6. Like(as, ApplyEntry(c, e))
    BY <2>3, <2>5 DEF SameNames, Like
  <2> QED BY <2>2, <2>6 DEF c, e
<1> HIDE DEF N
<1>3. 0 \in S
  BY <1>1
<1>4. ASSUME NEW k \in Nat, k \in S PROVE k + 1 \in S
  <2>1. k + 1 \in Nat /\ (k + 1 <= N => k <= N)
    BY DEF N
  <2>2. k + 1 <= N => Like(as, f[k + 1])
    BY <1>2, <1>4, <2>1
  <2> QED BY <2>1, <2>2
<1>5. Nat \subseteq S
  <2> HIDE DEF S
  <2> QED BY <1>3, <1>4, SetInduction
<1>6. ASSUME NEW n \in 0..Len(es) PROVE Like(as, f[n])
  <2>1. n \in Nat /\ n <= N
    BY DEF N
  <2> QED BY <1>5, <2>1
<1> QED BY <1>6

\* What an entry reaches depends on its key.
LEMMA ReachedByKey ==
  ASSUME NEW as, NEW d, NEW e, d.key = e.key
  PROVE  Reached(as, d) = Reached(as, e) /\ (SetsLeaves(as, d) <=> SetsLeaves(as, e))
BY DEF Reached, SetsLeaves

\* Nothing that is merged after a variable reaches what the variable reaches.
LEMMA NothingAfter ==
  ASSUME NEW as, NEW es, NEW vs, Len(es) \in Nat, DOMAIN es = 1..Len(es), DOMAIN vs = 1..Len(vs),
         ~SpeltTwice(as, es), ~SpeltTwice(as, vs),
         NEW m, MergedTo(m, es, vs, Len(vs)),
         NEW j \in 1..Len(vs), NEW n \in 1..Len(m), m[n] = vs[j],
         NEW q \in 1..Len(m), n < q
  PROVE  Reached(as, m[n]) \cap Reached(as, m[q]) = {}
<1>1. CASE q <= Len(es)
  <2>1. n \in 1..Len(es) /\ q \in 1..Len(es) /\ n # q
    BY <1>1
  <2>2. m[n].key = es[n].key /\ m[q].key = es[q].key
    BY <2>1 DEF MergedTo
  <2>3. Reached(as, es[n]) \cap Reached(as, es[q]) = {}
    BY <2>1 DEF SpeltTwice
  <2> QED BY <2>2, <2>3, ReachedByKey
<1>2. CASE ~(q <= Len(es))
  <2>1. q \in (Len(es) + 1)..Len(m)
    BY <1>2
  <2>2. PICK i \in 1..Len(vs) : m[q] = vs[i]
    BY <2>1 DEF MergedTo
  <2>3. i # j
    <3>1. n \in DOMAIN m /\ q \in DOMAIN m /\ n # q
      BY DEF MergedTo
    <3>2. m[n].key # m[q].key
      BY <3>1 DEF MergedTo, KeysOnce
    <3> QED BY <2>2, <3>2
  <2> QED BY <2>2, <2>3 DEF SpeltTwice
<1> QED BY <1>1, <1>2

\* What no later entry reaches stays as it is after the first n.
LEMMA LaterEntries ==
  ASSUME NEW as, IsTree(as), NEW m, Len(m) \in Nat, \A i \in 1..Len(m) : SetsLeaves(as, m[i]),
         NEW f, RunOf(f, as, m), NEW n \in 0..Len(m),
         NEW T, T \subseteq Slots(as), \A q \in (n + 1)..Len(m) : T \cap Reached(as, m[q]) = {}
  PROVE  AgreeOn(T, f[n], f[Len(m)])
<1> DEFINE L == Len(m)
           S == {k \in Nat : n + k <= L => AgreeOn(T, f[n], f[n + k])}
<1>1. ASSUME NEW k \in Nat, n + (k + 1) <= L, AgreeOn(T, f[n], f[n + k])
      PROVE  AgreeOn(T, f[n], f[n + (k + 1)])
  <2> DEFINE p == n + k
             q == n + (k + 1)
             e == m[q]
             c == f[p]
             d == f[q]
  <2>1. q \in 1..Len(m) /\ q - 1 = p /\ p \in 0..Len(m) /\ q \in (n + 1)..Len(m)
    BY <1>1
  <2> HIDE DEF p, q
  <2>2. d = ApplyEntry(c, e) /\ SetsLeaves(as, e)
    BY <2>1 DEF RunOf
  <2>3. IsTree(c) /\ SameNames(as, c)
    BY <2>1, RunKeeps, Zenon DEF Like
  <2> HIDE DEF c, d, e
  <2>4. SetsLeaves(c, e) /\ Slots(as) = Slots(c) /\ Reached(as, e) = Reached(c, e)
    BY <2>2, <2>3, SameTargets
  <2>5. AgreeOn(Slots(c) \ Reached(c, e), c, ApplyEntry(c, e))
    BY <2>3, <2>4, EntryKeeps
  <2>6. T \subseteq Slots(c) \ Reached(c, e)
    BY <2>1, <2>4 DEF e
  <2>7. AgreeOn(T, f[n], c)
    BY <1>1 DEF c, p
  <2>8. AgreeOn(T, f[n], d)
    BY <2>2, <2>5, <2>6, <2>7 DEF AgreeOn
  <2> QED BY <2>8 DEF d, q
<1> HIDE DEF L
<1>2. AgreeOn(T, f[n], f[n + 0])
  BY DEF AgreeOn
<1>3. 0 \in S
  BY <1>2
<1>4. ASSUME NEW k \in Nat, k \in S PROVE k + 1 \in S
  <2>1. k + 1 \in Nat /\ (n + (k + 1) <= L => n + k <= L)
    BY DEF L
  <2>2. n + (k + 1) <= L => AgreeOn(T, f[n], f[n + (k + 1)])
    BY <1>1, <1>4, <2>1
  <2> QED BY <2>1, <2>2
<1>5. Nat \subseteq S
  <2> HIDE DEF S
  <2> QED BY <1>3, <1>4, SetInduction
<1>6. L - n \in Nat /\ n + (L - n) = L /\ n + (L - n) <= L
  <2>1. L \in Nat /\ n \in Nat /\ n <= L
    BY DEF L
  <2> QED BY <2>1
<1>7. AgreeOn(T, f[n], f[n + (L - n)])
  BY <1>5, <1>6
<1> QED BY <1>6, <1>7 DEF L

\* Entries that change nothing one by one change nothing together.
LEMMA NothingChanges ==
  ASSUME NEW bs, NEW vs, Len(vs) \in Nat, \A j \in 1..Len(vs) : ApplyEntry(bs, vs[j]) = bs
  PROVE  Applied(bs, vs) = bs
<1>1. PICK g : RunOf(g, bs, vs) /\ Applied(bs, vs) = g[Len(vs)]
  BY AppliedIs
<1> DEFINE N == Len(vs)
           S == {k \in Nat : k <= N => g[k] = bs}
<1>2. g[0] = bs
  BY <1>1 DEF RunOf
<1>3. ASSUME NEW k \in Nat, k + 1 <= N, g[k] = bs PROVE g[k + 1] = bs
  <2>1. k + 1 \in 1..Len(vs) /\ (k + 1) - 1 = k
    BY <1>3
  <2>2. g[k + 1] = ApplyEntry(g[k], vs[k + 1])
    BY <1>1, <2>1 DEF RunOf
  <2> QED BY <1>3, <2>1, <2>2
<1> HIDE DEF N
<1>4. 0 \in S
  BY <1>2
<1>5. ASSUME NEW k \in Nat, k \in S PROVE k + 1 \in S
  <2>1. k + 1 \in Nat /\ (k + 1 <= N => k <= N)
    BY DEF N
  <2> QED BY <1>3, <1>5, <2>1
<1>6. Nat \subseteq S
  <2> HIDE DEF S
  <2> QED BY <1>4, <1>5, SetInduction
<1>7. N \in Nat /\ N <= N
  BY DEF N
<1>8. g[N] = bs
  BY <1>6, <1>7
<1> QED BY <1>1, <1>8 DEF N

\* To apply the variables once more changes nothing.
LEMMA OnceMore ==
  ASSUME NEW as, IsTree(as), NEW es \in Seq(Entries), NEW vs \in Seq(Entries),
         KeysOnce(es), KeysOnce(vs), ~SpeltTwice(as, es), ~SpeltTwice(as, vs),
         \A n \in DOMAIN es : SetsLeaves(as, es[n]), \A n \in DOMAIN vs : SetsLeaves(as, vs[n])
  PROVE  LET bs == Applied(as, Merge(es, vs)) IN Applied(bs, vs) = bs
<1> DEFINE m == Merge(es, vs)
           bs == Applied(as, m)
<1>1. MergedTo(m, es, vs, Len(vs))
  BY MergeIs
<1> HIDE DEF m
<1>2. /\ Len(m) \in Nat /\ Len(es) \in Nat /\ Len(vs) \in Nat /\ m \in Seq(Entries)
      /\ DOMAIN es = 1..Len(es) /\ DOMAIN vs = 1..Len(vs)
  BY <1>1 DEF MergedTo
<1>3. PICK f : RunOf(f, as, m) /\ bs = f[Len(m)]
  BY <1>2, AppliedIs
<1> HIDE DEF bs
<1>4. ASSUME NEW n \in 1..Len(m) PROVE SetsLeaves(as, m[n])
  <2>1. CASE n <= Len(es)
    <3>1. n \in 1..Len(es)
      BY <1>2, <2>1
    <3>2. m[n].key = es[n].key /\ SetsLeaves(as, es[n])
      BY <1>1, <1>2, <3>1 DEF MergedTo
    <3> QED BY <3>2, ReachedByKey
  <2>2. CASE ~(n <= Len(es))
    <3>1. n \in (Len(es) + 1)..Len(m)
      BY <1>2, <2>2
    <3>2. PICK i \in 1..Len(vs) : m[n] = vs[i]
      BY <1>1, <3>1 DEF MergedTo
    <3>3. SetsLeaves(as, vs[i])
      BY <1>2, <3>2
    <3> QED BY <3>2, <3>3
  <2> QED BY <2>1, <2>2
<1>5. \A n \in 0..Len(m) : Like(as, f[n])
  BY <1>2, <1>3, <1>4, RunKeeps
<1>6. ASSUME NEW j \in 1..Len(vs), NEW n \in 1..Len(m), m[n] = vs[j]
      PROVE  AgreeOn(Reached(as, vs[j]), f[n], bs)
  <2>1. ASSUME NEW q \in (n + 1)..Len(m) PROVE Reached(as, vs[j]) \cap Reached(as, m[q]) = {}
    <3>1. q \in 1..Len(m) /\ n < q
      BY <1>2
    <3>2. Reached(as, m[n]) \cap Reached(as, m[q]) = {}
      BY <1>1, <1>2, <1>6, <3>1, NothingAfter
    <3> QED BY <1>6, <3>2
  <2>2. n \in 0..Len(m) /\ Reached(as, vs[j]) \subseteq Slots(as)
    <3>1. n \in 0..Len(m)
      BY <1>2
    <3>2. Reached(as, vs[j]) \subseteq Slots(as)
      BY TargetsAreSlots, Zenon
    <3> QED BY <3>1, <3>2
  <2> DEFINE T == Reached(as, vs[j])
  <2> HIDE DEF T
  <2>3. T \subseteq Slots(as) /\ \A q \in (n + 1)..Len(m) : T \cap Reached(as, m[q]) = {}
    BY <2>1, <2>2 DEF T
  <2>4. AgreeOn(T, f[n], f[Len(m)])
    BY <1>2, <1>3, <1>4, <2>2, <2>3, LaterEntries
  <2> QED BY <1>3, <2>4 DEF T
<1>7. ASSUME NEW j \in 1..Len(vs) PROVE ApplyEntry(bs, vs[j]) = bs
  <2>1. PICK n \in 1..Len(m) : m[n] = vs[j]
    BY <1>1 DEF MergedTo
  <2>2. n - 1 \in 0..Len(m) /\ Len(m) \in 0..Len(m)
    BY <1>2
  <2> DEFINE c == f[n - 1]
             e == vs[j]
  <2>3. f[n] = ApplyEntry(c, e)
    BY <1>3, <2>1 DEF RunOf
  <2>4. IsTree(c) /\ SameNames(as, c) /\ IsTree(bs) /\ SameNames(as, bs)
    BY <1>3, <1>5, <2>2 DEF Like
  <2>5. AgreeOn(Reached(as, e), ApplyEntry(c, e), bs)
    BY <1>6, <2>1, <2>3
  <2>6. e \in Entries /\ SetsLeaves(as, e)
    <3>1. j \in DOMAIN vs
      BY <1>2
    <3>2. SetsLeaves(as, e)
      BY <3>1
    <3>3. e \in Entries
      OBVIOUS
    <3> QED BY <3>2, <3>3
  <2> HIDE DEF c, e
  <2>7. SetsLeaves(c, e) /\ Reached(as, e) = Reached(c, e)
    BY <2>4, <2>6, SameTargets
  <2>8. SameNames(c, bs)
    BY <2>4 DEF SameNames
  <2>9. IsValue(e.value)
    BY <2>6, ConfigAssumption
  <2>10. ApplyEntry(bs, e) = bs
    BY <2>4, <2>5, <2>7, <2>8, <2>9, EntryTwice
  <2> QED BY <2>10 DEF e
<1>8. Applied(bs, vs) = bs
  BY <1>2, <1>7, NothingChanges
<1> QED BY <1>8 DEF bs, m

-----------------------------------------------------------------------------
(* The state                                                               *)

\* What a load returns is a merge of the cached content, or of one the file had meanwhile,
\* with the environment; the attributes stay a tree under both owners.
TreeInv ==
  /\ env \in Envs /\ IsTree(attrs) /\ DOMAIN kwargs = DOMAIN Params
  /\ overrides \in Seq(Entries)
  /\ phase = "loaded" =>
       \E content \in held \cup {cache.content} : overrides = Merge(Parsed(content), env)

\* Sources are sequences of entries with a key once.
LEMMA SourceFacts ==
  /\ \A vs \in Envs : vs \in Seq(Entries) /\ KeysOnce(vs)
  /\ \A content \in Contents : Parsed(content) \in Seq(Entries) /\ KeysOnce(Parsed(content))
<1>1. ASSUME NEW vs \in Sources PROVE vs \in Seq(Entries) /\ KeysOnce(vs)
  BY ConfigAssumption DEF KeysOnce
<1>2. <<>> \in Seq(Entries) /\ KeysOnce(<<>>)
  BY DEF KeysOnce
<1>3. ASSUME NEW content \in Contents PROVE Parsed(content) \in Sources \cup {<<>>}
  BY DEF Parsed, Sources
<1> QED BY <1>1, <1>2, <1>3 DEF Sources

\* A merge is a sequence of entries.
LEMMA MergeTyped ==
  ASSUME NEW content \in Contents, NEW vs \in Envs
  PROVE  Merge(Parsed(content), vs) \in Seq(Entries)
<1>1. /\ Parsed(content) \in Seq(Entries) /\ vs \in Seq(Entries)
      /\ KeysOnce(Parsed(content)) /\ KeysOnce(vs)
  BY SourceFacts
<1> DEFINE es == Parsed(content)
<1> HIDE DEF es
<1>2. MergedTo(Merge(es, vs), es, vs, Len(vs))
  BY <1>1, MergeIs DEF es
<1> QED BY <1>2 DEF MergedTo, es

\* All entries of a load leave a tree.
LEMMA AppliedTree ==
  ASSUME NEW as, IsTree(as), NEW es, Len(es) \in Nat
  PROVE  IsTree(Applied(as, es))
<1>1. PICK f : RunOf(f, as, es) /\ Applied(as, es) = f[Len(es)]
  BY AppliedIs
<1> DEFINE N == Len(es)
           S == {k \in Nat : k <= N => IsTree(f[k])}
<1>2. IsTree(f[0])
  BY <1>1 DEF RunOf
<1>3. ASSUME NEW k \in Nat, k + 1 <= N, IsTree(f[k]) PROVE IsTree(f[k + 1])
  <2>1. k + 1 \in 1..Len(es) /\ (k + 1) - 1 = k
    BY <1>3
  <2>2. f[k + 1] = ApplyEntry(f[k], es[k + 1])
    BY <1>1, <2>1 DEF RunOf
  <2> QED BY <1>3, <2>2, EntryTree
<1> HIDE DEF N
<1>4. 0 \in S
  BY <1>2
<1>5. ASSUME NEW k \in Nat, k \in S PROVE k + 1 \in S
  <2>1. k + 1 \in Nat /\ (k + 1 <= N => k <= N)
    BY DEF N
  <2> QED BY <1>3, <1>5, <2>1
<1>6. Nat \subseteq S
  <2> HIDE DEF S
  <2> QED BY <1>4, <1>5, SetInduction
<1>7. N \in Nat /\ N <= N
  BY DEF N
<1>8. IsTree(f[N])
  BY <1>6, <1>7
<1> QED BY <1>1, <1>8 DEF N

\* The agent starts with the attributes it is given.
LEMMA TreeInit == Init => TreeInv
<1> SUFFICES ASSUME Init PROVE TreeInv
  OBVIOUS
<1>1. IsTree(attrs)
  BY ConfigAssumption DEF Init, IsTree, Owners
<1>2. overrides \in Seq(Entries) /\ phase # "loaded" /\ env \in Envs /\ DOMAIN kwargs = DOMAIN Params
  BY DEF Init
<1> QED BY <1>1, <1>2 DEF TreeInv

\* A load that ends returns a merge of what the file holds, held or what is cached.
LEMMA LoadMerges ==
  ASSUME LoadInv, TreeInv, Stat \/ Read
  PROVE  TreeInv'
<1>1. /\ env \in Envs /\ IsTree(attrs) /\ DOMAIN kwargs = DOMAIN Params /\ overrides \in Seq(Entries)
      /\ UNCHANGED <<env, attrs, kwargs>>
  BY DEF TreeInv, Stat, Read, fileVars
<1>2. file.content \in Contents /\ cache.content \in Contents /\ Missing \in Contents
  BY ConfigAssumption DEF LoadInv, LoadType
<1>3. \/ phase' = "open" /\ overrides' = overrides
      \/ \E content \in Contents : /\ content \in held' \cup {cache'.content}
                                   /\ overrides' = Merge(Parsed(content), env)
  <2>1. CASE Stat
    <3>1. file.content \in held' /\ cache' = cache
      BY <2>1 DEF Stat
    <3>2. \/ file.content = Missing /\ Loaded(Missing)
          \/ Loaded(cache.content)
          \/ phase' = "open" /\ overrides' = overrides
      BY <2>1 DEF Stat
    <3> QED BY <1>2, <3>1, <3>2 DEF Loaded
  <2>2. CASE Read
    <3>1. phase = "open" /\ held' = held /\ Loaded(file.content)
      BY <2>2 DEF Read, fileVars
    <3>2. file.content \in held
      BY <3>1 DEF LoadInv, LoadUnderWay
    <3> QED BY <1>2, <3>1, <3>2 DEF Loaded
  <2> QED BY <2>1, <2>2
<1>4. overrides' \in Seq(Entries)
  <2>1. \A content \in Contents : Merge(Parsed(content), env) \in Seq(Entries)
    BY <1>1, MergeTyped
  <2> QED BY <1>1, <1>3, <2>1
<1>5. IsTree(attrs')
  BY <1>1
<1>6. phase' = "loaded" =>
        \E content \in held' \cup {cache'.content} : overrides' = Merge(Parsed(content), env')
  BY <1>1, <1>3
<1> QED BY <1>1, <1>4, <1>5, <1>6 DEF TreeInv

\* A decision keeps the attributes a tree and forgets the overrides.
LEMMA DecisionKeepsTree ==
  ASSUME TreeInv, ApplyOverrides \/ DecideKwargs
  PROVE  TreeInv'
<1>1. env' \in Envs /\ overrides' \in Seq(Entries) /\ phase' # "loaded"
  <2>1. env' = env /\ overrides' = <<>> /\ phase' = "idle"
    BY DEF ApplyOverrides, DecideKwargs, Over
  <2>2. <<>> \in Seq(Entries)
    OBVIOUS
  <2> QED BY <2>1, <2>2 DEF TreeInv
<1>2. IsTree(attrs')
  <2>1. CASE ApplyOverrides
    <3>1. attrs' = Applied(attrs, overrides)
      BY <2>1 DEF ApplyOverrides
    <3>2. Len(overrides) \in Nat
      BY DEF TreeInv
    <3> QED BY <3>1, <3>2, AppliedTree DEF TreeInv
  <2>2. CASE DecideKwargs
    <3>1. attrs' = attrs
      BY <2>2 DEF DecideKwargs
    <3> QED BY <3>1 DEF TreeInv
  <2> QED BY <2>1, <2>2
<1>3. DOMAIN kwargs' = DOMAIN Params
  <2>1. kwargs' = kwargs \/ kwargs' = [key \in DOMAIN Params |-> Overridden(key, overrides)]
    BY DEF ApplyOverrides, DecideKwargs
  <2> QED BY <2>1 DEF TreeInv
<1> QED BY <1>1, <1>2, <1>3 DEF TreeInv

\* A rewrite only adds to what the file has held.
LEMMA RewriteKeepsTree ==
  ASSUME TreeInv, NEW content \in Contents, Rewrite(content)
  PROVE  TreeInv'
<1>1. UNCHANGED <<env, cache, phase, overrides, attrs, kwargs>> /\ (phase = "loaded" => held \subseteq held')
  BY DEF Rewrite
<1>2. IsTree(attrs')
  BY <1>1 DEF TreeInv
<1> QED BY <1>1, <1>2 DEF TreeInv

\* TreeInv is inductive, relative to LoadInv.
LEMMA TreeInvariant == Spec => []TreeInv
<1>1. LoadInv /\ TreeInv /\ [Next]_vars => TreeInv'
  <2> SUFFICES ASSUME LoadInv, TreeInv, [Next]_vars PROVE TreeInv'
    OBVIOUS
  <2>1. CASE UNCHANGED vars
    <3>1. UNCHANGED <<env, cache, phase, overrides, attrs, kwargs, held>>
      BY <2>1 DEF vars, fileVars
    <3> QED BY <3>1 DEF TreeInv, IsTree
  <2> QED BY <2>1, LoadMerges, DecisionKeepsTree, RewriteKeepsTree DEF Next
<1> QED BY <1>1, TreeInit, LoadInvariant, PTL DEF Spec

\* The state keeps its types: whatever is applied, the agent keeps an instance and a module
\* with attributes, and its function the arguments it has.
THEOREM OverridesTypeCorrect == Spec => []TypeOK
<1>1. LoadInv /\ TreeInv => TypeOK
  <2> SUFFICES ASSUME LoadInv, TreeInv PROVE TypeOK
    OBVIOUS
  <2>1. DOMAIN attrs = DOMAIN Attributes
    <3>1. DOMAIN attrs = Owners
      BY DEF TreeInv, IsTree
    <3>2. DOMAIN Attributes = Owners
      BY ConfigAssumption DEF Owners
    <3> QED BY <3>1, <3>2
  <2> QED BY <2>1 DEF TypeOK, LoadInv, LoadType, TreeInv
<1> QED BY <1>1, LoadInvariant, TreeInvariant, PTL

-----------------------------------------------------------------------------
(* The environment wins                                                    *)

\* No entry of the file or the environment spells an attribute with attributes of its own.
Leaves ==
  /\ \A n \in DOMAIN env : SetsLeaves(attrs, env[n])
  /\ \A content \in held \cup {cache.content} : \A n \in DOMAIN Parsed(content) :
       SetsLeaves(attrs, Parsed(content)[n])

\* Whatever the file holds or held during the load, and however the keys are spelt -- each
\* attribute once by the file and once by the variables, as EnvWins says --, the variables
\* have the last word on the attributes they reach: to apply them once more changes nothing
\* (apply_config_overrides), as long as no entry replaces an object that has attributes.
\* Such an entry may change what a variable's key leads to.
THEOREM EnvironmentWins == Spec => [](Leaves => EnvWins)
<1>1. LoadInv /\ TreeInv => (Leaves => EnvWins)
  <2> SUFFICES ASSUME LoadInv, TreeInv, Leaves,
                      phase = "loaded" /\ ~SpeltTwice(attrs, env)
                      /\ \A content \in held \cup {cache.content} : ~SpeltTwice(attrs, Parsed(content))
               PROVE  LET as == Applied(attrs, overrides) IN Applied(as, env) = as
    BY Zenon DEF EnvWins
  <2>1. PICK content \in held \cup {cache.content} : overrides = Merge(Parsed(content), env)
    BY DEF TreeInv
  <2>2. content \in Contents /\ env \in Envs /\ IsTree(attrs)
    BY DEF LoadInv, LoadType, TreeInv
  <2> DEFINE es == Parsed(content)
  <2>3. /\ es \in Seq(Entries) /\ env \in Seq(Entries) /\ KeysOnce(es) /\ KeysOnce(env)
    BY <2>2, SourceFacts
  <2>4. /\ ~SpeltTwice(attrs, es)
        /\ \A n \in DOMAIN es : SetsLeaves(attrs, es[n])
        /\ \A n \in DOMAIN env : SetsLeaves(attrs, env[n])
    BY <2>1 DEF Leaves
  <2> HIDE DEF es
  <2>5. LET as == Applied(attrs, Merge(es, env)) IN Applied(as, env) = as
    BY <2>2, <2>3, <2>4, OnceMore
  <2> QED BY <2>1, <2>5 DEF es
<1> QED BY <1>1, LoadInvariant, TreeInvariant, PTL

\* The file's keys are in lower case, like those of the variables.
LowerKeys ==
  \A content \in held \cup {cache.content} : \A n \in DOMAIN Parsed(content) :
    Fold(Parsed(content)[n].key) = Parsed(content)[n].key

\* Among keys in lower case a variable's is the one that is found for an argument.
LEMMA ArgumentFound ==
  ASSUME NEW es \in Seq(Entries), NEW vs \in Seq(Entries), KeysOnce(es), KeysOnce(vs),
         \A n \in DOMAIN es : Fold(es[n].key) = es[n].key,
         \A n \in DOMAIN vs : Fold(vs[n].key) = vs[n].key,
         NEW key
  PROVE  \/ Overridden(key, vs) = Params[key]
         \/ Overridden(key, Merge(es, vs)) = Overridden(key, vs)
<1> DEFINE m == Merge(es, vs)
           same(x) == {n \in DOMAIN x : Fold(x[n].key) = Fold(key)}
<1>1. MergedTo(m, es, vs, Len(vs))
  BY MergeIs
<1> HIDE DEF m
<1>2. /\ Len(m) \in Nat /\ Len(es) \in Nat /\ Len(vs) \in Nat
      /\ DOMAIN m = 1..Len(m) /\ DOMAIN es = 1..Len(es) /\ DOMAIN vs = 1..Len(vs)
  BY <1>1 DEF MergedTo
<1>3. ASSUME NEW n \in DOMAIN m PROVE Fold(m[n].key) = m[n].key
  <2>1. CASE n <= Len(es)
    <3>1. n \in 1..Len(es)
      BY <1>2, <2>1
    <3>2. m[n].key = es[n].key
      BY <1>1, <3>1 DEF MergedTo
    <3>3. Fold(es[n].key) = es[n].key
      BY <1>2, <3>1
    <3> QED BY <3>2, <3>3
  <2>2. CASE ~(n <= Len(es))
    <3>1. n \in (Len(es) + 1)..Len(m)
      BY <1>2, <2>2
    <3>2. PICK i \in 1..Len(vs) : m[n] = vs[i]
      BY <1>1, <3>1 DEF MergedTo
    <3>3. Fold(vs[i].key) = vs[i].key
      BY <1>2, <3>2
    <3> QED BY <3>2, <3>3
  <2> QED BY <2>1, <2>2
<1>4. CASE same(vs) = {}
  BY <1>4 DEF Overridden
<1>5. CASE same(vs) # {}
  <2> DEFINE j == Min(same(vs))
  <2>1. j \in same(vs)
    <3> DEFINE S == same(vs)
    <3>1. S \subseteq Nat
      BY <1>2
    <3> HIDE DEF S
    <3>2. S # {} => Min(S) \in S
      BY <3>1, LeastExists
    <3> QED BY <1>5, <3>2 DEF S
  <2> HIDE DEF j
  <2>2. j \in 1..Len(vs) /\ Fold(vs[j].key) = Fold(key)
    BY <1>2, <2>1
  <2>3. PICK n \in 1..Len(m) : m[n] = vs[j]
    BY <1>1, <2>2 DEF MergedTo
  <2>4. same(m) = {n}
    <3>1. n \in same(m)
      BY <1>2, <2>2, <2>3
    <3>2. ASSUME NEW i \in same(m) PROVE i = n
      <4>1. i \in DOMAIN m /\ n \in DOMAIN m /\ Fold(m[i].key) = Fold(key)
        BY <1>2
      <4>2. m[i].key = m[n].key
        BY <1>3, <2>2, <2>3, <4>1
      <4> QED BY <1>1, <4>1, <4>2 DEF MergedTo, KeysOnce
    <3> QED BY <3>1, <3>2
  <2>5. Min({n}) = n
    <3>1. {n} \subseteq Nat /\ {n} # {}
      BY <1>2
    <3> QED BY <3>1, LeastExists
  <2>6. Overridden(key, m) = Coerce(Params[key], m[n].value)
    BY <2>4, <2>5 DEF Overridden
  <2>7. Overridden(key, vs) = Coerce(Params[key], vs[j].value)
    BY <1>5 DEF Overridden, j
  <2> QED BY <2>3, <2>6, <2>7 DEF m
<1> QED BY <1>4, <1>5

\* On the arguments of a decision the environment wins wherever the file keeps to lower
\* case (overridden_decide_kwargs): a key of the file in another case is all that can be
\* found before the variable of the same name.
THEOREM ArgumentsInLowerCase == Spec => [](LowerKeys => EnvWinsKwargs)
<1>1. LoadInv /\ TreeInv => (LowerKeys => EnvWinsKwargs)
  <2> SUFFICES ASSUME LoadInv, TreeInv, LowerKeys, phase = "loaded", NEW key \in DOMAIN Params
               PROVE  \/ Overridden(key, env) = Params[key]
                      \/ Overridden(key, overrides) = Overridden(key, env)
    BY Zenon DEF EnvWinsKwargs
  <2>1. PICK content \in held \cup {cache.content} : overrides = Merge(Parsed(content), env)
    BY DEF TreeInv
  <2>2. content \in Contents /\ env \in Envs
    BY DEF LoadInv, LoadType, TreeInv
  <2> DEFINE es == Parsed(content)
  <2>3. /\ es \in Seq(Entries) /\ env \in Seq(Entries) /\ KeysOnce(es) /\ KeysOnce(env)
    BY <2>2, SourceFacts
  <2>4. /\ \A n \in DOMAIN es : Fold(es[n].key) = es[n].key
        /\ \A n \in DOMAIN env : Fold(env[n].key) = env[n].key
    BY <2>1, <2>2, ConfigAssumption DEF LowerKeys
  <2> HIDE DEF es
  <2>5. \/ Overridden(key, env) = Params[key]
        \/ Overridden(key, Merge(es, env)) = Overridden(key, env)
    BY <2>3, <2>4, ArgumentFound
  <2> QED BY <2>1, <2>5 DEF es
<1> QED BY <1>1, LoadInvariant, TreeInvariant, PTL
=============================================================================
