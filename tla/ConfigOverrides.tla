-------------------------- MODULE ConfigOverrides --------------------------
(***************************************************************************)
(* The configuration channel of an agent: overrides from a cached JSON     *)
(* file and from ARENA_CFG_* variables, applied before each decision to    *)
(* attributes of the agent instance and its module                         *)
(* (apply_config_overrides) or to the arguments of the decision function   *)
(* (overridden_decide_kwargs).                                             *)
(*                                                                         *)
(* Another process may rewrite the file at any time, also between the      *)
(* stat and the open of one load.  A key is a sequence of tokens, words    *)
(* and the separators "_" and "."; a value is a record of its Python type  *)
(* and of what the coercions look at.                                      *)
(***************************************************************************)
EXTENDS Integers, Sequences, SequencesExt

CONSTANTS
  Contents,      \* what the file may hold: Missing, Broken or a sequence of entries
  Missing, Broken,
  Envs,          \* ARENA_CFG_* variables of the process, named in lower case: sequences
                 \* of entries
  Attributes,    \* attributes of the agent: owner, then path, to value
  Params,        \* default arguments of the decision function: key to value
  LowerCase,     \* str.lower() for the tokens that are not in lower case
  MaxStamp       \* bound: changes of the file's (mtime, size)

None == 0
Lower(token) == IF token \in DOMAIN LowerCase THEN LowerCase[token] ELSE token
Fold(tokens) == [n \in DOMAIN tokens |-> Lower(tokens[n])]

\* Values as _parse_value and json.load give them: num is ten times a number; of a string,
\* the number it spells or one of the words.
IsValue(v) ==
  /\ v = [type |-> v.type, num |-> v.num, items |-> [x \in DOMAIN v.items |-> v.items[x]]]
  /\ v.type = "dict" => v.num = None

Sources == (Contents \ {Missing, Broken}) \cup Envs
Entries == UNION {Range(entries) : entries \in Sources}

\* Entries come from JSON objects, and from variables, of which the later one counts if two
\* differ by case only: no key is there twice.
ASSUME ConfigAssumption ==
  /\ MaxStamp \in Nat \ {0} /\ {Missing, Broken} \subseteq Contents /\ Missing # Broken
  /\ \A entries \in Sources :
       /\ entries \in Seq(Entries)
       /\ \A m, n \in DOMAIN entries : entries[m].key = entries[n].key => m = n
  /\ \A e \in Entries : e = [key |-> e.key, value |-> e.value] /\ IsValue(e.value)
  /\ \A entries \in Envs : \A n \in DOMAIN entries : Fold(entries[n].key) = entries[n].key
  /\ Attributes = [owner \in {"instance", "module"} |->
                    [p \in DOMAIN Attributes[owner] |-> Attributes[owner][p]]]

VARIABLES
  file, env,          \* the file's content and stamp; the environment (external)
  cache,              \* _FILE_CACHE: its one entry, or the stamp None
  phase, statted,     \* progress of a load, and the stamp it found
  overrides,          \* what load_config_overrides returned
  attrs, kwargs,      \* the agent's attributes; the arguments of the last decision
  held, reused        \* history: contents during this load; stamps that a rewrite kept

fileVars == <<file, env, held, reused>>
vars == <<fileVars, cache, phase, statted, overrides, attrs, kwargs>>

-----------------------------------------------------------------------------
(* Values                                                                  *)

NotANumber == -1
TrueWord == -2
FalseWord == -3
Infinity == 10000

NoItems == [x \in {} |-> None]
Value(type, num) == [type |-> type, num |-> num, items |-> NoItems]
Dict(items) == [type |-> "dict", num |-> None, items |-> items]
Object == Value("object", None)
Raises == Value("raises", None)        \* OverflowError of int(inf)

Truncate(num) == (num \div 10) * 10

\* _coerce_to
CoerceToBool(o) ==
  CASE o.type = "str" /\ o.num \in {TrueWord, 10} -> Value("bool", 10)
    [] o.type = "str" /\ o.num \in {FalseWord, 0} -> Value("bool", 0)
    [] OTHER -> o
CoerceToInt(o) ==
  CASE o.type = "str" /\ o.num >= 0 /\ o.num = Truncate(o.num) -> Value("int", o.num)
    [] o.type = "float" -> IF o.num = Infinity THEN Raises ELSE Value("int", Truncate(o.num))
    [] OTHER -> o
CoerceToFloat(o) ==
  IF o.type \in {"str", "int", "bool"} /\ o.num >= 0 THEN Value("float", o.num) ELSE o

Coerce(existing, o) ==
  CASE o.type = "null" -> o
    [] existing.type = "bool" -> CoerceToBool(o)
    [] existing.type = "int" -> CoerceToInt(o)
    [] existing.type = "float" -> CoerceToFloat(o)
    [] OTHER -> o

\* _deep_merge, of dicts one level deep.
DeepMerge(existing, o) ==
  IF existing.type = "dict" /\ o.type = "dict"
    THEN Dict([x \in DOMAIN existing.items \cup DOMAIN o.items |->
                IF x \in DOMAIN o.items THEN o.items[x] ELSE existing.items[x]])
    ELSE o

-----------------------------------------------------------------------------
(* Keys and paths                                                          *)

\* key.split(".")
Path(key) ==
  FoldLeft(LAMBDA segments, token :
             IF token = "." THEN Append(segments, <<>>)
             ELSE [segments EXCEPT ![Len(segments)] = Append(@, token)],
           << <<>> >>, key)

\* _candidate_keys: the key, then one "_" at a time read as ".", from the right.
Attempts(key) == {0} \cup {n \in 1..(Len(key) - 1) : key[Len(key) + 1 - n] = "_"}
Candidate(key, n) == IF n = 0 THEN key ELSE [key EXCEPT ![Len(key) + 1 - n] = "."]

\* _resolve_segment under the attribute at path p: exact, else whatever the case.  Names
\* at one level differ by more than case, so the result has one member at most.
Resolve(names, p, segment) ==
  LET below == {q \in names : Len(q) = Len(p) + 1 /\ SubSeq(q, 1, Len(p)) = p}
      exact == below \cap {Append(p, segment)}
  IN IF exact # {} THEN exact
                   ELSE {q \in below : Fold(q[Len(q)]) = Fold(segment)}

\* The attributes a path leads to, none or one: each segment of it is resolved under those
\* before.
Walk(names, path) ==
  {q \in names : /\ Len(q) = Len(path)
                 /\ \A n \in DOMAIN path :
                      SubSeq(q, 1, n) \in Resolve(names, SubSeq(q, 1, n - 1), path[n])}

-----------------------------------------------------------------------------
(* apply_config_overrides                                                  *)

\* setattr: the attributes below a value that is replaced are gone.
SetAttr(as, owner, p, value) ==
  LET kept == {q \in DOMAIN as[owner] : ~IsStrictPrefix(p, q)}
  IN [as EXCEPT ![owner] = [q \in kept |-> IF q = p THEN value ELSE as[owner][q]]]

\* The first owner that has the attribute is the only one tried: the loop over the
\* owners breaks on success and on an exception alike.
Targets(as, candidate) ==
  LET at(owner) == {owner} \X Walk(DOMAIN as[owner], Path(candidate))
  IN IF at("instance") # {} THEN at("instance") ELSE at("module")

Existing(as, t) == as[t[1]][t[2]]

\* What a candidate sets without an exception.
Settable(as, candidate, value) ==
  {t \in Targets(as, candidate) : Coerce(Existing(as, t), value) # Raises}

\* The first candidate that is set without an exception.
ApplyEntry(as, e) ==
  LET settable(n) == Settable(as, Candidate(e.key, n), e.value)
      good == {n \in Attempts(e.key) : settable(n) # {}}
  IN IF good = {} THEN as
     ELSE LET t == CHOOSE t \in settable(Min(good)) : TRUE
          IN SetAttr(as, t[1], t[2],
                     DeepMerge(Existing(as, t), Coerce(Existing(as, t), e.value)))

Applied(as, entries) ==
  LET after[n \in 0..Len(entries)] ==
        IF n = 0 THEN as ELSE ApplyEntry(after[n - 1], entries[n])
  IN after[Len(entries)]

\* overridden_decide_kwargs: the first override whose key matches, whatever its case.
\* No try stands around the coercion: Raises is an exception that leaves the function.
Overridden(key, entries) ==
  LET same == {n \in DOMAIN entries : Fold(entries[n].key) = Fold(key)}
  IN IF same = {} THEN Params[key] ELSE Coerce(Params[key], entries[Min(same)].value)

-----------------------------------------------------------------------------
(* load_config_overrides                                                   *)

Parsed(content) == IF content \in {Missing, Broken} THEN <<>> ELSE content

\* merged[key] = value: a key that is there keeps its place.
BugPut(entries, e) ==
  IF \E n \in DOMAIN entries : entries[n].key = e.key THEN entries ELSE Append(entries, e)
Put(entries, e) ==
  IF \E n \in DOMAIN entries : entries[n].key = e.key
    THEN [n \in DOMAIN entries |-> IF entries[n].key = e.key THEN e ELSE entries[n]]
    ELSE Append(entries, e)

\* The file, then each variable.
Merge(entries, vs) ==
  LET merged[n \in 0..Len(vs)] == IF n = 0 THEN entries ELSE Put(merged[n - 1], vs[n])
  IN merged[Len(vs)]

Loaded(content) == overrides' = Merge(Parsed(content), env)

Init ==
  /\ file \in [content: Contents, stamp: {1}]
  /\ env \in Envs
  /\ cache = [stamp |-> None, content |-> Missing]
  /\ phase = "idle" /\ statted = None
  /\ overrides = <<>>
  /\ attrs = Attributes /\ kwargs = Params
  /\ held = {} /\ reused = {}

\* os.stat, and the look into the cache.
BugCached == cache.stamp # None
Cached == cache.stamp = file.stamp

Stat ==
  /\ phase = "idle"
  /\ statted' = file.stamp /\ held' = {file.content}
  /\ IF file.content = Missing THEN phase' = "loaded" /\ Loaded(Missing)
     ELSE IF Cached THEN phase' = "loaded" /\ Loaded(cache.content)
     ELSE phase' = "open" /\ UNCHANGED overrides
  /\ UNCHANGED <<file, env, reused, cache, attrs, kwargs>>

\* open and json.load; an exception turns off the file for this load only.
Read ==
  /\ phase = "open" /\ phase' = "loaded"
  /\ Loaded(file.content)
  /\ cache' = IF file.content \in {Missing, Broken} THEN cache
              ELSE [stamp |-> statted, content |-> file.content]
  /\ UNCHANGED <<fileVars, statted, attrs, kwargs>>

\* The locals of the load are gone.
Over == phase' = "idle" /\ statted' = None /\ overrides' = <<>> /\ held' = {}

ApplyOverrides ==
  /\ phase = "loaded"
  /\ attrs' = Applied(attrs, overrides)
  /\ Over
  /\ UNCHANGED <<file, env, reused, cache, kwargs>>

DecideKwargs ==
  /\ phase = "loaded"
  /\ LET merged == [key \in DOMAIN Params |-> Overridden(key, overrides)]
     IN kwargs' = IF \E key \in DOMAIN Params : merged[key] = Raises THEN kwargs ELSE merged
  /\ Over
  /\ UNCHANGED <<file, env, reused, cache, attrs>>

\* The file is rewritten, within the resolution of its stamp or not (external).
Rewrite(content) ==
  /\ content # file.content
  /\ \/ /\ file.stamp < MaxStamp /\ UNCHANGED reused
        /\ file' = [content |-> content, stamp |-> file.stamp + 1]
     \/ /\ reused' = reused \cup {file.stamp}
        /\ file' = [file EXCEPT !.content = content]
  /\ held' = IF phase = "idle" THEN {} ELSE held \cup {content}
  /\ UNCHANGED <<env, cache, phase, statted, overrides, attrs, kwargs>>

Next ==
  \/ Stat \/ Read \/ ApplyOverrides \/ DecideKwargs
  \/ \E content \in Contents : Rewrite(content)

Spec == Init /\ [][Next]_vars

-----------------------------------------------------------------------------
(* Properties                                                              *)

TypeOK ==
  /\ file \in [content: Contents, stamp: 1..MaxStamp] /\ env \in Envs
  /\ cache \in [stamp: 0..MaxStamp, content: Contents \ {Broken}]
  /\ phase \in {"idle", "open", "loaded"} /\ statted \in 0..MaxStamp
  /\ overrides \in Seq(Entries)
  /\ DOMAIN attrs = DOMAIN Attributes /\ DOMAIN kwargs = DOMAIN Params
  /\ held \subseteq Contents /\ reused \subseteq 1..MaxStamp

\* What a load returns is what the file held at some moment of that load, cached or not,
\* whenever the file is rewritten -- unless a rewrite kept the time and size that the load
\* has found; a later one that does not cures it (_read_file_overrides).
LoadIsCurrent ==
  phase = "loaded" /\ statted \notin reused =>
    \E content \in held : overrides = Merge(Parsed(content), env)

\* What an entry may set; entries that spell one attribute twice.
Reached(as, e) == UNION {Targets(as, Candidate(e.key, n)) : n \in Attempts(e.key)}
SpeltTwice(as, entries) ==
  \E m, n \in DOMAIN entries :
    m # n /\ Reached(as, entries[m]) \cap Reached(as, entries[n]) # {}

\* On attributes the environment wins over the file, however each of them spells the
\* attribute, unless one of them spells it twice: to apply the variables once more changes
\* nothing.  (A variable takes the place of the file's key of the same spelling, and
\* another spelling in the file, or of a variable, may come after it.)
EnvWins ==
  /\ phase = "loaded" /\ ~SpeltTwice(attrs, env)
  /\ \A content \in held \cup {cache.content} : ~SpeltTwice(attrs, Parsed(content))
  => LET as == Applied(attrs, overrides) IN Applied(as, env) = as

\* On arguments the environment wins over the file (module docstring).
EnvWinsKwargs ==
  phase = "loaded" =>
    \A key \in DOMAIN Params :
      Overridden(key, env) = Params[key] \/ Overridden(key, overrides) = Overridden(key, env)
=============================================================================
