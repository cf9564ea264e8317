------------------------------- MODULE Resolver -------------------------------
(***************************************************************************)
(* The packages of an image: versions and their order, the choice of a     *)
(* candidate, and the closure of the seeds over their dependencies         *)
(* (osbuild/resolver.py, osbuild/packages.py).                             *)
(*                                                                         *)
(* A version is a record of an epoch and two sequences of tokens, before   *)
(* and after the first hyphen.  A token is what the tokenizer makes one: a *)
(* run of digits, a run of letters or one punctuation mark, each given by  *)
(* the codes of its characters, so that the order of strings is the order  *)
(* of sequences of codes.                                                  *)
(***************************************************************************)
EXTENDS Integers, FiniteSets, SequencesExt, Architectures

CONSTANT Seeds \* BASE_SEEDS, a sequence of names

ASSUME SeedsAssumption == IsSeq(Seeds)

VARIABLES
  index,  \* the records of the indexes that could be fetched, in their order
  queue,  \* the names still to look at
  queued, \* every name ever queued
  order   \* the indices of the chosen records, in the order they were chosen

resolverVars == <<index, queue, queued, order>>

Digit == 48 .. 57
IsNumber(token) == ToSet(token) \subseteq Digit
Sign(less) == IF less THEN -1 ELSE 1

\* a string, or a sequence of tokens, comes before another
Before(s, t) ==
  \/ IsStrictPrefix(s, t)
  \/ \E k \in DOMAIN s \cap DOMAIN t :
       s[k] < t[k] /\ \A i \in 1 .. k - 1 : s[i] = t[i]

\* Mutated form: numbers are compared as strings
TextBefore(x, y) ==
  IF IsNumber(x) # IsNumber(y) THEN IsNumber(y) ELSE Before(x, y)

\* One token against another that differs from it: the longer number is the
\* larger, a number is larger than anything else.
TokenBefore(x, y) ==
  IF IsNumber(x) /\ IsNumber(y) /\ Len(x) # Len(y) THEN Len(x) < Len(y)
  ELSE IF IsNumber(x) # IsNumber(y) THEN IsNumber(y)
  ELSE Before(x, y)

CompareParts(a, b) ==
  IF a = b THEN 0
  ELSE IF IsPrefix(a, b) THEN -1
  ELSE IF IsPrefix(b, a) THEN 1
  ELSE LET k == CHOOSE i \in DOMAIN a \cap DOMAIN b :
                  a[i] # b[i] /\ \A j \in 1 .. i - 1 : a[j] = b[j]
       IN  Sign(TokenBefore(a[k], b[k]))

Vercmp(v, w) ==
  IF v.epoch # w.epoch THEN Sign(v.epoch < w.epoch)
  ELSE IF CompareParts(v.up, w.up) # 0 THEN CompareParts(v.up, w.up)
  ELSE CompareParts(v.down, w.down)

\* an alternative of a dependency: a name, and a version it may be bound to
SatisfiedBy(alt, version) ==
  LET c == Vercmp(version, alt.version) IN
  CASE alt.op = "<" -> c < 0 [] alt.op = "<=" -> c <= 0 [] alt.op = "=" -> c = 0
    [] alt.op = ">=" -> c >= 0 [] alt.op = ">" -> c > 0 [] alt.op = "!=" -> c # 0
    [] alt.op = "" -> TRUE

-----------------------------------------------------------------------------
(* The version as it is written: what candidates are sorted by. *)
Hyphen == <<45>>
Colon == <<58>>
Written(v) ==
  (IF v.epoch = 0 THEN <<>> ELSE <<48 + v.epoch>> \o Colon)
  \o FlattenSeq(v.up) \o (IF v.down = <<>> THEN <<>> ELSE Hyphen \o FlattenSeq(v.down))

(* The stanzas of an index: the fields that are there, by their names. *)
Field(stanza, name, otherwise) == IF name \in DOMAIN stanza THEN stanza[name] ELSE otherwise
ZeroVersion == [epoch |-> 0, up |-> << <<48>> >>, down |-> <<>>]

\* what the tokenizer and the parser of a stanza make
IsVersion(v) ==
  v.epoch \in Nat /\ {v.up, v.down} \subseteq Seq(Seq(Nat) \ {<<>>})
IsStanza(stanza) ==
  /\ IsVersion(Field(stanza, "Version", ZeroVersion))
  /\ \A name \in {"Depends", "Pre-Depends"} :
       LET groups == Field(stanza, name, <<>>) IN
       IsSeq(groups) /\ \A g \in ToSet(groups) : IsSeq(g) /\ \A alt \in ToSet(g) : IsVersion(alt.version)

RecordOf(stanza) ==
  [package |-> stanza["Package"],
   version |-> Field(stanza, "Version", ZeroVersion),
   architecture |-> Field(stanza, "Architecture", "all"),
   depends |-> Field(stanza, "Depends", <<>>) \o Field(stanza, "Pre-Depends", <<>>),
   provides |-> Field(stanza, "Provides", {}),
   file |-> "Filename" \in DOMAIN stanza]

\* parse_packages(): a stanza that names no package is passed over
ParsePackages(stanzas) ==
  LET named == Those(stanzas, {i \in DOMAIN stanzas : "Package" \in DOMAIN stanzas[i]})
  IN  [i \in DOMAIN named |-> RecordOf(named[i])]

\* the records of an index that fit an architecture
Fitting(records, arch) ==
  Those(records, {i \in DOMAIN records : records[i].architecture \in {arch, "all"}})

Named(name) == {i \in DOMAIN index : index[i].package = name}
Providing(name) == {i \in DOMAIN index : name \in index[i].provides}

\* the candidate for a name: its record whose version sorts last as text,
\* else the first record that provides it, else none (0)
Pick(name) ==
  LET last == {i \in Named(name) :
                 \A j \in Named(name) : ~Before(Written(index[i].version), Written(index[j].version))}
  IN  IF Named(name) # {} THEN First(last)
      ELSE IF Providing(name) # {} THEN First(Providing(name)) ELSE 0

Chosen(ids) == {index[i].package : i \in ToSet(ids)}

SatisfiedByChosen(ids, alt) ==
  \E i \in ToSet(ids) : index[i].package = alt.name /\ SatisfiedBy(alt, index[i].version)

\* the alternatives of a group whose candidate will do
Eligible(group) ==
  {k \in DOMAIN group :
     Pick(group[k].name) # 0 /\ SatisfiedBy(group[k], index[Pick(group[k].name)].version)}

\* Mutated form: the first alternative is marked as queued before it is known
\* to qualify
AskTooEarly(ids, wanted, group) ==
  IF (\E k \in DOMAIN group : SatisfiedByChosen(ids, group[k])) \/ group = <<>>
     \/ Pick(group[1].name) = 0
    THEN wanted
  ELSE LET package == index[Pick(group[1].name)].package IN
       IF package \in Chosen(ids) \cup wanted.queued THEN wanted
       ELSE [queue |-> IF 1 \in Eligible(group) THEN Append(wanted.queue, package) ELSE wanted.queue,
             queued |-> wanted.queued \cup {package}]

\* A group asks for its first eligible alternative; when there is none it is
\* dropped without a word.
Ask(ids, wanted, group) ==
  IF (\E k \in DOMAIN group : SatisfiedByChosen(ids, group[k])) \/ Eligible(group) = {}
    THEN wanted
  ELSE LET package == index[Pick(group[First(Eligible(group))].name)].package IN
       IF package \in Chosen(ids) \cup wanted.queued THEN wanted
       ELSE [queue |-> Append(wanted.queue, package), queued |-> wanted.queued \cup {package}]

\* the groups of a record, one after the other
AskAll(ids, wanted, groups) ==
  LET after[n \in 0..Len(groups)] == IF n = 0 THEN wanted ELSE Ask(ids, after[n - 1], groups[n])
  IN  after[Len(groups)]

-----------------------------------------------------------------------------
Cleared ==
  /\ index' = <<>> /\ queue' = <<>> /\ queued' = {} /\ order' = <<>>

\* DependencyResolver(records, arch).resolve(seeds)
Begin(records, arch) ==
  /\ index' = Fitting(records, arch)
  /\ queue' = Seeds /\ queued' = ToSet(Seeds) /\ order' = <<>>

\* the head of the queue cannot be had: resolve() raises
Unsatisfiable == queue # <<>> /\ Pick(Head(queue)) = 0

\* one pass of the loop
Visit ==
  LET i == Pick(Head(queue)) IN
  /\ queue # <<>> /\ i # 0
  /\ IF index[i].package \in Chosen(order)
       THEN queue' = Tail(queue) /\ UNCHANGED <<queued, order>>
       ELSE LET ids    == Append(order, i)
                wanted == AskAll(ids, [queue |-> Tail(queue), queued |-> queued], index[i].depends)
            IN  order' = ids /\ queue' = wanted.queue /\ queued' = wanted.queued
  /\ UNCHANGED index

Resolved == queue = <<>>
=============================================================================
