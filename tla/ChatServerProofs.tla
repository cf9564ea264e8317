--------------------------- MODULE ChatServerProofs ---------------------------
(***************************************************************************)
(* Proofs about KnowledgeStore and ChatServer for every set of messages    *)
(* and texts, any capacities, time-outs, deaths and shutdowns.             *)
(***************************************************************************)
EXTENDS ChatServer, SequenceTheorems, FiniteSetTheorems, WellFoundedInduction, TLAPS

-----------------------------------------------------------------------------
(* Threads *)

Saving(t) == at[t] \in {"collect", "flush"}

\* The parts of the stores that the proofs below look at.
StoreTyped ==
  /\ at \in [Thread -> {"next", "trim", "trimmed", "collect", "flush"}]
  /\ DOMAIN todo = Thread /\ DOMAIN buffer = Thread
  /\ opened \subseteq Thread
  /\ crossed \in BOOLEAN /\ torn \in BOOLEAN

LEMMA OtherThread ==
  /\ Thread = {"serve", "worker"}
  /\ Other("serve") = "worker" /\ Other("worker") = "serve"
BY DEF Thread, Other

-----------------------------------------------------------------------------
(* knowledge.json.  A save that has met no other is alone, has truncated the
   file and holds the entries as they are; while nothing has crossed, every
   save is such a one. *)

SavesAlone ==
  \A t \in opened :
    /\ Saving(t) /\ ~Saving(Other(t)) /\ disk = Torn
    /\ at[t] = "flush" => buffer[t] = facts

CleanSaves == ~crossed => \A t \in Thread : Saving(t) => t \in opened

DiskIsWhole == disk # Torn => disk = Whole(disk.entries)

MirrorInv ==
  StoreTyped /\ SavesAlone /\ CleanSaves /\ DiskIsWhole /\ FileMirrorsKnowledge

LEMMA AdvanceIsNext ==
  ASSUME StoreTyped, NEW t \in Thread, NEW ops, Advance(t, ops)
  PROVE  /\ at' = [at EXCEPT ![t] = "next"] /\ DOMAIN todo' = Thread
BY DEF Advance, StoreTyped

LEMMA RaiseIsNext ==
  ASSUME StoreTyped, NEW t \in Thread, Raise(t)
  PROVE  /\ at' = [at EXCEPT ![t] = "next"] /\ DOMAIN todo' = Thread
BY DEF Raise, StoreTyped

\* Steps that touch neither the entries nor their file.
LEMMA MirrorElsewhere ==
  ASSUME MirrorInv, NEW t \in Thread, ~Saving(t),
         NEW step \in {"next", "trim", "trimmed"}, at' = [at EXCEPT ![t] = step],
         UNCHANGED <<disk, facts, torn, crossed, opened>>,
         DOMAIN todo' = Thread, DOMAIN buffer' = Thread,
         \A u \in Thread : Saving(u) => buffer'[u] = buffer[u]
  PROVE  MirrorInv'
<1>1. StoreTyped'
  BY DEF MirrorInv, StoreTyped
<1>2. \A u \in Thread : (Saving(u)' <=> Saving(u)) /\ (at'[u] = "flush" <=> at[u] = "flush")
  BY DEF MirrorInv, StoreTyped, Saving
<1>3. SavesAlone' /\ CleanSaves' /\ DiskIsWhole' /\ FileMirrorsKnowledge'
  BY <1>1, <1>2, OtherThread
     DEF MirrorInv, StoreTyped, SavesAlone, CleanSaves, DiskIsWhole, FileMirrorsKnowledge, Saving,
         Torn, Whole
<1> QED BY <1>1, <1>3 DEF MirrorInv

\* Steps of the chat that touch no store but what a thread has to do.
LEMMA MirrorIdles ==
  ASSUME MirrorInv, UNCHANGED <<at, disk, facts, buffer, torn, crossed, opened>>,
         DOMAIN todo' = Thread
  PROVE  MirrorInv'
BY DEF MirrorInv, StoreTyped, SavesAlone, CleanSaves, DiskIsWhole, FileMirrorsKnowledge, Saving,
       Thread, Other, Torn, Whole

LEMMA MirrorOpens ==
  ASSUME MirrorInv, NEW t \in Thread, at[t] = "next", NEW entries, Opens(t, entries)
  PROVE  MirrorInv'
<1>1. /\ facts' = entries /\ disk' = Torn /\ at' = [at EXCEPT ![t] = "collect"]
      /\ UNCHANGED <<todo, buffer, torn>>
  BY DEF Opens
<1>2. CASE ~Saving(Other(t))
  <2>1. opened' = opened \cup {t} /\ crossed' = crossed
    BY <1>2 DEF Opens, Saving, MirrorInv, StoreTyped
  <2>2. opened = {}
    BY <1>2, OtherThread DEF MirrorInv, SavesAlone, StoreTyped, Saving
  <2>3. StoreTyped' /\ DiskIsWhole'
    BY <1>1, <2>1 DEF MirrorInv, StoreTyped, DiskIsWhole
  <2>4. SavesAlone' /\ CleanSaves' /\ FileMirrorsKnowledge'
    BY <1>1, <1>2, <2>1, <2>2, OtherThread
       DEF MirrorInv, StoreTyped, SavesAlone, CleanSaves, FileMirrorsKnowledge, Saving, Torn
  <2> QED BY <2>3, <2>4 DEF MirrorInv
<1>3. CASE Saving(Other(t))
  <2>1. opened' = {} /\ crossed' = TRUE
    BY <1>3 DEF Opens, Saving, MirrorInv, StoreTyped
  <2>2. StoreTyped' /\ DiskIsWhole'
    BY <1>1, <2>1 DEF MirrorInv, StoreTyped, DiskIsWhole
  <2> QED BY <1>1, <2>1, <2>2 DEF MirrorInv, SavesAlone, CleanSaves, FileMirrorsKnowledge
<1> QED BY <1>2, <1>3

LEMMA MirrorCollects ==
  ASSUME MirrorInv, NEW t \in Thread, Collect(t) PROVE MirrorInv'
<1>0. at[t] = "collect" /\ UNCHANGED <<files, facts, torn>>
  BY DEF Collect
<1>1. CASE /\ buffer' = [buffer EXCEPT ![t] = facts]
           /\ at' = [at EXCEPT ![t] = "flush"]
           /\ UNCHANGED <<todo, crossed, opened>>
  <2>1. StoreTyped'
    BY <1>0, <1>1 DEF MirrorInv, StoreTyped
  <2>2. \A u \in Thread : Saving(u)' <=> Saving(u)
    BY <1>0, <1>1 DEF MirrorInv, StoreTyped, Saving
  <2>3. \A u \in opened : (at[u] = "flush" => buffer[u] = facts)'
    BY <1>0, <1>1 DEF MirrorInv, StoreTyped, SavesAlone
  <2>4. SavesAlone' /\ CleanSaves' /\ DiskIsWhole' /\ FileMirrorsKnowledge'
    BY <1>0, <1>1, <2>1, <2>2, <2>3, OtherThread
       DEF MirrorInv, StoreTyped, SavesAlone, CleanSaves, DiskIsWhole, FileMirrorsKnowledge, Saving,
           files, Torn, Whole
  <2> QED BY <2>1, <2>4 DEF MirrorInv
<1>2. CASE Raise(t) /\ UNCHANGED buffer /\ crossed' = TRUE /\ opened' = opened \ {t}
  <2>1. at' = [at EXCEPT ![t] = "next"] /\ DOMAIN todo' = Thread
    BY <1>2, RaiseIsNext DEF MirrorInv
  <2>2. StoreTyped' /\ DiskIsWhole'
    BY <1>0, <1>2, <2>1 DEF MirrorInv, StoreTyped, DiskIsWhole, files, Torn, Whole
  <2>3. SavesAlone'
    BY <1>0, <1>2, <2>1, OtherThread DEF MirrorInv, StoreTyped, SavesAlone, Saving, files, Torn
  <2> QED BY <1>2, <2>2, <2>3 DEF MirrorInv, CleanSaves, FileMirrorsKnowledge
<1> QED BY <1>1, <1>2 DEF Collect

LEMMA MirrorFlushes ==
  ASSUME MirrorInv, NEW t \in Thread, Flush(t) PROVE MirrorInv'
<1>0. /\ at[t] = "flush" /\ UNCHANGED <<facts, torn>> /\ opened' = opened \ {t}
      /\ buffer' = [buffer EXCEPT ![t] = <<>>]
      /\ crossed' = (crossed /\ t \notin opened)
  BY DEF Flush
<1>1. at' = [at EXCEPT ![t] = "next"] /\ DOMAIN todo' = Thread
  BY AdvanceIsNext DEF Flush, MirrorInv
<1>2. disk' = Whole(buffer[t]) \/ (disk.whole /\ disk' = Torn)
  BY DEF Flush
<1>3. StoreTyped' /\ DiskIsWhole'
  <2>1. crossed' \in BOOLEAN
    BY <1>0 DEF MirrorInv, StoreTyped
  <2> QED BY <1>0, <1>1, <1>2, <2>1 DEF MirrorInv, StoreTyped, DiskIsWhole, Torn, Whole
<1>4. CASE t \in opened
  <2>1. disk = Torn /\ buffer[t] = facts /\ ~Saving(Other(t))
    BY <1>0, <1>4 DEF MirrorInv, SavesAlone
  <2>2. disk' = Whole(facts)
    BY <1>2, <2>1 DEF Torn
  <2>3. opened' = {}
    BY <1>0, <2>1, OtherThread DEF MirrorInv, StoreTyped, SavesAlone
  <2>4. \A u \in Thread : ~Saving(u)'
    BY <1>0, <1>1, <2>1, OtherThread DEF MirrorInv, StoreTyped, Saving
  <2> QED BY <1>0, <1>3, <2>2, <2>3, <2>4 DEF MirrorInv, SavesAlone, CleanSaves, FileMirrorsKnowledge
<1>5. CASE t \notin opened
  <2>1. crossed /\ crossed' /\ opened' = opened
    BY <1>0, <1>5 DEF MirrorInv, StoreTyped, CleanSaves, Saving
  <2>2. opened = {}
    BY <1>0, <1>5, OtherThread DEF MirrorInv, StoreTyped, SavesAlone, Saving
  <2> QED BY <1>3, <2>1, <2>2 DEF MirrorInv, SavesAlone, CleanSaves, FileMirrorsKnowledge
<1> QED BY <1>4, <1>5

LEMMA MirrorStep ==
  ASSUME MirrorInv, NEW t \in Thread, Step(t) PROVE MirrorInv'
<1> USE DEF files, history
<1>0. StoreTyped
  BY DEF MirrorInv
<1>1. ASSUME at[t] = "next", UNCHANGED <<disk, facts, buffer, history>>,
             (\E ops : Advance(t, ops)) \/ Raise(t)
      PROVE  MirrorInv'
  <2>1. at' = [at EXCEPT ![t] = "next"] /\ DOMAIN todo' = Thread
    BY <1>0, <1>1, AdvanceIsNext, RaiseIsNext
  <2> QED BY <1>0, <1>1, <2>1, MirrorElsewhere DEF StoreTyped, Saving
<1>2. ASSUME Tried(t) \/ Known(t) \/ Summarize(t) PROVE MirrorInv'
  BY <1>1, <1>2 DEF Tried, Known, Summarize, Turn
<1>3. ASSUME Reflect(t) PROVE MirrorInv'
  BY <1>1, <1>3 DEF Reflect, BrokenLine, Turn
<1>4. ASSUME Consolidate(t) \/ Contradict(t) PROVE MirrorInv'
  BY <1>1, <1>4 DEF Consolidate, Contradict, BrokenLine, Turn
<1>5. ASSUME AppendRow(t) PROVE MirrorInv'
  <2>1. at[t] = "next" /\ UNCHANGED <<disk, facts, buffer, torn, crossed, opened>>
    BY <1>5 DEF AppendRow, Turn
  <2>2. /\ \E step \in {"next", "trim"} : at' = [at EXCEPT ![t] = step]
        /\ DOMAIN todo' = Thread
    BY <1>0, <1>5, AdvanceIsNext DEF AppendRow, StoreTyped
  <2> QED BY <1>0, <2>1, <2>2, MirrorElsewhere DEF StoreTyped, Saving
<1>6. ASSUME Truncate(t) PROVE MirrorInv'
  <2>1. /\ at[t] = "trim" /\ at' = [at EXCEPT ![t] = "trimmed"] /\ ~Saving(t)
        /\ buffer' = [buffer EXCEPT ![t] = LastOf(log, Capacity)]
        /\ UNCHANGED <<disk, facts, todo, torn, crossed, opened>>
    BY <1>6 DEF Truncate, Saving
  <2>2. DOMAIN buffer' = Thread /\ \A u \in Thread : Saving(u) => buffer'[u] = buffer[u]
    BY <1>0, <2>1 DEF StoreTyped
  <2> QED BY <1>0, <2>1, <2>2, MirrorElsewhere DEF StoreTyped
<1>7. ASSUME Rewrite(t) PROVE MirrorInv'
  <2>1. /\ at[t] = "trimmed" /\ ~Saving(t)
        /\ buffer' = [buffer EXCEPT ![t] = <<>>]
        /\ UNCHANGED <<disk, facts, torn, crossed, opened>>
    BY <1>7 DEF Rewrite, Saving
  <2>2. at' = [at EXCEPT ![t] = "next"] /\ DOMAIN todo' = Thread
    BY <1>0, <1>7, AdvanceIsNext DEF Rewrite
  <2>3. DOMAIN buffer' = Thread /\ \A u \in Thread : Saving(u) => buffer'[u] = buffer[u]
    BY <1>0, <2>1 DEF StoreTyped
  <2> QED BY <1>0, <2>1, <2>2, <2>3, MirrorElsewhere DEF StoreTyped
<1>8. ASSUME Learn(t) PROVE MirrorInv'
  <2>1. at[t] = "next" /\ \E entries : Opens(t, entries)
    BY <1>8 DEF Learn, Turn
  <2> QED BY <2>1, MirrorOpens
<1>9. ASSUME Prune(t) PROVE MirrorInv'
  <2>1. CASE \E entries : Opens(t, entries)
    BY <1>9, <2>1, MirrorOpens DEF Prune, Turn
  <2>2. CASE Advance(t, <<>>) /\ UNCHANGED <<files, facts, buffer, size, passes, history>>
    BY <1>1, <1>9, <2>2 DEF Prune, Turn
  <2> QED BY <1>9, <2>1, <2>2 DEF Prune
<1> QED
  BY <1>2, <1>3, <1>4, <1>5, <1>6, <1>7, <1>8, <1>9, MirrorCollects, MirrorFlushes DEF Step

LEMMA MirrorReloads ==
  ASSUME MirrorInv, Reload PROVE MirrorInv'
<1>1. /\ facts' = disk.entries /\ disk' = disk
      /\ at' = [t \in Thread |-> "next"] /\ opened' = {}
      /\ DOMAIN todo' = Thread /\ DOMAIN buffer' = Thread
  BY DEF Reload, files
<1>2. crossed' = (~disk.whole)
  BY DEF Reload
<1>3. torn' \in BOOLEAN
  BY DEF Reload, MirrorInv, StoreTyped
<1>4. StoreTyped'
  BY <1>1, <1>2, <1>3 DEF StoreTyped
<1>5. DiskIsWhole' /\ SavesAlone' /\ CleanSaves'
  BY <1>1, OtherThread DEF MirrorInv, DiskIsWhole, SavesAlone, CleanSaves, Saving, Torn, Whole
<1>6. FileMirrorsKnowledge'
  <2> SUFFICES ASSUME ~crossed' PROVE disk' = Whole(facts')
    BY DEF FileMirrorsKnowledge, Whole
  <2>1. disk.whole
    BY <1>2, Zenon
  <2>2. disk # Torn
    <3> SUFFICES ASSUME disk = Torn PROVE FALSE
      OBVIOUS
    <3>1. disk.whole = FALSE
      BY DEF Torn
    <3> QED BY <2>1, <3>1
  <2> QED BY <1>1, <2>2 DEF MirrorInv, DiskIsWhole, Whole
<1> QED BY <1>4, <1>5, <1>6 DEF MirrorInv

-----------------------------------------------------------------------------
(* Numbers and sequences *)

LEMMA LeastOf ==
  ASSUME NEW S \in SUBSET Nat, S # {} PROVE \E n \in S : \A m \in S : n <= m
<1> DEFINE R == {pair \in Nat \X Nat : pair[1] < pair[2]}
<1>1. IsWellFoundedOn(R, Nat)
  BY NatLessThanWellFounded, Zenon DEF OpToRel
<1>2. \E x \in S : \A y \in S : ~(<<y, x>> \in R)
  BY <1>1, WFMin
<1>3. \A m, n \in Nat : <<m, n>> \in R <=> m < n
  OBVIOUS
<1> HIDE DEF R
<1>4. PICK x \in S : \A y \in S : ~(<<y, x>> \in R)
  BY <1>2
<1>5. \A y \in S : x <= y
  <2> TAKE y \in S
  <2>1. x \in Nat /\ y \in Nat /\ ~(<<y, x>> \in R) /\ (<<y, x>> \in R <=> y < x)
    BY <1>3, <1>4
  <2> QED BY <2>1
<1> QED BY <1>5

IsSeq(s) == s \in Seq(ToSet(s))

LEMMA SeqIsSeq == ASSUME NEW S, NEW s \in Seq(S) PROVE IsSeq(s)
<1>1. \A i \in 1..Len(s) : s[i] \in ToSet(s)
  BY LenProperties DEF ToSet
<1>2. SubSeq(s, 1, Len(s)) \in Seq(ToSet(s))
  BY <1>1, LenProperties, SubSeqProperties
<1> QED BY <1>2, SubSeqFull DEF IsSeq

LEMMA FunctionIsSeq ==
  ASSUME NEW n \in Nat, NEW s, DOMAIN s = 1..n, s = [i \in DOMAIN s |-> s[i]]
  PROVE  IsSeq(s) /\ Len(s) = n
<1>1. s \in [1..n -> ToSet(s)]
  BY DEF ToSet
<1>2. s \in Seq(ToSet(s))
  BY <1>1
<1> QED BY <1>1, <1>2, LenProperties DEF IsSeq

\* An operation that records no row; nothing in s is to be recorded.
NoRecord(op) == "op" \in DOMAIN op /\ op.op # "record"
Quiet(s) == IsSeq(s) /\ \A i \in 1..Len(s) : NoRecord(s[i])

LEMMA QuietNothing == Quiet(<<>>)
BY DEF Quiet, IsSeq, ToSet

LEMMA QuietOne == ASSUME NEW op, NoRecord(op) PROVE Quiet(<<op>>)
<1>1. <<op>> \in Seq({op}) /\ Len(<<op>>) = 1 /\ <<op>>[1] = op
  OBVIOUS
<1>2. IsSeq(<<op>>)
  BY <1>1, SeqIsSeq
<1>3. \A i \in 1..Len(<<op>>) : <<op>>[i] = op
  BY <1>1
<1> QED BY <1>2, <1>3, Zenon DEF Quiet

LEMMA QuietHead ==
  ASSUME NEW s, Quiet(s), s # <<>> PROVE NoRecord(Head(s))
<1>1. s \in Seq(ToSet(s))
  BY DEF Quiet, IsSeq
<1>2. 1 \in 1..Len(s) /\ Head(s) = s[1]
  BY <1>1
<1> QED BY <1>2 DEF Quiet

LEMMA QuietTail ==
  ASSUME NEW s, Quiet(s), s # <<>> PROVE Quiet(Tail(s))
<1>1. s \in Seq(ToSet(s)) /\ Len(s) \in Nat
  BY LenProperties DEF Quiet, IsSeq
<1>2. /\ Tail(s) \in Seq(ToSet(s)) /\ Len(Tail(s)) = Len(s) - 1
      /\ \A i \in 1..Len(Tail(s)) : Tail(s)[i] = s[i + 1]
  BY <1>1, HeadTailProperties
<1>3. \A i \in 1..Len(Tail(s)) : NoRecord(Tail(s)[i])
  BY <1>1, <1>2 DEF Quiet
<1> QED BY <1>2, <1>3, SeqIsSeq DEF Quiet

LEMMA QuietRest ==
  ASSUME NEW s, Quiet(s), NEW m \in Nat \ {0} PROVE Quiet(SubSeq(s, m, Len(s)))
<1>1. s \in Seq(ToSet(s)) /\ Len(s) \in Nat
  BY LenProperties DEF Quiet, IsSeq
<1>2. \A i \in m..Len(s) : s[i] \in ToSet(s)
  BY <1>1, ElementOfSeq
<1>3. /\ SubSeq(s, m, Len(s)) \in Seq(ToSet(s))
      /\ Len(SubSeq(s, m, Len(s))) = IF m <= Len(s) THEN Len(s) - m + 1 ELSE 0
      /\ \A i \in 1 .. Len(s) - m + 1 : SubSeq(s, m, Len(s))[i] = s[m + i - 1]
  BY <1>1, <1>2, SubSeqProperties
<1>4. ASSUME NEW i \in 1..Len(SubSeq(s, m, Len(s)))
      PROVE  NoRecord(SubSeq(s, m, Len(s))[i])
  <2>1. i \in 1 .. Len(s) - m + 1 /\ m + i - 1 \in 1..Len(s)
    BY <1>1, <1>3, <1>4
  <2> QED BY <1>3, <2>1 DEF Quiet
<1> QED BY <1>3, <1>4, SeqIsSeq DEF Quiet

LEMMA QuietJoin ==
  ASSUME NEW a, NEW b, Quiet(a), Quiet(b) PROVE Quiet(a \o b)
<1> DEFINE S == ToSet(a) \cup ToSet(b)
<1>1. a \in Seq(S) /\ b \in Seq(S) /\ Len(a) \in Nat /\ Len(b) \in Nat
  BY SeqMonotonic, LenProperties DEF Quiet, IsSeq
<1>2. /\ a \o b \in Seq(S) /\ Len(a \o b) = Len(a) + Len(b)
      /\ \A i \in 1 .. Len(a) + Len(b) : (a \o b)[i] = IF i <= Len(a) THEN a[i] ELSE b[i - Len(a)]
  BY <1>1, ConcatProperties
<1>3. ASSUME NEW i \in 1..Len(a \o b) PROVE NoRecord((a \o b)[i])
  <2>1. CASE i <= Len(a)
    BY <1>1, <1>2, <2>1 DEF Quiet
  <2>2. CASE i > Len(a)
    BY <1>1, <1>2, <2>2 DEF Quiet
  <2> QED BY <1>1, <1>2, <2>1, <2>2
<1> QED BY <1>2, <1>3, SeqIsSeq DEF Quiet

LEMMA QuietMap ==
  ASSUME NEW n \in Nat, NEW s, DOMAIN s = 1..n, s = [i \in DOMAIN s |-> s[i]],
         \A i \in 1..n : NoRecord(s[i])
  PROVE  Quiet(s)
BY FunctionIsSeq DEF Quiet

\* A finite set lists as a sequence.
LEMMA ListOfSet ==
  ASSUME NEW S, IsFiniteSet(S)
  PROVE  SetToSeq(S) \in [1..Cardinality(S) -> S] /\ Cardinality(S) \in Nat
<1>1. Cardinality(S) \in Nat /\ ExistsBijection(1..Cardinality(S), S)
  BY FS_CardinalityType
<1>2. \E f \in [1..Cardinality(S) -> S] : IsInjective(f)
  BY <1>1 DEF ExistsBijection, Bijection, Injection, Surjection, IsInjective
<1> QED BY <1>1, <1>2 DEF SetToSeq

-----------------------------------------------------------------------------
(* What the worker has to do never includes recording a row. *)

LEMMA QuietDistil ==
  ASSUME NEW rows, IsSeq(rows) PROVE Quiet(Distil(rows))
<1>1. Len(rows) \in Nat /\ DOMAIN rows = 1..Len(rows)
  BY LenProperties DEF IsSeq
<1>2. \A i \in DOMAIN rows : NoRecord(Hooks(rows[i]))
  BY DEF Hooks, Learning, NoRecord
<1>3. DOMAIN Distil(rows) = 1..Len(rows) /\ Distil(rows) = [i \in DOMAIN Distil(rows) |-> Distil(rows)[i]]
  BY <1>1 DEF Distil
<1>4. \A i \in 1..Len(rows) : NoRecord(Distil(rows)[i])
  BY <1>1, <1>2 DEF Distil
<1> QED BY <1>1, <1>3, <1>4, QuietMap

\* Rows from an index set are counted.
LEMMA OrderedIndices ==
  ASSUME NEW rows, IsSeq(rows), NEW S \in SUBSET (DOMAIN rows)
  PROVE  DOMAIN InOrder(S) = 1..Cardinality(S) /\ Cardinality(S) \in Nat
<1>1. Len(rows) \in Nat /\ DOMAIN rows = 1..Len(rows)
  BY LenProperties DEF IsSeq
<1>2. IsFiniteSet(S)
  <2>1. IsFiniteSet(1..Len(rows)) /\ S \in SUBSET (1..Len(rows))
    BY <1>1, FS_Interval
  <2> QED BY <2>1, FS_Subset
<1> QED BY <1>2, FS_CardinalityType DEF InOrder

LEMMA QuietHypotheses ==
  ASSUME NEW rows, IsSeq(rows) PROVE Quiet(Hypotheses(rows))
<1> DEFINE failed == {i \in DOMAIN rows : rows[i].failed}
           S == {i \in failed : /\ \A j \in failed : j < i => rows[j].target # rows[i].target
                                /\ \E j \in failed : j > i /\ rows[j].target = rows[i].target}
<1>1. S \in SUBSET (DOMAIN rows)
  OBVIOUS
<1>2. DOMAIN InOrder(S) = 1..Cardinality(S) /\ Cardinality(S) \in Nat
  BY <1>1, OrderedIndices
<1>3. Hypotheses(rows) = [n \in DOMAIN InOrder(S) |-> Learning(<<"hypothesis">>, rows[InOrder(S)[n]])]
  BY DEF Hypotheses
<1> HIDE DEF S
<1>4. /\ DOMAIN Hypotheses(rows) = 1..Cardinality(S)
      /\ Hypotheses(rows) = [n \in DOMAIN Hypotheses(rows) |-> Hypotheses(rows)[n]]
      /\ \A n \in 1..Cardinality(S) : NoRecord(Hypotheses(rows)[n])
  BY <1>2, <1>3 DEF Learning, NoRecord
<1> QED BY <1>2, <1>4, QuietMap

LEMMA LastOfIsSeq ==
  ASSUME NEW s, IsSeq(s), NEW n \in Nat PROVE IsSeq(LastOf(s, n))
<1> DEFINE first == IF Len(s) > n THEN Len(s) - n + 1 ELSE 1
<1>1. s \in Seq(ToSet(s)) /\ Len(s) \in Nat /\ first \in Nat \ {0}
  BY LenProperties DEF IsSeq
<1>2. \A i \in first..Len(s) : s[i] \in ToSet(s)
  BY <1>1, ElementOfSeq
<1>3. SubSeq(s, first, Len(s)) \in Seq(ToSet(s))
  BY <1>1, <1>2, SubSeqProperties
<1> QED BY <1>3, SeqIsSeq DEF LastOf

LEMMA QuietQuestions ==
  ASSUME NEW rows, IsSeq(rows) PROVE Quiet(Questions(rows))
<1> DEFINE recent == LastOf(rows, 10)
           S == {i \in DOMAIN recent : recent[i].failed}
<1>1. IsSeq(recent) /\ S \in SUBSET (DOMAIN recent)
  BY LastOfIsSeq
<1>2. DOMAIN InOrder(S) = 1..Cardinality(S) /\ Cardinality(S) \in Nat
  BY <1>1, OrderedIndices
<1>3. Questions(rows) =
        [n \in DOMAIN InOrder(S) |-> [Learning(<<"question">>, recent[InOrder(S)[n]]) EXCEPT !.op = "ask"]]
  BY DEF Questions
<1> HIDE DEF S, recent
<1>4. /\ DOMAIN Questions(rows) = 1..Cardinality(S)
      /\ Questions(rows) = [n \in DOMAIN Questions(rows) |-> Questions(rows)[n]]
      /\ \A n \in 1..Cardinality(S) : NoRecord(Questions(rows)[n])
  BY <1>2, <1>3 DEF Learning, NoRecord
<1> QED BY <1>2, <1>4, QuietMap

LEMMA QuietContradictions ==
  ASSUME NEW rows, IsSeq(rows), NEW S \in SUBSET ToSet(rows)
  PROVE  Quiet([i \in DOMAIN SetToSeq(S) |-> Learning(<<"contradiction">>, SetToSeq(S)[i])])
<1> DEFINE s == [i \in DOMAIN SetToSeq(S) |-> Learning(<<"contradiction">>, SetToSeq(S)[i])]
<1>1. Len(rows) \in Nat /\ DOMAIN rows = 1..Len(rows)
  BY LenProperties DEF IsSeq
<1>2. IsFiniteSet(1..Len(rows)) /\ rows \in Surjection(1..Len(rows), ToSet(rows))
  <2>1. IsFiniteSet(1..Len(rows))
    BY <1>1, FS_Interval
  <2>2. rows \in [1..Len(rows) -> ToSet(rows)]
    BY LenProperties DEF IsSeq
  <2>3. \A r \in ToSet(rows) : \E i \in 1..Len(rows) : rows[i] = r
    BY <1>1 DEF ToSet
  <2> QED BY <2>1, <2>2, <2>3 DEF Surjection
<1>3. IsFiniteSet(S)
  <2>1. IsFiniteSet(ToSet(rows))
    BY <1>2, FS_Surjection
  <2> QED BY <2>1, FS_Subset
<1>4. DOMAIN SetToSeq(S) = 1..Cardinality(S) /\ Cardinality(S) \in Nat
  BY <1>3, ListOfSet
<1>5. DOMAIN s = 1..Cardinality(S) /\ s = [i \in DOMAIN s |-> s[i]] /\ \A i \in 1..Cardinality(S) : NoRecord(s[i])
  BY <1>4 DEF Learning, NoRecord
<1> QED BY <1>4, <1>5, QuietMap

-----------------------------------------------------------------------------
(* The newest rows of a sequence *)

LEMMA LastOfProperties ==
  ASSUME NEW S, NEW s \in Seq(S), NEW n \in Nat
  PROVE  /\ LastOf(s, n) \in Seq(S)
         /\ Len(s) > n => /\ Len(LastOf(s, n)) = n
                          /\ \A i \in 1..n : LastOf(s, n)[i] = s[Len(s) - n + i]
         /\ Len(s) <= n => LastOf(s, n) = s
<1>1. Len(s) \in Nat
  BY LenProperties
<1>2. CASE Len(s) <= n
  <2>1. LastOf(s, n) = SubSeq(s, 1, Len(s))
    <3>1. (IF Len(s) > n THEN Len(s) - n + 1 ELSE 1) = 1
      BY <1>1, <1>2
    <3> QED BY <3>1, Zenon DEF LastOf
  <2> QED BY <1>1, <1>2, <2>1, SubSeqFull
<1>3. CASE Len(s) > n
  <2>1. LastOf(s, n) = SubSeq(s, Len(s) - n + 1, Len(s))
    BY <1>3 DEF LastOf
  <2>2. \A i \in Len(s) - n + 1 .. Len(s) : s[i] \in S
    BY <1>1, <1>3, ElementOfSeq
  <2>3. /\ SubSeq(s, Len(s) - n + 1, Len(s)) \in Seq(S)
        /\ Len(SubSeq(s, Len(s) - n + 1, Len(s))) = IF Len(s) - n + 1 <= Len(s) THEN Len(s) - (Len(s) - n + 1) + 1 ELSE 0
        /\ \A i \in 1 .. Len(s) - (Len(s) - n + 1) + 1 : SubSeq(s, Len(s) - n + 1, Len(s))[i] = s[Len(s) - n + 1 + i - 1]
    BY <1>1, <2>2, SubSeqProperties
  <2>4. Len(LastOf(s, n)) = n /\ \A i \in 1..n : LastOf(s, n)[i] = s[Len(s) - n + i]
    BY <1>1, <1>3, <2>1, <2>3
  <2> QED BY <1>1, <1>3, <2>1, <2>3, <2>4
<1> QED BY <1>1, <1>2, <1>3

\* Appending to the newest rows loses none of the newest rows.
LEMMA LastOfAppend ==
  ASSUME NEW s, IsSeq(s), NEW x, NEW n \in Nat \ {0}
  PROVE  /\ LastOf(Append(LastOf(s, n), x), n) = LastOf(Append(s, x), n)
         /\ ~(Len(LastOf(s, n)) >= n) => Append(LastOf(s, n), x) = LastOf(Append(s, x), n)
<1> DEFINE S == ToSet(s) \cup {x}
           l == LastOf(s, n)
<1>1. s \in Seq(S) /\ Len(s) \in Nat
  BY SeqMonotonic, LenProperties DEF IsSeq
<1>2. /\ l \in Seq(S) /\ Len(l) \in Nat
      /\ Len(s) > n => Len(l) = n /\ \A i \in 1..n : l[i] = s[Len(s) - n + i]
      /\ Len(s) <= n => l = s
  BY <1>1, LastOfProperties, LenProperties
<1>3. CASE Len(s) <= n
  <2>1. l = s
    BY <1>2, <1>3
  <2>2. CASE Len(s) < n
    <3>1. Append(s, x) \in Seq(S) /\ Len(Append(s, x)) = Len(s) + 1
      BY <1>1
    <3>2. LastOf(Append(s, x), n) = Append(s, x)
      <4>1. n \in Nat /\ Len(Append(s, x)) <= n
        BY <1>1, <2>2, <3>1
      <4> QED BY <3>1, <4>1, LastOfProperties, Zenon
    <3> QED BY <2>1, <3>2
  <2>3. CASE Len(s) = n
    BY <1>1, <2>1, <2>3
  <2> QED BY <1>1, <1>3, <2>2, <2>3
<1>4. CASE Len(s) > n
  <2>1. /\ Append(s, x) \in Seq(S) /\ Len(Append(s, x)) = Len(s) + 1
        /\ \A i \in 1..Len(s) : Append(s, x)[i] = s[i]
        /\ Append(s, x)[Len(s) + 1] = x
    BY <1>1, AppendProperties
  <2>2. /\ Append(l, x) \in Seq(S) /\ Len(Append(l, x)) = n + 1
        /\ \A i \in 1..n : Append(l, x)[i] = l[i]
        /\ Append(l, x)[n + 1] = x
    BY <1>1, <1>2, <1>4, AppendProperties
  <2>3. /\ LastOf(Append(s, x), n) \in Seq(S) /\ Len(LastOf(Append(s, x), n)) = n
        /\ \A i \in 1..n : LastOf(Append(s, x), n)[i] = Append(s, x)[Len(s) + 1 - n + i]
    <3>1. n \in Nat /\ Len(Append(s, x)) > n
      BY <1>1, <1>4, <2>1
    <3>2. /\ LastOf(Append(s, x), n) \in Seq(S) /\ Len(LastOf(Append(s, x), n)) = n
          /\ \A i \in 1..n : LastOf(Append(s, x), n)[i] = Append(s, x)[Len(Append(s, x)) - n + i]
      BY <2>1, <3>1, LastOfProperties, Zenon
    <3>3. Len(Append(s, x)) - n = Len(s) + 1 - n
      BY <2>1
    <3> QED BY <3>2, <3>3
  <2>4. /\ LastOf(Append(l, x), n) \in Seq(S) /\ Len(LastOf(Append(l, x), n)) = n
        /\ \A i \in 1..n : LastOf(Append(l, x), n)[i] = Append(l, x)[1 + i]
    <3>1. n \in Nat /\ Len(Append(l, x)) > n
      BY <2>2
    <3>2. /\ LastOf(Append(l, x), n) \in Seq(S) /\ Len(LastOf(Append(l, x), n)) = n
          /\ \A i \in 1..n : LastOf(Append(l, x), n)[i] = Append(l, x)[Len(Append(l, x)) - n + i]
      BY <2>2, <3>1, LastOfProperties, Zenon
    <3> QED BY <2>2, <3>2
  <2>5. ASSUME NEW i \in 1..n PROVE LastOf(Append(l, x), n)[i] = LastOf(Append(s, x), n)[i]
    <3>1. CASE i = n
      BY <1>1, <1>4, <2>1, <2>2, <2>3, <2>4, <3>1
    <3>2. CASE i < n
      <4>1. Append(l, x)[1 + i] = l[1 + i] /\ l[1 + i] = s[Len(s) - n + (1 + i)]
        BY <1>2, <1>4, <2>2, <3>2
      <4>2. Append(s, x)[Len(s) + 1 - n + i] = s[Len(s) + 1 - n + i]
        BY <1>1, <1>4, <2>1, <3>2
      <4>3. Len(s) - n + (1 + i) = Len(s) + 1 - n + i
        BY <1>1
      <4> QED BY <2>3, <2>4, <4>1, <4>2, <4>3
    <3> QED BY <3>1, <3>2
  <2>6. LastOf(Append(l, x), n) = LastOf(Append(s, x), n)
    BY <2>3, <2>4, <2>5, SeqEqual
  <2> QED BY <1>2, <1>4, <2>6
<1> QED BY <1>1, <1>3, <1>4

-----------------------------------------------------------------------------
(* experience.jsonl.  Only the serve loop records, so nobody else rewrites the
   log; while it does, what it has collected or will collect is the newest. *)

WorkerQuiet ==
  /\ Quiet(todo["worker"]) /\ at["worker"] \notin {"trim", "trimmed"}
  /\ at["worker"] # "next" => todo["worker"] # <<>>

RowsAreSeqs ==
  /\ IsSeq(log) /\ IsSeq(recorded)
  /\ at["serve"] = "trimmed" => IsSeq(buffer["serve"])

LogKept ==
  ~torn => /\ at["serve"] = "trimmed" => buffer["serve"] = LastOf(recorded, Capacity)
           /\ at["serve"] = "trim" => LastOf(log, Capacity) = LastOf(recorded, Capacity)
           /\ at["serve"] \notin {"trim", "trimmed"} => log = LastOf(recorded, Capacity)

LogInv == StoreTyped /\ WorkerQuiet /\ RowsAreSeqs /\ LogKept

\* Steps that touch neither the log nor where the serve loop is in it.
LEMMA LogElsewhere ==
  ASSUME LogInv, StoreTyped', UNCHANGED <<log, recorded, torn>>,
         at'["serve"] = at["serve"], at["serve"] = "trimmed" => buffer'["serve"] = buffer["serve"],
         WorkerQuiet'
  PROVE  LogInv'
BY DEF LogInv, RowsAreSeqs, LogKept

LEMMA RecallIsSeq ==
  ASSUME LogInv, NEW rows \in Recall("worker") PROVE IsSeq(rows)
<1>1. CASE ~Rewriting("worker")
  BY <1>1 DEF Recall, LogInv, RowsAreSeqs
<1>2. CASE Rewriting("worker")
  <2>1. IsSeq(buffer["serve"])
    BY <1>2, OtherThread DEF Rewriting, LogInv, RowsAreSeqs
  <2>2. PICK n \in 0..Len(buffer["serve"]) : rows = SubSeq(buffer["serve"], 1, n)
    BY <1>2, OtherThread DEF Recall
  <2>3. SubSeq(buffer["serve"], 1, n) \in Seq(ToSet(buffer["serve"]))
    <3>1. Len(buffer["serve"]) \in Nat /\ \A i \in 1..n : buffer["serve"][i] \in ToSet(buffer["serve"])
      BY <2>1, ElementOfSeq, LenProperties DEF IsSeq
    <3> QED BY <3>1, SubSeqProperties
  <2> QED BY <2>2, <2>3, SeqIsSeq
<1> QED BY <1>1, <1>2

\* What the worker puts before the rest of its list.
LEMMA WorkerAdvances ==
  ASSUME LogInv, NEW ops, Quiet(ops), todo["worker"] # <<>>, Advance("worker", ops)
  PROVE  WorkerQuiet' /\ at'["serve"] = at["serve"]
<1>1. /\ todo' = [todo EXCEPT !["worker"] = ops \o Tail(todo["worker"])]
      /\ at' = [at EXCEPT !["worker"] = "next"]
  BY DEF Advance
<1>2. Quiet(ops \o Tail(todo["worker"]))
  BY QuietTail, QuietJoin DEF LogInv, WorkerQuiet
<1>3. "worker" \in DOMAIN todo /\ "worker" \in DOMAIN at /\ "serve" \in DOMAIN at
  BY OtherThread DEF LogInv, StoreTyped
<1> QED BY <1>1, <1>2, <1>3 DEF WorkerQuiet

LEMMA WorkerRaises ==
  ASSUME LogInv, Raise("worker")
  PROVE  WorkerQuiet' /\ at'["serve"] = at["serve"]
<1> DEFINE ends == {i \in DOMAIN todo["worker"] : todo["worker"][i].op = "tried"}
           after == IF ends = {} THEN Len(todo["worker"])
                    ELSE CHOOSE i \in ends : \A j \in ends : i <= j
<1>0. Len(todo["worker"]) \in Nat /\ DOMAIN todo["worker"] = 1..Len(todo["worker"])
  BY LenProperties DEF LogInv, WorkerQuiet, Quiet, IsSeq
<1>1. after \in Nat
  <2>1. CASE ends = {}
    BY <1>0, <2>1
  <2>2. CASE ends # {}
    <3>1. ends \in SUBSET Nat
      BY <1>0
    <3>2. \E i \in ends : \A j \in ends : i <= j
      <4> HIDE DEF ends
      <4> QED BY <2>2, <3>1, LeastOf
    <3> QED BY <2>2, <3>1, <3>2
  <2> QED BY <2>1, <2>2
<1>2. /\ todo' = [todo EXCEPT !["worker"] = SubSeq(todo["worker"], after + 1, Len(todo["worker"]))]
      /\ at' = [at EXCEPT !["worker"] = "next"]
  BY DEF Raise
<1>3. Quiet(SubSeq(todo["worker"], after + 1, Len(todo["worker"])))
  BY <1>1, QuietRest DEF LogInv, WorkerQuiet
<1>4. "worker" \in DOMAIN todo /\ "worker" \in DOMAIN at /\ "serve" \in DOMAIN at
  BY OtherThread DEF LogInv, StoreTyped
<1> QED BY <1>2, <1>3, <1>4 DEF WorkerQuiet


\* What is left of a learning operation, and what the worker reads for itself.
LEMMA QuietRemaining ==
  ASSUME NEW op, NoRecord(op) PROVE Quiet(Remaining(op))
<1> DEFINE rest == [op EXCEPT !.kinds = Tail(op.kinds)]
<1>1. NoRecord(rest)
  BY DEF NoRecord
<1>2. Quiet(<<rest>>)
  BY <1>1, QuietOne
<1> QED BY <1>2, QuietNothing DEF Remaining

LEMMA QuietReflection ==
  ASSUME LogInv, NEW rows \in Recall("worker")
  PROVE  /\ Quiet(Distil(LastOf(rows, 20)))
         /\ Quiet(Distil(LastOf(rows, 30)) \o Hypotheses(LastOf(rows, 30)) \o Questions(LastOf(rows, 30)))
<1>1. IsSeq(LastOf(rows, 20)) /\ IsSeq(LastOf(rows, 30))
  BY RecallIsSeq, LastOfIsSeq
<1>2. /\ Quiet(Distil(LastOf(rows, 20))) /\ Quiet(Distil(LastOf(rows, 30)))
      /\ Quiet(Hypotheses(LastOf(rows, 30))) /\ Quiet(Questions(LastOf(rows, 30)))
  BY <1>1, QuietDistil, QuietHypotheses, QuietQuestions
<1>3. Quiet(Distil(LastOf(rows, 30)) \o Hypotheses(LastOf(rows, 30)))
  BY <1>2, QuietJoin
<1> QED BY <1>2, <1>3, QuietJoin

LEMMA QuietConsolidation ==
  ASSUME NEW all
  PROVE  Quiet(<<[op |-> "summarize", all |-> all], Do("prune"), Do("contradict")>>)
<1> DEFINE s == <<[op |-> "summarize", all |-> all], Do("prune"), Do("contradict")>>
<1>1. /\ DOMAIN s = 1..3 /\ s = [i \in DOMAIN s |-> s[i]]
      /\ s[1] = [op |-> "summarize", all |-> all] /\ s[2] = Do("prune") /\ s[3] = Do("contradict")
  OBVIOUS
<1>2. NoRecord(s[1]) /\ NoRecord(s[2]) /\ NoRecord(s[3])
  BY <1>1 DEF NoRecord, Do
<1>3. \A i \in 1..3 : NoRecord(s[i])
  BY <1>2
<1> QED BY <1>1, <1>3, QuietMap

\* A thread that has done nothing to the log puts its work before the rest.
LEMMA LogWorkerStep ==
  ASSUME LogInv, StoreTyped', Step("worker") PROVE LogInv'
<1> USE DEF files, history
<1> DEFINE t == "worker"
<1>0. /\ Quiet(todo[t]) /\ at[t] \notin {"trim", "trimmed"}
      /\ t \in DOMAIN at /\ "serve" \in DOMAIN at /\ t \in DOMAIN buffer /\ "serve" \in DOMAIN buffer
  BY OtherThread DEF LogInv, WorkerQuiet, StoreTyped
<1>1. ASSUME UNCHANGED <<log, recorded, torn>>, buffer'["serve"] = buffer["serve"],
             \/ todo[t] # <<>> /\ \E ops : Quiet(ops) /\ Advance(t, ops)
             \/ Raise(t)
      PROVE  LogInv'
  <2>1. WorkerQuiet' /\ at'["serve"] = at["serve"]
    BY <1>1, WorkerAdvances, WorkerRaises
  <2> QED BY <1>1, <2>1, LogElsewhere
<1>2. ASSUME NEW entries, Opens(t, entries), todo[t] # <<>> PROVE LogInv'
  <2>1. /\ at' = [at EXCEPT ![t] = "collect"] /\ UNCHANGED <<log, recorded, torn, todo, buffer>>
    BY <1>2 DEF Opens
  <2>2. WorkerQuiet' /\ at'["serve"] = at["serve"]
    BY <1>0, <1>2, <2>1 DEF WorkerQuiet
  <2> QED BY <2>1, <2>2, LogElsewhere
<1>3. ASSUME Tried(t) \/ Known(t) \/ Summarize(t) PROVE LogInv'
  <2>1. /\ UNCHANGED <<log, recorded, torn, buffer>> /\ todo[t] # <<>> /\ Advance(t, <<>>)
    BY <1>3 DEF Tried, Known, Summarize, Turn
  <2> QED BY <1>1, <2>1, QuietNothing
<1>4. ASSUME Reflect(t) PROVE LogInv'
  <2>1. UNCHANGED <<log, recorded, torn, buffer>> /\ todo[t] # <<>>
    BY <1>4 DEF Reflect, Turn
  <2>2. CASE Raise(t)
    BY <1>1, <2>1, <2>2
  <2>3. CASE \E rows \in Recall(t) : LET recent == LastOf(rows, 30) IN
               Advance(t, IF Turn(t, "distil") THEN Distil(LastOf(rows, 20))
                          ELSE Distil(recent) \o Hypotheses(recent) \o Questions(recent))
    <3>1. PICK rows \in Recall(t) : LET recent == LastOf(rows, 30) IN
               Advance(t, IF Turn(t, "distil") THEN Distil(LastOf(rows, 20))
                          ELSE Distil(recent) \o Hypotheses(recent) \o Questions(recent))
      BY <2>3
    <3>2. \E ops : Quiet(ops) /\ Advance(t, ops)
      BY <3>1, QuietReflection
    <3> QED BY <1>1, <2>1, <3>2
  <2> QED BY <1>4, <2>2, <2>3 DEF Reflect, BrokenLine
<1>5. ASSUME Consolidate(t) PROVE LogInv'
  <2>1. UNCHANGED <<log, recorded, torn, buffer>> /\ todo[t] # <<>>
    BY <1>5 DEF Consolidate, Turn
  <2>2. Raise(t) \/ \E ops : Quiet(ops) /\ Advance(t, ops)
    BY <1>5, QuietConsolidation DEF Consolidate, BrokenLine
  <2> QED BY <1>1, <2>1, <2>2
<1>6. ASSUME Contradict(t) PROVE LogInv'
  <2>1. UNCHANGED <<log, recorded, torn, buffer>> /\ todo[t] # <<>>
    BY <1>6 DEF Contradict, Turn
  <2>2. ASSUME NEW rows \in Recall(t), NEW patterns,
               LET failed == SetToSeq({r \in ToSet(rows) : r.failed /\ r.target \in patterns})
               IN  Advance(t, [i \in DOMAIN failed |-> Learning(<<"contradiction">>, failed[i])])
        PROVE  \E ops : Quiet(ops) /\ Advance(t, ops)
    <3> DEFINE S == {r \in ToSet(rows) : r.failed /\ r.target \in patterns}
    <3>1. Quiet([i \in DOMAIN SetToSeq(S) |-> Learning(<<"contradiction">>, SetToSeq(S)[i])])
      BY RecallIsSeq, QuietContradictions
    <3> QED BY <2>2, <3>1
  <2>3. Raise(t) \/ \E ops : Quiet(ops) /\ Advance(t, ops)
    BY <1>6, <2>2 DEF Contradict, BrokenLine
  <2> QED BY <1>1, <2>1, <2>3
<1>7. ASSUME Learn(t) PROVE LogInv'
  BY <1>2, <1>7 DEF Learn, Turn
<1>8. ASSUME Prune(t) PROVE LogInv'
  <2>1. CASE \E entries : Opens(t, entries)
    BY <1>2, <1>8, <2>1 DEF Prune, Turn
  <2>2. CASE Advance(t, <<>>) /\ UNCHANGED <<files, facts, buffer, size, passes, history>>
    BY <1>1, <1>8, <2>2, QuietNothing DEF Prune, Turn
  <2> QED BY <1>8, <2>1, <2>2 DEF Prune
<1>9. ASSUME Collect(t) PROVE LogInv'
  <2>1. UNCHANGED <<log, recorded, torn>>
    BY <1>9 DEF Collect
  <2>2. CASE Raise(t) /\ UNCHANGED buffer
    BY <1>1, <2>1, <2>2
  <2>3. CASE buffer' = [buffer EXCEPT ![t] = facts] /\ at' = [at EXCEPT ![t] = "flush"] /\ UNCHANGED todo
    <3>1. WorkerQuiet' /\ at'["serve"] = at["serve"] /\ buffer'["serve"] = buffer["serve"]
      BY <1>0, <1>9, <2>3 DEF WorkerQuiet, Collect, LogInv
    <3> QED BY <2>1, <3>1, LogElsewhere
  <2> QED BY <1>9, <2>2, <2>3 DEF Collect
<1>10. ASSUME Flush(t) PROVE LogInv'
  <2>1. /\ UNCHANGED <<log, recorded, torn>> /\ buffer' = [buffer EXCEPT ![t] = <<>>]
        /\ Advance(t, Remaining(Head(todo[t])))
    BY <1>10 DEF Flush
  <2>2. buffer'["serve"] = buffer["serve"] /\ todo[t] # <<>>
    BY <1>0, <1>10, <2>1 DEF Flush, LogInv, WorkerQuiet
  <2>3. Quiet(Remaining(Head(todo[t])))
    BY <1>0, <2>2, QuietHead, QuietRemaining
  <2> QED BY <1>1, <2>1, <2>2, <2>3
<1>11. ~AppendRow(t)
  <2> SUFFICES ASSUME AppendRow(t) PROVE FALSE
    OBVIOUS
  <2>1. todo[t] # <<>> /\ Head(todo[t]).op = "record"
    BY DEF AppendRow, Turn
  <2> QED BY <1>0, <2>1, QuietHead DEF NoRecord
<1>12. ~Truncate(t) /\ ~Rewrite(t)
  BY <1>0 DEF Truncate, Rewrite
<1> QED
  BY <1>3, <1>4, <1>5, <1>6, <1>7, <1>8, <1>9, <1>10, <1>11, <1>12 DEF Step


LEMMA AppendIsSeq == ASSUME NEW s, IsSeq(s), NEW x PROVE IsSeq(Append(s, x))
<1>1. s \in Seq(ToSet(s) \cup {x})
  BY SeqMonotonic DEF IsSeq
<1>2. Append(s, x) \in Seq(ToSet(s) \cup {x})
  BY <1>1, AppendProperties
<1> QED BY <1>2, SeqIsSeq

\* The serve loop appends, truncates and rewrites; what it does else leaves the log.
LEMMA LogServeStep ==
  ASSUME StoreAssumption, LogInv, StoreTyped', Step("serve") PROVE LogInv'
<1> USE DEF files, history
<1> DEFINE t == "serve"
<1>0. /\ WorkerQuiet /\ RowsAreSeqs /\ LogKept /\ torn \in BOOLEAN /\ Capacity \in Nat \ {0}
      /\ t \in DOMAIN at /\ t \in DOMAIN todo /\ t \in DOMAIN buffer /\ "worker" \in DOMAIN at
  BY OtherThread DEF LogInv, StoreTyped, StoreAssumption
<1>1. ASSUME at[t] \notin {"trim", "trimmed"}, UNCHANGED <<log, recorded, torn>>,
             todo'["worker"] = todo["worker"],
             NEW step \in {"next", "collect", "flush"}, at' = [at EXCEPT ![t] = step]
      PROVE  LogInv'
  <2>1. WorkerQuiet'
    BY <1>0, <1>1 DEF WorkerQuiet
  <2>2. at'[t] = step
    BY <1>0, <1>1
  <2> QED BY <1>0, <1>1, <2>1, <2>2 DEF LogInv, RowsAreSeqs, LogKept
<1>2. ASSUME (\E ops : Advance(t, ops)) \/ Raise(t)
      PROVE  todo'["worker"] = todo["worker"] /\ at' = [at EXCEPT ![t] = "next"]
  BY <1>2, OtherThread DEF Advance, Raise, LogInv, StoreTyped
<1>3. ASSUME UNCHANGED <<log, recorded, torn>>, (\E ops : Advance(t, ops)) \/ Raise(t),
             at[t] \notin {"trim", "trimmed"}
      PROVE  LogInv'
  BY <1>1, <1>2, <1>3
<1>4. ASSUME NEW entries, Opens(t, entries), at[t] = "next" PROVE LogInv'
  <2>1. at' = [at EXCEPT ![t] = "collect"] /\ UNCHANGED <<log, recorded, torn, todo>>
    BY <1>4 DEF Opens
  <2> QED BY <1>1, <1>4, <2>1
<1>5. ASSUME Tried(t) \/ Known(t) \/ Summarize(t) PROVE LogInv'
  BY <1>3, <1>5 DEF Tried, Known, Summarize, Turn
<1>6. ASSUME Reflect(t) PROVE LogInv'
  BY <1>3, <1>6 DEF Reflect, BrokenLine, Turn
<1>7. ASSUME Consolidate(t) \/ Contradict(t) PROVE LogInv'
  BY <1>3, <1>7 DEF Consolidate, Contradict, BrokenLine, Turn
<1>8. ASSUME Learn(t) PROVE LogInv'
  BY <1>4, <1>8 DEF Learn, Turn
<1>9. ASSUME Prune(t) PROVE LogInv'
  BY <1>3, <1>4, <1>9 DEF Prune, Turn
<1>10. ASSUME Collect(t) PROVE LogInv'
  <2>1. at[t] = "collect" /\ UNCHANGED <<log, recorded, torn>>
    BY <1>10 DEF Collect
  <2>2. CASE Raise(t)
    BY <1>3, <2>1, <2>2
  <2>3. CASE at' = [at EXCEPT ![t] = "flush"] /\ UNCHANGED todo
    BY <1>1, <2>1, <2>3
  <2> QED BY <1>10, <2>2, <2>3 DEF Collect
<1>11. ASSUME Flush(t) PROVE LogInv'
  BY <1>3, <1>11 DEF Flush
<1>12. ASSUME AppendRow(t) PROVE LogInv'
  <2>1. PICK row : /\ log' = Append(log, row) /\ recorded' = Append(recorded, row)
                   /\ IF Len(log) >= Capacity THEN at' = [at EXCEPT ![t] = "trim"] /\ UNCHANGED todo
                      ELSE Advance(t, <<>>)
    BY <1>12 DEF AppendRow
  <2>2. at[t] = "next" /\ UNCHANGED torn
    BY <1>12 DEF AppendRow, Turn
  <2>3. IsSeq(log') /\ IsSeq(recorded')
    BY <1>0, <2>1, AppendIsSeq DEF RowsAreSeqs
  <2>4. todo'["worker"] = todo["worker"] /\ at'["worker"] = at["worker"]
    BY <1>0, <1>2, <2>1
  <2>5. WorkerQuiet'
    BY <1>0, <2>4 DEF WorkerQuiet
  <2>6. ASSUME ~torn
        PROVE  /\ LastOf(log', Capacity) = LastOf(recorded', Capacity)
               /\ ~(Len(log) >= Capacity) => log' = LastOf(recorded', Capacity)
    <3>1. log = LastOf(recorded, Capacity)
      BY <1>0, <2>2, <2>6 DEF LogKept
    <3> QED BY <1>0, <2>1, <3>1, LastOfAppend DEF RowsAreSeqs
  <2>7. CASE Len(log) >= Capacity
    <3>1. at'[t] = "trim"
      BY <1>0, <2>1, <2>7
    <3> QED BY <2>2, <2>3, <2>5, <2>6, <3>1 DEF LogInv, RowsAreSeqs, LogKept
  <2>8. CASE ~(Len(log) >= Capacity)
    <3>1. at'[t] = "next"
      BY <1>0, <1>2, <2>1, <2>8
    <3> QED BY <2>2, <2>3, <2>5, <2>6, <2>8, <3>1 DEF LogInv, RowsAreSeqs, LogKept
  <2> QED BY <2>7, <2>8
<1>13. ASSUME Truncate(t) PROVE LogInv'
  <2>1. /\ at[t] = "trim" /\ at'[t] = "trimmed" /\ at'["worker"] = at["worker"]
        /\ buffer'[t] = LastOf(log, Capacity) /\ log' = <<>> /\ UNCHANGED <<todo, recorded, torn>>
    BY <1>0, <1>13 DEF Truncate
  <2>2. IsSeq(log') /\ IsSeq(buffer'[t])
    BY <1>0, <2>1, QuietNothing, LastOfIsSeq DEF Quiet, RowsAreSeqs
  <2>3. WorkerQuiet'
    BY <1>0, <2>1 DEF WorkerQuiet
  <2> QED BY <1>0, <2>1, <2>2, <2>3 DEF LogInv, RowsAreSeqs, LogKept
<1>14. ASSUME Rewrite(t) PROVE LogInv'
  <2>1. at[t] = "trimmed" /\ log' = buffer[t] /\ UNCHANGED <<recorded, torn>>
    BY <1>14 DEF Rewrite
  <2>2. todo'["worker"] = todo["worker"] /\ at' = [at EXCEPT ![t] = "next"]
    BY <1>2, <1>14 DEF Rewrite
  <2>3. at'[t] = "next" /\ WorkerQuiet'
    BY <1>0, <2>2 DEF WorkerQuiet
  <2> QED BY <1>0, <2>1, <2>3 DEF LogInv, RowsAreSeqs, LogKept
<1> QED
  BY <1>5, <1>6, <1>7, <1>8, <1>9, <1>10, <1>11, <1>12, <1>13, <1>14 DEF Step


-----------------------------------------------------------------------------
(* Both files *)

FilesInv == MirrorInv /\ LogInv

\* Steps of the chat that touch no store but what a thread has to do.
LEMMA FilesIdle ==
  ASSUME FilesInv, UNCHANGED <<files, facts, at, buffer, history>>,
         DOMAIN todo' = Thread, WorkerQuiet'
  PROVE  FilesInv'
<1>1. MirrorInv'
  BY MirrorIdles DEF FilesInv, files, history
<1>2. UNCHANGED <<log, recorded, torn, at, buffer>>
  BY DEF files, history
<1>3. StoreTyped'
  BY <1>1 DEF MirrorInv
<1> QED BY <1>1, <1>2, <1>3, LogElsewhere DEF FilesInv

LEMMA FilesUnchanged ==
  ASSUME FilesInv, UNCHANGED storeVars PROVE FilesInv'
<1>1. /\ UNCHANGED <<files, facts, at, buffer, history>> /\ todo' = todo
      /\ DOMAIN todo = Thread /\ WorkerQuiet
  BY DEF storeVars, FilesInv, LogInv, StoreTyped
<1>2. WorkerQuiet' /\ DOMAIN todo' = Thread
  BY <1>1 DEF WorkerQuiet
<1> QED BY <1>1, <1>2, FilesIdle

\* Steps that give only the serve loop something to do.
LEMMA FilesServe ==
  ASSUME FilesInv, UNCHANGED <<files, facts, at, buffer, history>>,
         NEW ops, todo' = [todo EXCEPT !["serve"] = ops]
  PROVE  FilesInv'
<1>1. DOMAIN todo' = Thread /\ todo'["worker"] = todo["worker"] /\ at' = at
  BY OtherThread DEF FilesInv, LogInv, StoreTyped
<1>2. WorkerQuiet'
  BY <1>1 DEF FilesInv, LogInv, WorkerQuiet
<1> QED BY <1>1, <1>2, FilesIdle

LEMMA FilesPass == ASSUME FilesInv, Pass PROVE FilesInv'
<1>1. PICK ops \in {<<Do("reflect")>>, <<Do("consolidate")>>, <<Do("consolidate"), Do("reflect")>>} :
        todo' = [todo EXCEPT !["worker"] = ops]
  BY DEF Pass
<1>2. UNCHANGED <<files, facts, at, buffer, history>> /\ at["worker"] = "next"
  BY DEF Pass
<1>3. Quiet(ops)
  <2>1. NoRecord(Do("reflect")) /\ NoRecord(Do("consolidate"))
    BY DEF NoRecord, Do
  <2>2. Quiet(<<Do("reflect")>>) /\ Quiet(<<Do("consolidate")>>)
    BY <2>1, QuietOne
  <2> DEFINE both == <<Do("consolidate"), Do("reflect")>>
  <2>3. /\ DOMAIN both = 1..2 /\ both = [i \in DOMAIN both |-> both[i]]
        /\ both[1] = Do("consolidate") /\ both[2] = Do("reflect")
    OBVIOUS
  <2>4. \A i \in 1..2 : NoRecord(both[i])
    BY <2>1, <2>3
  <2>5. Quiet(both)
    BY <2>3, <2>4, QuietMap
  <2> QED BY <2>2, <2>5
<1>4. DOMAIN todo' = Thread /\ WorkerQuiet'
  BY <1>1, <1>2, <1>3, OtherThread DEF FilesInv, LogInv, StoreTyped, WorkerQuiet
<1> QED BY <1>2, <1>4, FilesIdle

LEMMA FilesShutdown == ASSUME FilesInv, Shutdown PROVE FilesInv'
<1>1. /\ UNCHANGED <<files, facts, at, buffer, history>> /\ at["worker"] = "next"
      /\ DOMAIN todo' = Thread /\ todo'["worker"] \in {todo["worker"], <<>>}
  BY OtherThread DEF Shutdown
<1>2. WorkerQuiet'
  BY <1>1, QuietNothing DEF FilesInv, LogInv, WorkerQuiet
<1> QED BY <1>1, <1>2, FilesIdle

LEMMA FilesReload == ASSUME FilesInv, Reload PROVE FilesInv'
<1>1. MirrorInv'
  BY MirrorReloads DEF FilesInv
<1>2. StoreTyped'
  BY <1>1 DEF MirrorInv
<1>3. /\ log' = log /\ recorded' = recorded
      /\ todo' = [t \in Thread |-> <<>>] /\ at' = [t \in Thread |-> "next"]
      /\ torn' = (torn \/ \E t \in Thread : at[t] \in {"trim", "trimmed"})
  BY DEF Reload, files
<1>4. WorkerQuiet'
  BY <1>3, OtherThread, QuietNothing DEF WorkerQuiet
<1>5. ~torn' => ~torn /\ at["serve"] \notin {"trim", "trimmed"}
  BY <1>3, OtherThread
<1>6. RowsAreSeqs' /\ LogKept'
  BY <1>3, <1>5, OtherThread DEF FilesInv, LogInv, RowsAreSeqs, LogKept
<1> QED BY <1>1, <1>2, <1>4, <1>6 DEF FilesInv, LogInv

LEMMA FilesInit == ASSUME StoreAssumption, Init PROVE FilesInv
<1>1. StoreInit
  BY DEF Init
<1>2. /\ log = <<>> /\ recorded = <<>> /\ torn = FALSE /\ crossed = FALSE /\ opened = {}
      /\ disk = Whole(facts) /\ todo = [t \in Thread |-> <<>>] /\ at = [t \in Thread |-> "next"]
      /\ buffer = [t \in Thread |-> <<>>]
  BY <1>1 DEF StoreInit, ExperienceInit, KnowledgeInit
<1>3. StoreTyped
  BY <1>2 DEF StoreTyped
<1>4. MirrorInv
  BY <1>2, <1>3 DEF MirrorInv, SavesAlone, CleanSaves, DiskIsWhole, FileMirrorsKnowledge, Saving, Whole
<1>5. LastOf(<<>>, Capacity) = <<>>
  <2>1. <<>> \in Seq({}) /\ Capacity \in Nat /\ Len(<<>>) <= Capacity
    BY DEF StoreAssumption
  <2> QED BY <2>1, LastOfProperties, Zenon
<1>6. WorkerQuiet /\ RowsAreSeqs /\ LogKept
  BY <1>2, <1>5, OtherThread, QuietNothing DEF WorkerQuiet, RowsAreSeqs, LogKept, Quiet
<1> QED BY <1>3, <1>4, <1>6 DEF FilesInv, LogInv

LEMMA FilesStep ==
  ASSUME StoreAssumption, FilesInv, [Next]_vars PROVE FilesInv'
<1>1. ASSUME NEW m \in Message, Request(m) PROVE FilesInv'
  <2>1. UNCHANGED storeVars
    BY <1>1 DEF Request, Post, ReadHistory, GoalReturns, WriteReturns
  <2> QED BY <2>1, FilesUnchanged
<1>2. ASSUME NEW c \in pending, Take(c) PROVE FilesInv'
  <2>1. UNCHANGED <<files, facts, at, buffer, history>>
    BY <1>2 DEF Take
  <2>2. todo' = todo \/ \E ops : todo' = [todo EXCEPT !["serve"] = ops]
    BY <1>2 DEF Take
  <2>3. CASE todo' = todo
    BY <2>1, <2>3, FilesIdle DEF FilesInv, LogInv, StoreTyped, WorkerQuiet
  <2> QED BY <2>1, <2>2, <2>3, FilesServe
<1>3. ASSUME Saved \/ Restart PROVE FilesInv'
  BY <1>3, FilesUnchanged DEF Saved, Restart
<1>4. ASSUME Reply PROVE FilesInv'
  BY <1>4, FilesServe DEF Reply
<1>5. ASSUME Exit \/ Die PROVE FilesInv'
  BY <1>5, FilesReload DEF Exit, Die, End
<1>6. ASSUME NEW t \in Thread, StoreStep(t) PROVE FilesInv'
  <2>1. Step(t) /\ MirrorInv /\ LogInv
    BY <1>6 DEF StoreStep, FilesInv
  <2>2. MirrorInv'
    BY <2>1, MirrorStep
  <2>3. StoreTyped'
    BY <2>2 DEF MirrorInv
  <2>4. LogInv'
    BY <2>1, <2>3, LogServeStep, LogWorkerStep, OtherThread
  <2> QED BY <2>2, <2>4 DEF FilesInv
<1>7. ASSUME WorkerPass PROVE FilesInv'
  BY <1>7, FilesPass DEF WorkerPass
<1>8. CASE UNCHANGED vars
  BY <1>8, FilesUnchanged DEF vars
<1> QED
  BY <1>1, <1>2, <1>3, <1>4, <1>5, <1>6, <1>7, <1>8, FilesShutdown, OtherThread DEF Next, Serve

\* The worker and the serve loop share their files without a lock; both hold
\* what they should whenever nobody is writing them, whatever goals, ticks,
\* deaths and shutdowns interleave: knowledge.json the entries, unless the last
\* saves met or one raised (memory/knowledge.py), and experience.jsonl the
\* newest rows, unless the process died while it was rewritten
\* (memory/experience.py).
THEOREM StoresAreShared ==
  ASSUME StoreAssumption PROVE Spec => []SharedFilesHold
<1>1. Init => FilesInv
  BY FilesInit
<1>2. FilesInv /\ [Next]_vars => FilesInv'
  BY FilesStep
<1>3. FilesInv => SharedFilesHold
  <2> SUFFICES ASSUME FilesInv PROVE SharedFilesHold
    OBVIOUS
  <2>1. FileMirrorsKnowledge
    BY DEF FilesInv, MirrorInv
  <2>2. NewestRowsAreKept
    BY OtherThread DEF FilesInv, LogInv, LogKept, NewestRowsAreKept
  <2> QED BY <2>1, <2>2 DEF SharedFilesHold
<1> QED BY <1>1, <1>2, <1>3, PTL DEF Spec


-----------------------------------------------------------------------------
(* The calls of a conversation.  Each belongs to a request that has come as far
   as it; what a call has done by the time it is answered is what its request
   goes on with. *)

ChatTyped ==
  /\ req \in [Message -> Ops \cup {"typed", "shown"}]
  /\ local \in [Message -> Seq(Message)] /\ DOMAIN shown = Message
  /\ pending \subseteq Message \X Ops /\ DOMAIN answered \subseteq Message \X Ops
  /\ \A c \in DOMAIN answered : answered[c].history \in Seq(Message)
  /\ serving \in pending \cup {Idle, Stopping}
  /\ store \in Seq(Message) /\ file \in Seq(Message) \cup {Lost}

Calls == pending \cup DOMAIN answered

SentInOrder ==
  \A m \in Message :
    /\ Call(m, "get") \in Calls => req[m] # "typed"
    /\ Call(m, "goal") \in Calls => req[m] \in {"goal", "put", "shown"}
    /\ Call(m, "put") \in Calls => req[m] \in {"put", "shown"}

OwnMessage ==
  \A m \in Message : req[m] \in {"goal", "put", "shown"} => m \in ToSet(local[m])

WritesAreDone ==
  \A m \in Message :
    /\ serving = Call(m, "put") => m \in ToSet(store) /\ (file # Lost => m \in written)
    /\ Call(m, "put") \in DOMAIN answered => m \in written

GoalsAreDone ==
  \A m \in Message :
    /\ Call(m, "goal") \in DOMAIN answered /\ Answer(m, "goal").ok => m \in processed
    /\ req[m] = "put" => m \in processed

ReplyInv ==
  ChatTyped /\ SentInOrder /\ OwnMessage /\ WritesAreDone /\ GoalsAreDone /\ ReplyMeansProcessed

LEMMA CallsDiffer ==
  ASSUME NEW m, NEW n, NEW a, NEW b
  PROVE  /\ (Call(m, a) = Call(n, b)) <=> m = n /\ a = b
         /\ Call(m, a)[1] = m /\ Call(m, a)[2] = a
         /\ Call(m, a) # Idle
BY DEF Call, Idle

LEMMA AppendHas ==
  ASSUME NEW S, NEW s \in Seq(S), NEW x \in S
  PROVE  /\ Append(s, x) \in Seq(S) /\ x \in ToSet(Append(s, x))
         /\ \A y \in ToSet(s) : y \in ToSet(Append(s, x))
<1>1. /\ Append(s, x) \in Seq(S) /\ Len(Append(s, x)) = Len(s) + 1 /\ Len(s) \in Nat
      /\ \A i \in 1..Len(s) : Append(s, x)[i] = s[i]
      /\ Append(s, x)[Len(s) + 1] = x
  BY AppendProperties, LenProperties
<1>2. DOMAIN Append(s, x) = 1 .. Len(s) + 1 /\ DOMAIN s = 1..Len(s)
  BY <1>1, LenProperties
<1>3. x \in ToSet(Append(s, x))
  BY <1>1, <1>2 DEF ToSet
<1>4. \A y \in ToSet(s) : y \in ToSet(Append(s, x))
  <2> TAKE y \in ToSet(s)
  <2>1. PICK i \in 1..Len(s) : s[i] = y
    BY <1>2 DEF ToSet
  <2> QED BY <1>1, <1>2, <2>1 DEF ToSet
<1> QED BY <1>1, <1>3, <1>4


Onward(stage, next) ==
  \/ stage = "typed" /\ next = "get"
  \/ stage = "get" /\ next = "goal"
  \/ stage = "goal" /\ next \in {"put", "shown"}
  \/ stage = "put" /\ next = "shown"

\* A request goes on to its next stage, and may send its call.
LEMMA RequestMoves ==
  ASSUME ReplyInv, NEW m \in Message, NEW stage,
         Onward(req[m], stage), req' = [req EXCEPT ![m] = stage],
         pending' = pending \/ (stage # "shown" /\ pending' = pending \cup {Call(m, stage)}),
         answered' = answered, serving' = serving, store' = store, file' = file,
         processed' = processed, written' = written,
         local' \in [Message -> Seq(Message)], DOMAIN shown' = Message
  PROVE  ChatTyped' /\ SentInOrder' /\ WritesAreDone'
<1>1. stage \in Ops \cup {"shown"} /\ (stage # "shown" => Call(m, stage) \in Message \X Ops)
  BY DEF Onward, Ops, Call
<1>2. ChatTyped'
  BY <1>1 DEF ReplyInv, ChatTyped, Onward
<1>3. SentInOrder'
  <2> SUFFICES ASSUME NEW n \in Message
               PROVE  /\ Call(n, "get") \in Calls' => req'[n] # "typed"
                      /\ Call(n, "goal") \in Calls' => req'[n] \in {"goal", "put", "shown"}
                      /\ Call(n, "put") \in Calls' => req'[n] \in {"put", "shown"}
    BY DEF SentInOrder, Call
  <2>1. \A op : Call(n, op) \in Calls' => Call(n, op) \in Calls \/ (n = m /\ op = stage)
    BY CallsDiffer DEF Calls
  <2>2. req'[n] = IF n = m THEN stage ELSE req[n]
    BY DEF ReplyInv, ChatTyped
  <2> QED BY <2>1, <2>2 DEF ReplyInv, SentInOrder, Onward
<1>4. WritesAreDone'
  BY DEF ReplyInv, WritesAreDone
<1> QED BY <1>2, <1>3, <1>4

LEMMA Sends ==
  ASSUME NEW m, NEW op, Send(m, op)
  PROVE  /\ req' = [req EXCEPT ![m] = op] /\ shown' = shown
         /\ pending' = pending \/ pending' = pending \cup {Call(m, op)}
BY DEF Send

LEMMA ReturnsAnswer ==
  ASSUME NEW m, NEW op, Returns(m, op, TRUE)
  PROVE  Call(m, op) \in DOMAIN answered /\ Answer(m, op).ok = TRUE
BY DEF Returns

LEMMA ReplyPost == ASSUME ReplyInv, NEW m \in Message, Post(m) PROVE ReplyInv'
<1>1. /\ req[m] = "typed" /\ req' = [req EXCEPT ![m] = "get"] /\ shown' = shown
      /\ pending' = pending \/ pending' = pending \cup {Call(m, "get")}
      /\ UNCHANGED <<local, answered, serving, store, file, processed, written>>
  BY Sends DEF Post, keepVars
<1>2. ChatTyped' /\ SentInOrder' /\ WritesAreDone'
  <2>1. /\ Onward(req[m], "get") /\ DOMAIN shown' = Message /\ local' \in [Message -> Seq(Message)]
        /\ pending' = pending \/ ("get" # "shown" /\ pending' = pending \cup {Call(m, "get")})
    BY <1>1 DEF Onward, ReplyInv, ChatTyped
  <2> QED BY <1>1, <2>1, RequestMoves, Zenon
<1>3. \A n \in Message : req'[n] = IF n = m THEN "get" ELSE req[n]
  BY <1>1 DEF ReplyInv, ChatTyped
<1>4. OwnMessage' /\ GoalsAreDone' /\ ReplyMeansProcessed'
  BY <1>1, <1>3 DEF ReplyInv, OwnMessage, GoalsAreDone, ReplyMeansProcessed, Answer, Call
<1> QED BY <1>2, <1>4 DEF ReplyInv

LEMMA ReplyReads ==
  ASSUME ReplyInv, NEW m \in Message, NEW ok \in BOOLEAN, ReadHistory(m, ok) PROVE ReplyInv'
<1> DEFINE was == IF ok THEN Answer(m, "get").history ELSE <<>>
<1>1. /\ req[m] = "get" /\ req' = [req EXCEPT ![m] = "goal"] /\ shown' = shown
      /\ pending' = pending \/ pending' = pending \cup {Call(m, "goal")}
      /\ local' = [local EXCEPT ![m] = Append(was, m)]
      /\ UNCHANGED <<answered, serving, store, file, processed, written>>
  BY Sends DEF ReadHistory, Returns, keepVars
<1>2. was \in Seq(Message)
  <2>1. CASE ok
    <3>1. Returns(m, "get", TRUE)
      BY <2>1 DEF ReadHistory
    <3> QED BY <2>1, <3>1, ReturnsAnswer DEF ReplyInv, ChatTyped, Answer
  <2>2. CASE ~ok
    BY <2>2
  <2> QED BY <2>1, <2>2
<1>3. Append(was, m) \in Seq(Message) /\ m \in ToSet(Append(was, m))
  BY <1>2, AppendHas
<1>4. /\ local' \in [Message -> Seq(Message)]
      /\ \A n \in Message : local'[n] = IF n = m THEN Append(was, m) ELSE local[n]
  BY <1>1, <1>3 DEF ReplyInv, ChatTyped
<1>5. ChatTyped' /\ SentInOrder' /\ WritesAreDone'
  <2>1. /\ Onward(req[m], "goal") /\ DOMAIN shown' = Message
        /\ pending' = pending \/ ("goal" # "shown" /\ pending' = pending \cup {Call(m, "goal")})
    BY <1>1 DEF Onward, ReplyInv, ChatTyped
  <2> QED BY <1>1, <1>4, <2>1, RequestMoves, Zenon
<1>6. \A n \in Message : req'[n] = IF n = m THEN "goal" ELSE req[n]
  BY <1>1 DEF ReplyInv, ChatTyped
<1>7. OwnMessage'
  BY <1>3, <1>4, <1>6 DEF ReplyInv, OwnMessage
<1>8. GoalsAreDone' /\ ReplyMeansProcessed'
  BY <1>1, <1>6 DEF ReplyInv, GoalsAreDone, ReplyMeansProcessed, Answer, Call
<1> QED BY <1>5, <1>7, <1>8 DEF ReplyInv

LEMMA ReplyGoalReturns ==
  ASSUME ReplyInv, NEW m \in Message, NEW ok \in BOOLEAN, GoalReturns(m, ok) PROVE ReplyInv'
<1>1. /\ req[m] = "goal"
      /\ UNCHANGED <<local, answered, serving, store, file, processed, written>>
  BY DEF GoalReturns, Returns, keepVars, chatHistory
<1>2. CASE ok
  <2>1. /\ req' = [req EXCEPT ![m] = "put"] /\ shown' = shown
        /\ pending' = pending \/ pending' = pending \cup {Call(m, "put")}
    BY <1>2, Sends DEF GoalReturns
  <2>2. m \in processed
    BY <1>2, ReturnsAnswer DEF GoalReturns, ReplyInv, GoalsAreDone
  <2>3. ChatTyped' /\ SentInOrder' /\ WritesAreDone'
    <3>1. /\ Onward(req[m], "put") /\ DOMAIN shown' = Message /\ local' \in [Message -> Seq(Message)]
          /\ pending' = pending \/ ("put" # "shown" /\ pending' = pending \cup {Call(m, "put")})
      BY <1>1, <2>1 DEF Onward, ReplyInv, ChatTyped
    <3> QED BY <1>1, <2>1, <3>1, RequestMoves, Zenon
  <2>4. \A n \in Message : req'[n] = IF n = m THEN "put" ELSE req[n]
    BY <2>1 DEF ReplyInv, ChatTyped
  <2>5. OwnMessage' /\ GoalsAreDone' /\ ReplyMeansProcessed'
    BY <1>1, <2>1, <2>2, <2>4 DEF ReplyInv, OwnMessage, GoalsAreDone, ReplyMeansProcessed, Answer, Call
  <2> QED BY <2>3, <2>5 DEF ReplyInv
<1>3. CASE ~ok
  <2>1. /\ req' = [req EXCEPT ![m] = "shown"] /\ shown' = [shown EXCEPT ![m] = "Done."]
        /\ pending' = pending
    BY <1>3 DEF GoalReturns, Show, Page, Fetched
  <2>2. ChatTyped' /\ SentInOrder' /\ WritesAreDone'
    <3>1. /\ Onward(req[m], "shown") /\ DOMAIN shown' = Message /\ local' \in [Message -> Seq(Message)]
          /\ pending' = pending
      BY <1>1, <2>1 DEF Onward, ReplyInv, ChatTyped
    <3> QED BY <1>1, <2>1, <3>1, RequestMoves, Zenon
  <2>3. \A n \in Message : /\ req'[n] = IF n = m THEN "shown" ELSE req[n]
                           /\ shown'[n] = IF n = m THEN "Done." ELSE shown[n]
    BY <2>1 DEF ReplyInv, ChatTyped
  <2>4. OwnMessage' /\ GoalsAreDone' /\ ReplyMeansProcessed'
    BY <1>1, <2>1, <2>3 DEF ReplyInv, OwnMessage, GoalsAreDone, ReplyMeansProcessed, Answer, Call
  <2> QED BY <2>2, <2>4 DEF ReplyInv
<1> QED BY <1>2, <1>3

LEMMA ReplyWriteReturns ==
  ASSUME ReplyInv, NEW m \in Message, NEW ok \in BOOLEAN, WriteReturns(m, ok) PROVE ReplyInv'
<1>1. /\ req[m] = "put" /\ req' = [req EXCEPT ![m] = "shown"] /\ pending' = pending
      /\ shown' = [shown EXCEPT ![m] = IF ok THEN "reply" ELSE "snag"]
      /\ UNCHANGED <<local, answered, serving, store, file, processed, written>>
  <2>1. /\ req[m] = "put" /\ Show(m, IF ok THEN 200 ELSE 500)
        /\ UNCHANGED <<local, answered, serving, store, file, processed, written>>
    BY DEF WriteReturns, Returns, keepVars, chatHistory
  <2>2. Page(200) = "reply" /\ Page(500) = "snag"
    BY DEF Page, Fetched
  <2>3. Page(IF ok THEN 200 ELSE 500) = IF ok THEN "reply" ELSE "snag"
    BY <2>2
  <2> QED BY <2>1, <2>3 DEF Show
<1>2. ok => m \in processed /\ m \in written
  BY <1>1, ReturnsAnswer DEF WriteReturns, ReplyInv, GoalsAreDone, WritesAreDone
<1>3. ChatTyped' /\ SentInOrder' /\ WritesAreDone'
  <2>1. /\ Onward(req[m], "shown") /\ DOMAIN shown' = Message /\ local' \in [Message -> Seq(Message)]
    BY <1>1 DEF Onward, ReplyInv, ChatTyped
  <2> QED BY <1>1, <2>1, RequestMoves, Zenon
<1>4. \A n \in Message : /\ req'[n] = IF n = m THEN "shown" ELSE req[n]
                         /\ n # m => shown'[n] = shown[n]
  BY <1>1 DEF ReplyInv, ChatTyped
<1>5. ~ok => shown'[m] = "snag"
  BY <1>1 DEF ReplyInv, ChatTyped
<1>6. OwnMessage' /\ GoalsAreDone'
  BY <1>1, <1>4 DEF ReplyInv, OwnMessage, GoalsAreDone, Answer, Call
<1>7. ReplyMeansProcessed'
  BY <1>1, <1>2, <1>4, <1>5 DEF ReplyInv, ReplyMeansProcessed
<1> QED BY <1>3, <1>6, <1>7 DEF ReplyInv


LEMMA ReplyTake == ASSUME ReplyInv, NEW c \in pending, Take(c) PROVE ReplyInv'
<1>1. /\ serving' = c /\ UNCHANGED <<req, local, shown, pending, answered, processed, written>>
  BY DEF Take, pageVars, callVars, chatHistory
<1>2. PICK m \in Message, op \in Ops : c = Call(m, op)
  BY DEF ReplyInv, ChatTyped, Call
<1>3. \/ op # "put" /\ UNCHANGED <<store, file>>
      \/ op = "put" /\ store' = local[m] /\ file' = Lost
  BY <1>2, CallsDiffer DEF Take, keepVars
<1>4. op = "put" => m \in ToSet(local[m])
  BY <1>2 DEF ReplyInv, SentInOrder, OwnMessage, Calls
<1>5. ChatTyped' /\ SentInOrder'
  BY <1>1, <1>2, <1>3 DEF ReplyInv, ChatTyped, SentInOrder, Calls
<1>6. OwnMessage' /\ GoalsAreDone' /\ ReplyMeansProcessed'
  BY <1>1 DEF ReplyInv, OwnMessage, GoalsAreDone, ReplyMeansProcessed, Answer
<1>7. WritesAreDone'
  <2> SUFFICES ASSUME NEW n \in Message
               PROVE  /\ serving' = Call(n, "put") => n \in ToSet(store') /\ (file' # Lost => n \in written')
                      /\ Call(n, "put") \in DOMAIN answered' => n \in written'
    BY DEF WritesAreDone, Call
  <2>1. serving' = Call(n, "put") => n = m /\ op = "put"
    BY <1>1, <1>2 DEF Call
  <2>2. serving' = Call(n, "put") => n \in ToSet(store') /\ (file' # Lost => n \in written')
    BY <1>3, <1>4, <2>1
  <2> QED BY <1>1, <2>2 DEF ReplyInv, WritesAreDone
<1> QED BY <1>5, <1>6, <1>7 DEF ReplyInv

LEMMA ReplySaved == ASSUME ReplyInv, Saved PROVE ReplyInv'
<1>1. /\ file' = store /\ written' = written \cup ToSet(store)
      /\ UNCHANGED <<req, local, shown, pending, answered, serving, store, processed>>
  BY DEF Saved, pageVars, callVars
<1>2. ChatTyped' /\ SentInOrder' /\ OwnMessage' /\ GoalsAreDone' /\ ReplyMeansProcessed'
  BY <1>1 DEF ReplyInv, ChatTyped, SentInOrder, Calls, OwnMessage, GoalsAreDone, ReplyMeansProcessed, Answer
<1>3. WritesAreDone'
  BY <1>1 DEF ReplyInv, WritesAreDone
<1> QED BY <1>2, <1>3 DEF ReplyInv

LEMMA ReplyAnswers == ASSUME ReplyInv, Reply PROVE ReplyInv'
<1>1. PICK m \in Message, op \in Ops : serving = Call(m, op)
  BY DEF Reply, ReplyInv, ChatTyped, Call
<1>2. PICK result :
        /\ result = [ok |-> op = "goal" => todo["serve"] # <<>>,
                     history |-> IF op = "get" THEN store ELSE <<>>]
        /\ answered' = [c \in DOMAIN answered \cup {serving} |-> IF c = serving THEN result ELSE answered[c]]
        /\ processed' = IF op = "goal" /\ result.ok THEN processed \cup {m} ELSE processed
  <2>1. serving[1] = m /\ serving[2] = op
    BY <1>1 DEF Call
  <2> QED BY <2>1, Zenon DEF Reply
<1>3. /\ serving \in pending /\ pending' = pending \ {serving} /\ serving' = Idle
      /\ UNCHANGED <<req, local, shown, store, file, written>>
      /\ op = "put" => file # Lost
  BY <1>1, CallsDiffer DEF Reply, pageVars, keepVars
<1>4. result.history \in Seq(Message)
  BY <1>2 DEF ReplyInv, ChatTyped
<1>5. /\ DOMAIN answered' = DOMAIN answered \cup {serving}
      /\ \A c \in DOMAIN answered' : answered'[c] = IF c = serving THEN result ELSE answered[c]
  BY <1>2
<1>6. ChatTyped'
  BY <1>3, <1>4, <1>5 DEF ReplyInv, ChatTyped
<1>7. Calls' = Calls
  BY <1>3, <1>5 DEF Calls
<1>8. SentInOrder' /\ OwnMessage'
  BY <1>3, <1>7 DEF ReplyInv, SentInOrder, OwnMessage
<1>9. WritesAreDone'
  <2> SUFFICES ASSUME NEW n \in Message
               PROVE  /\ serving' = Call(n, "put") => n \in ToSet(store') /\ (file' # Lost => n \in written')
                      /\ Call(n, "put") \in DOMAIN answered' => n \in written'
    BY DEF WritesAreDone, Call
  <2>1. serving' # Call(n, "put")
    BY <1>3, CallsDiffer
  <2>2. Call(n, "put") \in DOMAIN answered' => n \in written'
    <3>1. CASE Call(n, "put") \in DOMAIN answered
      BY <1>3, <3>1 DEF ReplyInv, WritesAreDone
    <3>2. CASE Call(n, "put") = serving
      <4>1. op = "put" /\ n = m
        BY <1>1, <3>2, CallsDiffer
      <4> QED BY <1>3, <3>2, <4>1 DEF ReplyInv, WritesAreDone
    <3> QED BY <1>5, <3>1, <3>2
  <2> QED BY <2>1, <2>2
<1>10. processed \subseteq processed'
  BY <1>2
<1>11. GoalsAreDone'
  <2> SUFFICES ASSUME NEW n \in Message
               PROVE  /\ Call(n, "goal") \in DOMAIN answered' /\ Answer(n, "goal").ok' => n \in processed'
                      /\ req'[n] = "put" => n \in processed'
    BY DEF GoalsAreDone, Answer, Call
  <2>1. ASSUME Call(n, "goal") \in DOMAIN answered', Answer(n, "goal").ok' PROVE n \in processed'
    <3>1. CASE Call(n, "goal") = serving
      <4>1. op = "goal" /\ n = m
        BY <1>1, <3>1, CallsDiffer
      <4>2. result.ok
        BY <1>5, <2>1, <3>1 DEF Answer
      <4> QED BY <1>2, <4>1, <4>2
    <3>2. CASE Call(n, "goal") # serving
      <4>1. Call(n, "goal") \in DOMAIN answered /\ answered[Call(n, "goal")].ok
        BY <1>5, <2>1, <3>2 DEF Answer
      <4> QED BY <1>10, <4>1 DEF ReplyInv, GoalsAreDone, Answer
    <3> QED BY <3>1, <3>2
  <2>2. req'[n] = "put" => n \in processed'
    BY <1>3, <1>10 DEF ReplyInv, GoalsAreDone
  <2> QED BY <2>1, <2>2
<1>12. ReplyMeansProcessed'
  BY <1>3, <1>10 DEF ReplyInv, ReplyMeansProcessed
<1> QED BY <1>6, <1>8, <1>9, <1>11, <1>12 DEF ReplyInv

LEMMA ReplyEnds == ASSUME ReplyInv, End PROVE ReplyInv'
<1>1. /\ serving' = Idle /\ store' = (IF file = Lost THEN <<>> ELSE file) /\ file' = store'
      /\ UNCHANGED <<req, local, shown, pending, answered, processed, written>>
  BY DEF End, pageVars, callVars
<1>2. ChatTyped'
  BY <1>1 DEF ReplyInv, ChatTyped
<1>3. SentInOrder' /\ OwnMessage' /\ GoalsAreDone' /\ ReplyMeansProcessed'
  BY <1>1 DEF ReplyInv, SentInOrder, Calls, OwnMessage, GoalsAreDone, ReplyMeansProcessed, Answer
<1>4. WritesAreDone'
  BY <1>1, CallsDiffer DEF ReplyInv, WritesAreDone
<1> QED BY <1>2, <1>3, <1>4 DEF ReplyInv

LEMMA ReplyElsewhere ==
  ASSUME ReplyInv, UNCHANGED <<req, local, shown, pending, answered, store, file, processed, written>>,
         serving' \in {serving, Stopping}
  PROVE  ReplyInv'
<1>1. ChatTyped'
  BY DEF ReplyInv, ChatTyped
<1>2. SentInOrder' /\ OwnMessage' /\ GoalsAreDone' /\ ReplyMeansProcessed'
  BY DEF ReplyInv, SentInOrder, Calls, OwnMessage, GoalsAreDone, ReplyMeansProcessed, Answer
<1>3. \A n : Stopping # Call(n, "put")
  BY DEF Stopping, Call
<1>4. WritesAreDone'
  BY <1>3 DEF ReplyInv, WritesAreDone
<1> QED BY <1>1, <1>2, <1>4 DEF ReplyInv

LEMMA ReplyInit == ASSUME Init PROVE ReplyInv
<1>1. /\ req = [m \in Message |-> "typed"] /\ local = [m \in Message |-> <<>>]
      /\ shown = [m \in Message |-> ""] /\ pending = {} /\ answered = <<>> /\ serving = Idle
      /\ store = <<>> /\ file = <<>>
  BY DEF Init, MemoryInit
<1>2. DOMAIN answered = {} /\ <<>> \in Seq(Message)
  <2>1. DOMAIN <<>> = {} /\ <<>> \in Seq(Message)
    OBVIOUS
  <2> QED BY <1>1, <2>1, Zenon
<1>3. ChatTyped
  BY <1>1, <1>2 DEF ChatTyped
<1>4. SentInOrder /\ OwnMessage /\ GoalsAreDone /\ ReplyMeansProcessed
  BY <1>1, <1>2 DEF SentInOrder, Calls, OwnMessage, GoalsAreDone, ReplyMeansProcessed
<1>5. WritesAreDone
  BY <1>1, <1>2 DEF WritesAreDone, Idle, Call
<1> QED BY <1>3, <1>4, <1>5 DEF ReplyInv

LEMMA ReplyStep == ASSUME ReplyInv, [Next]_vars PROVE ReplyInv'
<1> USE DEF pageVars, callVars, keepVars, chatHistory, chatVars
<1>1. ASSUME NEW m \in Message, Request(m) PROVE ReplyInv'
  BY <1>1, ReplyPost, ReplyReads, ReplyGoalReturns, ReplyWriteReturns DEF Request
<1>2. ASSUME Shutdown PROVE ReplyInv'
  BY <1>2, ReplyElsewhere DEF Shutdown
<1>3. ASSUME Restart PROVE ReplyInv'
  BY <1>3, ReplyElsewhere DEF Restart
<1>4. ASSUME NEW t, StoreStep(t) PROVE ReplyInv'
  BY <1>4, ReplyElsewhere DEF StoreStep
<1>5. ASSUME WorkerPass PROVE ReplyInv'
  BY <1>5, ReplyElsewhere DEF WorkerPass
<1>6. CASE UNCHANGED vars
  BY <1>6, ReplyElsewhere DEF vars
<1>7. ASSUME Exit \/ Die PROVE ReplyInv'
  BY <1>7, ReplyEnds DEF Exit, Die
<1> QED
  BY <1>1, <1>2, <1>3, <1>4, <1>5, <1>6, <1>7, ReplyTake, ReplySaved, ReplyAnswers DEF Next, Serve

\* Whatever times out, dies, restarts or is executed late, the page shows a
\* reply only for a goal the daemon processed to its end and an exchange that
\* was on disk (GuiServer._chat() over RemoteKernel, runtime.py and
\* memory/core.py).
THEOREM RepliesAreEarned == Spec => []ReplyMeansProcessed
<1>1. Init => ReplyInv
  BY ReplyInit
<1>2. ReplyInv /\ [Next]_vars => ReplyInv'
  BY ReplyStep
<1>3. ReplyInv => ReplyMeansProcessed
  BY DEF ReplyInv
<1> QED BY <1>1, <1>2, <1>3, PTL DEF Spec


-----------------------------------------------------------------------------
(* The history.  Two messages that never met went one after the other: when the
   later was sent, the earlier had been shown and had no call left.  So the
   history that every later request reads, and every later write brings back,
   has the earlier exchange, unless a request did not get to see the history or
   the daemon died while it was written. *)

SentInTurn == \A m, n \in Message : m < n /\ req[n] # "typed" => req[m] # "typed"

MetIsMutual == \A m, n \in Message : <<m, n>> \in met => <<n, m>> \in met

Unmet(m) == \A n \in Message : <<m, n>> \notin met

UnmetIsOver ==
  \A m, n \in Message : m < n /\ req[n] # "typed" /\ <<m, n>> \notin met =>
    req[m] = "shown" /\ \A op \in Ops : Call(m, op) \notin pending

CallsOnce == pending \cap DOMAIN answered = {}

FileIsStore == file # Lost => file = store

RepliesWritten == \A m \in Message : shown[m] = "reply" => Call(m, "put") \in DOMAIN answered

\* Everyone after m sees its exchange.
SeenAfter(m) ==
  \A n \in Message : m < n =>
    /\ Call(n, "get") \in DOMAIN answered => m \in ToSet(Answer(n, "get").history)
    /\ req[n] \in {"goal", "put", "shown"} => m \in ToSet(local[n])

ExchangesKept ==
  ~broken /\ blind = {} =>
    \A m \in Message : Unmet(m) /\ Call(m, "put") \in DOMAIN answered => m \in ToSet(store) /\ SeenAfter(m)

HistoryInv ==
  /\ SentInTurn /\ MetIsMutual /\ UnmetIsOver /\ CallsOnce
  /\ FileIsStore /\ RepliesWritten /\ ExchangesKept


\* A request that has sent a call goes on.
LEMMA HistoryMoves ==
  ASSUME ReplyInv, HistoryInv, NEW m \in Message, req[m] \in Ops,
         NEW stage, Onward(req[m], stage), req' = [req EXCEPT ![m] = stage],
         pending' = pending \/ (stage # "shown" /\ pending' = pending \cup {Call(m, stage)}),
         answered' = answered, store' = store, file' = file, met' = met
  PROVE  /\ SentInTurn' /\ MetIsMutual' /\ UnmetIsOver' /\ CallsOnce' /\ FileIsStore'
         /\ \A n \in Message : req'[n] = IF n = m THEN stage ELSE req[n]
<1>1. \A n \in Message : req'[n] = IF n = m THEN stage ELSE req[n]
  BY DEF ReplyInv, ChatTyped
<1>2. /\ stage \in {"goal", "put", "shown"} /\ req[m] # "typed" /\ req[m] # "shown"
      /\ stage # "shown" => Call(m, stage) \notin Calls
  BY DEF Onward, Ops, ReplyInv, SentInOrder
<1>3. SentInTurn' /\ MetIsMutual' /\ FileIsStore'
  BY <1>1, <1>2 DEF HistoryInv, SentInTurn, MetIsMutual, FileIsStore
<1>4. CallsOnce'
  BY <1>2 DEF HistoryInv, CallsOnce, Calls
<1>5. UnmetIsOver'
  <2> SUFFICES ASSUME NEW a \in Message, NEW b \in Message, a < b, req'[b] # "typed", <<a, b>> \notin met'
               PROVE  req'[a] = "shown" /\ \A op \in Ops : Call(a, op) \notin pending'
    BY DEF UnmetIsOver, Call
  <2>1. req[b] # "typed"
    BY <1>1, <1>2
  <2>2. req[a] = "shown" /\ \A op \in Ops : Call(a, op) \notin pending
    BY <2>1 DEF HistoryInv, UnmetIsOver
  <2>3. a # m
    BY <1>2, <2>2
  <2>4. \A op \in Ops : Call(a, op) # Call(m, stage)
    BY <2>3, CallsDiffer
  <2> QED BY <1>1, <2>2, <2>3, <2>4
<1> QED BY <1>1, <1>3, <1>4, <1>5

LEMMA HistoryPost ==
  ASSUME ChatAssumption, ReplyInv, HistoryInv, NEW m \in Message, Post(m) PROVE HistoryInv'
<1> DEFINE others == {n \in Message : req[n] \in Ops \/ \E c \in pending : c[1] = n}
<1>1. /\ req[m] = "typed" /\ req' = [req EXCEPT ![m] = "get"] /\ shown' = shown
      /\ pending' = pending \/ pending' = pending \cup {Call(m, "get")}
      /\ \A n \in Message : n < m => req[n] # "typed"
      /\ met' = met \cup ({m} \X others) \cup (others \X {m})
      /\ UNCHANGED <<local, answered, store, file, blind, broken>>
  BY Sends DEF Post, keepVars
<1>2. \A n \in Message : req'[n] = IF n = m THEN "get" ELSE req[n]
  BY <1>1 DEF ReplyInv, ChatTyped
<1>3. \A op \in Ops : Call(m, op) \notin Calls
  BY <1>1 DEF ReplyInv, SentInOrder, Ops
<1>4. \A n \in Message : n \in Nat
  BY DEF ChatAssumption, Message
<1>5. \A a, b \in Message : <<a, b>> \in met' <=>
        <<a, b>> \in met \/ (a = m /\ b \in others) \/ (a \in others /\ b = m)
  BY <1>1
<1>6. SentInTurn'
  BY <1>1, <1>2, <1>4 DEF HistoryInv, SentInTurn
<1>7. MetIsMutual'
  <2> HIDE DEF others
  <2> QED BY <1>5 DEF HistoryInv, MetIsMutual
<1>8. CallsOnce' /\ FileIsStore' /\ RepliesWritten'
  BY <1>1, <1>3 DEF HistoryInv, CallsOnce, FileIsStore, RepliesWritten, Calls, Ops, Call
<1>9. UnmetIsOver'
  <2> SUFFICES ASSUME NEW a \in Message, NEW b \in Message, a < b, req'[b] # "typed", <<a, b>> \notin met'
               PROVE  req'[a] = "shown" /\ \A op \in Ops : Call(a, op) \notin pending'
    BY DEF UnmetIsOver, Call
  <2>1. a # m
    <3> SUFFICES ASSUME a = m PROVE FALSE
      OBVIOUS
    <3>1. b # m
      BY <1>4
    <3>2. req[b] # "typed"
      BY <1>2, <3>1
    <3> QED BY <1>1, <3>2 DEF HistoryInv, SentInTurn
  <2>2. \A op \in Ops : Call(a, op) \in pending' => Call(a, op) \in pending
    BY <1>1, <2>1, CallsDiffer
  <2>3. CASE b = m
    <3>1. a \notin others
      BY <1>5, <2>3
    <3>2. req[a] \notin Ops /\ \A c \in pending : c[1] # a
      BY <3>1
    <3>3. req[a] = "shown"
      BY <1>1, <2>3, <3>2 DEF ReplyInv, ChatTyped
    <3>4. \A op \in Ops : Call(a, op) \notin pending
      BY <3>2, CallsDiffer
    <3> QED BY <1>2, <2>1, <2>2, <3>3, <3>4
  <2>4. CASE b # m
    <3>1. req[b] # "typed" /\ <<a, b>> \notin met
      BY <1>2, <1>5, <2>4
    <3>2. req[a] = "shown" /\ \A op \in Ops : Call(a, op) \notin pending
      BY <3>1 DEF HistoryInv, UnmetIsOver
    <3> QED BY <1>2, <2>1, <2>2, <3>2
  <2> QED BY <2>3, <2>4
<1>10. ExchangesKept'
  <2> SUFFICES ASSUME ~broken', blind' = {}, NEW a \in Message, Unmet(a)', Call(a, "put") \in DOMAIN answered'
               PROVE  (a \in ToSet(store) /\ SeenAfter(a))'
    BY DEF ExchangesKept, Call
  <2>1. Unmet(a)
    BY <1>5 DEF Unmet
  <2>2. a \in ToSet(store) /\ SeenAfter(a)
    BY <1>1, <2>1 DEF HistoryInv, ExchangesKept, Call
  <2> QED BY <1>1, <1>2, <2>2 DEF SeenAfter, Answer, Call
<1> QED BY <1>6, <1>7, <1>8, <1>9, <1>10 DEF HistoryInv

LEMMA HistoryReads ==
  ASSUME ReplyInv, HistoryInv, NEW m \in Message, NEW ok \in BOOLEAN, ReadHistory(m, ok) PROVE HistoryInv'
<1> DEFINE was == IF ok THEN Answer(m, "get").history ELSE <<>>
<1>1. /\ req[m] = "get" /\ req' = [req EXCEPT ![m] = "goal"] /\ shown' = shown
      /\ pending' = pending \/ pending' = pending \cup {Call(m, "goal")}
      /\ local' = [local EXCEPT ![m] = Append(was, m)]
      /\ blind' = (IF ok THEN blind ELSE blind \cup {m})
      /\ UNCHANGED <<answered, store, file, met, broken>>
  BY Sends DEF ReadHistory, Returns, keepVars
<1>2. /\ req[m] \in Ops /\ Onward(req[m], "goal")
      /\ pending' = pending \/ ("goal" # "shown" /\ pending' = pending \cup {Call(m, "goal")})
  BY <1>1 DEF Ops, Onward
<1>3. /\ SentInTurn' /\ MetIsMutual' /\ UnmetIsOver' /\ CallsOnce' /\ FileIsStore'
      /\ \A n \in Message : req'[n] = IF n = m THEN "goal" ELSE req[n]
  BY <1>1, <1>2, HistoryMoves, Zenon
<1>4. RepliesWritten'
  BY <1>1 DEF HistoryInv, RepliesWritten, Call
<1>5. ExchangesKept'
  <2> SUFFICES ASSUME ~broken', blind' = {}, NEW a \in Message, Unmet(a)', Call(a, "put") \in DOMAIN answered'
               PROVE  (a \in ToSet(store) /\ SeenAfter(a))'
    BY DEF ExchangesKept, Call
  <2>1. blind = {} /\ ok
    BY <1>1
  <2>2. a \in ToSet(store) /\ SeenAfter(a)
    BY <1>1, <2>1 DEF HistoryInv, ExchangesKept, Unmet, Call
  <2>3. Call(m, "get") \in DOMAIN answered /\ was = Answer(m, "get").history /\ was \in Seq(Message)
    BY <2>1, ReturnsAnswer DEF ReadHistory, ReplyInv, ChatTyped, Answer
  <2>4. a < m => a \in ToSet(Append(was, m))
    BY <2>2, <2>3, AppendHas DEF SeenAfter
  <2>5. \A n \in Message : local'[n] = IF n = m THEN Append(was, m) ELSE local[n]
    BY <1>1 DEF ReplyInv, ChatTyped
  <2> HIDE DEF was
  <2> QED BY <1>1, <1>3, <2>2, <2>4, <2>5 DEF SeenAfter, Answer, Call
<1> QED BY <1>3, <1>4, <1>5 DEF HistoryInv

\* What a request does when it knows the history: nothing to it.
LEMMA HistoryGoesOn ==
  ASSUME ReplyInv, HistoryInv, NEW m \in Message, req[m] \in {"goal", "put"},
         NEW stage, Onward(req[m], stage), req' = [req EXCEPT ![m] = stage],
         pending' = pending \/ (stage # "shown" /\ pending' = pending \cup {Call(m, stage)}),
         answered' = answered, store' = store, file' = file, met' = met,
         local' = local, blind' = blind, broken' = broken, RepliesWritten'
  PROVE  HistoryInv'
<1>1. req[m] \in Ops
  BY DEF Ops
<1>2. /\ SentInTurn' /\ MetIsMutual' /\ UnmetIsOver' /\ CallsOnce' /\ FileIsStore'
      /\ \A n \in Message : req'[n] = IF n = m THEN stage ELSE req[n]
  BY <1>1, HistoryMoves, Zenon
<1>3. ExchangesKept'
  <2> SUFFICES ASSUME ~broken', blind' = {}, NEW a \in Message, Unmet(a)', Call(a, "put") \in DOMAIN answered'
               PROVE  (a \in ToSet(store) /\ SeenAfter(a))'
    BY DEF ExchangesKept, Call
  <2>1. a \in ToSet(store) /\ SeenAfter(a)
    BY DEF HistoryInv, ExchangesKept, Unmet, Call
  <2> QED BY <1>2, <2>1 DEF SeenAfter, Answer, Call
<1> QED BY <1>2, <1>3 DEF HistoryInv

LEMMA HistoryGoalReturns ==
  ASSUME ReplyInv, HistoryInv, NEW m \in Message, NEW ok \in BOOLEAN, GoalReturns(m, ok) PROVE HistoryInv'
<1>1. /\ req[m] = "goal" /\ UNCHANGED <<local, answered, store, file, met, blind, broken>>
  BY DEF GoalReturns, Returns, keepVars, chatHistory
<1>2. \E stage \in {"put", "shown"} :
        /\ req' = [req EXCEPT ![m] = stage]
        /\ pending' = pending \/ (stage # "shown" /\ pending' = pending \cup {Call(m, stage)})
        /\ shown' = shown \/ shown' = [shown EXCEPT ![m] = "Done."]
  <2>1. CASE ok
    BY <2>1, Sends DEF GoalReturns
  <2>2. CASE ~ok
    BY <2>2 DEF GoalReturns, Show, Page, Fetched
  <2> QED BY <2>1, <2>2
<1>3. RepliesWritten'
  BY <1>1, <1>2 DEF HistoryInv, RepliesWritten, ReplyInv, ChatTyped, Call
<1>4. req[m] \in {"goal", "put"} /\ Onward(req[m], "put") /\ Onward(req[m], "shown")
  BY <1>1 DEF Onward
<1> QED BY <1>1, <1>2, <1>3, <1>4, HistoryGoesOn

LEMMA HistoryWriteReturns ==
  ASSUME ReplyInv, HistoryInv, NEW m \in Message, NEW ok \in BOOLEAN, WriteReturns(m, ok) PROVE HistoryInv'
<1>1. /\ req[m] = "put" /\ Show(m, IF ok THEN 200 ELSE 500)
      /\ UNCHANGED <<local, answered, store, file, met, blind, broken>>
  BY DEF WriteReturns, Returns, keepVars, chatHistory
<1>2. Page(500) = "snag"
  BY DEF Page, Fetched
<1>3. ok => Call(m, "put") \in DOMAIN answered
  BY ReturnsAnswer DEF WriteReturns
<1>4. /\ req' = [req EXCEPT ![m] = "shown"] /\ pending' = pending
      /\ \A n \in Message : n # m => shown'[n] = shown[n]
      /\ ~ok => shown'[m] = "snag"
  BY <1>1, <1>2 DEF Show, ReplyInv, ChatTyped
<1>5. RepliesWritten'
  BY <1>1, <1>3, <1>4 DEF HistoryInv, RepliesWritten, Call
<1>6. req[m] \in {"goal", "put"} /\ Onward(req[m], "shown")
  BY <1>1 DEF Onward
<1> QED BY <1>1, <1>4, <1>5, <1>6, HistoryGoesOn


\* A late write is never one from before an exchange it had not met.
LEMMA HistoryTake ==
  ASSUME ChatAssumption, ReplyInv, HistoryInv, NEW c \in pending, Take(c) PROVE HistoryInv'
<1>1. UNCHANGED <<req, local, shown, pending, answered, met, blind, broken>>
  BY DEF Take, pageVars, callVars, chatHistory
<1>2. PICK m \in Message, op \in Ops : c = Call(m, op)
  BY DEF ReplyInv, ChatTyped, Call
<1>3. \/ op # "put" /\ UNCHANGED <<store, file>>
      \/ op = "put" /\ store' = local[m] /\ file' = Lost
  BY <1>2, CallsDiffer DEF Take, keepVars
<1>4. SentInTurn' /\ MetIsMutual' /\ UnmetIsOver' /\ CallsOnce' /\ FileIsStore' /\ RepliesWritten'
  BY <1>1, <1>3
     DEF HistoryInv, SentInTurn, MetIsMutual, UnmetIsOver, CallsOnce, FileIsStore, RepliesWritten, Call
<1>5. ExchangesKept'
  <2> SUFFICES ASSUME ~broken', blind' = {}, NEW a \in Message, Unmet(a)', Call(a, "put") \in DOMAIN answered'
               PROVE  (a \in ToSet(store) /\ SeenAfter(a))'
    BY DEF ExchangesKept, Call
  <2>1. Unmet(a) /\ Call(a, "put") \in DOMAIN answered /\ ~broken /\ blind = {}
    BY <1>1 DEF Unmet, Call
  <2>2. a \in ToSet(store) /\ SeenAfter(a)
    BY <2>1 DEF HistoryInv, ExchangesKept
  <2>3. SeenAfter(a)'
    BY <1>1, <2>2 DEF SeenAfter, Answer, Call
  <2>4. CASE op = "put"
    <3>1. Call(m, "put") \in pending /\ req[m] \in {"put", "shown"} /\ req[a] # "typed"
      BY <1>2, <2>1, <2>4 DEF ReplyInv, SentInOrder, Calls
    <3>2. a # m
      BY <2>1, <3>1 DEF HistoryInv, CallsOnce
    <3>3. ~(m < a)
      <4> SUFFICES ASSUME m < a PROVE FALSE
        OBVIOUS
      <4>1. <<m, a>> \notin met
        BY <2>1 DEF HistoryInv, MetIsMutual, Unmet
      <4> QED BY <3>1, <4>1 DEF HistoryInv, UnmetIsOver, Ops
    <3>4. a < m
      BY <3>2, <3>3 DEF ChatAssumption, Message
    <3>5. a \in ToSet(local[m])
      BY <2>2, <3>1, <3>4 DEF SeenAfter
    <3> QED BY <1>3, <2>3, <2>4, <3>5
  <2>5. CASE op # "put"
    BY <1>3, <2>2, <2>3, <2>5
  <2> QED BY <2>4, <2>5
<1> QED BY <1>4, <1>5 DEF HistoryInv

LEMMA HistorySaved == ASSUME HistoryInv, Saved PROVE HistoryInv'
<1>1. file' = store /\ UNCHANGED <<req, local, shown, pending, answered, store, met, blind, broken>>
  BY DEF Saved, pageVars, callVars
<1>2. SentInTurn' /\ MetIsMutual' /\ UnmetIsOver' /\ CallsOnce' /\ FileIsStore' /\ RepliesWritten'
  BY <1>1
     DEF HistoryInv, SentInTurn, MetIsMutual, UnmetIsOver, CallsOnce, FileIsStore, RepliesWritten, Call
<1>3. ExchangesKept'
  BY <1>1 DEF HistoryInv, ExchangesKept, Unmet, SeenAfter, Answer, Call
<1> QED BY <1>2, <1>3 DEF HistoryInv

LEMMA HistoryAnswers ==
  ASSUME ReplyInv, HistoryInv, Reply PROVE HistoryInv'
<1>1. PICK m \in Message, op \in Ops : serving = Call(m, op)
  BY DEF Reply, ReplyInv, ChatTyped, Call
<1>2. serving[1] = m /\ serving[2] = op
  BY <1>1 DEF Call
<1>3. PICK result :
        /\ result = [ok |-> op = "goal" => todo["serve"] # <<>>,
                     history |-> IF op = "get" THEN store ELSE <<>>]
        /\ answered' = [c \in DOMAIN answered \cup {serving} |-> IF c = serving THEN result ELSE answered[c]]
  BY <1>2, Zenon DEF Reply
<1>4. /\ serving \in pending /\ pending' = pending \ {serving}
      /\ UNCHANGED <<req, local, shown, store, file, met, blind, broken>>
  BY DEF Reply, pageVars, keepVars
<1>5. /\ DOMAIN answered' = DOMAIN answered \cup {serving}
      /\ \A c \in DOMAIN answered' : answered'[c] = IF c = serving THEN result ELSE answered[c]
  BY <1>3
<1>6. SentInTurn' /\ MetIsMutual' /\ UnmetIsOver' /\ CallsOnce' /\ FileIsStore' /\ RepliesWritten'
  BY <1>4, <1>5
     DEF HistoryInv, SentInTurn, MetIsMutual, UnmetIsOver, CallsOnce, FileIsStore, RepliesWritten, Call
<1>7. ExchangesKept'
  <2> SUFFICES ASSUME ~broken', blind' = {}, NEW a \in Message, Unmet(a)', Call(a, "put") \in DOMAIN answered'
               PROVE  (a \in ToSet(store) /\ SeenAfter(a))'
    BY DEF ExchangesKept, Call
  <2>1. Unmet(a) /\ ~broken /\ blind = {}
    BY <1>4 DEF Unmet
  <2>2. CASE Call(a, "put") \in DOMAIN answered
    <3>1. a \in ToSet(store) /\ SeenAfter(a)
      BY <2>1, <2>2 DEF HistoryInv, ExchangesKept
    <3>2. ASSUME NEW n \in Message, a < n, Call(n, "get") \in DOMAIN answered'
          PROVE  a \in ToSet(answered'[Call(n, "get")].history)
      <4>1. CASE Call(n, "get") = serving
        <5>1. op = "get"
          BY <1>2, <4>1 DEF Call
        <5> QED BY <1>3, <1>5, <3>1, <3>2, <4>1, <5>1
      <4>2. CASE Call(n, "get") # serving
        <5>1. Call(n, "get") \in DOMAIN answered /\ answered'[Call(n, "get")] = answered[Call(n, "get")]
          BY <1>5, <3>2, <4>2
        <5> QED BY <3>1, <3>2, <5>1 DEF SeenAfter, Answer
      <4> QED BY <4>1, <4>2
    <3> QED BY <1>4, <3>1, <3>2 DEF SeenAfter, Answer, Call
  <2>3. CASE Call(a, "put") = serving
    <3>1. a \in ToSet(store)
      BY <2>3 DEF ReplyInv, WritesAreDone
    <3>2. \A n \in Message : a < n => req[n] = "typed"
      BY <1>4, <2>1, <2>3 DEF HistoryInv, UnmetIsOver, Unmet, Ops
    <3>3. \A n \in Message : a < n => Call(n, "get") \notin DOMAIN answered'
      <4>1. \A n : Call(n, "get") # serving
        BY <2>3, CallsDiffer
      <4> QED BY <1>5, <3>2, <4>1 DEF ReplyInv, SentInOrder, Calls
    <3> QED BY <1>4, <3>1, <3>2, <3>3 DEF SeenAfter, Call
  <2> QED BY <1>5, <2>2, <2>3 DEF Call
<1> QED BY <1>6, <1>7 DEF HistoryInv

LEMMA HistoryEnds == ASSUME HistoryInv, End PROVE HistoryInv'
<1>1. /\ store' = (IF file = Lost THEN <<>> ELSE file) /\ file' = store'
      /\ broken' = (broken \/ file = Lost)
      /\ UNCHANGED <<req, local, shown, pending, answered, met, blind>>
  BY DEF End, pageVars, callVars
<1>2. SentInTurn' /\ MetIsMutual' /\ UnmetIsOver' /\ CallsOnce' /\ FileIsStore' /\ RepliesWritten'
  BY <1>1
     DEF HistoryInv, SentInTurn, MetIsMutual, UnmetIsOver, CallsOnce, FileIsStore, RepliesWritten, Call
<1>3. ~broken' => ~broken /\ store' = store
  BY <1>1 DEF HistoryInv, FileIsStore
<1>4. ExchangesKept'
  BY <1>1, <1>3 DEF HistoryInv, ExchangesKept, Unmet, SeenAfter, Answer, Call
<1> QED BY <1>2, <1>4 DEF HistoryInv

LEMMA HistoryElsewhere ==
  ASSUME HistoryInv,
         UNCHANGED <<req, local, shown, pending, answered, store, file, met, blind, broken>>
  PROVE  HistoryInv'
BY DEF HistoryInv, SentInTurn, MetIsMutual, UnmetIsOver, CallsOnce, FileIsStore, RepliesWritten,
       ExchangesKept, Unmet, SeenAfter, Answer, Call

LEMMA HistoryInit == ASSUME Init PROVE HistoryInv
<1>1. /\ req = [m \in Message |-> "typed"] /\ shown = [m \in Message |-> ""]
      /\ pending = {} /\ answered = <<>> /\ store = <<>> /\ file = <<>> /\ met = {}
  BY DEF Init, MemoryInit
<1>2. DOMAIN answered = {}
  <2>1. DOMAIN <<>> = {}
    OBVIOUS
  <2> QED BY <1>1, <2>1, Zenon
<1> QED
  BY <1>1, <1>2 DEF HistoryInv, SentInTurn, MetIsMutual, UnmetIsOver, CallsOnce, FileIsStore,
                    RepliesWritten, ExchangesKept

LEMMA HistoryStep == ASSUME ChatAssumption, ReplyInv, HistoryInv, [Next]_vars PROVE HistoryInv'
<1> USE DEF pageVars, callVars, keepVars, chatHistory, chatVars
<1>1. ASSUME NEW m \in Message, Request(m) PROVE HistoryInv'
  BY <1>1, HistoryPost, HistoryReads, HistoryGoalReturns, HistoryWriteReturns DEF Request
<1>2. ASSUME Shutdown PROVE HistoryInv'
  BY <1>2, HistoryElsewhere DEF Shutdown
<1>3. ASSUME Restart PROVE HistoryInv'
  BY <1>3, HistoryElsewhere DEF Restart
<1>4. ASSUME NEW t, StoreStep(t) PROVE HistoryInv'
  BY <1>4, HistoryElsewhere DEF StoreStep
<1>5. ASSUME WorkerPass PROVE HistoryInv'
  BY <1>5, HistoryElsewhere DEF WorkerPass
<1>6. CASE UNCHANGED vars
  BY <1>6, HistoryElsewhere DEF vars
<1>7. ASSUME Exit \/ Die PROVE HistoryInv'
  BY <1>7, HistoryEnds DEF Exit, Die
<1> QED
  BY <1>1, <1>2, <1>3, <1>4, <1>5, <1>6, <1>7, HistoryTake, HistorySaved, HistoryAnswers DEF Next, Serve

\* An exchange the page confirmed stays in the history, through time-outs,
\* deaths and writes executed late, unless its request met another's, some
\* request did not get to see the history (RemoteStore.get(), runtime.py) or the
\* daemon died while it wrote memory.json (memory/core.py).
THEOREM HistoryIsKept ==
  ASSUME ChatAssumption PROVE Spec => []HistoryLossHasACause
<1>1. Init => ReplyInv /\ HistoryInv
  BY ReplyInit, HistoryInit
<1>2. ReplyInv /\ HistoryInv /\ [Next]_vars => ReplyInv' /\ HistoryInv'
  BY ReplyStep, HistoryStep
<1>3. ReplyInv /\ HistoryInv => HistoryLossHasACause
  BY DEF HistoryInv, ExchangesKept, RepliesWritten, Unmet, HistoryLossHasACause
<1> QED BY <1>1, <1>2, <1>3, PTL DEF Spec
=============================================================================
