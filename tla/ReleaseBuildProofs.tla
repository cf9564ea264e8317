-------------------------- MODULE ReleaseBuildProofs --------------------------
(***************************************************************************)
(* Proofs about a release run, for every list of architectures, mirror,    *)
(* payload, host and number of runs.                                       *)
(* The directory: dist[f] is the number of the image that file f is or     *)
(* belongs to, 0 when f is torn.  The invariant follows the files of the   *)
(* architecture at hand until its verification report is there; from then  *)
(* on nothing else in the run writes them, unless the architecture was     *)
(* named twice.                                                            *)
(* The images: what is queued, chosen and installed comes from the index,  *)
(* every group of a package that was looked at is served, and everything   *)
(* on the disk of a tree stands in a directory.                            *)
(* What was shipped: every link on the disk leads where a link of the      *)
(* archive does; so a file that no such link hides is on the disk where    *)
(* its package named it, or kept aside with its mode and contents.         *)
(* The versions: on plain versions the resolver orders as Debian does.     *)
(***************************************************************************)
EXTENDS ReleaseBuild, WellFoundedInduction, NaturalsInduction, SequenceTheorems, FiniteSetTheorems, TLAPS

-----------------------------------------------------------------------------
(* The inductive invariant.                                                *)

\* The results so far are those of the first architectures asked for.
ResultsInv ==
  /\ IsSeq(archs) /\ IsSeq(built) /\ pos \in Nat /\ Len(built) = pos - 1
  /\ \A i \in 1..Len(built) :
       i \in 1..Len(archs) /\ built[i].arch = archs[i] /\ built[i].ok \in BOOLEAN
  /\ Building => pos \in 1..Len(archs)

\* The report is there when it is listed.
ReportInv ==
  /\ check \in BOOLEAN /\ (~check => report = <<>>) /\ (stage = "closure" => check)
  /\ stage = "sums" => check
  /\ stage \in {"sums", "release"} /\ check =>
       report # <<>> /\ Report \in DOMAIN dist /\ dist[Report] > 0

\* The files of the architecture at hand, as far as they are written.
OwnInv ==
  /\ stage \in {"manifest", "verification"} =>
       stamp > 0 /\ Artifact(Arch) \in DOMAIN dist /\ dist[Artifact(Arch)] = stamp
  /\ stage = "verification" => Manifest(Arch) \in DOMAIN dist /\ dist[Manifest(Arch)] = stamp

\* The files of an architecture that was built stay whole.
BuiltInv ==
  NamedOnce => \A i \in 1..Len(built) : built[i].ok =>
    /\ \A f \in Outputs(built[i].arch) : f \in DOMAIN dist /\ dist[f] > 0
    /\ dist[Manifest(built[i].arch)] = dist[Artifact(built[i].arch)]

\* What SHA256SUMS lists is what it is to list, with what is there.
ListedInv ==
  stage = "release" /\ Tracked # {} =>
    DOMAIN sums = Tracked /\ \A f \in Tracked : sums[f] = dist[f]

DirectoryInv ==
  stamp \in Nat /\ (stage # "idle" => ResultsInv /\ ReportInv /\ OwnInv /\ BuiltInv /\ ListedInv)

-----------------------------------------------------------------------------
(* Sequences, and the names of files.                                      *)

\* A sequence over a set is a sequence.
LEMMA SeqIsSeq == ASSUME NEW S, NEW s \in Seq(S) PROVE IsSeq(s)
<1>1. \A i \in 1..Len(s) : s[i] \in ToSet(s)
  BY LenProperties DEF ToSet
<1>2. SubSeq(s, 1, Len(s)) \in Seq(ToSet(s))
  BY <1>1, LenProperties, SubSeqProperties
<1> QED BY <1>2, SubSeqFull DEF IsSeq

\* The length of a sequence, and its domain.
LEMMA SeqLen == ASSUME NEW s, IsSeq(s) PROVE Len(s) \in Nat /\ DOMAIN s = 1..Len(s)
BY LenProperties DEF IsSeq

\* Appending keeps a sequence.
LEMMA AppendIsSeq ==
  ASSUME NEW s, IsSeq(s), NEW x
  PROVE  /\ IsSeq(Append(s, x)) /\ Len(Append(s, x)) = Len(s) + 1
         /\ \A i \in 1..Len(s) : Append(s, x)[i] = s[i]
         /\ Append(s, x)[Len(s) + 1] = x
<1> DEFINE S == ToSet(s) \cup {x}
<1>1. s \in Seq(ToSet(s)) /\ Len(s) \in Nat
  BY LenProperties DEF IsSeq
<1>2. \A i \in 1..Len(s) : s[i] \in S
  BY <1>1
<1>3. x \in S
  OBVIOUS
<1> HIDE DEF S
<1>4. SubSeq(s, 1, Len(s)) \in Seq(S)
  BY <1>1, <1>2, SubSeqProperties
<1>5. s \in Seq(S)
  BY <1>1, <1>4, SubSeqFull
<1>6. Append(s, x) \in Seq(S) /\ Len(Append(s, x)) = Len(s) + 1
  BY <1>3, <1>5, AppendProperties
<1>7. \A i \in 1..Len(s) : Append(s, x)[i] = s[i]
  BY <1>1, <1>3, <1>5, AppendProperties
<1>8. Append(s, x)[Len(s) + 1] = x
  BY <1>1, <1>3, <1>5, AppendProperties
<1> QED BY <1>6, <1>7, <1>8, SeqIsSeq

\* A function on 1..n is a sequence.
LEMMA FunctionIsSeq ==
  ASSUME NEW n \in Nat, NEW s, DOMAIN s = 1..n, s = [i \in DOMAIN s |-> s[i]]
  PROVE  IsSeq(s) /\ Len(s) = n
<1>1. s \in [1..n -> ToSet(s)]
  BY DEF ToSet
<1>2. s \in Seq(ToSet(s))
  BY <1>1
<1> QED BY <1>1, <1>2, LenProperties DEF IsSeq

\* What Those takes from a sequence are the elements at the positions.
LEMMA ThoseProperties ==
  ASSUME NEW s, NEW P \in SUBSET Nat, IsFiniteSet(P)
  PROVE  /\ Cardinality(P) \in Nat /\ IsSeq(Those(s, P)) /\ Len(Those(s, P)) = Cardinality(P)
         /\ DOMAIN Those(s, P) = 1..Cardinality(P)
         /\ \A n \in 1..Cardinality(P) : \E i \in P : Those(s, P)[n] = s[i]
         /\ \A i \in P : \E n \in 1..Cardinality(P) : Those(s, P)[n] = s[i]
<1> DEFINE N == Cardinality(P)
           upTo(i) == {j \in P : j <= i}
           rank(i) == Cardinality(upTo(i))
           f == [i \in P |-> rank(i)]
           T == Those(s, P)
<1>1. N \in Nat
  BY FS_CardinalityType
<1>2. \A i \in P : IsFiniteSet(upTo(i)) /\ rank(i) \in 1..N
  <2> TAKE i \in P
  <2>1. upTo(i) \subseteq P /\ upTo(i) # {}
    OBVIOUS
  <2> DEFINE U == upTo(i)
  <2> HIDE DEF U
  <2>2. U \subseteq P /\ U # {}
    BY <2>1 DEF U
  <2>3. IsFiniteSet(U) /\ Cardinality(U) \in Nat /\ Cardinality(U) # 0 /\ Cardinality(U) <= N
    BY <2>2, FS_Subset, FS_CardinalityType, FS_EmptySet
  <2>4. Cardinality(U) \in 1..N
    BY <1>1, <2>3
  <2> QED BY <2>3, <2>4 DEF U
<1>3. ASSUME NEW i \in P, NEW j \in P, i < j PROVE rank(i) < rank(j)
  <2> DEFINE U == upTo(i)
             V == upTo(j)
  <2>1. U \subseteq V /\ j \in V /\ j \notin U
    <3>1. P \subseteq Nat /\ i \in Nat /\ j \in Nat
      OBVIOUS
    <3>2. \A k \in P : k <= i => k <= j
      BY <1>3, <3>1
    <3>3. ~(j <= i) /\ j <= j
      BY <1>3, <3>1
    <3> QED BY <3>2, <3>3
  <2>2. IsFiniteSet(V) /\ IsFiniteSet(U)
    BY <1>2
  <2> HIDE DEF U, V
  <2>3. U \in SUBSET V /\ U # V
    BY <2>1
  <2>4. Cardinality(U) <= Cardinality(V) /\ Cardinality(U) # Cardinality(V)
        /\ Cardinality(U) \in Nat /\ Cardinality(V) \in Nat
    BY <2>2, <2>3, FS_Subset, FS_CardinalityType, Zenon
  <2>5. Cardinality(U) < Cardinality(V)
    BY <2>4
  <2> QED BY <2>5 DEF U, V
<1> HIDE DEF upTo
<1>4. ASSUME NEW i \in P, NEW j \in P, i # j PROVE rank(i) # rank(j)
  <2>1. i < j \/ j < i
    BY <1>4
  <2>2. rank(i) \in Nat /\ rank(j) \in Nat /\ (rank(i) < rank(j) \/ rank(j) < rank(i))
    BY <1>1, <1>2, <1>3, <2>1
  <2> QED BY <2>2
<1>5. \A n \in 1..N : \E i \in P : rank(i) = n
  <2> HIDE DEF rank
  <2>1. f \in Injection(P, 1..N)
    BY <1>2, <1>4 DEF Injection, IsInjective
  <2>2. IsFiniteSet(1..N) /\ Cardinality(1..N) = N
    <3>1. 1 \in Int /\ N \in Int
      BY <1>1
    <3>2. IsFiniteSet(1..N) /\ Cardinality(1..N) = IF 1 > N THEN 0 ELSE N - 1 + 1
      BY <3>1, FS_Interval, Zenon
    <3> QED BY <1>1, <3>2
  <2> HIDE DEF f
  <2>3. f \in Surjection(P, 1..N)
    BY <2>1, <2>2, FS_Injection
  <2> QED BY <2>3 DEF Surjection, f
<1>6. T = [n \in 1..N |-> s[CHOOSE i \in P : rank(i) = n]]
  BY DEF Those, rank, upTo
<1> HIDE DEF rank, T, N
<1>7. IsSeq(T) /\ Len(T) = N /\ DOMAIN T = 1..N
  BY <1>1, <1>6, FunctionIsSeq
<1>8. ASSUME NEW n \in 1..N PROVE \E i \in P : T[n] = s[i]
  <2>1. (CHOOSE i \in P : rank(i) = n) \in P
    BY <1>5
  <2> QED BY <1>6, <2>1
<1>9. ASSUME NEW i \in P PROVE \E n \in 1..N : T[n] = s[i]
  <2> DEFINE j == CHOOSE k \in P : rank(k) = rank(i)
  <2>1. j \in P /\ rank(j) = rank(i)
    OBVIOUS
  <2>2. j = i
    BY <1>4, <2>1
  <2>3. rank(i) \in 1..N
    BY <1>2 DEF rank
  <2> QED BY <1>6, <2>2, <2>3
<1> QED BY <1>1, <1>7, <1>8, <1>9 DEF N, T

\* The positions of a sequence are finitely many.
LEMMA PositionsFinite ==
  ASSUME NEW s, IsSeq(s), NEW P \in SUBSET DOMAIN s PROVE P \in SUBSET Nat /\ IsFiniteSet(P)
<1>1. Len(s) \in Nat /\ DOMAIN s = 1..Len(s)
  BY SeqLen
<1>2. 1 \in Int /\ Len(s) \in Int
  BY <1>1
<1>3. IsFiniteSet(1..Len(s))
  BY <1>2, FS_Interval, Zenon
<1>4. P \subseteq 1..Len(s)
  BY <1>1
<1> QED BY <1>1, <1>3, <1>4, FS_Subset

\* There are candidates to report on.
LEMMA CandidatesExist == Candidates # <<>> /\ IsSeq(Candidates) /\ Len(Candidates) \in Nat \ {0}
<1> DEFINE of == {i \in DOMAIN ArchRegistry : ArchRegistry[i].tier = "candidate"}
           N == Cardinality(of)
           metas == Those(ArchRegistry, of)
<1>1. DOMAIN ArchRegistry = 1..9
  BY DEF ArchRegistry
<1>2. ArchRegistry[3].tier = "candidate"
  BY DEF ArchRegistry, ArchMeta
<1>3. of \subseteq 1..9 /\ of # {}
  BY <1>1, <1>2
<1>4. IsFiniteSet(1..9)
  <2>1. 1 \in Int /\ 9 \in Int
    OBVIOUS
  <2> QED BY <2>1, FS_Interval, Zenon
<1>5. Candidates = [i \in DOMAIN metas |-> metas[i].token]
  BY DEF Candidates, Tier
<1> HIDE DEF of
<1>6. IsFiniteSet(of) /\ of \in SUBSET Nat
  <2>1. of \in SUBSET (1..9) /\ of \in SUBSET Nat
    BY <1>3
  <2> QED BY <1>4, <2>1, FS_Subset, Zenon
<1>7. N \in Nat /\ N # 0 /\ DOMAIN metas = 1..N
  BY <1>3, <1>6, FS_EmptySet, ThoseProperties
<1> HIDE DEF N, metas
<1>8. IsSeq(Candidates) /\ Len(Candidates) = N
  BY <1>5, <1>7, FunctionIsSeq
<1>9. Len(<<>>) = 0
  OBVIOUS
<1> QED BY <1>7, <1>8, <1>9

\* What the build of an architecture writes are the files of that one.
LEMMA OutputsApart ==
  ASSUME NEW a, NEW b, a # b
  PROVE  \A f \in Outputs(a) : f \notin Outputs(b) /\ f # Report
BY DEF Outputs, Artifact, Manifest, Verification, Report

\* d differs from dist at most in files of the architecture at hand.
Elsewhere(d) ==
  \A f : f \notin Outputs(Arch) => (f \in DOMAIN d <=> f \in DOMAIN dist)
                                   /\ (f \in DOMAIN dist => d[f] = dist[f])

\* Whatever a killed writer leaves behind, only the files of the architecture at hand differ.
LEMMA HalfwayElsewhere == ASSUME Building, NEW d \in Halfway PROVE Elsewhere(d)
<1>1. /\ Artifact(Arch) \in Outputs(Arch) /\ Manifest(Arch) \in Outputs(Arch)
      /\ Verification(Arch) \in Outputs(Arch)
  BY DEF Outputs
<1>2. ~Reporting
  BY DEF Building, Reporting, AllTried
<1>3. \/ d = dist \/ d = Without(dist, Artifact(Arch))
      \/ \E v : d = With(dist, Artifact(Arch), v) \/ d = With(dist, Manifest(Arch), v)
                \/ d = With(dist, Verification(Arch), v)
  BY <1>2 DEF Halfway, Building
<1> HIDE DEF Arch
<1>4. CASE d = Without(dist, Artifact(Arch))
  BY <1>1, <1>4 DEF Elsewhere, Without
<1>5. ASSUME NEW v, NEW f \in Outputs(Arch) PROVE Elsewhere(With(dist, f, v))
  BY <1>5 DEF Elsewhere, With
<1> QED BY <1>1, <1>3, <1>4, <1>5 DEF Elsewhere

\* The files of a built architecture stay whole in a directory that differs elsewhere.
LEMMA OthersKept ==
  ASSUME ResultsInv, BuiltInv, Building, NEW d, Elsewhere(d), NamedOnce,
         NEW i \in 1..Len(built), built[i].ok
  PROVE  /\ \A f \in Outputs(built[i].arch) : f \in DOMAIN d /\ d[f] > 0
         /\ d[Manifest(built[i].arch)] = d[Artifact(built[i].arch)]
<1>1. /\ pos \in 1..Len(archs) /\ i \in 1..Len(archs) /\ i # pos /\ built[i].arch = archs[i]
      /\ DOMAIN archs = 1..Len(archs) /\ Len(archs) \in Nat
  BY SeqLen DEF ResultsInv
<1>2. built[i].arch # Arch
  BY <1>1 DEF NamedOnce, Arch
<1>3. \A f \in Outputs(built[i].arch) : f \notin Outputs(Arch)
  BY <1>2, OutputsApart, Zenon
<1>4. /\ \A f \in Outputs(built[i].arch) : f \in DOMAIN dist /\ dist[f] > 0
      /\ dist[Manifest(built[i].arch)] = dist[Artifact(built[i].arch)]
  BY Zenon DEF BuiltInv
<1>5. \A f \in Outputs(built[i].arch) : f \in DOMAIN d /\ d[f] = dist[f]
  BY <1>3, <1>4, Zenon DEF Elsewhere
<1>6. Manifest(built[i].arch) \in Outputs(built[i].arch) /\ Artifact(built[i].arch) \in Outputs(built[i].arch)
  BY DEF Outputs
<1>7. d[Manifest(built[i].arch)] = d[Artifact(built[i].arch)]
  BY <1>4, <1>5, <1>6, Zenon
<1>8. ASSUME NEW f \in Outputs(built[i].arch) PROVE f \in DOMAIN d /\ d[f] > 0
  BY <1>4, <1>5, <1>8
<1> QED BY <1>7, <1>8

\* A step that goes on without writing to the directory.
LEMMA GoesOn ==
  ASSUME DirectoryInv, stage # "idle",
         UNCHANGED <<archs, pos, built, check, dist, sums, stamp>>,
         ~check => report' = <<>>,
         stage' \notin {"manifest", "verification", "sums", "release"},
         stage' = "closure" => check,
         Building' => pos \in 1..Len(archs)
  PROVE  DirectoryInv'
<1>1. ResultsInv /\ ReportInv /\ BuiltInv /\ stamp \in Nat
  BY DEF DirectoryInv
<1>2. ResultsInv'
  BY <1>1 DEF ResultsInv
<1>3. ReportInv'
  BY <1>1 DEF ReportInv
<1>4. OwnInv' /\ ListedInv'
  BY DEF OwnInv, ListedInv
<1>5. BuiltInv'
  BY <1>1 DEF BuiltInv, NamedOnce
<1> QED BY <1>1, <1>2, <1>3, <1>4, <1>5 DEF DirectoryInv

\* A run starts.
LEMMA StartKeeps == ASSUME DirectoryInv, Start PROVE DirectoryInv'
<1>1. PICK asked \in Requests : archs' = asked.archs /\ check' = asked.check
  BY DEF Start
<1>2. /\ report' = <<>> /\ stage' = "lookup" /\ pos' = 1 /\ built' = <<>> /\ stamp' = stamp
      /\ dist' = dist
  BY DEF Start
<1>3. IsSeq(archs') /\ check' \in BOOLEAN
  BY <1>1, RequestAssumption DEF IsSeq
<1>4. IsSeq(built') /\ Len(built') = 0
  BY <1>2 DEF IsSeq, ToSet
<1>5. ResultsInv'
  BY <1>2, <1>3, <1>4 DEF ResultsInv, Building
<1>6. ReportInv' /\ OwnInv' /\ ListedInv'
  BY <1>2, <1>3 DEF ReportInv, OwnInv, ListedInv
<1>7. BuiltInv'
  BY <1>4 DEF BuiltInv
<1> QED BY <1>2, <1>5, <1>6, <1>7 DEF DirectoryInv

\* A step in the build of an architecture that writes its artifact or manifest.
LEMMA WritesOwn ==
  ASSUME DirectoryInv, Building, Building', Elsewhere(dist'), Kept, built' = built, pos' = pos,
         stamp' \in Nat, OwnInv'
  PROVE  DirectoryInv'
<1>1. stage # "idle" /\ ResultsInv /\ ReportInv /\ BuiltInv
  BY DEF DirectoryInv, Building
<1>2. ResultsInv'
  BY <1>1 DEF ResultsInv, Kept
<1>3. ReportInv'
  BY <1>1 DEF ReportInv, Kept, Building
<1>4. ListedInv'
  BY DEF ListedInv, Building
<1>5. BuiltInv'
  <2>1. ASSUME NamedOnce', NEW i \in 1..Len(built), built[i].ok
        PROVE  /\ \A f \in Outputs(built[i].arch) : f \in DOMAIN dist' /\ dist'[f] > 0
               /\ dist'[Manifest(built[i].arch)] = dist'[Artifact(built[i].arch)]
    <3>1. NamedOnce
      BY <2>1 DEF NamedOnce, Kept
    <3> QED BY <1>1, <2>1, <3>1, OthersKept
  <2> QED BY <2>1 DEF BuiltInv
<1> QED BY <1>2, <1>3, <1>4, <1>5 DEF DirectoryInv

\* The archive is written.
LEMMA PackKeeps == ASSUME DirectoryInv, Pack PROVE DirectoryInv'
<1>1. /\ stage = "pack" /\ stage' = "manifest" /\ stamp' = stamp + 1
      /\ dist' = With(dist, Artifact(Arch), stamp + 1) /\ built' = built /\ pos' = pos /\ Kept
  BY DEF Pack
<1>2. stamp \in Nat /\ Building /\ Building' /\ archs' = archs
  BY <1>1 DEF DirectoryInv, Building, Kept
<1>3. Arch' = Arch
  BY <1>1, <1>2 DEF Arch
<1> HIDE DEF Arch
<1>4. Elsewhere(dist')
  <2>1. Artifact(Arch) \in Outputs(Arch)
    BY DEF Outputs
  <2> QED BY <1>1, <2>1 DEF Elsewhere, With
<1>5. OwnInv'
  <2>1. stamp' > 0 /\ Artifact(Arch) \in DOMAIN dist' /\ dist'[Artifact(Arch)] = stamp'
    BY <1>1, <1>2 DEF With
  <2> QED BY <1>1, <1>3, <2>1 DEF OwnInv, Artifact
<1> QED BY <1>1, <1>2, <1>4, <1>5, WritesOwn

\* The manifest is written.
LEMMA ManifestKeeps == ASSUME DirectoryInv, WriteManifest PROVE DirectoryInv'
<1>1. /\ stage = "manifest" /\ stage' = "verification" /\ stamp' = stamp
      /\ dist' = With(dist, Manifest(Arch), stamp) /\ built' = built /\ pos' = pos /\ Kept
  BY DEF WriteManifest
<1>2. stamp \in Nat /\ Building /\ Building' /\ archs' = archs
      /\ stamp > 0 /\ Artifact(Arch) \in DOMAIN dist /\ dist[Artifact(Arch)] = stamp
  BY <1>1 DEF DirectoryInv, Building, Kept, OwnInv
<1>3. Arch' = Arch
  BY <1>1, <1>2 DEF Arch
<1> HIDE DEF Arch
<1>4. Elsewhere(dist')
  <2>1. Manifest(Arch) \in Outputs(Arch)
    BY DEF Outputs
  <2> QED BY <1>1, <2>1 DEF Elsewhere, With
<1>5. OwnInv'
  <2>1. Artifact(Arch) # Manifest(Arch)
    BY DEF Artifact, Manifest
  <2>2. /\ Artifact(Arch) \in DOMAIN dist' /\ dist'[Artifact(Arch)] = stamp'
        /\ Manifest(Arch) \in DOMAIN dist' /\ dist'[Manifest(Arch)] = stamp'
    BY <1>1, <1>2, <2>1 DEF With
  <2> QED BY <1>1, <1>2, <1>3, <2>2 DEF OwnInv, Artifact, Manifest
<1> QED BY <1>1, <1>2, <1>4, <1>5, WritesOwn

\* The build of an architecture ends: with all its files, or having failed.
LEMMA BuildEnds ==
  ASSUME DirectoryInv, Building, Elsewhere(dist'), Kept, stage' = "lookup", pos' = pos + 1,
         stamp' = stamp, NEW ok \in BOOLEAN, NEW passed,
         built' = Append(built, [arch |-> Arch, ok |-> ok, passed |-> passed]),
         ok => /\ \A f \in Outputs(Arch) : f \in DOMAIN dist' /\ dist'[f] > 0
               /\ dist'[Manifest(Arch)] = dist'[Artifact(Arch)]
  PROVE  DirectoryInv'
<1> DEFINE result == [arch |-> Arch, ok |-> ok, passed |-> passed]
<1>1. stage # "idle" /\ ResultsInv /\ ReportInv /\ BuiltInv /\ stamp \in Nat
  BY DEF DirectoryInv, Building
<1>2. result.arch = archs[pos] /\ result.ok = ok /\ Arch = archs[pos]
  BY DEF Arch
<1> HIDE DEF result, Arch
<1>3. /\ IsSeq(built) /\ pos \in 1..Len(archs) /\ pos \in Nat /\ Len(built) = pos - 1
      /\ Len(archs) \in Nat
  BY <1>1, SeqLen DEF ResultsInv
<1>4. /\ IsSeq(built') /\ Len(built') = pos /\ built'[pos] = result
      /\ \A i \in 1..Len(built) : built'[i] = built[i]
  <2>1. built' = Append(built, result)
    BY DEF result
  <2>2. /\ IsSeq(Append(built, result)) /\ Len(Append(built, result)) = Len(built) + 1
        /\ \A i \in 1..Len(built) : Append(built, result)[i] = built[i]
        /\ Append(built, result)[Len(built) + 1] = result
    BY <1>3, AppendIsSeq
  <2>3. Len(built) + 1 = pos
    BY <1>3
  <2> QED BY <2>1, <2>2, <2>3
<1>5. \A i \in 1..Len(built') : i \in 1..Len(built) \/ i = pos
  BY <1>3, <1>4
<1>6. archs' = archs /\ check' = check /\ report' = report
  BY DEF Kept
<1>7. ResultsInv'
  <2>1. pos' \in Nat /\ Len(built') = pos' - 1 /\ ~Building'
    BY <1>3, <1>4 DEF Building
  <2>2. ASSUME NEW i \in 1..Len(built')
        PROVE  i \in 1..Len(archs) /\ built'[i].arch = archs[i] /\ built'[i].ok \in BOOLEAN
    BY <1>1, <1>2, <1>3, <1>4, <1>5, <2>2 DEF ResultsInv
  <2>3. IsSeq(archs')
    BY <1>1, <1>6 DEF ResultsInv
  <2> QED BY <1>4, <1>6, <2>1, <2>2, <2>3 DEF ResultsInv
<1>8. ReportInv' /\ OwnInv' /\ ListedInv'
  BY <1>1, <1>6 DEF ReportInv, OwnInv, ListedInv
<1>9. BuiltInv'
  <2>1. ASSUME NamedOnce', NEW i \in 1..Len(built'), built'[i].ok
        PROVE  /\ \A f \in Outputs(built'[i].arch) : f \in DOMAIN dist' /\ dist'[f] > 0
               /\ dist'[Manifest(built'[i].arch)] = dist'[Artifact(built'[i].arch)]
    <3>1. NamedOnce
      BY <1>6, <2>1 DEF NamedOnce
    <3>2. CASE i \in 1..Len(built)
      <4>1. built'[i] = built[i] /\ built[i].ok
        BY <1>4, <2>1, <3>2
      <4>2. /\ \A f \in Outputs(built[i].arch) : f \in DOMAIN dist' /\ dist'[f] > 0
            /\ dist'[Manifest(built[i].arch)] = dist'[Artifact(built[i].arch)]
        BY <1>1, <3>1, <3>2, <4>1, OthersKept
      <4> QED BY <4>1, <4>2
    <3>3. CASE i = pos
      <4>1. built'[i].arch = Arch /\ ok
        BY <1>2, <1>4, <2>1, <3>3
      <4> QED BY <4>1
    <3> QED BY <1>5, <3>2, <3>3
  <2> QED BY <2>1, Zenon DEF BuiltInv
<1> QED BY <1>1, <1>7, <1>8, <1>9 DEF DirectoryInv

\* The verification report is written.
LEMMA VerificationKeeps == ASSUME DirectoryInv, WriteVerification PROVE DirectoryInv'
<1>1. /\ stage = "verification" /\ stage' = "lookup" /\ stamp' = stamp
      /\ dist' = With(dist, Verification(Arch), stamp) /\ pos' = pos + 1 /\ Kept
      /\ built' = Append(built, [arch |-> Arch, ok |-> TRUE, passed |-> Passed(root)])
  BY DEF WriteVerification
<1>2. /\ stamp \in Nat /\ Building /\ stamp > 0
      /\ Artifact(Arch) \in DOMAIN dist /\ dist[Artifact(Arch)] = stamp
      /\ Manifest(Arch) \in DOMAIN dist /\ dist[Manifest(Arch)] = stamp
  BY <1>1 DEF DirectoryInv, Building, OwnInv
<1>3. Elsewhere(dist')
  <2>1. Verification(Arch) \in Outputs(Arch)
    BY DEF Outputs
  <2> HIDE DEF Arch
  <2> QED BY <1>1, <2>1 DEF Elsewhere, With
<1>4. /\ \A f \in Outputs(Arch) : f \in DOMAIN dist' /\ dist'[f] > 0
      /\ dist'[Manifest(Arch)] = dist'[Artifact(Arch)]
  <2>1. /\ Artifact(Arch) # Verification(Arch) /\ Manifest(Arch) # Verification(Arch)
        /\ Outputs(Arch) = {Artifact(Arch), Manifest(Arch), Verification(Arch)}
    BY DEF Artifact, Manifest, Verification, Outputs
  <2> HIDE DEF Arch
  <2>2. \A f \in Outputs(Arch) : f \in DOMAIN dist' /\ dist'[f] = stamp
    BY <1>1, <1>2, <2>1 DEF With
  <2> QED BY <1>2, <2>1, <2>2
<1> HIDE DEF Arch
<1> DEFINE passed == Passed(root)
<1>5. built' = Append(built, [arch |-> Arch, ok |-> TRUE, passed |-> passed])
  BY <1>1
<1> HIDE DEF passed
<1>6. TRUE \in BOOLEAN
  OBVIOUS
<1> QED BY <1>1, <1>2, <1>3, <1>4, <1>5, <1>6, BuildEnds, Zenon

\* A build fails.
LEMMA BuildFailsKeeps == ASSUME DirectoryInv, BuildFails PROVE DirectoryInv'
<1>1. /\ Building /\ stage' = "lookup" /\ stamp' = stamp /\ pos' = pos + 1 /\ Kept
      /\ built' = Append(built, [arch |-> Arch, ok |-> FALSE, passed |-> FALSE])
      /\ dist' \in Halfway
  BY DEF BuildFails
<1>2. Elsewhere(dist')
  BY <1>1, HalfwayElsewhere
<1>3. FALSE \in BOOLEAN
  OBVIOUS
<1> HIDE DEF Arch
<1> QED BY <1>1, <1>2, <1>3, BuildEnds, Zenon

\* The closure report of the candidates is written.
LEMMA ReportKeeps == ASSUME DirectoryInv, WriteReport PROVE DirectoryInv'
<1>1. /\ Reporting /\ stage' = "sums" /\ stamp' = stamp + 1 /\ stage = "lookup" /\ check
      /\ dist' = With(dist, Report, stamp + 1) /\ archs' = archs /\ check' = check
      /\ report' = report /\ pos' = pos /\ built' = built
  BY DEF WriteReport, Reporting, AllTried
<1>2. ResultsInv /\ ReportInv /\ BuiltInv /\ stamp \in Nat
  BY <1>1 DEF DirectoryInv
<1>3. report # <<>>
  BY <1>1, CandidatesExist DEF Reporting
<1>4. Report \in DOMAIN dist' /\ dist'[Report] > 0
        /\ \A f \in DOMAIN dist : f # Report => f \in DOMAIN dist' /\ dist'[f] = dist[f]
  BY <1>1, <1>2 DEF With
<1>5. ResultsInv'
  BY <1>1, <1>2 DEF ResultsInv, Building
<1>6. ReportInv'
  BY <1>1, <1>2, <1>3, <1>4 DEF ReportInv
<1>7. OwnInv' /\ ListedInv'
  BY <1>1 DEF OwnInv, ListedInv
<1>8. BuiltInv'
  <2>1. ASSUME NamedOnce', NEW i \in 1..Len(built), built[i].ok
        PROVE  /\ \A f \in Outputs(built[i].arch) : f \in DOMAIN dist' /\ dist'[f] > 0
               /\ dist'[Manifest(built[i].arch)] = dist'[Artifact(built[i].arch)]
    <3>1. NamedOnce
      BY <1>1, <2>1 DEF NamedOnce
    <3>2. /\ \A f \in Outputs(built[i].arch) : f \in DOMAIN dist /\ dist[f] > 0
          /\ dist[Manifest(built[i].arch)] = dist[Artifact(built[i].arch)]
      BY <1>2, <2>1, <3>1, Zenon DEF BuiltInv
    <3>3. \A f \in Outputs(built[i].arch) : f # Report
      BY DEF Outputs, Artifact, Manifest, Verification, Report
    <3>4. \A f \in Outputs(built[i].arch) : f \in DOMAIN dist' /\ dist'[f] = dist[f]
      BY <1>4, <3>2, <3>3, Zenon
    <3>5. Manifest(built[i].arch) \in Outputs(built[i].arch) /\ Artifact(built[i].arch) \in Outputs(built[i].arch)
      BY DEF Outputs
    <3>6. dist'[Manifest(built[i].arch)] = dist'[Artifact(built[i].arch)]
      BY <3>2, <3>4, <3>5, Zenon
    <3>7. ASSUME NEW f \in Outputs(built[i].arch) PROVE f \in DOMAIN dist' /\ dist'[f] > 0
      BY <3>2, <3>4, <3>7
    <3> QED BY <3>6, <3>7
  <2> QED BY <1>1, <2>1 DEF BuiltInv
<1>9. stamp' \in Nat /\ stage' # "idle"
  BY <1>1, <1>2
<1> QED BY <1>5, <1>6, <1>7, <1>8, <1>9 DEF DirectoryInv

\* SHA256SUMS is written.
LEMMA SumsKeeps == ASSUME DirectoryInv, WriteSums PROVE DirectoryInv'
<1>1. /\ (stage = "lookup" /\ ~check) \/ stage = "sums"
      /\ stage' = "release" /\ sums' = (IF Tracked = {} THEN sums ELSE Authoritative(sums))
      /\ UNCHANGED <<archs, pos, built, check, report, dist, stamp>>
  BY DEF WriteSums, AllTried
<1>2. ResultsInv /\ ReportInv /\ BuiltInv /\ stamp \in Nat
  BY <1>1 DEF DirectoryInv
<1>3. ResultsInv'
  BY <1>1, <1>2 DEF ResultsInv, Building
<1>4. ReportInv'
  BY <1>1, <1>2 DEF ReportInv
<1>5. OwnInv'
  BY <1>1 DEF OwnInv
<1>6. BuiltInv'
  BY <1>1, <1>2 DEF BuiltInv, NamedOnce
<1>7. ListedInv'
  <2>1. Tracked' = Tracked
    BY <1>1 DEF Tracked, Done, Reported
  <2> HIDE DEF Tracked
  <2>2. Tracked # {} => DOMAIN sums' = Tracked /\ \A f \in Tracked : sums'[f] = dist'[f]
    BY <1>1 DEF Authoritative
  <2> QED BY <2>1, <2>2 DEF ListedInv
<1> QED BY <1>1, <1>2, <1>3, <1>4, <1>5, <1>6, <1>7 DEF DirectoryInv

\* Every step keeps the invariant of the directory.
LEMMA DirectoryInvStep == DirectoryInv /\ [Next]_vars => DirectoryInv'
<1> SUFFICES ASSUME DirectoryInv, [Next]_vars PROVE DirectoryInv'
  OBVIOUS
<1>1. ASSUME stage' = "idle", stamp' = stamp PROVE DirectoryInv'
  BY <1>1 DEF DirectoryInv
<1>2. CASE Lookup
  <2>1. CASE stage' = "idle"
    BY <1>1, <1>2, <2>1 DEF Lookup
  <2>2. CASE stage' # "idle"
    <3>1. /\ stage = "lookup" /\ stage' = "index" /\ pos <= Len(archs)
          /\ UNCHANGED <<archs, pos, built, check, dist, sums, stamp, report>>
      BY <1>2, <2>2 DEF Lookup, Kept
    <3>2. IsSeq(archs) /\ IsSeq(built) /\ pos \in Nat /\ Len(built) = pos - 1 /\ ReportInv
      BY <3>1 DEF DirectoryInv, ResultsInv
    <3>3. Len(archs) \in Nat /\ Len(built) \in Nat
      BY <3>2, SeqLen
    <3>4. pos \in 1..Len(archs)
      BY <3>1, <3>2, <3>3
    <3> QED BY <3>1, <3>2, <3>4, GoesOn DEF ReportInv
  <2> QED BY <2>1, <2>2
<1>3. CASE FetchIndex \/ Resolve \/ FetchPackage \/ WriteLayer
  <2>1. /\ stage \in {"index", "resolve", "fetch"} /\ stage' \in {"resolve", "fetch", "pack"}
        /\ UNCHANGED <<archs, pos, built, check, dist, sums, stamp, report>>
    BY <1>3 DEF FetchIndex, Resolve, FetchPackage, WriteLayer, Kept
  <2>2. ReportInv /\ pos \in 1..Len(archs)
    BY <2>1 DEF DirectoryInv, ResultsInv, Building
  <2> QED BY <2>1, <2>2, GoesOn DEF ReportInv
<1>4. CASE FetchCandidate
  <2>1. /\ stage = "lookup" /\ stage' = "closure" /\ check
        /\ UNCHANGED <<archs, pos, built, check, dist, sums, stamp, report>>
    BY <1>4 DEF FetchCandidate, AllTried
  <2>2. ~Building'
    BY <2>1 DEF Building
  <2> QED BY <2>1, <2>2, GoesOn
<1>5. CASE JudgeCandidate
  <2>1. /\ stage = "closure" /\ stage' \in {"closure", "lookup"}
        /\ UNCHANGED <<archs, pos, built, check, dist, sums, stamp>>
    BY <1>5 DEF JudgeCandidate
  <2>2. ~Building' /\ check
    BY <2>1 DEF Building, DirectoryInv, ReportInv
  <2> QED BY <2>1, <2>2, GoesOn
<1>6. CASE End \/ Kill
  BY <1>1, <1>6 DEF End, Kill
<1>7. CASE UNCHANGED vars
  <2>1. UNCHANGED <<stage, archs, pos, built, check, report, dist, sums, stamp>>
    BY <1>7 DEF vars
  <2>2. Tracked' = Tracked /\ Arch' = Arch
    BY <2>1 DEF Tracked, Done, Reported, Arch
  <2> QED BY <2>1, <2>2 DEF DirectoryInv, ResultsInv, ReportInv, OwnInv, BuiltInv, ListedInv,
             Building, NamedOnce
<1> QED BY <1>2, <1>3, <1>4, <1>5, <1>6, <1>7, StartKeeps, PackKeeps, ManifestKeeps,
           VerificationKeeps, BuildFailsKeeps, ReportKeeps, SumsKeeps, Zenon DEF Next

\* What SHA256SUMS is about to list is in the directory.
LEMMA TrackedIsThere ==
  ASSUME ReportInv, stage = "release" PROVE \A f \in Tracked : f \in DOMAIN dist
<1>1. report # <<>> => Report \in DOMAIN dist
  BY DEF ReportInv
<1>2. \A result : \A f \in Done(result) : f \in DOMAIN dist
  BY DEF Done
<1> HIDE DEF Done
<1>3. ASSUME NEW f \in Tracked PROVE f \in DOMAIN dist
  <2>1. CASE f \in Reported
    <3>1. report # <<>> /\ f = Report
      BY <2>1 DEF Reported
    <3> QED BY <1>1, <3>1
  <2>2. CASE f \in UNION {Done(built[i]) : i \in DOMAIN built}
    <3>1. PICK i \in DOMAIN built : f \in Done(built[i])
      BY <2>2, Zenon
    <3> QED BY <1>2, <3>1, Zenon
  <2> DEFINE outputs == UNION {Done(built[i]) : i \in DOMAIN built}
  <2>3. Tracked = outputs \cup Reported
    BY DEF Tracked
  <2> HIDE DEF outputs, Tracked, Reported
  <2>4. f \in outputs \/ f \in Reported
    BY <1>3, <2>3
  <2> QED BY <2>1, <2>2, <2>4 DEF outputs
<1> QED BY <1>3

\* What SHA256SUMS is about to list belongs to what was built.
LEMMA TrackedIsBuilt ==
  ASSUME ResultsInv, ReportInv, BuiltInv, NamedOnce, stage = "release"
  PROVE  Tracked = (UNION {Outputs(built[i].arch) : i \in {j \in DOMAIN built : built[j].ok}})
                   \cup (IF check THEN {Report} ELSE {})
<1>1. DOMAIN built = 1..Len(built)
  BY SeqLen DEF ResultsInv
<1>2. ASSUME NEW i \in DOMAIN built
      PROVE  Done(built[i]) = IF built[i].ok THEN Outputs(built[i].arch) ELSE {}
  <2>1. CASE ~built[i].ok
    BY <2>1 DEF Done
  <2>2. CASE built[i].ok
    <3>1. \A f \in Outputs(built[i].arch) : f \in DOMAIN dist
      BY <1>1, <1>2, <2>2 DEF BuiltInv
    <3> QED BY <2>2, <3>1 DEF Done
  <2> QED BY <2>1, <2>2
<1>3. Reported = IF check THEN {Report} ELSE {}
  BY DEF Reported, ReportInv
<1> HIDE DEF Done, Outputs, Report, Reported
<1>4. ASSUME NEW f
      PROVE  f \in UNION {Done(built[i]) : i \in DOMAIN built} <=>
             f \in UNION {Outputs(built[i].arch) : i \in {j \in DOMAIN built : built[j].ok}}
  BY <1>2
<1> QED BY <1>3, <1>4, Zenon DEF Tracked

\* After a run SHA256SUMS tells the truth of the directory, and lists exactly what the
\* run built (build_release.py:122), for every list of architectures, every mirror and
\* whatever fails or is killed on the way.
THEOREM SumsStayTrue == Spec => []SumsAreTrue
<1>1. Init => DirectoryInv
  BY DEF Init, DirectoryInv
<1>2. DirectoryInv => SumsAreTrue
  <2> SUFFICES ASSUME DirectoryInv, stage = "release", Tracked # {} 
               PROVE  /\ \A f \in DOMAIN sums : f \in DOMAIN dist /\ sums[f] = dist[f]
                      /\ NamedOnce =>
                           /\ DOMAIN sums = (UNION {Outputs(built[i].arch) : i \in {j \in DOMAIN built : built[j].ok}})
                                            \cup (IF check THEN {Report} ELSE {})
                           /\ \A f \in DOMAIN sums : dist[f] > 0
                           /\ \A i \in DOMAIN built : built[i].ok =>
                                dist[Manifest(built[i].arch)] = dist[Artifact(built[i].arch)]
    BY DEF SumsAreTrue
  <2>1. ResultsInv /\ ReportInv /\ BuiltInv
    BY DEF DirectoryInv
  <2>2. DOMAIN sums = Tracked /\ \A f \in Tracked : sums[f] = dist[f]
    BY DEF DirectoryInv, ListedInv
  <2>3. \A f \in DOMAIN sums : f \in DOMAIN dist /\ sums[f] = dist[f]
    BY <2>1, <2>2, TrackedIsThere
  <2>4. ASSUME NamedOnce
        PROVE  /\ DOMAIN sums = (UNION {Outputs(built[i].arch) : i \in {j \in DOMAIN built : built[j].ok}})
                                \cup (IF check THEN {Report} ELSE {})
               /\ \A f \in DOMAIN sums : dist[f] > 0
               /\ \A i \in DOMAIN built : built[i].ok =>
                    dist[Manifest(built[i].arch)] = dist[Artifact(built[i].arch)]
    <3>1. Tracked = (UNION {Outputs(built[i].arch) : i \in {j \in DOMAIN built : built[j].ok}})
                    \cup (IF check THEN {Report} ELSE {})
      BY <2>1, <2>4, TrackedIsBuilt
    <3>2. DOMAIN built = 1..Len(built)
      BY <2>1, SeqLen DEF ResultsInv
    <3>3. \A i \in DOMAIN built : built[i].ok =>
            /\ \A f \in Outputs(built[i].arch) : dist[f] > 0
            /\ dist[Manifest(built[i].arch)] = dist[Artifact(built[i].arch)]
      BY <2>1, <2>4, <3>2, Zenon DEF BuiltInv
    <3>4. check => dist[Report] > 0
      BY <2>1 DEF ReportInv
    <3> HIDE DEF Tracked, Outputs, Manifest, Artifact, Report
    <3>5. ASSUME NEW f \in Tracked PROVE dist[f] > 0
      <4>1. CASE f \in UNION {Outputs(built[i].arch) : i \in {j \in DOMAIN built : built[j].ok}}
        <5>1. PICK i \in DOMAIN built : built[i].ok /\ f \in Outputs(built[i].arch)
          BY <4>1, Zenon
        <5> QED BY <3>3, <5>1, Zenon
      <4>2. CASE f \in (IF check THEN {Report} ELSE {})
        <5>1. check /\ f = Report
          BY <4>2
        <5> QED BY <3>4, <5>1
      <4> DEFINE outputs == UNION {Outputs(built[i].arch) : i \in {j \in DOMAIN built : built[j].ok}}
                 reports == IF check THEN {Report} ELSE {}
      <4>3. Tracked = outputs \cup reports
        BY <3>1
      <4> HIDE DEF outputs, reports
      <4>4. f \in outputs \/ f \in reports
        BY <3>5, <4>3
      <4> QED BY <4>1, <4>2, <4>4 DEF outputs, reports
    <3> QED BY <2>2, <3>1, <3>3, <3>5
  <2> QED BY <2>3, <2>4
<1> QED BY <1>1, <1>2, DirectoryInvStep, PTL DEF Spec

-----------------------------------------------------------------------------
(* Loops over naturals, and paths.                                         *)

\* Of any naturals one is the least.
LEMMA LeastOf ==
  ASSUME NEW S \in SUBSET Nat, S # {} PROVE \E n \in S : \A m \in S : n <= m
<1> DEFINE R == {pair \in Nat \X Nat : pair[1] < pair[2]}
<1>1. IsWellFoundedOn(R, Nat)
  BY NatLessThanWellFounded, Zenon DEF OpToRel
<1>2. \E x \in S : \A y \in S : ~(<<y, x>> \in R)
  BY <1>1, WFMin
<1>3. \A m, n \in Nat : <<m, n>> \in R <=> m < n
  OBVIOUS
<1> HIDE DEF R
<1>4. PICK x \in S : \A y \in S : ~(<<y, x>> \in R)
  BY <1>2
<1>5. \A y \in S : x <= y
  <2> TAKE y \in S
  <2>1. x \in Nat /\ y \in Nat /\ ~(<<y, x>> \in R) /\ (<<y, x>> \in R <=> y < x)
    BY <1>3, <1>4
  <2> QED BY <2>1
<1> QED BY <1>5

\* What a loop has not at its start, it has for the first time after a step.
LEMMA FirstStep ==
  ASSUME NEW S \in SUBSET Nat, 0 \notin S, S # {}
  PROVE  \E n \in S : n \in Nat /\ n # 0 /\ n - 1 \in Nat /\ n - 1 \notin S /\ \A m \in S : n <= m
<1>1. PICK n \in S : \A m \in S : n <= m
  BY LeastOf
<1>2. n \in Nat /\ n # 0
  OBVIOUS
<1>3. n - 1 \in Nat /\ ~(n <= n - 1)
  BY <1>2
<1> QED BY <1>1, <1>2, <1>3

\* A name added to a path.
LEMMA PathAppend ==
  ASSUME NEW p, IsSeq(p), NEW x
  PROVE  /\ IsSeq(Append(p, x)) /\ Append(p, x) # <<>>
         /\ Front(Append(p, x)) = p /\ Last(Append(p, x)) = x
<1> DEFINE q == Append(p, x)
<1>1. /\ IsSeq(q) /\ Len(q) = Len(p) + 1 /\ Len(p) \in Nat
      /\ \A i \in 1..Len(p) : q[i] = p[i]
      /\ q[Len(p) + 1] = x
  BY AppendIsSeq, SeqLen
<1> HIDE DEF q
<1>2. q # <<>>
  BY <1>1
<1>3. Last(q) = x
  BY <1>1 DEF Last
<1>4. q \in Seq(ToSet(q)) /\ p \in Seq(ToSet(p)) /\ Len(q) - 1 = Len(p)
  BY <1>1 DEF IsSeq
<1>5. \A i \in 1..Len(p) : q[i] \in ToSet(q)
  BY <1>4, <1>1, ElementOfSeq
<1>6. /\ Front(q) \in Seq(ToSet(q)) /\ Len(Front(q)) = Len(p)
      /\ \A i \in 1..Len(p) : Front(q)[i] = q[i]
  BY <1>1, <1>4, <1>5, SubSeqProperties DEF Front
<1>7. Front(q) = p
  BY <1>1, <1>4, <1>6, SeqEqual
<1> QED BY <1>1, <1>2, <1>3, <1>7 DEF q

\* The first n names of a path.
LEMMA PathPrefix ==
  ASSUME NEW p, IsSeq(p), NEW n \in 0..Len(p)
  PROVE  /\ IsSeq(SubSeq(p, 1, n)) /\ Len(SubSeq(p, 1, n)) = n
         /\ \A i \in 1..n : SubSeq(p, 1, n)[i] = p[i]
<1>1. p \in Seq(ToSet(p)) /\ Len(p) \in Nat
  BY SeqLen DEF IsSeq
<1>2. \A i \in 1..n : p[i] \in ToSet(p)
  BY <1>1, ElementOfSeq
<1>3. /\ SubSeq(p, 1, n) \in Seq(ToSet(p)) /\ Len(SubSeq(p, 1, n)) = n
      /\ \A i \in 1..n : SubSeq(p, 1, n)[i] = p[i]
  BY <1>1, <1>2, SubSeqProperties
<1> QED BY <1>3, SeqIsSeq

\* A path that is not empty is its front and its last name.
LEMMA PathSplit ==
  ASSUME NEW p, IsSeq(p), p # <<>>
  PROVE  IsSeq(Front(p)) /\ p = Append(Front(p), Last(p)) /\ Len(Front(p)) = Len(p) - 1
         /\ Len(p) \in Nat \ {0} /\ \A i \in 1 .. Len(p) - 1 : Front(p)[i] = p[i]
<1>1. p \in Seq(ToSet(p)) /\ Len(p) \in Nat /\ Len(p) # 0
  BY SeqLen DEF IsSeq
<1>2. Len(p) - 1 \in 0..Len(p)
  BY <1>1
<1>3. /\ IsSeq(Front(p)) /\ Len(Front(p)) = Len(p) - 1
      /\ \A i \in 1 .. Len(p) - 1 : Front(p)[i] = p[i]
  BY <1>2, PathPrefix DEF Front
<1>4. IsSeq(Front(p))
  BY <1>3
<1> DEFINE q == Append(Front(p), Last(p))
<1>5. /\ IsSeq(q) /\ Len(q) = Len(p)
      /\ \A i \in 1 .. Len(p) - 1 : q[i] = p[i]
      /\ q[Len(p)] = p[Len(p)]
  <2>1. /\ IsSeq(q) /\ Len(q) = Len(Front(p)) + 1
        /\ \A i \in 1..Len(Front(p)) : q[i] = Front(p)[i]
        /\ q[Len(Front(p)) + 1] = Last(p)
    BY <1>4, AppendIsSeq
  <2> HIDE DEF q
  <2>2. Len(Front(p)) + 1 = Len(p)
    BY <1>1, <1>3
  <2> QED BY <1>3, <2>1, <2>2 DEF Last
<1> HIDE DEF q
<1>6. q \in Seq(ToSet(q)) /\ \A i \in 1..Len(p) : q[i] = p[i]
  BY <1>1, <1>5 DEF IsSeq
<1>7. q = p
  BY <1>1, <1>5, <1>6, SeqEqual
<1> QED BY <1>1, <1>3, <1>4, <1>7 DEF q

\* A path is the longest of its prefixes.
LEMMA PathPrefixAll == ASSUME NEW p, IsSeq(p) PROVE SubSeq(p, 1, Len(p)) = p /\ SubSeq(p, 1, 0) = <<>>
<1>1. p \in Seq(ToSet(p)) /\ Len(p) \in Nat
  BY SeqLen DEF IsSeq
<1>2. SubSeq(p, 1, Len(p)) = p
  BY <1>1, SubSeqFull
<1>3. IsSeq(SubSeq(p, 1, 0)) /\ Len(SubSeq(p, 1, 0)) = 0
  BY <1>1, PathPrefix
<1> QED BY <1>2, <1>3 DEF IsSeq

\* The first names of the front of a path are those of the path.
LEMMA PathPrefixFront ==
  ASSUME NEW p, IsSeq(p), NEW n \in 1..Len(p)
  PROVE  Front(SubSeq(p, 1, n)) = SubSeq(p, 1, n - 1) /\ Last(SubSeq(p, 1, n)) = p[n]
         /\ SubSeq(p, 1, n) # <<>>
<1> DEFINE q == SubSeq(p, 1, n)
           r == SubSeq(p, 1, n - 1)
<1>1. Len(p) \in Nat /\ n - 1 \in 0..Len(p) /\ n \in 0..Len(p) /\ n \in Nat
  BY SeqLen
<1>2. IsSeq(q) /\ Len(q) = n /\ \A i \in 1..n : q[i] = p[i]
  BY <1>1, PathPrefix
<1>3. IsSeq(r) /\ Len(r) = n - 1 /\ \A i \in 1 .. n - 1 : r[i] = p[i]
  BY <1>1, PathPrefix
<1> HIDE DEF q, r
<1>4. q # <<>>
  BY <1>1, <1>2
<1>5. IsSeq(Front(q)) /\ Len(Front(q)) = n - 1 /\ \A i \in 1 .. n - 1 : Front(q)[i] = q[i]
  BY <1>2, <1>4, PathSplit
<1>6. \A i \in 1 .. n - 1 : Front(q)[i] = r[i]
  BY <1>1, <1>2, <1>3, <1>5
<1>7. Front(q) = r
  BY <1>1, <1>3, <1>5, <1>6, SeqEqual DEF IsSeq
<1> QED BY <1>1, <1>2, <1>4, <1>7 DEF q, r, Last

-----------------------------------------------------------------------------
(* Where a path leads.                                                     *)

\* The loop of Follow.
HopLoop(disk, at, hop) ==
  hop = [n \in 0..MaxLinks |-> IF n = 0 THEN at ELSE Hop(disk, hop[n - 1])]

\* The loop of links read one after the other is a function on the naturals.
LEMMA HopLoopExists == ASSUME NEW disk, NEW at PROVE \E hop : HopLoop(disk, at, hop)
<1> DEFINE Fits(m, f) == f = [n \in 0..m |-> IF n = 0 THEN at ELSE Hop(disk, f[n - 1])]
           bad == {m \in Nat : ~(\E f : Fits(m, f))}
<1>1. 0 \notin bad
  <2>1. Fits(0, [n \in 0..0 |-> at])
    OBVIOUS
  <2> QED BY <2>1
<1>2. ASSUME NEW m \in Nat, m # 0, m - 1 \in Nat, m - 1 \notin bad PROVE m \notin bad
  <2>1. PICK f : Fits(m - 1, f)
    BY <1>2
  <2>2. Fits(m, [n \in 0..m |-> IF n = m THEN Hop(disk, f[m - 1]) ELSE f[n]])
    BY <1>2, <2>1
  <2> QED BY <2>2
<1>3. bad = {}
  <2>1. bad \in SUBSET Nat
    OBVIOUS
  <2> HIDE DEF bad
  <2> QED BY <1>1, <1>2, <2>1, FirstStep
<1>4. \E hop : Fits(MaxLinks, hop)
  BY <1>3 DEF MaxLinks
<1> QED BY <1>4 DEF HopLoop

\* Follow is what that loop has reached after its last turn.
LEMMA FollowLoop ==
  ASSUME NEW disk, NEW at
  PROVE  \E hop : /\ HopLoop(disk, at, hop)
                  /\ Follow(disk, at) = IF NodeAt(disk, at).kind = "symlink" THEN hop[MaxLinks] ELSE at
<1> DEFINE hop == CHOOSE h : HopLoop(disk, at, h)
<1>1. HopLoop(disk, at, hop)
  BY HopLoopExists
<1>2. Follow(disk, at) = IF NodeAt(disk, at).kind = "symlink" THEN hop[MaxLinks] ELSE at
  BY DEF Follow, HopLoop
<1> QED BY <1>1, <1>2

\* The loop of Where.
WhereLoop(disk, path, at) ==
  at = [n \in 0..Len(path) |-> IF n = 0 THEN <<>> ELSE Follow(disk, Append(at[n - 1], path[n]))]

\* The loop over the names of a path is a function on its lengths.
LEMMA WhereLoopExists ==
  ASSUME NEW disk, NEW path, IsSeq(path)
  PROVE  \E at : WhereLoop(disk, path, at) /\ Where(disk, path) = at[Len(path)]
<1> DEFINE Fits(m, f) ==
             f = [n \in 0..m |-> IF n = 0 THEN <<>> ELSE Follow(disk, Append(f[n - 1], path[n]))]
           bad == {m \in Nat : ~(\E f : Fits(m, f))}
<1>1. 0 \notin bad
  <2>1. Fits(0, [n \in 0..0 |-> <<>>])
    OBVIOUS
  <2> QED BY <2>1
<1>2. ASSUME NEW m \in Nat, m # 0, m - 1 \in Nat, m - 1 \notin bad PROVE m \notin bad
  <2>1. PICK f : Fits(m - 1, f)
    BY <1>2
  <2>2. Fits(m, [n \in 0..m |-> IF n = m THEN Follow(disk, Append(f[m - 1], path[m])) ELSE f[n]])
    BY <1>2, <2>1
  <2> QED BY <2>2
<1>3. bad = {}
  <2>1. bad \in SUBSET Nat
    OBVIOUS
  <2> HIDE DEF bad
  <2> QED BY <1>1, <1>2, <2>1, FirstStep
<1>4. \E at : WhereLoop(disk, path, at)
  <2>1. Len(path) \in Nat
    BY SeqLen
  <2> QED BY <1>3, <2>1 DEF WhereLoop
<1> DEFINE loop == CHOOSE at : WhereLoop(disk, path, at)
<1>5. WhereLoop(disk, path, loop)
  BY <1>4
<1>6. Where(disk, path) = loop[Len(path)]
  BY DEF Where, WhereLoop
<1> QED BY <1>5, <1>6

\* A path leads where its last name leads from where the names before it lead.
LEMMA WhereAlong ==
  ASSUME NEW disk, NEW path, IsSeq(path)
  PROVE  /\ Where(disk, SubSeq(path, 1, 0)) = <<>>
         /\ \A n \in 1..Len(path) :
              Where(disk, SubSeq(path, 1, n)) =
                Follow(disk, Append(Where(disk, SubSeq(path, 1, n - 1)), path[n]))
<1>1. PICK at : WhereLoop(disk, path, at)
  BY WhereLoopExists
<1>2. Len(path) \in Nat
  BY SeqLen
<1>3. /\ at[0] = <<>>
      /\ \A n \in 1..Len(path) : at[n] = Follow(disk, Append(at[n - 1], path[n]))
  BY <1>1, <1>2 DEF WhereLoop
<1>4. ASSUME NEW n \in 0..Len(path) PROVE Where(disk, SubSeq(path, 1, n)) = at[n]
  <2> DEFINE q == SubSeq(path, 1, n)
  <2>1. IsSeq(q) /\ Len(q) = n /\ n \in Nat /\ \A i \in 1..n : q[i] = path[i]
    BY <1>2, PathPrefix
  <2> HIDE DEF q
  <2>2. PICK own : WhereLoop(disk, q, own) /\ Where(disk, q) = own[n]
    BY <2>1, WhereLoopExists
  <2>3. own[0] = <<>> /\ \A i \in 1..n : own[i] = Follow(disk, Append(own[i - 1], path[i]))
    BY <2>1, <2>2 DEF WhereLoop
  <2> DEFINE bad == {i \in 0..n : own[i] # at[i]}
  <2>4. bad \in SUBSET Nat /\ 0 \notin bad
    BY <1>3, <2>1, <2>3
  <2>5. ASSUME NEW i \in Nat, i # 0, i - 1 \notin bad, i \in bad PROVE FALSE
    <3>1. i \in 1..n /\ i \in 1..Len(path) /\ i - 1 \in 0..n
      BY <1>2, <2>1, <2>5
    <3>2. own[i - 1] = at[i - 1]
      BY <2>5, <3>1
    <3>3. own[i] = at[i]
      BY <1>3, <2>3, <3>1, <3>2
    <3> QED BY <2>5, <3>3
  <2>6. bad = {}
    <3> HIDE DEF bad
    <3> QED BY <2>4, <2>5, FirstStep
  <2>7. own[n] = at[n]
    BY <2>1, <2>6
  <2> QED BY <2>2, <2>7 DEF q
<1>5. 0 \in 0..Len(path) /\ \A n \in 1..Len(path) : n \in 0..Len(path) /\ n - 1 \in 0..Len(path)
  BY <1>2
<1> QED BY <1>3, <1>4, <1>5

\* The root is where it is.
LEMMA WhereRoot == ASSUME NEW disk PROVE Where(disk, <<>>) = <<>>
<1>1. IsSeq(<<>>)
  BY DEF IsSeq, ToSet
<1>2. SubSeq(<<>>, 1, 0) = <<>>
  BY <1>1, PathPrefixAll
<1>3. Where(disk, SubSeq(<<>>, 1, 0)) = <<>>
  BY <1>1, WhereAlong, Zenon
<1> QED BY <1>2, <1>3, Zenon

\* A path leads where its last name, looked up where its front leads, leads.
LEMMA WhereSplit ==
  ASSUME NEW disk, NEW path, IsSeq(path), path # <<>>
  PROVE  Where(disk, path) = Follow(disk, Entry(disk, path))
<1>1. Len(path) \in 1..Len(path) /\ SubSeq(path, 1, Len(path)) = path
  BY PathSplit, PathPrefixAll
<1>2. Front(path) = SubSeq(path, 1, Len(path) - 1) /\ Last(path) = path[Len(path)]
  BY DEF Front, Last
<1>3. Where(disk, path) = Follow(disk, Append(Where(disk, Front(path)), Last(path)))
  BY <1>1, <1>2, WhereAlong
<1> QED BY <1>3 DEF Entry

-----------------------------------------------------------------------------
(* The disk: everything stands in a directory, and those an image starts   *)
(* with stay directories.                                                  *)

DiskInv(disk) ==
  /\ <<>> \in DOMAIN disk /\ disk[<<>>].kind = "dir"
  /\ \A at \in BaseDirs : NodeAt(disk, at).kind = "dir"
  /\ \A at \in DOMAIN disk :
       /\ IsSeq(at) /\ disk[at].kind \in {"dir", "file", "symlink"}
       /\ disk[at].kind = "symlink" => IsSeq(disk[at].to)
       /\ at # <<>> => NodeAt(disk, Front(at)).kind = "dir"

\* The empty sequence is a sequence.
LEMMA EmptyIsSeq == IsSeq(<<>>)
BY DEF IsSeq, ToSet

\* The kinds of nodes are distinct, and what each has.
LEMMA NodeKinds ==
  ASSUME NEW disk, NEW at
  PROVE  /\ at \notin DOMAIN disk => NodeAt(disk, at).kind = "none"
         /\ at \in DOMAIN disk => NodeAt(disk, at) = disk[at]
         /\ DiskInv(disk) => NodeAt(disk, at).kind \in {"none", "dir", "file", "symlink"}
                             /\ (at \in DOMAIN disk <=> NodeAt(disk, at).kind # "none")
BY DEF NodeAt, None, DiskInv

\* Following links on a disk leads to a path.
LEMMA FollowIsSeq ==
  ASSUME NEW disk, DiskInv(disk), NEW at, IsSeq(at) PROVE IsSeq(Follow(disk, at))
<1>1. PICK hop : /\ HopLoop(disk, at, hop)
                 /\ Follow(disk, at) = IF NodeAt(disk, at).kind = "symlink" THEN hop[MaxLinks] ELSE at
  BY FollowLoop
<1>2. MaxLinks \in Nat
  BY DEF MaxLinks
<1>3. hop[0] = at /\ \A n \in 1..MaxLinks : hop[n] = Hop(disk, hop[n - 1])
  BY <1>1, <1>2 DEF HopLoop
<1>4. ASSUME NEW q, IsSeq(q) PROVE IsSeq(Hop(disk, q))
  BY <1>4 DEF Hop, NodeAt, None, DiskInv
<1> DEFINE bad == {n \in 0..MaxLinks : ~IsSeq(hop[n])}
<1>5. bad \in SUBSET Nat /\ 0 \notin bad
  BY <1>2, <1>3
<1>6. ASSUME NEW n \in Nat, n # 0, n - 1 \notin bad, n \in bad PROVE FALSE
  <2>1. n \in 1..MaxLinks /\ n - 1 \in 0..MaxLinks
    BY <1>2, <1>6
  <2>2. IsSeq(hop[n - 1])
    BY <1>6, <2>1
  <2>3. IsSeq(hop[n])
    BY <1>3, <1>4, <2>1, <2>2
  <2> QED BY <1>6, <2>3
<1>7. bad = {}
  <2> HIDE DEF bad
  <2> QED BY <1>5, <1>6, FirstStep
<1>8. IsSeq(hop[MaxLinks])
  BY <1>2, <1>7
<1> QED BY <1>1, <1>8

\* Following leads nowhere else from what is not a link.
LEMMA FollowStays ==
  ASSUME NEW disk, NEW at, NodeAt(disk, at).kind # "symlink" PROVE Follow(disk, at) = at
BY FollowLoop

\* Where a path leads is a path.
LEMMA WhereIsSeq ==
  ASSUME NEW disk, DiskInv(disk), NEW path, IsSeq(path) PROVE IsSeq(Where(disk, path))
<1> DEFINE to(n) == Where(disk, SubSeq(path, 1, n))
           bad == {n \in 0..Len(path) : ~IsSeq(to(n))}
<1>1. Len(path) \in Nat
  BY SeqLen
<1>2. to(0) = <<>> /\ \A n \in 1..Len(path) : to(n) = Follow(disk, Append(to(n - 1), path[n]))
  BY WhereAlong
<1> HIDE DEF to
<1>3. bad \in SUBSET Nat /\ 0 \notin bad
  BY <1>1, <1>2, EmptyIsSeq
<1>4. ASSUME NEW n \in Nat, n # 0, n - 1 \notin bad, n \in bad PROVE FALSE
  <2>1. n \in 1..Len(path) /\ n - 1 \in 0..Len(path)
    BY <1>1, <1>4
  <2>2. IsSeq(to(n - 1))
    BY <1>4, <2>1
  <2>3. IsSeq(to(n))
    BY <1>2, <2>1, <2>2, PathAppend, FollowIsSeq
  <2> QED BY <1>4, <2>3
<1>5. bad = {}
  <2> HIDE DEF bad
  <2> QED BY <1>3, <1>4, FirstStep
<1>6. IsSeq(to(Len(path)))
  BY <1>1, <1>5
<1> QED BY <1>6, PathPrefixAll DEF to

\* The prefixes of a path.
LEMMA PrefixProperties ==
  ASSUME NEW path, IsSeq(path), NEW q \in Prefixes(path)
  PROVE  /\ IsSeq(q)
         /\ q # <<>> => Front(q) \in Prefixes(path)
<1>1. PICK n \in 0..Len(path) : q = SubSeq(path, 1, n)
  BY DEF Prefixes
<1>2. Len(path) \in Nat
  BY SeqLen
<1>3. IsSeq(q)
  BY <1>1, PathPrefix
<1>4. ASSUME q # <<>> PROVE Front(q) \in Prefixes(path)
  <2>1. n # 0
    BY <1>1, <1>4, PathPrefixAll
  <2>2. n \in 1..Len(path) /\ n - 1 \in 0..Len(path)
    BY <1>2, <2>1
  <2>3. Front(q) = SubSeq(path, 1, n - 1)
    BY <1>1, <2>2, PathPrefixFront
  <2> QED BY <2>2, <2>3 DEF Prefixes
<1> QED BY <1>3, <1>4

\* Making the directories of a path keeps the disk whole and adds directories.
LEMMA MakeDirsKeeps ==
  ASSUME NEW disk, DiskInv(disk), NEW path, IsSeq(path), ~Blocked(disk, path)
  PROVE  DiskInv(MakeDirs(disk, path))
<1> DEFINE P == Prefixes(path) \ {<<>>}
           made == {Where(disk, q) : q \in P}
           new == MakeDirs(disk, path)
<1>1. new = [at \in DOMAIN disk \cup made |-> IF at \in DOMAIN disk THEN disk[at] ELSE Dir]
  BY DEF MakeDirs
<1>2. ASSUME NEW q \in P
      PROVE  /\ IsSeq(q) /\ q # <<>> /\ IsSeq(Where(disk, q))
             /\ NodeAt(disk, Where(disk, q)).kind \in {"none", "dir"}
             /\ NodeAt(disk, Entry(disk, q)).kind = "symlink" => Where(disk, q) \in DOMAIN disk
             /\ Front(q) \in P \cup {<<>>}
  <2>1. IsSeq(q) /\ q # <<>> /\ Front(q) \in P \cup {<<>>}
    BY PrefixProperties
  <2>2. IsSeq(Where(disk, q))
    BY <2>1, WhereIsSeq
  <2>3. NodeAt(disk, Where(disk, q)).kind \in {"none", "dir", "file", "symlink"}
    BY NodeKinds
  <2>4. /\ NodeAt(disk, Where(disk, q)).kind \notin {"file", "symlink"}
        /\ NodeAt(disk, Entry(disk, q)).kind = "symlink" => Where(disk, q) \in DOMAIN disk
    BY DEF Blocked
  <2> QED BY <2>1, <2>2, <2>3, <2>4
<1>3. ASSUME NEW q \in P PROVE NodeAt(new, Where(disk, q)).kind = "dir"
  <2> DEFINE at == Where(disk, q)
  <2>1. NodeAt(disk, at).kind \in {"none", "dir"} /\ at \in made
    BY <1>2
  <2>2. at \in DOMAIN disk => disk[at].kind = "dir"
    BY <2>1, NodeKinds
  <2>3. NodeAt(new, at) = IF at \in DOMAIN disk THEN disk[at] ELSE Dir
    BY <1>1, <2>1 DEF NodeAt
  <2>4. Dir.kind = "dir"
    BY DEF Dir
  <2> HIDE DEF at
  <2>5. NodeAt(new, at).kind = "dir"
    BY <2>2, <2>3, <2>4
  <2> QED BY <2>5 DEF at
<1>4. ASSUME NEW at \in DOMAIN disk PROVE at \in DOMAIN new /\ new[at] = disk[at] /\ NodeAt(new, at) = disk[at]
  BY <1>1, <1>4 DEF NodeAt
<1>5. NodeAt(new, <<>>).kind = "dir" /\ <<>> \in DOMAIN new /\ new[<<>>].kind = "dir"
  BY <1>4 DEF DiskInv
<1>6. ASSUME NEW q \in P, Where(disk, q) \notin DOMAIN disk
      PROVE  NodeAt(new, Front(Where(disk, q))).kind = "dir"
  <2>1. Where(disk, q) = Follow(disk, Entry(disk, q))
    BY <1>2, WhereSplit
  <2>2. NodeAt(disk, Entry(disk, q)).kind # "symlink"
    BY <1>2, <1>6
  <2>3. Where(disk, q) = Append(Where(disk, Front(q)), Last(q))
    BY <2>1, <2>2, FollowStays DEF Entry
  <2>4. IsSeq(Front(q))
    BY <1>2, PathSplit
  <2>5. Front(Where(disk, q)) = Where(disk, Front(q))
    BY <2>3, <2>4, WhereIsSeq, PathAppend
  <2>6. CASE Front(q) = <<>>
    BY <1>5, <2>5, <2>6, WhereRoot
  <2>7. CASE Front(q) \in P
    BY <1>3, <2>5, <2>7
  <2> QED BY <1>2, <2>6, <2>7
<1>7. ASSUME NEW at \in DOMAIN new
      PROVE  /\ IsSeq(at) /\ new[at].kind \in {"dir", "file", "symlink"}
             /\ new[at].kind = "symlink" => IsSeq(new[at].to)
             /\ at # <<>> => NodeAt(new, Front(at)).kind = "dir"
  <2>1. CASE at \in DOMAIN disk
    <3>1. /\ IsSeq(at) /\ disk[at].kind \in {"dir", "file", "symlink"}
          /\ disk[at].kind = "symlink" => IsSeq(disk[at].to)
          /\ at # <<>> => NodeAt(disk, Front(at)).kind = "dir"
      BY <2>1 DEF DiskInv
    <3>2. NodeAt(disk, Front(at)).kind = "dir" => NodeAt(new, Front(at)).kind = "dir"
      BY <1>4 DEF NodeAt, None
    <3> QED BY <1>4, <2>1, <3>1, <3>2
  <2>2. CASE at \notin DOMAIN disk
    <3>1. PICK q \in P : at = Where(disk, q)
      BY <1>1, <1>7, <2>2
    <3>2. new[at] = Dir
      BY <1>1, <1>7, <2>2
    <3> HIDE DEF P
    <3>3. NodeAt(new, Front(at)).kind = "dir"
      BY <1>6, <2>2, <3>1
    <3> QED BY <1>2, <3>1, <3>2, <3>3 DEF Dir
  <2> QED BY <2>1, <2>2
<1>8. \A at \in BaseDirs : NodeAt(new, at).kind = "dir"
  <2>1. \A at \in BaseDirs : at \in DOMAIN disk /\ disk[at].kind = "dir"
    BY NodeKinds DEF DiskInv
  <2> HIDE DEF new
  <2> QED BY <1>4, <2>1
<1> HIDE DEF new
<1> QED BY <1>5, <1>7, <1>8 DEF DiskInv, new

\* A file or a link may be put where no directory is, in a directory.
LEMMA PutKeeps ==
  ASSUME NEW disk, DiskInv(disk), NEW at, IsSeq(at), at # <<>>,
         NodeAt(disk, Front(at)).kind = "dir", NodeAt(disk, at).kind # "dir",
         NEW node, node.kind \in {"file", "symlink"}, node.kind = "symlink" => IsSeq(node.to)
  PROVE  DiskInv(With(disk, at, node))
<1> DEFINE new == With(disk, at, node)
<1>1. new = [x \in DOMAIN disk \cup {at} |-> IF x = at THEN node ELSE disk[x]]
  BY DEF With
<1>2. ASSUME NEW x, NodeAt(disk, x).kind = "dir" PROVE NodeAt(new, x).kind = "dir"
  BY <1>1, <1>2 DEF NodeAt, None
<1>3. <<>> \in DOMAIN new /\ new[<<>>].kind = "dir"
  BY <1>1 DEF DiskInv
<1>4. ASSUME NEW x \in DOMAIN new
      PROVE  /\ IsSeq(x) /\ new[x].kind \in {"dir", "file", "symlink"}
             /\ new[x].kind = "symlink" => IsSeq(new[x].to)
             /\ x # <<>> => NodeAt(disk, Front(x)).kind = "dir"
  BY <1>1, <1>4 DEF DiskInv
<1> HIDE DEF new
<1>5. \A x \in BaseDirs : NodeAt(new, x).kind = "dir"
  BY <1>2 DEF DiskInv
<1> QED BY <1>2, <1>3, <1>4, <1>5 DEF DiskInv, new

\* Removing a link or a file keeps the disk whole.
LEMMA UnlinkKeeps ==
  ASSUME NEW disk, DiskInv(disk), NEW path PROVE DiskInv(Unlink(disk, path))
<1> DEFINE gone == Entry(disk, path)
           new == [x \in DOMAIN disk \ {gone} |-> disk[x]]
<1>1. CASE NodeAt(disk, gone).kind \in {"file", "symlink"}
  <2>1. Unlink(disk, path) = new
    BY <1>1 DEF Unlink, Without
  <2>2. ASSUME NEW x, NodeAt(disk, x).kind = "dir" PROVE x \in DOMAIN new /\ NodeAt(new, x).kind = "dir"
    <3>1. x # gone
      BY <1>1, <2>2
    <3> HIDE DEF gone
    <3> QED BY <2>2, <3>1 DEF NodeAt, None
  <2>3. NodeAt(disk, <<>>).kind = "dir"
    BY DEF NodeAt, DiskInv
  <2>4. <<>> \in DOMAIN new /\ new[<<>>].kind = "dir"
    BY <2>2, <2>3 DEF NodeAt
  <2>5. ASSUME NEW x \in DOMAIN new
        PROVE  /\ IsSeq(x) /\ new[x].kind \in {"dir", "file", "symlink"}
               /\ new[x].kind = "symlink" => IsSeq(new[x].to)
               /\ x # <<>> => NodeAt(disk, Front(x)).kind = "dir"
    BY <2>5 DEF DiskInv
  <2> HIDE DEF new
  <2>6. \A x \in BaseDirs : NodeAt(new, x).kind = "dir"
    BY <2>2 DEF DiskInv
  <2>7. DiskInv(new)
    BY <2>2, <2>4, <2>5, <2>6 DEF DiskInv
  <2> QED BY <2>1, <2>7
<1>2. CASE NodeAt(disk, gone).kind \notin {"file", "symlink"}
  BY <1>2 DEF Unlink
<1> QED BY <1>1, <1>2

\* Making a link keeps the disk whole.
LEMMA SymlinkKeeps ==
  ASSUME NEW disk, DiskInv(disk), NEW path, IsSeq(path), path # <<>>, NEW to, IsSeq(to)
  PROVE  DiskInv(Symlink(disk, path, to))
<1> DEFINE at == Entry(disk, path)
<1>1. CASE /\ host = "posix" /\ at \notin DOMAIN disk
           /\ NodeAt(disk, Where(disk, Front(path))).kind = "dir"
  <2>1. IsSeq(Where(disk, Front(path)))
    BY PathSplit, WhereIsSeq
  <2>2. IsSeq(at) /\ at # <<>> /\ Front(at) = Where(disk, Front(path))
    BY <2>1, PathAppend DEF Entry
  <2>3. NodeAt(disk, at).kind # "dir"
    BY <1>1, NodeKinds
  <2>4. LinkTo(to).kind = "symlink" /\ LinkTo(to).to = to
    BY DEF LinkTo
  <2>5. Symlink(disk, path, to) = With(disk, at, LinkTo(to))
    BY <1>1 DEF Symlink
  <2> HIDE DEF at
  <2>6. DiskInv(With(disk, at, LinkTo(to)))
    BY <1>1, <2>2, <2>3, <2>4, PutKeeps
  <2> QED BY <2>5, <2>6
<1>2. CASE ~(/\ host = "posix" /\ at \notin DOMAIN disk
             /\ NodeAt(disk, Where(disk, Front(path))).kind = "dir")
  BY <1>2 DEF Symlink
<1> QED BY <1>1, <1>2

\* A file is written where open() can write it.
LEMMA WrittenKeeps ==
  ASSUME NEW disk, DiskInv(disk), NEW path, IsSeq(path), Writable(disk, path), NEW by
  PROVE  DiskInv(With(disk, Where(disk, path), File(by)))
<1> DEFINE at == Where(disk, path)
<1>1. NodeAt(disk, at).kind \in {"none", "file"} /\ NodeAt(disk, Front(at)).kind = "dir"
  BY DEF Writable
<1>2. IsSeq(at)
  BY WhereIsSeq
<1>3. NodeAt(disk, <<>>).kind = "dir"
  BY DEF DiskInv, NodeAt
<1>4. at # <<>>
  BY <1>1, <1>3
<1>5. File(by).kind = "file"
  BY DEF File
<1> HIDE DEF at
<1>6. DiskInv(With(disk, at, File(by)))
  BY <1>1, <1>2, <1>4, <1>5, PutKeeps
<1> QED BY <1>6 DEF at

-----------------------------------------------------------------------------
(* The writers.                                                            *)

IsTree(tree) == tree = [disk |-> tree.disk, modes |-> tree.modes, links |-> tree.links,
                        extra |-> tree.extra, ok |-> tree.ok]

LinksInv(links) == \A at \in DOMAIN links : at # <<>> /\ links[at].kind \in {"symlink", "hardlink"}

TreeInv(tree) == IsTree(tree) /\ DiskInv(tree.disk) /\ LinksInv(tree.links)

\* The fields of a tree after one or several were replaced.
LEMMA TreeFields ==
  ASSUME NEW tree, IsTree(tree), NEW v
  PROVE  /\ DOMAIN tree = {"disk", "modes", "links", "extra", "ok"}
         /\ [tree EXCEPT !.disk = v] = [disk |-> v, modes |-> tree.modes, links |-> tree.links, extra |-> tree.extra, ok |-> tree.ok]
         /\ [tree EXCEPT !.ok = v] = [disk |-> tree.disk, modes |-> tree.modes, links |-> tree.links, extra |-> tree.extra, ok |-> v]
BY DEF IsTree

\* Recording modes and links keeps a tree whole.
LEMMA RecordKeeps ==
  ASSUME NEW tree, TreeInv(tree), NEW path, path # <<>>, NEW kind, NEW mode, NEW to
  PROVE  /\ TreeInv(Record(tree, path, kind, mode, to))
         /\ Record(tree, path, kind, mode, to).disk = tree.disk
<1> DEFINE new == Record(tree, path, kind, mode, to)
           links == IF kind \in {"symlink", "hardlink"}
                      THEN With(tree.links, path, [kind |-> kind, to |-> to]) ELSE tree.links
           modes == With(tree.modes, path, IF kind = "symlink" THEN "exec" ELSE mode)
<1>1. DOMAIN tree = {"disk", "modes", "links", "extra", "ok"}
  BY TreeFields DEF TreeInv
<1>2. new = [tree EXCEPT !.modes = modes, !.links = links]
  BY DEF Record
<1> HIDE DEF modes
<1>3. LinksInv(links)
  BY DEF LinksInv, With, TreeInv
<1> HIDE DEF links, new
<1>4. /\ DOMAIN new = {"disk", "modes", "links", "extra", "ok"}
      /\ new.disk = tree.disk /\ new.links = links
      /\ IsTree(new)
  BY <1>1, <1>2 DEF IsTree
<1> QED BY <1>3, <1>4 DEF TreeInv, new

\* A tree with another whole disk is whole.
LEMMA DiskChanges ==
  ASSUME NEW tree, TreeInv(tree), NEW disk, DiskInv(disk)
  PROVE  TreeInv([tree EXCEPT !.disk = disk]) /\ [tree EXCEPT !.disk = disk].disk = disk
BY TreeFields DEF TreeInv, IsTree

\* A tree on which a writer failed is whole.
LEMMA RaiseKeeps == ASSUME NEW tree, TreeInv(tree) PROVE TreeInv(Raise(tree))
BY TreeFields DEF TreeInv, IsTree, Raise

\* A directory of an archive.
LEMMA AddDirKeeps ==
  ASSUME NEW tree, TreeInv(tree), NEW path, IsSeq(path), path # <<>>, NEW mode
  PROVE  TreeInv(AddDir(tree, path, mode))
<1>1. CASE ~tree.ok \/ Blocked(tree.disk, path)
  BY <1>1, RaiseKeeps DEF AddDir
<1>2. CASE ~(~tree.ok \/ Blocked(tree.disk, path))
  <2> DEFINE made == [tree EXCEPT !.disk = MakeDirs(@, path)]
  <2>1. DiskInv(MakeDirs(tree.disk, path))
    BY <1>2, MakeDirsKeeps DEF TreeInv
  <2>2. TreeInv(made)
    BY <2>1, DiskChanges
  <2>3. AddDir(tree, path, mode) = Record(made, path, "dir", mode, <<>>)
    BY <1>2 DEF AddDir
  <2> HIDE DEF made
  <2> QED BY <2>2, <2>3, RecordKeeps
<1> QED BY <1>1, <1>2

\* A symbolic link of an archive.
LEMMA AddSymlinkKeeps ==
  ASSUME NEW tree, TreeInv(tree), NEW path, IsSeq(path), path # <<>>, NEW to, IsSeq(to)
  PROVE  TreeInv(AddSymlink(tree, path, to))
<1>1. CASE Blocked(tree.disk, Front(path))
  BY <1>1, RaiseKeeps DEF AddSymlink
<1>2. CASE ~Blocked(tree.disk, Front(path))
  <2> DEFINE bare == Unlink(MakeDirs(tree.disk, Front(path)), path)
             made == [tree EXCEPT !.disk = Symlink(Unlink(MakeDirs(@, Front(path)), path), path, to)]
  <2>1. DiskInv(bare)
    BY <1>2, PathSplit, MakeDirsKeeps, UnlinkKeeps DEF TreeInv
  <2> HIDE DEF bare
  <2>2. DiskInv(Symlink(bare, path, to))
    BY <2>1, SymlinkKeeps
  <2>3. TreeInv(made)
    BY <2>2, DiskChanges DEF bare
  <2>4. AddSymlink(tree, path, to) = Record(made, path, "symlink", "exec", to)
    BY <1>2 DEF AddSymlink
  <2> HIDE DEF made
  <2> QED BY <2>3, <2>4, RecordKeeps
<1> QED BY <1>1, <1>2

\* A file of an archive.
LEMMA AddFileKeeps ==
  ASSUME NEW tree, TreeInv(tree), NEW path, IsSeq(path), path # <<>>, NEW mode, NEW by
  PROVE  TreeInv(AddFile(tree, path, mode, by))
<1> DEFINE disk == MakeDirs(tree.disk, Front(path))
           noted == Record(tree, path, "file", mode, <<>>)
<1>1. CASE Blocked(tree.disk, Front(path))
  BY <1>1, RaiseKeeps DEF AddFile
<1>2. CASE ~Blocked(tree.disk, Front(path))
  <2>1. DiskInv(disk)
    BY <1>2, PathSplit, MakeDirsKeeps DEF TreeInv
  <2>2. TreeInv(noted)
    BY RecordKeeps
  <2> HIDE DEF noted
  <2>3. AddFile(tree, path, mode, by) =
          IF Writable(disk, path)
            THEN [noted EXCEPT !.disk = With(disk, Where(disk, path), File(by))]
            ELSE [noted EXCEPT !.disk = disk, !.extra = Append(@, [path |-> path, mode |-> mode, by |-> by])]
    BY <1>2 DEF AddFile, noted
  <2> HIDE DEF disk
  <2>4. CASE Writable(disk, path)
    <3>1. DiskInv(With(disk, Where(disk, path), File(by)))
      BY <2>1, <2>4, WrittenKeeps
    <3>2. AddFile(tree, path, mode, by) = [noted EXCEPT !.disk = With(disk, Where(disk, path), File(by))]
      BY <2>3, <2>4
    <3> QED BY <2>2, <3>1, <3>2, DiskChanges
  <2>5. CASE ~Writable(disk, path)
    <3> DEFINE e == [path |-> path, mode |-> mode, by |-> by]
               more == Append(noted.extra, e)
               new == [noted EXCEPT !.disk = disk, !.extra = more]
    <3>1. DOMAIN noted = {"disk", "modes", "links", "extra", "ok"}
      BY <2>2, TreeFields DEF TreeInv
    <3>2. AddFile(tree, path, mode, by) = new
      BY <2>3, <2>5
    <3>3. new = [noted EXCEPT !.disk = disk, !.extra = more]
      OBVIOUS
    <3> HIDE DEF e, more, new
    <3>4. /\ DOMAIN new = {"disk", "modes", "links", "extra", "ok"}
          /\ new.disk = disk /\ new.links = noted.links /\ IsTree(new)
      BY <3>1, <3>3 DEF IsTree
    <3> QED BY <2>1, <2>2, <3>2, <3>4 DEF TreeInv
  <2> QED BY <2>4, <2>5
<1> QED BY <1>1, <1>2

\* A text the builder writes.
LEMMA WriteTextKeeps ==
  ASSUME NEW tree, TreeInv(tree), NEW path, IsSeq(path), path # <<>>, NEW mode
  PROVE  TreeInv(WriteText(tree, path, mode))
<1> DEFINE disk == MakeDirs(tree.disk, Front(path))
           fails == ~tree.ok \/ Blocked(tree.disk, Front(path)) \/ ~Writable(disk, path)
           made == [tree EXCEPT !.disk = With(disk, Where(disk, path), File("buster"))]
<1>1. CASE fails
  BY <1>1, RaiseKeeps DEF WriteText
<1>2. CASE ~fails
  <2>1. DiskInv(disk)
    BY <1>2, PathSplit, MakeDirsKeeps DEF TreeInv
  <2>2. DiskInv(With(disk, Where(disk, path), File("buster")))
    <3>1. Writable(disk, path)
      BY <1>2
    <3> HIDE DEF disk
    <3> QED BY <2>1, <3>1, WrittenKeeps
  <2>3. TreeInv(made)
    BY <2>2, DiskChanges
  <2>4. WriteText(tree, path, mode) = Record(made, path, "file", mode, <<>>)
    BY <1>2 DEF WriteText
  <2> HIDE DEF made
  <2> QED BY <2>3, <2>4, RecordKeeps
<1> QED BY <1>1, <1>2

-----------------------------------------------------------------------------
(* Sequences and their elements.                                           *)

\* Two sequences, one after the other.
LEMMA JoinIsSeq ==
  ASSUME NEW a, NEW b, IsSeq(a), IsSeq(b)
  PROVE  /\ IsSeq(a \o b) /\ Len(a \o b) = Len(a) + Len(b)
         /\ \A i \in 1 .. Len(a) + Len(b) :
              (a \o b)[i] = IF i <= Len(a) THEN a[i] ELSE b[i - Len(a)]
<1> DEFINE S == ToSet(a) \cup ToSet(b)
<1>1. a \in Seq(S) /\ b \in Seq(S)
  <2>1. \A i \in 1..Len(a) : a[i] \in S
    BY DEF IsSeq, ToSet
  <2>2. \A i \in 1..Len(b) : b[i] \in S
    BY DEF IsSeq, ToSet
  <2>3. a \in Seq(ToSet(a)) /\ b \in Seq(ToSet(b))
    BY DEF IsSeq
  <2> HIDE DEF S
  <2>4. SubSeq(a, 1, Len(a)) \in Seq(S)
    BY <2>1, <2>3, LenProperties, SubSeqProperties
  <2>5. SubSeq(b, 1, Len(b)) \in Seq(S)
    BY <2>2, <2>3, LenProperties, SubSeqProperties
  <2> QED BY <2>3, <2>4, <2>5, SubSeqFull
<1> HIDE DEF S
<1>2. a \o b \in Seq(S) /\ Len(a \o b) = Len(a) + Len(b)
  BY <1>1, ConcatProperties
<1>3. \A i \in 1 .. Len(a) + Len(b) :
        (a \o b)[i] = IF i <= Len(a) THEN a[i] ELSE b[i - Len(a)]
  BY <1>1, ConcatProperties
<1> QED BY <1>2, <1>3, SeqIsSeq

\* A sequence of one element.
LEMMA TupleIsSeq == ASSUME NEW x PROVE IsSeq(<<x>>) /\ Len(<<x>>) = 1 /\ <<x>>[1] = x /\ ToSet(<<x>>) = {x}
<1>1. <<x>> \in Seq({x}) /\ Len(<<x>>) = 1 /\ <<x>>[1] = x
  OBVIOUS
<1>2. ToSet(<<x>>) = {x}
  BY DEF ToSet
<1> QED BY <1>1, <1>2, SeqIsSeq

\* What holds of the elements of a sequence holds at its positions.
LEMMA ElementAt == ASSUME NEW s, IsSeq(s), NEW i \in 1..Len(s) PROVE s[i] \in ToSet(s) /\ i \in DOMAIN s
<1>1. DOMAIN s = 1..Len(s)
  BY SeqLen
<1> QED BY <1>1 DEF ToSet

\* The elements of two sequences, one after the other.
LEMMA JoinElements ==
  ASSUME NEW a, NEW b, IsSeq(a), IsSeq(b) PROVE ToSet(a \o b) = ToSet(a) \cup ToSet(b)
<1> DEFINE c == a \o b
<1>1. /\ IsSeq(c) /\ Len(c) = Len(a) + Len(b)
      /\ \A i \in 1 .. Len(a) + Len(b) : c[i] = IF i <= Len(a) THEN a[i] ELSE b[i - Len(a)]
  BY JoinIsSeq
<1> HIDE DEF c
<1>2. /\ DOMAIN a = 1..Len(a) /\ DOMAIN b = 1..Len(b) /\ DOMAIN c = 1..Len(c)
      /\ Len(a) \in Nat /\ Len(b) \in Nat
  BY <1>1, SeqLen
<1>3. ASSUME NEW x \in ToSet(c) PROVE x \in ToSet(a) \cup ToSet(b)
  <2>1. PICK i \in 1..Len(c) : x = c[i]
    BY <1>2, <1>3 DEF ToSet
  <2>2. CASE i <= Len(a)
    <3>1. i \in DOMAIN a /\ x = a[i]
      BY <1>1, <1>2, <2>1, <2>2
    <3> QED BY <3>1 DEF ToSet
  <2>3. CASE ~(i <= Len(a))
    <3>1. i - Len(a) \in DOMAIN b /\ x = b[i - Len(a)]
      BY <1>1, <1>2, <2>1, <2>3
    <3> QED BY <3>1 DEF ToSet
  <2> QED BY <2>2, <2>3
<1>4. ASSUME NEW x \in ToSet(a) PROVE x \in ToSet(c)
  <2>1. PICK i \in 1..Len(a) : x = a[i]
    BY <1>2, <1>4 DEF ToSet
  <2>2. i \in DOMAIN c /\ x = c[i]
    BY <1>1, <1>2, <2>1
  <2> QED BY <2>2 DEF ToSet
<1>5. ASSUME NEW x \in ToSet(b) PROVE x \in ToSet(c)
  <2>1. PICK i \in 1..Len(b) : x = b[i]
    BY <1>2, <1>5 DEF ToSet
  <2>2. i + Len(a) \in 1 .. Len(a) + Len(b) /\ ~(i + Len(a) <= Len(a)) /\ i + Len(a) - Len(a) = i
    BY <1>2, <2>1
  <2>3. i + Len(a) \in DOMAIN c /\ x = c[i + Len(a)]
    BY <1>1, <1>2, <2>1, <2>2
  <2> QED BY <2>3 DEF ToSet
<1> QED BY <1>3, <1>4, <1>5 DEF c

-----------------------------------------------------------------------------
(* The loops of writers.                                                   *)

IsMember(m) ==
  /\ m.kind \in {"dir", "symlink", "hardlink", "file"}
  /\ IsSeq(m.name) /\ m.name # <<>> /\ IsSeq(m.to)

\* A normalized name is a path.
LEMMA NormalizeIsPath ==
  ASSUME NEW path, IsSeq(path), path # <<>>
  PROVE  IsSeq(Normalize(path)) /\ Normalize(path) # <<>>
<1>1. IsSeq(<<"usr">> \o path) /\ Len(<<"usr">> \o path) = 1 + Len(path) /\ Len(path) \in Nat
  BY TupleIsSeq, JoinIsSeq, SeqLen
<1>2. <<"usr">> \o path # <<>>
  BY <1>1
<1> QED BY <1>1, <1>2 DEF Normalize

\* One member of an archive, of any kind.
LEMMA InstallKeeps ==
  ASSUME NEW tree, TreeInv(tree), NEW m, IsMember(m), NEW by PROVE TreeInv(Install(tree, m, by))
<1> DEFINE path == Normalize(m.name)
<1>1. IsSeq(path) /\ path # <<>>
  BY NormalizeIsPath DEF IsMember
<1> HIDE DEF path
<1>2. /\ TreeInv(AddDir(tree, path, m.mode)) /\ TreeInv(AddSymlink(tree, path, m.to))
      /\ TreeInv(Record(tree, path, "hardlink", "exec", m.to))
      /\ TreeInv(AddFile(tree, path, m.mode, by))
  BY <1>1, AddDirKeeps, AddSymlinkKeeps, RecordKeeps, AddFileKeeps DEF IsMember
<1>3. m.kind \in {"dir", "symlink", "hardlink", "file"}
  BY DEF IsMember
<1>4. Install(tree, m, by) \in
        {tree, AddDir(tree, path, m.mode), AddSymlink(tree, path, m.to),
         Record(tree, path, "hardlink", "exec", m.to), AddFile(tree, path, m.mode, by)}
  BY <1>3 DEF Install, path
<1> QED BY <1>2, <1>4

Installs(tree, members, by, after) ==
  after[0] = tree /\ \A n \in 1..Len(members) : after[n] = Install(after[n - 1], members[n], by)

\* Installing the members of a package is a loop over them.
LEMMA PayloadLoop ==
  ASSUME NEW tree, NEW members, IsSeq(members), NEW by
  PROVE  \E after : /\ Installs(tree, members, by, after)
                    /\ InstallPayload(tree, members, by) = after[Len(members)]
<1> DEFINE Fits(m, f) == f = [n \in 0..m |-> IF n = 0 THEN tree ELSE Install(f[n - 1], members[n], by)]
           bad == {m \in Nat : ~(\E f : Fits(m, f))}
<1>1. 0 \notin bad
  <2>1. Fits(0, [n \in 0..0 |-> tree])
    OBVIOUS
  <2> QED BY <2>1
<1>2. ASSUME NEW m \in Nat, m # 0, m - 1 \in Nat, m - 1 \notin bad PROVE m \notin bad
  <2>1. PICK f : Fits(m - 1, f)
    BY <1>2
  <2>2. Fits(m, [n \in 0..m |-> IF n = m THEN Install(f[m - 1], members[m], by) ELSE f[n]])
    BY <1>2, <2>1
  <2> QED BY <2>2
<1>3. bad = {}
  <2>1. bad \in SUBSET Nat
    OBVIOUS
  <2> HIDE DEF bad
  <2> QED BY <1>1, <1>2, <2>1, FirstStep
<1>4. Len(members) \in Nat
  BY SeqLen
<1> DEFINE N == Len(members)
           after == CHOOSE f : Fits(N, f)
<1>5. Fits(N, after)
  BY <1>3, <1>4
<1>6. InstallPayload(tree, members, by) = after[N]
  BY DEF InstallPayload
<1> HIDE DEF after
<1>7. after[0] = tree /\ \A n \in 1..N : after[n] = Install(after[n - 1], members[n], by)
  BY <1>4, <1>5
<1> QED BY <1>6, <1>7 DEF Installs

\* All members of an archive: the loop of install_payload.
LEMMA PayloadKeeps ==
  ASSUME NEW tree, TreeInv(tree), NEW members, IsSeq(members),
         \A m \in ToSet(members) : IsMember(m), NEW by
  PROVE  TreeInv(InstallPayload(tree, members, by))
<1>1. PICK after : /\ Installs(tree, members, by, after)
                   /\ InstallPayload(tree, members, by) = after[Len(members)]
  BY PayloadLoop
<1> DEFINE N == Len(members)
<1>2. N \in Nat
  BY SeqLen
<1> DEFINE broken == {n \in 0..N : ~TreeInv(after[n])}
<1>3. broken \in SUBSET Nat /\ 0 \notin broken
  BY <1>1, <1>2 DEF Installs
<1>4. ASSUME NEW n \in Nat, n # 0, n - 1 \notin broken, n \in broken PROVE FALSE
  <2>1. n \in 1..N /\ n - 1 \in 0..N
    BY <1>2, <1>4
  <2>2. TreeInv(after[n - 1])
    BY <1>4, <2>1
  <2>3. IsMember(members[n])
    BY <2>1, ElementAt
  <2>4. TreeInv(after[n])
    BY <1>1, <2>1, <2>2, <2>3, InstallKeeps DEF Installs
  <2> QED BY <1>4, <2>4
<1>5. broken = {}
  <2> HIDE DEF broken
  <2> QED BY <1>3, <1>4, FirstStep
<1>6. TreeInv(after[N])
  BY <1>2, <1>5
<1> QED BY <1>1, <1>6

\* Writing texts is a loop over them.
LEMMA WriteAllLoop ==
  ASSUME NEW tree, NEW files, IsSeq(files)
  PROVE  \E after : /\ after[0] = tree
                    /\ \A n \in 1..Len(files) :
                         after[n] = WriteText(after[n - 1], files[n].path, files[n].mode)
                    /\ WriteAll(tree, files) = after[Len(files)]
<1> DEFINE Fits(m, f) ==
             f = [n \in 0..m |-> IF n = 0 THEN tree ELSE WriteText(f[n - 1], files[n].path, files[n].mode)]
           bad == {m \in Nat : ~(\E f : Fits(m, f))}
<1>1. 0 \notin bad
  <2>1. Fits(0, [n \in 0..0 |-> tree])
    OBVIOUS
  <2> QED BY <2>1
<1>2. ASSUME NEW m \in Nat, m # 0, m - 1 \in Nat, m - 1 \notin bad PROVE m \notin bad
  <2>1. PICK f : Fits(m - 1, f)
    BY <1>2
  <2>2. Fits(m, [n \in 0..m |->
                   IF n = m THEN WriteText(f[m - 1], files[m].path, files[m].mode) ELSE f[n]])
    BY <1>2, <2>1
  <2> QED BY <2>2
<1>3. bad = {}
  <2>1. bad \in SUBSET Nat
    OBVIOUS
  <2> HIDE DEF bad
  <2> QED BY <1>1, <1>2, <2>1, FirstStep
<1>4. Len(files) \in Nat
  BY SeqLen
<1> DEFINE N == Len(files)
           after == CHOOSE f : Fits(N, f)
<1>5. Fits(N, after)
  BY <1>3, <1>4
<1>6. WriteAll(tree, files) = after[N]
  BY DEF WriteAll
<1> HIDE DEF after
<1>7. after[0] = tree
      /\ \A n \in 1..N : after[n] = WriteText(after[n - 1], files[n].path, files[n].mode)
  BY <1>4, <1>5
<1> QED BY <1>6, <1>7

\* A list of texts: the loop over base or layer files.
LEMMA WriteAllKeeps ==
  ASSUME NEW tree, TreeInv(tree), NEW files, IsSeq(files),
         \A f \in ToSet(files) : IsSeq(f.path) /\ f.path # <<>>
  PROVE  TreeInv(WriteAll(tree, files))
<1> DEFINE N == Len(files)
<1>1. PICK after : /\ after[0] = tree
                   /\ \A n \in 1..N : after[n] = WriteText(after[n - 1], files[n].path, files[n].mode)
                   /\ WriteAll(tree, files) = after[N]
  BY WriteAllLoop
<1>2. N \in Nat
  BY SeqLen
<1> DEFINE broken == {n \in 0..N : ~TreeInv(after[n])}
<1>3. broken \in SUBSET Nat /\ 0 \notin broken
  BY <1>1, <1>2
<1>4. ASSUME NEW n \in Nat, n # 0, n - 1 \notin broken, n \in broken PROVE FALSE
  <2>1. n \in 1..N /\ n - 1 \in 0..N
    BY <1>2, <1>4
  <2>2. TreeInv(after[n - 1])
    BY <1>4, <2>1
  <2>3. IsSeq(files[n].path) /\ files[n].path # <<>>
    BY <2>1, ElementAt
  <2>4. TreeInv(after[n])
    BY <1>1, <2>1, <2>2, <2>3, WriteTextKeeps
  <2> QED BY <1>4, <2>4
<1>5. broken = {}
  <2> HIDE DEF broken
  <2> QED BY <1>3, <1>4, FirstStep
<1>6. TreeInv(after[N])
  BY <1>2, <1>5
<1> QED BY <1>1, <1>6

\* A list of directories: the loop over the dpkg schema.
LEMMA DirectoriesKeep ==
  ASSUME NEW tree, TreeInv(tree), NEW dirs, IsSeq(dirs), \A at \in ToSet(dirs) : IsSeq(at) /\ at # <<>>,
         NEW made, made = [n \in 0..Len(dirs) |-> IF n = 0 THEN tree ELSE AddDir(made[n - 1], dirs[n], "exec")]
  PROVE  TreeInv(made[Len(dirs)])
<1> DEFINE N == Len(dirs)
           broken == {n \in 0..N : ~TreeInv(made[n])}
<1>1. N \in Nat
  BY SeqLen
<1>2. made[0] = tree /\ \A n \in 1..N : made[n] = AddDir(made[n - 1], dirs[n], "exec")
  BY <1>1
<1>3. broken \in SUBSET Nat /\ 0 \notin broken
  BY <1>1, <1>2
<1>4. ASSUME NEW n \in Nat, n # 0, n - 1 \notin broken, n \in broken PROVE FALSE
  <2>1. n \in 1..N /\ n - 1 \in 0..N
    BY <1>1, <1>4
  <2>2. TreeInv(made[n - 1])
    BY <1>4, <2>1
  <2>3. IsSeq(dirs[n]) /\ dirs[n] # <<>>
    BY <2>1, ElementAt
  <2>4. TreeInv(made[n])
    BY <1>2, <2>1, <2>2, <2>3, AddDirKeeps
  <2> QED BY <1>4, <2>4
<1>5. broken = {}
  <2> HIDE DEF broken
  <2> QED BY <1>3, <1>4, FirstStep
<1> QED BY <1>1, <1>5

Path(at) == IsSeq(at) /\ at # <<>> /\ at[1] \notin Alias
Paths(files) == IsSeq(files) /\ \A at \in ToSet(files) : Path(at)

\* Two lists of paths, one after the other.
LEMMA PathsJoin == ASSUME NEW a, NEW b, Paths(a), Paths(b) PROVE Paths(a \o b)
BY JoinIsSeq, JoinElements DEF Paths

\* A name below a path.
LEMMA BelowIsPath ==
  ASSUME NEW at, Path(at), NEW rest, IsSeq(rest), rest # <<>> PROVE Path(at \o rest)
<1>1. /\ IsSeq(at \o rest) /\ Len(at \o rest) = Len(at) + Len(rest)
      /\ \A i \in 1 .. Len(at) + Len(rest) : (at \o rest)[i] = IF i <= Len(at) THEN at[i] ELSE rest[i - Len(at)]
  BY JoinIsSeq DEF Path
<1>2. Len(rest) \in Nat \ {0} /\ Len(at) \in Nat \ {0}
  BY PathSplit DEF Path
<1>3. at \o rest # <<>>
  BY <1>1, <1>2
<1>4. (at \o rest)[1] = at[1]
  BY <1>1, <1>2
<1> QED BY <1>1, <1>3, <1>4 DEF Path

\* The files of the dpkg database have paths.
LEMMA DatabaseIsPath ==
  Path(Database) /\ \A name : Path(Database \o <<name>>) /\ Path(Database \o <<"info", name>>)
<1>1. Path(Database)
  <2>1. Database \in Seq({"var", "lib", "dpkg"}) /\ Database # <<>> /\ Database[1] = "var"
    BY DEF Database
  <2> QED BY <2>1, SeqIsSeq, RootfsAssumption DEF Path
<1>2. ASSUME NEW name PROVE Path(Database \o <<name>>)
  <2>1. <<name>> # <<>>
    OBVIOUS
  <2> QED BY <1>1, <2>1, TupleIsSeq, BelowIsPath
<1>3. ASSUME NEW name PROVE Path(Database \o <<"info", name>>)
  <2>1. <<"info", name>> \in Seq({"info", name}) /\ <<"info", name>> # <<>>
    OBVIOUS
  <2>2. IsSeq(<<"info", name>>)
    BY <2>1, SeqIsSeq
  <2> QED BY <1>1, <2>1, <2>2, BelowIsPath
<1> QED BY <1>1, <1>2, <1>3

\* A sequence of paths, made one by one.
LEMMA PathsMapped ==
  ASSUME NEW n \in Nat, NEW s, s = [i \in DOMAIN s |-> s[i]], DOMAIN s = 1..n,
         \A i \in 1..n : Path(s[i])
  PROVE  Paths(s)
<1>1. IsSeq(s)
  BY FunctionIsSeq
<1> QED BY <1>1 DEF Paths, ToSet

\* A selection of a list of paths.
LEMMA PathsTaken == ASSUME NEW s, Paths(s), NEW P \in SUBSET DOMAIN s PROVE Paths(Those(s, P))
<1>1. P \in SUBSET Nat /\ IsFiniteSet(P)
  BY PositionsFinite DEF Paths
<1> DEFINE t == Those(s, P)
           n == Cardinality(P)
<1>2. IsSeq(t) /\ DOMAIN t = 1..n /\ \A i \in 1..n : \E k \in P : t[i] = s[k]
  BY <1>1, ThoseProperties
<1> HIDE DEF t, n
<1>3. \A k \in P : s[k] \in ToSet(s)
  BY DEF ToSet
<1>4. \A i \in 1..n : Path(t[i])
  BY <1>2, <1>3 DEF Paths
<1> QED BY <1>2, <1>4 DEF Paths, ToSet, t

\* What write_dpkg_state writes is a list of paths.
LEMMA DpkgFilesArePaths ==
  ASSUME NEW disk, NEW packages, IsSeq(packages), NEW contents
  PROVE  Paths(DpkgFiles(disk, packages, contents))
<1> DEFINE at(name) == Database \o <<name>>
           info(name) == Database \o <<"info", name>>
           own == <<at("diversions"), at("statoverride")>>
           kept == Those(own, {i \in DOMAIN own : Entry(disk, own[i]) \notin DOMAIN disk})
           lists == [i \in DOMAIN packages |-> info(packages[i] \o ".list")]
           with == Those(packages, {i \in DOMAIN packages : contents[packages[i]].conffiles})
           confs == [i \in DOMAIN with |-> info(with[i] \o ".conffiles")]
<1>1. /\ \A name : Path(at(name))
      /\ \A name : Path(info(name))
  BY DatabaseIsPath
<1>2. DpkgFiles(disk, packages, contents) =
        (<<at("arch")>> \o (((kept \o <<at("status")>>) \o lists) \o confs))
  BY DEF DpkgFiles
<1> HIDE DEF at, info
<1>3. Paths(<<at("arch")>>) /\ Paths(<<at("status")>>)
  BY <1>1, TupleIsSeq DEF Paths
<1>4. Paths(kept)
  <2>1. DOMAIN own = 1..2 /\ own = [i \in DOMAIN own |-> own[i]]
        /\ \A i \in 1..2 : own[i] = at("diversions") \/ own[i] = at("statoverride")
    OBVIOUS
  <2> HIDE DEF own
  <2>2. Paths(own)
    BY <1>1, <2>1, PathsMapped
  <2> QED BY <2>2, PathsTaken
<1>5. Paths(lists)
  <2>1. DOMAIN packages = 1..Len(packages) /\ Len(packages) \in Nat
    BY SeqLen
  <2>2. /\ DOMAIN lists = 1..Len(packages) /\ lists = [i \in DOMAIN lists |-> lists[i]]
        /\ \A i \in 1..Len(packages) : lists[i] = info(packages[i] \o ".list")
    BY <2>1
  <2> HIDE DEF lists
  <2>3. \A i \in 1..Len(packages) : Path(lists[i])
    BY <1>1, <2>2
  <2> QED BY <2>1, <2>2, <2>3, PathsMapped
<1>6. Paths(confs)
  <2> DEFINE P == {i \in DOMAIN packages : contents[packages[i]].conffiles}
             n == Cardinality(P)
  <2>1. P \in SUBSET Nat /\ IsFiniteSet(P)
    BY PositionsFinite
  <2>2. n \in Nat /\ DOMAIN with = 1..n
    BY <2>1, ThoseProperties
  <2> HIDE DEF P, n, with
  <2>3. /\ DOMAIN confs = 1..n /\ confs = [i \in DOMAIN confs |-> confs[i]]
        /\ \A i \in 1..n : confs[i] = info(with[i] \o ".conffiles")
    BY <2>2
  <2> HIDE DEF confs
  <2>4. \A i \in 1..n : Path(confs[i])
    BY <1>1, <2>3
  <2> QED BY <2>2, <2>3, <2>4, PathsMapped
<1> HIDE DEF own, kept, lists, with, confs
<1> QED BY <1>2, <1>3, <1>4, <1>5, <1>6, PathsJoin

\* The loop over the directories of the dpkg schema exists.
LEMMA DirsLoop ==
  ASSUME NEW tree
  PROVE  \E made : made = [n \in 0..Len(DpkgDirs) |-> IF n = 0 THEN tree ELSE AddDir(made[n - 1], DpkgDirs[n], "exec")]
<1> DEFINE Fits(m, f) == f = [n \in 0..m |-> IF n = 0 THEN tree ELSE AddDir(f[n - 1], DpkgDirs[n], "exec")]
           bad == {m \in Nat : ~(\E f : Fits(m, f))}
<1>1. 0 \notin bad
  <2>1. Fits(0, [n \in 0..0 |-> tree])
    OBVIOUS
  <2> QED BY <2>1
<1>2. ASSUME NEW m \in Nat, m # 0, m - 1 \in Nat, m - 1 \notin bad PROVE m \notin bad
  <2>1. PICK f : Fits(m - 1, f)
    BY <1>2
  <2>2. Fits(m, [n \in 0..m |-> IF n = m THEN AddDir(f[m - 1], DpkgDirs[m], "exec") ELSE f[n]])
    BY <1>2, <2>1
  <2> QED BY <2>2
<1>3. bad = {}
  <2>1. bad \in SUBSET Nat
    OBVIOUS
  <2> HIDE DEF bad
  <2> QED BY <1>1, <1>2, <2>1, FirstStep
<1>4. Len(DpkgDirs) \in Nat
  BY RootfsAssumption, SeqLen
<1> QED BY <1>3, <1>4

\* The files of the package manager, as they are written.
DpkgTexts(disk, packages, contents) ==
  LET paths == DpkgFiles(disk, packages, contents) IN [i \in DOMAIN paths |-> [path |-> paths[i], mode |-> "data"]]

\* The dpkg database is its directories, then its texts.
LEMMA DpkgSteps ==
  ASSUME NEW tree, NEW packages, NEW contents
  PROVE  \E made : /\ made = [n \in 0..Len(DpkgDirs) |-> IF n = 0 THEN tree ELSE AddDir(made[n - 1], DpkgDirs[n], "exec")]
                   /\ WriteDpkg(tree, packages, contents) =
                        WriteAll(made[Len(DpkgDirs)], DpkgTexts(tree.disk, packages, contents))
<1> DEFINE Fits(f) == f = [n \in 0..Len(DpkgDirs) |-> IF n = 0 THEN tree ELSE AddDir(f[n - 1], DpkgDirs[n], "exec")]
           made == CHOOSE f : Fits(f)
<1>1. Fits(made)
  BY DirsLoop
<1>2. WriteDpkg(tree, packages, contents) =
        WriteAll(made[Len(DpkgDirs)], DpkgTexts(tree.disk, packages, contents))
  BY DEF WriteDpkg, DpkgTexts
<1> HIDE DEF made
<1> QED BY <1>1, <1>2

\* The texts of the dpkg database stand at its files.
LEMMA DpkgTextsArePaths ==
  ASSUME NEW disk, NEW packages, IsSeq(packages), NEW contents
  PROVE  LET files == DpkgTexts(disk, packages, contents) IN
         /\ IsSeq(files)
         /\ \A f \in ToSet(files) : Path(f.path) /\ f.path \in ToSet(DpkgFiles(disk, packages, contents))
<1> DEFINE paths == DpkgFiles(disk, packages, contents)
           files == [i \in DOMAIN paths |-> [path |-> paths[i], mode |-> "data"]]
<1>1. Paths(paths)
  BY DpkgFilesArePaths
<1>0. DpkgTexts(disk, packages, contents) = files
  BY DEF DpkgTexts
<1> HIDE DEF paths
<1>2. DOMAIN paths = 1..Len(paths) /\ Len(paths) \in Nat
  BY <1>1, SeqLen DEF Paths
<1>3. DOMAIN files = 1..Len(paths) /\ files = [i \in DOMAIN files |-> files[i]]
      /\ \A i \in 1..Len(paths) : files[i].path = paths[i]
  BY <1>2
<1> HIDE DEF files
<1>4. \A i \in 1..Len(paths) : Path(paths[i]) /\ paths[i] \in ToSet(paths)
  BY <1>1, ElementAt DEF Paths
<1>5. IsSeq(files) /\ \A f \in ToSet(files) : Path(f.path) /\ f.path \in ToSet(paths)
  BY <1>2, <1>3, <1>4, FunctionIsSeq DEF ToSet
<1> QED BY <1>0, <1>5 DEF paths

\* The dpkg database keeps a tree whole.
LEMMA DpkgKeeps ==
  ASSUME NEW tree, TreeInv(tree), NEW packages, IsSeq(packages), NEW contents
  PROVE  TreeInv(WriteDpkg(tree, packages, contents))
<1> DEFINE files == DpkgTexts(tree.disk, packages, contents)
<1>1. PICK made : /\ made = [n \in 0..Len(DpkgDirs) |-> IF n = 0 THEN tree ELSE AddDir(made[n - 1], DpkgDirs[n], "exec")]
                  /\ WriteDpkg(tree, packages, contents) = WriteAll(made[Len(DpkgDirs)], files)
  BY DpkgSteps
<1>2. IsSeq(DpkgDirs) /\ (\A at \in ToSet(DpkgDirs) : IsSeq(at) /\ at # <<>>)
  BY RootfsAssumption
<1>3. TreeInv(made[Len(DpkgDirs)])
  BY <1>1, <1>2, DirectoriesKeep
<1>4. IsSeq(files) /\ \A f \in ToSet(files) : IsSeq(f.path) /\ f.path # <<>>
  BY DpkgTextsArePaths DEF Path
<1> HIDE DEF files
<1> QED BY <1>1, <1>3, <1>4, WriteAllKeeps

\* os-release keeps a tree whole.
LEMMA ReleaseKeeps == ASSUME NEW tree, TreeInv(tree) PROVE TreeInv(WriteRelease(tree))
<1> DEFINE one == WriteText(tree, Release, "data")
           bare == Unlink(one.disk, EtcRelease)
           linked == Symlink(bare, EtcRelease, Release)
<1>1. /\ IsSeq(Release) /\ Release # <<>> /\ IsSeq(EtcRelease) /\ EtcRelease # <<>>
  <2>1. Release \in Seq({"usr", "lib", "os-release"}) /\ EtcRelease \in Seq({"etc", "os-release"})
        /\ Release # <<>> /\ EtcRelease # <<>>
    BY DEF Release, EtcRelease
  <2> QED BY <2>1, SeqIsSeq
<1>2. TreeInv(one)
  BY <1>1, WriteTextKeeps
<1> HIDE DEF one
<1>3. DiskInv(bare)
  BY <1>2, UnlinkKeeps DEF TreeInv
<1> HIDE DEF bare
<1>4. DiskInv(linked)
  BY <1>1, <1>3, SymlinkKeeps
<1>5. WriteRelease(tree) =
        IF ~one.ok THEN one
        ELSE IF linked # bare
          THEN Record([one EXCEPT !.disk = linked], EtcRelease, "symlink", "exec", Release)
        ELSE WriteText([one EXCEPT !.disk = bare], EtcRelease, "data")
  BY DEF WriteRelease, one, bare
<1> HIDE DEF linked
<1>6. TreeInv([one EXCEPT !.disk = linked]) /\ TreeInv([one EXCEPT !.disk = bare])
  BY <1>2, <1>3, <1>4, DiskChanges
<1>7. TreeInv(Record([one EXCEPT !.disk = linked], EtcRelease, "symlink", "exec", Release))
  BY <1>1, <1>6, RecordKeeps
<1>8. TreeInv(WriteText([one EXCEPT !.disk = bare], EtcRelease, "data"))
  BY <1>1, <1>6, WriteTextKeeps
<1> QED BY <1>2, <1>5, <1>7, <1>8

\* The Buster layer keeps a tree whole.
LEMMA SystemKeeps == ASSUME NEW tree, TreeInv(tree) PROVE TreeInv(WriteSystem(tree))
<1>1. \A files \in {BaseFiles, LayerFiles} :
        IsSeq(files) /\ \A f \in ToSet(files) : IsSeq(f.path) /\ f.path # <<>>
  BY RootfsAssumption
<1>2. TreeInv(WriteAll(tree, BaseFiles))
  BY <1>1, WriteAllKeeps
<1>3. TreeInv(WriteRelease(WriteAll(tree, BaseFiles)))
  BY <1>2, ReleaseKeeps
<1> QED BY <1>1, <1>3, WriteAllKeeps DEF WriteSystem

\* The empty layout is whole.
LEMMA LayoutHolds == TreeInv(Layout)
<1> DEFINE dirs == BaseDirs \cup {<<>>}
           merged == {<<name>> : name \in Alias}
           disk == [at \in dirs \cup merged |->
                      IF at \in dirs \/ host # "posix" THEN Dir ELSE LinkTo(<<"usr">> \o at)]
           links == [at \in merged |-> [kind |-> "symlink", to |-> <<"usr">> \o at]]
<1>1. \A at \in dirs : disk[at] = Dir
  OBVIOUS
<1>2. ASSUME NEW at \in merged PROVE IsSeq(at) /\ at # <<>> /\ Front(at) = <<>> /\ IsSeq(<<"usr">> \o at)
  <2>1. PICK name \in Alias : at = <<name>>
    OBVIOUS
  <2>2. Append(<<>>, name) = <<name>>
    OBVIOUS
  <2>3. IsSeq(at) /\ at # <<>> /\ Front(at) = <<>>
    BY <2>1, <2>2, EmptyIsSeq, PathAppend
  <2> QED BY <2>3, TupleIsSeq, JoinIsSeq
<1>3. ASSUME NEW at \in BaseDirs, at # <<>> PROVE IsSeq(at) /\ Front(at) \in dirs
  <2>1. IsSeq(at) /\ Prefixes(at) \ {<<>>} \subseteq BaseDirs
    BY RootfsAssumption
  <2>2. Len(at) - 1 \in 0..Len(at)
    BY <1>3, <2>1, PathSplit
  <2>3. Front(at) \in Prefixes(at)
    BY <2>2 DEF Prefixes, Front
  <2> QED BY <2>1, <2>3
<1>4. ASSUME NEW at \in DOMAIN disk
      PROVE  /\ IsSeq(at) /\ disk[at].kind \in {"dir", "file", "symlink"}
             /\ disk[at].kind = "symlink" => IsSeq(disk[at].to)
             /\ at # <<>> => Front(at) \in dirs
  <2>1. CASE at \in dirs
    BY <1>1, <1>3, <2>1, EmptyIsSeq DEF Dir
  <2>2. CASE at \notin dirs
    <3>1. at \in merged /\ (disk[at] = Dir \/ disk[at] = LinkTo(<<"usr">> \o at))
      BY <1>4, <2>2
    <3>2. IsSeq(at) /\ at # <<>> /\ Front(at) = <<>> /\ IsSeq(<<"usr">> \o at)
      BY <1>2, <3>1
    <3>3. /\ Dir.kind = "dir" /\ LinkTo(<<"usr">> \o at).kind = "symlink"
          /\ LinkTo(<<"usr">> \o at).to = <<"usr">> \o at
      BY DEF Dir, LinkTo
    <3>4. Front(at) \in dirs
      BY <3>2
    <3> DEFINE node == disk[at]
    <3>5. node = Dir \/ node = LinkTo(<<"usr">> \o at)
      BY <3>1
    <3> HIDE DEF node
    <3>6. node.kind \in {"dir", "symlink"} /\ (node.kind = "symlink" => IsSeq(node.to))
      BY <3>2, <3>3, <3>5
    <3> QED BY <3>2, <3>4, <3>6 DEF node
  <2> QED BY <2>1, <2>2
<1>5. \A at \in dirs : at \in DOMAIN disk /\ NodeAt(disk, at).kind = "dir" /\ disk[at].kind = "dir"
  BY <1>1 DEF NodeAt, Dir
<1>6. <<>> \in dirs /\ BaseDirs \subseteq dirs
  OBVIOUS
<1>7. LinksInv(links)
  BY <1>2 DEF LinksInv
<1>8. Layout = [disk |-> disk, modes |-> [at \in BaseDirs \cup merged |-> "exec"],
                links |-> links, extra |-> <<>>, ok |-> TRUE]
  BY DEF Layout
<1> HIDE DEF dirs, disk, links, merged
<1>9. DiskInv(disk)
  BY <1>4, <1>5, <1>6 DEF DiskInv
<1> QED BY <1>7, <1>8, <1>9 DEF TreeInv, IsTree

-----------------------------------------------------------------------------
(* Versions as they are written, and the candidate for a name.             *)

\* The loop of FlattenSeq.
FlattenLoop(seqs, f) == f = [i \in 1..Len(seqs) |-> IF i = 1 THEN seqs[i] ELSE f[i - 1] \o seqs[i]]

\* Flattening a sequence of texts is a loop over its positions.
LEMMA FlattenLoops ==
  ASSUME NEW seqs, IsSeq(seqs), Len(seqs) # 0
  PROVE  \E f : FlattenLoop(seqs, f) /\ FlattenSeq(seqs) = f[Len(seqs)]
<1> DEFINE Fits(m, f) == f = [i \in 1..m |-> IF i = 1 THEN seqs[i] ELSE f[i - 1] \o seqs[i]]
           bad == {m \in Nat : ~(\E f : Fits(m, f))}
<1>1. 0 \notin bad
  <2>1. Fits(0, [i \in 1..0 |-> 0])
    OBVIOUS
  <2> QED BY <2>1
<1>2. ASSUME NEW m \in Nat, m # 0, m - 1 \in Nat, m - 1 \notin bad PROVE m \notin bad
  <2>1. PICK f : Fits(m - 1, f)
    BY <1>2
  <2> DEFINE g == [i \in 1..m |-> IF i = m THEN (IF m = 1 THEN seqs[m] ELSE f[m - 1] \o seqs[m]) ELSE f[i]]
  <2>2. ASSUME NEW i \in 1..m PROVE g[i] = IF i = 1 THEN seqs[i] ELSE g[i - 1] \o seqs[i]
    <3>1. CASE i = m
      <4>1. CASE m = 1
        BY <3>1, <4>1
      <4>2. CASE m # 1
        <5>1. m - 1 \in 1..m /\ m - 1 # m /\ m \in 1..m
          BY <1>2, <4>2
        <5>2. g[m - 1] = f[m - 1] /\ g[m] = f[m - 1] \o seqs[m]
          BY <1>2, <4>2, <5>1
        <5> QED BY <3>1, <4>2, <5>2
      <4> QED BY <4>1, <4>2
    <3>2. CASE i # m
      <4>1. i \in 1 .. m - 1 /\ g[i] = f[i]
        BY <1>2, <3>2
      <4>2. f[i] = IF i = 1 THEN seqs[i] ELSE f[i - 1] \o seqs[i]
        BY <2>1, <4>1
      <4>3. CASE i = 1
        BY <4>1, <4>2, <4>3
      <4>4. CASE i # 1
        <5>1. i - 1 \in 1..m /\ i - 1 # m
          BY <1>2, <4>1, <4>4
        <5>2. g[i - 1] = f[i - 1]
          BY <5>1
        <5> QED BY <4>1, <4>2, <4>4, <5>2
      <4> QED BY <4>3, <4>4
    <3> QED BY <3>1, <3>2
  <2>3. g = [i \in 1..m |-> g[i]]
    OBVIOUS
  <2> HIDE DEF g
  <2>4. Fits(m, g)
    BY <2>2, <2>3
  <2> QED BY <2>4
<1>3. bad = {}
  <2>1. bad \in SUBSET Nat
    OBVIOUS
  <2> HIDE DEF bad
  <2> QED BY <1>1, <1>2, <2>1, FirstStep
<1>4. \E f : FlattenLoop(seqs, f)
  <2>1. Len(seqs) \in Nat
    BY SeqLen
  <2> QED BY <1>3, <2>1 DEF FlattenLoop
<1> DEFINE flat == CHOOSE f : FlattenLoop(seqs, f)
<1>5. FlattenLoop(seqs, flat)
  BY <1>4
<1>6. FlattenSeq(seqs) = flat[Len(seqs)]
  BY DEF FlattenSeq, FlattenLoop
<1> QED BY <1>5, <1>6

Text == Seq(Nat)

\* Texts, one after the other, are a text.
LEMMA FlattenIsText == ASSUME NEW parts \in Seq(Text) PROVE FlattenSeq(parts) \in Text
<1>1. Len(parts) \in Nat /\ IsSeq(parts) /\ \A i \in 1..Len(parts) : parts[i] \in Text
  BY LenProperties, ElementOfSeq, SeqIsSeq
<1>2. CASE Len(parts) = 0
  <2>1. parts = <<>>
    BY <1>2
  <2> QED BY <1>2, <2>1 DEF FlattenSeq, Text
<1>3. CASE Len(parts) # 0
  <2>1. PICK f : FlattenLoop(parts, f) /\ FlattenSeq(parts) = f[Len(parts)]
    BY <1>1, <1>3, FlattenLoops
  <2>2. \A i \in 1..Len(parts) : f[i] = IF i = 1 THEN parts[i] ELSE f[i - 1] \o parts[i]
    BY <2>1 DEF FlattenLoop
  <2> DEFINE bad == {n \in 0..Len(parts) : n # 0 /\ f[n] \notin Text}
  <2>3. bad \in SUBSET Nat /\ 0 \notin bad
    BY <1>1
  <2>4. ASSUME NEW n \in Nat, n # 0, n - 1 \notin bad, n \in bad PROVE FALSE
    <3>1. n \in 1..Len(parts)
      BY <1>1, <2>4
    <3>2. CASE n = 1
      BY <1>1, <2>2, <2>4, <3>1, <3>2
    <3>3. CASE n # 1
      <4>1. n - 1 \in 0..Len(parts) /\ n - 1 # 0
        BY <1>1, <3>1, <3>3
      <4>2. f[n - 1] \in Text /\ parts[n] \in Text
        BY <1>1, <2>4, <3>1, <4>1
      <4>3. f[n - 1] \o parts[n] \in Text
        BY <4>2, ConcatProperties DEF Text
      <4> QED BY <2>2, <2>4, <3>1, <3>3, <4>3
    <3> QED BY <3>2, <3>3
  <2>5. bad = {}
    <3> HIDE DEF bad
    <3> QED BY <2>3, <2>4, FirstStep
  <2>6. f[Len(parts)] \in Text
    BY <1>1, <1>3, <2>5
  <2> QED BY <2>1, <2>6
<1> QED BY <1>2, <1>3

\* A version as it is written is a text.
LEMMA WrittenIsText == ASSUME NEW v, IsVersion(v) PROVE Written(v) \in Text
<1>1. v.epoch \in Nat /\ v.up \in Seq(Text) /\ v.down \in Seq(Text)
  <2>1. v.epoch \in Nat /\ v.up \in Seq(Seq(Nat) \ {<<>>}) /\ v.down \in Seq(Seq(Nat) \ {<<>>})
    BY DEF IsVersion
  <2>2. ASSUME NEW s \in Seq(Seq(Nat) \ {<<>>}) PROVE s \in Seq(Text)
    <3>1. \A i \in 1..Len(s) : s[i] \in Text
      BY ElementOfSeq DEF Text
    <3>2. Len(s) \in Nat
      BY LenProperties
    <3>3. SubSeq(s, 1, Len(s)) \in Seq(Text)
      BY <3>1, <3>2, SubSeqProperties
    <3> QED BY <3>3, SubSeqFull
  <2> QED BY <2>1, <2>2
<1>2. FlattenSeq(v.up) \in Text /\ FlattenSeq(v.down) \in Text
  BY <1>1, FlattenIsText
<1>3. <<48 + v.epoch>> \in Text /\ Colon \in Text /\ Hyphen \in Text /\ <<>> \in Text
  BY <1>1 DEF Text, Colon, Hyphen
<1>4. \A s, t \in Text : s \o t \in Text
  BY ConcatProperties DEF Text
<1> DEFINE epoch == IF v.epoch = 0 THEN <<>> ELSE <<48 + v.epoch>> \o Colon
           up == FlattenSeq(v.up)
           down == FlattenSeq(v.down)
           end == IF v.down = <<>> THEN <<>> ELSE Hyphen \o down
<1>5. epoch \in Text /\ end \in Text /\ up \in Text
  BY <1>2, <1>3, <1>4
<1>6. Written(v) = (epoch \o up) \o end
  BY DEF Written
<1> HIDE DEF epoch, up, end
<1> QED BY <1>4, <1>5, <1>6

Differ(s, t, k) ==
  /\ k \in DOMAIN s \cap DOMAIN t /\ s[k] < t[k]
  /\ \A i \in 1 .. k - 1 : s[i] = t[i]

\* One text starts with another when they agree as far as that goes.
LEMMA PrefixOfText ==
  ASSUME NEW s \in Text, NEW t \in Text
  PROVE  IsStrictPrefix(s, t) <=> (Len(s) < Len(t) /\ \A i \in 1..Len(s) : s[i] = t[i])
<1>1. Len(s) \in Nat /\ Len(t) \in Nat /\ SubSeq(s, 1, Len(s)) = s
  BY LenProperties, SubSeqFull DEF Text
<1>2. ASSUME Len(s) <= Len(t)
      PROVE  /\ SubSeq(t, 1, Len(s)) \in Text /\ Len(SubSeq(t, 1, Len(s))) = Len(s)
             /\ \A i \in 1..Len(s) : SubSeq(t, 1, Len(s))[i] = t[i]
  <2>1. IsSeq(t) /\ Len(s) \in 0..Len(t)
    BY <1>1, <1>2, SeqIsSeq DEF Text
  <2>2. \A i \in 1..Len(s) : t[i] \in Nat
    BY <1>1, <1>2, ElementOfSeq DEF Text
  <2>3. SubSeq(t, 1, Len(s)) \in Text
    BY <1>1, <2>2, SubSeqProperties DEF Text
  <2> QED BY <2>1, <2>3, PathPrefix
<1>3. ASSUME IsStrictPrefix(s, t) PROVE Len(s) < Len(t) /\ \A i \in 1..Len(s) : s[i] = t[i]
  <2>1. Len(s) <= Len(t) /\ s = SubSeq(t, 1, Len(s)) /\ s # t
    BY <1>1, <1>3 DEF IsStrictPrefix, IsPrefix
  <2>2. Len(s) # Len(t)
    BY <2>1, SubSeqFull DEF Text
  <2>3. \A i \in 1..Len(s) : s[i] = t[i]
    BY <1>2, <2>1
  <2> QED BY <1>1, <2>1, <2>2, <2>3
<1>4. ASSUME Len(s) < Len(t), \A i \in 1..Len(s) : s[i] = t[i] PROVE IsStrictPrefix(s, t)
  <2>1. Len(s) <= Len(t)
    BY <1>1, <1>4
  <2> DEFINE u == SubSeq(t, 1, Len(s))
  <2>2. u \in Text /\ Len(u) = Len(s) /\ \A i \in 1..Len(s) : u[i] = s[i]
    BY <1>2, <1>4, <2>1
  <2> HIDE DEF u
  <2>3. u = s
    BY <2>2, SeqEqual DEF Text
  <2>4. s # t
    BY <1>1, <1>4
  <2> QED BY <1>1, <2>1, <2>3, <2>4 DEF IsStrictPrefix, IsPrefix, u
<1> QED BY <1>3, <1>4

\* Texts are ordered: none is before itself, and the order is transitive.
LEMMA BeforeIsOrder ==
  ASSUME NEW s \in Text, NEW t \in Text, NEW u \in Text
  PROVE  /\ ~Before(s, s)
         /\ Before(s, t) /\ Before(t, u) => Before(s, u)
<1>1. /\ \A i \in 1..Len(s) : s[i] \in Nat
      /\ \A i \in 1..Len(t) : t[i] \in Nat
      /\ \A i \in 1..Len(u) : u[i] \in Nat
      /\ DOMAIN s = 1..Len(s) /\ DOMAIN t = 1..Len(t) /\ DOMAIN u = 1..Len(u)
      /\ Len(s) \in Nat /\ Len(t) \in Nat /\ Len(u) \in Nat
  BY ElementOfSeq, LenProperties DEF Text
<1>2. /\ IsStrictPrefix(s, t) <=> (Len(s) < Len(t) /\ \A i \in 1..Len(s) : s[i] = t[i])
      /\ IsStrictPrefix(t, u) <=> (Len(t) < Len(u) /\ \A i \in 1..Len(t) : t[i] = u[i])
      /\ IsStrictPrefix(s, u) <=> (Len(s) < Len(u) /\ \A i \in 1..Len(s) : s[i] = u[i])
  BY PrefixOfText
<1>3. /\ Before(s, t) <=> (IsStrictPrefix(s, t) \/ \E k : Differ(s, t, k))
      /\ Before(t, u) <=> (IsStrictPrefix(t, u) \/ \E k : Differ(t, u, k))
      /\ Before(s, u) <=> (IsStrictPrefix(s, u) \/ \E k : Differ(s, u, k))
  BY Zenon DEF Before, Differ
<1>4. ~Before(s, s)
  BY <1>1, PrefixOfText DEF Before
<1>5. ASSUME Before(s, t), Before(t, u) PROVE Before(s, u)
  <2>1. CASE IsStrictPrefix(s, t) /\ IsStrictPrefix(t, u)
    <3>1. Len(s) < Len(u) /\ \A i \in 1..Len(s) : s[i] = u[i]
      BY <1>1, <1>2, <2>1
    <3> QED BY <1>2, <1>3, <3>1
  <2>2. CASE IsStrictPrefix(s, t) /\ \E k : Differ(t, u, k)
    <3>1. PICK k : Differ(t, u, k)
      BY <2>2
    <3>2. CASE k <= Len(s)
      <4>1. Differ(s, u, k)
        BY <1>1, <1>2, <2>2, <3>1, <3>2 DEF Differ
      <4> QED BY <1>3, <4>1
    <3>3. CASE ~(k <= Len(s))
      <4>1. Len(s) < Len(u) /\ \A i \in 1..Len(s) : s[i] = u[i]
        BY <1>1, <1>2, <2>2, <3>1, <3>3 DEF Differ
      <4> QED BY <1>2, <1>3, <4>1
    <3> QED BY <3>2, <3>3
  <2>3. CASE (\E k : Differ(s, t, k)) /\ IsStrictPrefix(t, u)
    <3>1. PICK k : Differ(s, t, k)
      BY <2>3
    <3>2. Differ(s, u, k)
      BY <1>1, <1>2, <2>3, <3>1 DEF Differ
    <3> QED BY <1>3, <3>2
  <2>4. CASE (\E k : Differ(s, t, k)) /\ (\E k : Differ(t, u, k))
    <3>1. PICK k : Differ(s, t, k)
      BY <2>4
    <3>2. PICK m : Differ(t, u, m)
      BY <2>4
    <3>3. Differ(s, u, IF k <= m THEN k ELSE m)
      BY <1>1, <3>1, <3>2 DEF Differ
    <3> QED BY <1>3, <3>3
  <2> QED BY <1>3, <1>5, <2>1, <2>2, <2>3, <2>4
<1> QED BY <1>4, <1>5

\* The first of some positions.
LEMMA FirstOf == ASSUME NEW S \in SUBSET Nat, S # {} PROVE First(S) \in S
<1>1. \E n \in S : \A m \in S : n <= m
  BY LeastOf
<1> QED BY <1>1 DEF First

-----------------------------------------------------------------------------
(* The candidate for a name.                                               *)

\* What can be listed in an index.
Listed(arch) ==
  /\ IsSeq(index)
  /\ \A i \in DOMAIN index : \E s \in Stanzas(arch) : "Package" \in DOMAIN s /\ index[i] = RecordOf(s)

Typed(records) ==
  /\ IsSeq(records)
  /\ \A i \in DOMAIN records :
       /\ IsVersion(records[i].version) /\ IsSeq(records[i].depends)
       /\ \A g \in ToSet(records[i].depends) :
            IsSeq(g) /\ \A alt \in ToSet(g) : IsVersion(alt.version)

\* What an index lists.
LEMMA ListedIsTyped ==
  ASSUME NEW arch \in Buildable \cup ToSet(Candidates), Listed(arch) PROVE Typed(index)
<1> SUFFICES ASSUME NEW i \in DOMAIN index
             PROVE  /\ IsVersion(index[i].version) /\ IsSeq(index[i].depends)
                    /\ \A g \in ToSet(index[i].depends) :
                         IsSeq(g) /\ \A alt \in ToSet(g) : IsVersion(alt.version)
  BY DEF Listed, Typed
<1>1. PICK s \in Stanzas(arch) : index[i] = RecordOf(s)
  BY DEF Listed
<1>2. IsStanza(s)
  BY MirrorAssumption
<1> DEFINE a == Field(s, "Depends", <<>>)
           b == Field(s, "Pre-Depends", <<>>)
<1>3. index[i].version = Field(s, "Version", ZeroVersion) /\ index[i].depends = a \o b
  BY <1>1 DEF RecordOf
<1>4. /\ IsSeq(a) /\ \A g \in ToSet(a) : IsSeq(g) /\ \A alt \in ToSet(g) : IsVersion(alt.version)
      /\ IsSeq(b) /\ \A g \in ToSet(b) : IsSeq(g) /\ \A alt \in ToSet(g) : IsVersion(alt.version)
      /\ IsVersion(Field(s, "Version", ZeroVersion))
  BY <1>2 DEF IsStanza
<1> HIDE DEF a, b
<1>5. IsSeq(a \o b) /\ ToSet(a \o b) = ToSet(a) \cup ToSet(b)
  BY <1>4, JoinIsSeq, JoinElements
<1> QED BY <1>3, <1>4, <1>5

\* The packages of one name in an index are finitely many.
LEMMA NamedFinite ==
  ASSUME IsSeq(index), NEW name
  PROVE  /\ Named(name) \in SUBSET Nat /\ IsFiniteSet(Named(name)) /\ Named(name) \subseteq DOMAIN index
         /\ Providing(name) \in SUBSET Nat /\ Providing(name) \subseteq DOMAIN index
<1>1. Named(name) \in SUBSET DOMAIN index /\ Providing(name) \in SUBSET DOMAIN index
  BY DEF Named, Providing
<1> QED BY <1>1, PositionsFinite

\* Of the records with a name one has a version that none sorts after.
LEMMA LastExists ==
  ASSUME Typed(index), NEW name, Named(name) # {}
  PROVE  \E i \in Named(name) :
           \A j \in Named(name) : ~Before(Written(index[i].version), Written(index[j].version))
<1> DEFINE S == Named(name)
           text(i) == Written(index[i].version)
           earlier(i) == {j \in S : Before(text(j), text(i))}
           N == Cardinality(S)
           rest == {N - Cardinality(earlier(i)) : i \in S}
<1>1. S \in SUBSET Nat /\ IsFiniteSet(S) /\ S \subseteq DOMAIN index /\ N \in Nat
  BY NamedFinite, FS_CardinalityType DEF Typed
<1>2. \A i \in S : text(i) \in Text
  BY <1>1, WrittenIsText DEF Typed
<1> HIDE DEF S, text
<1>3. ASSUME NEW i \in S
      PROVE  /\ IsFiniteSet(earlier(i)) /\ Cardinality(earlier(i)) \in Nat
             /\ Cardinality(earlier(i)) <= N
  <2>1. earlier(i) \in SUBSET S
    OBVIOUS
  <2> HIDE DEF earlier
  <2> QED BY <1>1, <2>1, FS_Subset, FS_CardinalityType
<1>4. ASSUME NEW i \in S, NEW j \in S, Before(text(i), text(j))
      PROVE  Cardinality(earlier(i)) < Cardinality(earlier(j))
  <2>1. earlier(i) \in SUBSET earlier(j)
    BY <1>2, <1>4, BeforeIsOrder
  <2>2. i \in earlier(j) /\ i \notin earlier(i)
    BY <1>2, <1>4, BeforeIsOrder
  <2> HIDE DEF earlier
  <2>3. Cardinality(earlier(i)) <= Cardinality(earlier(j)) /\ earlier(i) # earlier(j)
    BY <1>3, <2>1, <2>2, FS_Subset
  <2>4. Cardinality(earlier(i)) # Cardinality(earlier(j))
    BY <1>3, <2>1, <2>3, FS_Subset
  <2> QED BY <1>3, <2>3, <2>4
<1> HIDE DEF earlier, N
<1>5. rest \in SUBSET Nat
  <2>1. ASSUME NEW i \in S PROVE N - Cardinality(earlier(i)) \in Nat
    BY <1>1, <1>3
  <2> QED BY <2>1
<1>6. rest # {}
  BY DEF S
<1>7. PICK n \in rest : \A m \in rest : n <= m
  <2> HIDE DEF rest
  <2> QED BY <1>5, <1>6, LeastOf
<1>8. PICK i \in S : n = N - Cardinality(earlier(i))
  OBVIOUS
<1>9. ASSUME NEW j \in S PROVE ~Before(text(i), text(j))
  <2>1. SUFFICES ASSUME Before(text(i), text(j)) PROVE FALSE
    OBVIOUS
  <2>2. Cardinality(earlier(i)) < Cardinality(earlier(j))
    BY <1>4, <2>1
  <2>3. N - Cardinality(earlier(i)) <= N - Cardinality(earlier(j))
    BY <1>7, <1>8
  <2> QED BY <1>1, <1>3, <2>2, <2>3
<1> QED BY <1>9 DEF S, text

\* The candidate for a name bears it, and no other of that name is newer.
LEMMA PickProperties ==
  ASSUME Typed(index), NEW name
  PROVE  /\ Named(name) # {} => Pick(name) \in Named(name)
         /\ Pick(name) # 0 => Pick(name) \in DOMAIN index
         /\ Pick(name) \in Nat
<1> DEFINE last == {i \in Named(name) :
                      \A j \in Named(name) : ~Before(Written(index[i].version), Written(index[j].version))}
<1>1. /\ Named(name) \in SUBSET Nat /\ Named(name) \subseteq DOMAIN index
      /\ Providing(name) \in SUBSET Nat /\ Providing(name) \subseteq DOMAIN index
  BY NamedFinite DEF Typed
<1>2. Pick(name) = IF Named(name) # {} THEN First(last)
                   ELSE IF Providing(name) # {} THEN First(Providing(name)) ELSE 0
  BY DEF Pick
<1>3. Named(name) # {} => last # {}
  BY LastExists
<1>4. last \subseteq Named(name)
  OBVIOUS
<1> HIDE DEF last
<1>5. Named(name) # {} => First(last) \in Named(name)
  BY <1>1, <1>3, <1>4, FirstOf
<1>6. Providing(name) # {} => First(Providing(name)) \in Providing(name)
  BY <1>1, FirstOf
<1> QED BY <1>1, <1>2, <1>5, <1>6

\* A package's own name leads back to that package.
LEMMA PickOfPackage ==
  ASSUME Typed(index), NEW i \in DOMAIN index
  PROVE  LET p == index[i].package IN
         Pick(p) # 0 /\ Pick(p) \in DOMAIN index /\ index[Pick(p)].package = p
<1> DEFINE p == index[i].package
<1>1. i \in Named(p)
  BY DEF Named
<1>2. Pick(p) \in Named(p)
  BY <1>1, PickProperties
<1>3. 0 \notin DOMAIN index
  BY SeqLen DEF Typed
<1> HIDE DEF p
<1>4. index[Pick(p)].package = p /\ Pick(p) \in DOMAIN index
  BY <1>2 DEF Named
<1> QED BY <1>3, <1>4 DEF p

-----------------------------------------------------------------------------
(* The queue, and the groups that have been looked at.                     *)

\* A name's candidate is among the chosen.
Had(ids, name) == Pick(name) # 0 /\ index[Pick(name)].package \in Chosen(ids)

\* What became of a group: it was met, or dropped, or its candidate was asked for.
Served(ids, asked, g) ==
  \/ \E k \in DOMAIN g : SatisfiedByChosen(ids, g[k])
  \/ Eligible(g) = {}
  \/ \E k \in Eligible(g) : index[Pick(g[k].name)].package \in Chosen(ids) \cup asked

\* What was asked for is still to be looked at, or newly so.
Grows(wanted, more) ==
  /\ IsSeq(more.queue) /\ ToSet(wanted.queue) \subseteq ToSet(more.queue)
  /\ wanted.queued \subseteq more.queued
  /\ \A name \in more.queued : name \in wanted.queued \/ name \in ToSet(more.queue)

\* The elements of a sequence with one more.
LEMMA AppendElements == ASSUME NEW s, IsSeq(s), NEW x PROVE ToSet(Append(s, x)) = ToSet(s) \cup {x}
<1>1. /\ IsSeq(Append(s, x)) /\ Len(Append(s, x)) = Len(s) + 1
      /\ \A i \in 1..Len(s) : Append(s, x)[i] = s[i]
      /\ Append(s, x)[Len(s) + 1] = x
  BY AppendIsSeq
<1> DEFINE t == Append(s, x)
<1>2. DOMAIN s = 1..Len(s) /\ DOMAIN t = 1 .. Len(s) + 1 /\ Len(s) \in Nat
  BY <1>1, SeqLen
<1> HIDE DEF t
<1>3. ToSet(t) = ToSet(s) \cup {x}
  BY <1>1, <1>2 DEF ToSet, t
<1> QED BY <1>3 DEF t

\* Asking for one group keeps the queue and the groups served.
LEMMA AskServes ==
  ASSUME NEW ids, NEW wanted, IsSeq(wanted.queue), NEW group, IsSeq(group)
  PROVE  /\ Grows(wanted, Ask(ids, wanted, group))
         /\ Served(ids, Ask(ids, wanted, group).queued, group)
<1> DEFINE met == \E k \in DOMAIN group : SatisfiedByChosen(ids, group[k])
           k == First(Eligible(group))
           package == index[Pick(group[k].name)].package
           more == [queue |-> Append(wanted.queue, package), queued |-> wanted.queued \cup {package}]
<1>1. Grows(wanted, wanted)
  BY DEF Grows
<1>2. Grows(wanted, more)
  <2>1. IsSeq(more.queue) /\ ToSet(more.queue) = ToSet(wanted.queue) \cup {package}
        /\ more.queued = wanted.queued \cup {package}
    BY AppendIsSeq, AppendElements
  <2> HIDE DEF more, package
  <2> QED BY <2>1 DEF Grows
<1>3. CASE met \/ Eligible(group) = {}
  <2>1. Ask(ids, wanted, group) = wanted
    BY <1>3 DEF Ask
  <2> QED BY <1>1, <1>3, <2>1 DEF Served
<1>4. CASE ~(met \/ Eligible(group) = {})
  <2>1. k \in Eligible(group)
    <3>1. Eligible(group) \in SUBSET DOMAIN group
      BY DEF Eligible
    <3>2. Eligible(group) \in SUBSET Nat /\ Eligible(group) # {}
      BY <1>4, <3>1, PositionsFinite
    <3> QED BY <3>2, FirstOf
  <2>2. Ask(ids, wanted, group) = IF package \in Chosen(ids) \cup wanted.queued THEN wanted ELSE more
    BY <1>4 DEF Ask
  <2>3. CASE package \in Chosen(ids) \cup wanted.queued
    <3>1. Ask(ids, wanted, group) = wanted
      BY <2>2, <2>3
    <3> QED BY <1>1, <2>1, <2>3, <3>1 DEF Served
  <2>4. CASE package \notin Chosen(ids) \cup wanted.queued
    <3>1. Ask(ids, wanted, group) = more
      BY <2>2, <2>4
    <3>2. package \in more.queued
      OBVIOUS
    <3> HIDE DEF more
    <3> QED BY <1>2, <2>1, <3>1, <3>2 DEF Served
  <2> QED BY <2>3, <2>4
<1> QED BY <1>3, <1>4

\* Asking for the groups of a package one after the other keeps them.
LEMMA AskAllServes ==
  ASSUME NEW ids, NEW wanted, IsSeq(wanted.queue), NEW groups, IsSeq(groups),
         \A g \in ToSet(groups) : IsSeq(g)
  PROVE  /\ Grows(wanted, AskAll(ids, wanted, groups))
         /\ \A g \in ToSet(groups) : Served(ids, AskAll(ids, wanted, groups).queued, g)
<1> DEFINE Fits(m, f) == f = [n \in 0..m |-> IF n = 0 THEN wanted ELSE Ask(ids, f[n - 1], groups[n])]
           bad == {m \in Nat : ~(\E f : Fits(m, f))}
<1>1. 0 \notin bad
  <2>1. Fits(0, [n \in 0..0 |-> wanted])
    OBVIOUS
  <2> QED BY <2>1
<1>2. ASSUME NEW m \in Nat, m # 0, m - 1 \in Nat, m - 1 \notin bad PROVE m \notin bad
  <2>1. PICK f : Fits(m - 1, f)
    BY <1>2
  <2>2. Fits(m, [n \in 0..m |-> IF n = m THEN Ask(ids, f[m - 1], groups[m]) ELSE f[n]])
    BY <1>2, <2>1
  <2> QED BY <2>2
<1>3. bad = {}
  <2>1. bad \in SUBSET Nat
    OBVIOUS
  <2> HIDE DEF bad
  <2> QED BY <1>1, <1>2, <2>1, FirstStep
<1>4. Len(groups) \in Nat /\ DOMAIN groups = 1..Len(groups)
  BY SeqLen
<1> DEFINE N == Len(groups)
           after == CHOOSE f : Fits(N, f)
<1>5. Fits(N, after)
  BY <1>3, <1>4
<1>6. AskAll(ids, wanted, groups) = after[N]
  BY DEF AskAll
<1> HIDE DEF after
<1>7. after[0] = wanted /\ \A n \in 1..N : after[n] = Ask(ids, after[n - 1], groups[n])
  BY <1>4, <1>5
<1> HIDE DEF Fits
<1> DEFINE fine(n) == /\ Grows(wanted, after[n])
                      /\ \A i \in 1..n : Served(ids, after[n].queued, groups[i])
           broken == {n \in 0..N : ~fine(n)}
<1>8. broken \in SUBSET Nat /\ 0 \notin broken
  <2>1. fine(0)
    BY <1>7 DEF Grows
  <2> QED BY <1>4, <2>1
<1>9. ASSUME NEW n \in Nat, n # 0, n - 1 \notin broken, n \in broken PROVE FALSE
  <2> DEFINE b == after[n - 1]
             a == after[n]
  <2>1. n \in 1..N /\ n - 1 \in 0..N
    BY <1>4, <1>9
  <2>2. Grows(wanted, b) /\ \A i \in 1 .. n - 1 : Served(ids, b.queued, groups[i])
    BY <1>9, <2>1
  <2>3. IsSeq(groups[n]) /\ a = Ask(ids, b, groups[n])
    BY <1>7, <2>1, ElementAt
  <2> HIDE DEF a, b
  <2>4. Grows(b, a) /\ Served(ids, a.queued, groups[n])
    BY <2>2, <2>3, AskServes DEF Grows
  <2>5. Grows(wanted, a)
    BY <2>2, <2>4 DEF Grows
  <2>6. ASSUME NEW i \in 1..n PROVE Served(ids, a.queued, groups[i])
    <3>1. CASE i = n
      BY <2>4, <3>1
    <3>2. CASE i # n
      <4>1. i \in 1 .. n - 1
        BY <2>1, <3>2
      <4>2. Served(ids, b.queued, groups[i]) /\ b.queued \subseteq a.queued
        BY <2>2, <2>4, <4>1 DEF Grows
      <4> QED BY <4>2 DEF Served
    <3> QED BY <3>1, <3>2
  <2>7. fine(n)
    BY <2>5, <2>6 DEF a
  <2> QED BY <1>9, <2>7
<1>10. broken = {}
  <2> HIDE DEF broken
  <2> QED BY <1>8, <1>9, FirstStep
<1>11. fine(N)
  BY <1>4, <1>10
<1> HIDE DEF fine
<1>12. Grows(wanted, after[N]) /\ \A i \in 1..N : Served(ids, after[N].queued, groups[i])
  BY <1>11 DEF fine
<1>13. \A g \in ToSet(groups) : Served(ids, after[N].queued, g)
  BY <1>4, <1>12 DEF ToSet
<1> QED BY <1>6, <1>12, <1>13

-----------------------------------------------------------------------------
(* The resolver at work.                                                   *)

QueueInv ==
  /\ IsSeq(queue) /\ IsSeq(order) /\ ToSet(order) \subseteq DOMAIN index
  /\ ToSet(Seeds) \subseteq queued
  /\ \A name \in queued : name \in ToSet(queue) \/ Had(order, name)

GroupsInv == \A i \in ToSet(order) : \A g \in ToSet(index[i].depends) : Served(order, queued, g)

\* The resolver at work on the index of an architecture.
ResolverInv(arch) == Listed(arch) /\ QueueInv /\ GroupsInv

\* The elements of a selection.
LEMMA ThoseElements ==
  ASSUME NEW s, IsSeq(s), NEW P \in SUBSET DOMAIN s
  PROVE  IsSeq(Those(s, P)) /\ ToSet(Those(s, P)) \subseteq ToSet(s)
         /\ \A x \in ToSet(Those(s, P)) : \E i \in P : x = s[i]
<1>1. P \in SUBSET Nat /\ IsFiniteSet(P)
  BY PositionsFinite
<1> DEFINE t == Those(s, P)
           n == Cardinality(P)
<1>2. IsSeq(t) /\ DOMAIN t = 1..n /\ \A i \in 1..n : \E k \in P : t[i] = s[k]
  BY <1>1, ThoseProperties
<1> HIDE DEF t, n
<1>3. \A x \in ToSet(t) : \E i \in P : x = s[i]
  BY <1>2 DEF ToSet
<1>4. ToSet(t) \subseteq ToSet(s)
  BY <1>3 DEF ToSet
<1> QED BY <1>2, <1>3, <1>4 DEF t

\* The packages of an index are those of its stanzas.
LEMMA ParsedElements ==
  ASSUME NEW stanzas, IsSeq(stanzas)
  PROVE  /\ IsSeq(ParsePackages(stanzas))
         /\ \A x \in ToSet(ParsePackages(stanzas)) :
              \E s \in ToSet(stanzas) : "Package" \in DOMAIN s /\ x = RecordOf(s)
<1> DEFINE P == {i \in DOMAIN stanzas : "Package" \in DOMAIN stanzas[i]}
           named == Those(stanzas, P)
           made == [i \in DOMAIN named |-> RecordOf(named[i])]
<1>1. /\ IsSeq(named) /\ ToSet(named) \subseteq ToSet(stanzas)
      /\ \A x \in ToSet(named) : \E i \in P : x = stanzas[i]
  BY ThoseElements
<1>2. \A x \in ToSet(named) : x \in ToSet(stanzas) /\ "Package" \in DOMAIN x
  BY <1>1
<1>3. ParsePackages(stanzas) = made
  BY DEF ParsePackages
<1> HIDE DEF named
<1>4. DOMAIN named = 1..Len(named) /\ Len(named) \in Nat
  BY <1>1, SeqLen
<1>5. IsSeq(made)
  BY <1>4, FunctionIsSeq
<1>6. \A x \in ToSet(made) : \E s \in ToSet(named) : x = RecordOf(s)
  BY DEF ToSet
<1> HIDE DEF made
<1> QED BY <1>2, <1>3, <1>5, <1>6

\* What the mirror answered is what its stanzas say.
LEMMA AnsweredElements ==
  ASSUME NEW arch \in Buildable \cup ToSet(Candidates), NEW indexes \in Mirror[arch], NEW got
  PROVE  /\ IsSeq(Answered(indexes, got))
         /\ \A x \in ToSet(Answered(indexes, got)) :
              \E s \in Stanzas(arch) : "Package" \in DOMAIN s /\ x = RecordOf(s)
<1> DEFINE a == IF 1 \in got THEN ParsePackages(indexes[1]) ELSE <<>>
           b == IF 2 \in got THEN ParsePackages(indexes[2]) ELSE <<>>
           Good(r) == /\ IsSeq(r)
                      /\ \A x \in ToSet(r) : \E s \in Stanzas(arch) : "Package" \in DOMAIN s /\ x = RecordOf(s)
<1>1. Answered(indexes, got) = a \o b
  BY DEF Answered
<1>2. IsSeq(indexes[1]) /\ IsSeq(indexes[2])
  BY MirrorAssumption
<1>3. ToSet(indexes[1]) \subseteq Stanzas(arch) /\ ToSet(indexes[2]) \subseteq Stanzas(arch)
  BY DEF Stanzas
<1>4. Good(<<>>)
  BY EmptyIsSeq DEF ToSet
<1>5. Good(ParsePackages(indexes[1])) /\ Good(ParsePackages(indexes[2]))
  BY <1>2, <1>3, ParsedElements
<1>6. Good(a) /\ Good(b)
  BY <1>4, <1>5
<1> HIDE DEF a, b
<1>7. IsSeq(a \o b) /\ ToSet(a \o b) = ToSet(a) \cup ToSet(b)
  BY <1>6, JoinIsSeq, JoinElements
<1> QED BY <1>1, <1>6, <1>7

\* The queue at the start of a resolution.
LEMMA BeginHolds ==
  ASSUME NEW arch \in Buildable \cup ToSet(Candidates), NEW indexes \in Mirror[arch], NEW got, NEW of,
         Begin(Answered(indexes, got), of)
  PROVE  ResolverInv(arch)'
<1> DEFINE records == Answered(indexes, got)
           P == {i \in DOMAIN records : records[i].architecture \in {of, "all"}}
<1>1. index' = Those(records, P) /\ queue' = Seeds /\ queued' = ToSet(Seeds) /\ order' = <<>>
  BY DEF Begin, Fitting
<1>2. IsSeq(records) /\ \A x \in ToSet(records) : \E s \in Stanzas(arch) : "Package" \in DOMAIN s /\ x = RecordOf(s)
  BY AnsweredElements
<1> HIDE DEF records
<1>3. IsSeq(index') /\ ToSet(index') \subseteq ToSet(records)
  BY <1>1, <1>2, ThoseElements
<1>4. \A i \in DOMAIN index' : \E s \in Stanzas(arch) : "Package" \in DOMAIN s /\ index'[i] = RecordOf(s)
  BY <1>2, <1>3 DEF ToSet
<1>5. Listed(arch)'
  BY <1>3, <1>4 DEF Listed
<1>6. ToSet(<<>>) = {}
  BY DEF ToSet
<1>7. QueueInv'
  BY <1>1, <1>6, EmptyIsSeq, SeedsAssumption DEF QueueInv
<1>8. GroupsInv'
  BY <1>1, <1>6 DEF GroupsInv
<1> QED BY <1>5, <1>7, <1>8 DEF ResolverInv

\* What depends on the index only stays while the index stays.
LEMMA IndexKept ==
  ASSUME index' = index
  PROVE  /\ \A name : Pick(name)' = Pick(name)
         /\ \A g : Eligible(g)' = Eligible(g)
<1>1. \A name : Pick(name)' = Pick(name)
  BY DEF Pick, Named, Providing
<1>2. \A g : Eligible(g)' = Eligible(g)
  BY <1>1 DEF Eligible
<1> QED BY <1>1, <1>2

\* A group that was served still is when more is chosen.
LEMMA ChosenMore ==
  ASSUME NEW ids, IsSeq(ids), NEW i
  PROVE  Chosen(Append(ids, i)) = Chosen(ids) \cup {index[i].package}
         /\ \A alt : SatisfiedByChosen(ids, alt) => SatisfiedByChosen(Append(ids, i), alt)
<1>1. ToSet(Append(ids, i)) = ToSet(ids) \cup {i}
  BY AppendElements
<1> QED BY <1>1 DEF Chosen, SatisfiedByChosen

\* The elements of a queue are its head and those of its tail.
LEMMA HeadAndTail ==
  ASSUME NEW s, IsSeq(s), s # <<>>
  PROVE  /\ IsSeq(Tail(s)) /\ Head(s) \in ToSet(s)
         /\ ToSet(s) = {Head(s)} \cup ToSet(Tail(s))
<1>1. s \in Seq(ToSet(s)) /\ Len(s) \in Nat /\ DOMAIN s = 1..Len(s)
  BY SeqLen DEF IsSeq
<1>2. /\ Tail(s) \in Seq(ToSet(s)) /\ Len(Tail(s)) = Len(s) - 1
      /\ \A i \in 1 .. Len(s) - 1 : Tail(s)[i] = s[i + 1]
      /\ Head(s) = s[1] /\ Len(s) # 0
  BY <1>1, HeadTailProperties
<1>3. IsSeq(Tail(s))
  BY <1>2, SeqIsSeq
<1>4. DOMAIN Tail(s) = 1 .. Len(s) - 1
  BY <1>2, <1>3, SeqLen
<1> DEFINE t == Tail(s)
           h == Head(s)
<1>5. /\ DOMAIN t = 1 .. Len(s) - 1 /\ h = s[1]
      /\ \A i \in 1 .. Len(s) - 1 : t[i] = s[i + 1]
  BY <1>2, <1>4
<1> HIDE DEF t, h
<1>6. h \in ToSet(s)
  BY <1>1, <1>2, <1>5 DEF ToSet
<1>7. ASSUME NEW x \in ToSet(s) PROVE x \in {h} \cup ToSet(t)
  <2>1. PICK i \in 1..Len(s) : x = s[i]
    BY <1>1, <1>7 DEF ToSet
  <2>2. CASE i = 1
    BY <1>5, <2>1, <2>2
  <2>3. CASE i # 1
    <3>1. i - 1 \in 1 .. Len(s) - 1 /\ i - 1 + 1 = i
      BY <1>1, <2>3
    <3>2. i - 1 \in DOMAIN t /\ t[i - 1] = x
      BY <1>5, <2>1, <3>1
    <3> QED BY <3>2 DEF ToSet
  <2> QED BY <2>2, <2>3
<1>8. ASSUME NEW x \in ToSet(t) PROVE x \in ToSet(s)
  <2>1. PICK i \in 1 .. Len(s) - 1 : x = s[i + 1]
    BY <1>5, <1>8 DEF ToSet
  <2>2. i + 1 \in DOMAIN s
    BY <1>1, <2>1
  <2> QED BY <2>1, <2>2 DEF ToSet
<1> QED BY <1>3, <1>6, <1>7, <1>8 DEF t, h

\* One turn of the resolver: a package looked at and its groups asked for.
LEMMA VisitKeeps ==
  ASSUME NEW arch \in Buildable \cup ToSet(Candidates), ResolverInv(arch), Visit
  PROVE  ResolverInv(arch)'
<1> DEFINE h == Head(queue)
           i == Pick(h)
           ids == Append(order, i)
           start == [queue |-> Tail(queue), queued |-> queued]
           wanted == AskAll(ids, start, index[i].depends)
<1>1. queue # <<>> /\ i # 0 /\ index' = index
  BY DEF Visit
<1>2. Listed(arch) /\ QueueInv /\ GroupsInv /\ Typed(index)
  BY ListedIsTyped DEF ResolverInv
<1>3. Listed(arch)'
  BY <1>1, <1>2 DEF Listed
<1>4. IsSeq(Tail(queue)) /\ ToSet(queue) = {h} \cup ToSet(Tail(queue))
  BY <1>1, <1>2, HeadAndTail DEF QueueInv
<1>5. i \in DOMAIN index
  BY <1>1, <1>2, PickProperties
<1>6. CASE index[i].package \in Chosen(order)
  <2>1. queue' = Tail(queue) /\ queued' = queued /\ order' = order
    BY <1>6 DEF Visit
  <2>2. Had(order, h)
    BY <1>1, <1>6 DEF Had
  <2>3. \A name \in queued : name \in ToSet(queue') \/ Had(order, name)
    BY <1>2, <1>4, <2>1, <2>2 DEF QueueInv
  <2>4. QueueInv'
    BY <1>1, <1>2, <1>4, <2>1, <2>3, IndexKept DEF QueueInv, Had, Chosen
  <2>5. GroupsInv'
    BY <1>1, <1>2, <2>1, IndexKept DEF GroupsInv, Served, Chosen, SatisfiedByChosen
  <2> QED BY <1>3, <2>4, <2>5 DEF ResolverInv
<1>7. CASE index[i].package \notin Chosen(order)
  <2>1. queue' = wanted.queue /\ queued' = wanted.queued /\ order' = ids
    BY <1>7 DEF Visit
  <2>2. IsSeq(index[i].depends) /\ \A g \in ToSet(index[i].depends) : IsSeq(g)
    BY <1>2, <1>5 DEF Typed
  <2>3. start.queue = Tail(queue) /\ start.queued = queued
    OBVIOUS
  <2>4. /\ Grows(start, wanted)
        /\ \A g \in ToSet(index[i].depends) : Served(ids, wanted.queued, g)
    BY <1>4, <2>2, <2>3, AskAllServes
  <2> HIDE DEF start, wanted
  <2>5. /\ Chosen(ids) = Chosen(order) \cup {index[i].package}
        /\ \A alt : SatisfiedByChosen(order, alt) => SatisfiedByChosen(ids, alt)
        /\ IsSeq(ids) /\ ToSet(ids) = ToSet(order) \cup {i}
    BY <1>2, ChosenMore, AppendIsSeq, AppendElements DEF QueueInv
  <2>6. Had(ids, h) /\ \A name : Had(order, name) => Had(ids, name)
    BY <1>1, <2>5 DEF Had
  <2> HIDE DEF ids, i, h
  <2>7. \A name \in queued' : name \in ToSet(queue') \/ Had(order', name)
    BY <1>2, <1>4, <2>1, <2>3, <2>4, <2>6 DEF QueueInv, Grows
  <2>8. ToSet(Seeds) \subseteq queued' /\ IsSeq(queue')
    BY <1>2, <2>1, <2>3, <2>4 DEF QueueInv, Grows
  <2>9. IsSeq(order') /\ ToSet(order') \subseteq DOMAIN index'
    BY <1>1, <1>2, <1>5, <2>1, <2>5 DEF QueueInv
  <2>10. QueueInv'
    BY <1>1, <2>7, <2>8, <2>9, IndexKept DEF QueueInv, Had, Chosen
  <2>11. ASSUME NEW j \in ToSet(order'), NEW g \in ToSet(index[j].depends)
         PROVE  Served(order', queued', g)
    <3>1. CASE j = i
      BY <2>1, <2>4, <2>11, <3>1
    <3>2. CASE j # i
      <4>1. Served(order, queued, g)
        BY <1>2, <2>1, <2>5, <2>11, <3>2 DEF GroupsInv
      <4>2. queued \subseteq queued' /\ Chosen(order) \subseteq Chosen(ids)
        BY <2>1, <2>3, <2>4, <2>5 DEF Grows
      <4> QED BY <2>1, <2>5, <4>1, <4>2 DEF Served
    <3> QED BY <3>1, <3>2
  <2>12. GroupsInv'
    BY <1>1, <2>11, IndexKept DEF GroupsInv, Served, Chosen, SatisfiedByChosen
  <2> QED BY <1>3, <2>10, <2>12 DEF ResolverInv
<1> QED BY <1>6, <1>7

\* When nothing is left to look at, every name that was asked for is had.
LEMMA ResolvedIsClosed ==
  ASSUME NEW arch \in Buildable \cup ToSet(Candidates), ResolverInv(arch), queue = <<>>
  PROVE  /\ \A name \in ToSet(Seeds) : index[Pick(name)].package \in Chosen(order)
         /\ \A i \in ToSet(order) : \A g \in ToSet(index[i].depends) :
              \/ \E k \in DOMAIN g : SatisfiedByChosen(order, g[k])
              \/ \E k \in Eligible(g) : index[Pick(g[k].name)].package \in Chosen(order)
              \/ Eligible(g) = {}
<1>1. QueueInv /\ GroupsInv /\ Typed(index)
  BY ListedIsTyped DEF ResolverInv
<1>2. ToSet(queue) = {}
  BY DEF ToSet
<1>3. \A name \in queued : Had(order, name)
  BY <1>1, <1>2 DEF QueueInv
<1>4. \A name \in ToSet(Seeds) : index[Pick(name)].package \in Chosen(order)
  BY <1>1, <1>3 DEF QueueInv, Had
<1>5. ASSUME NEW i \in ToSet(order), NEW g \in ToSet(index[i].depends), NEW k \in Eligible(g),
             index[Pick(g[k].name)].package \in queued
      PROVE  index[Pick(g[k].name)].package \in Chosen(order)
  <2> DEFINE j == Pick(g[k].name)
             p == index[j].package
  <2>1. j # 0
    BY DEF Eligible
  <2>2. j \in DOMAIN index
    BY <1>1, <2>1, PickProperties
  <2> HIDE DEF j
  <2>3. index[Pick(p)].package = p
    BY <1>1, <2>2, PickOfPackage
  <2>4. Had(order, p)
    BY <1>3, <1>5 DEF j
  <2> QED BY <2>3, <2>4 DEF Had, j
<1> QED BY <1>1, <1>4, <1>5 DEF GroupsInv, Served

-----------------------------------------------------------------------------
(* What the checks of an image are worth.                                  *)

\* What exists is reached through directories.
LEMMA ThroughDirectories ==
  ASSUME NEW disk, DiskInv(disk), NEW path, IsSeq(path), Where(disk, path) \in DOMAIN disk
  PROVE  \A n \in 0..Len(path) : Where(disk, SubSeq(path, 1, n)) \in DOMAIN disk
<1> DEFINE to(n) == Where(disk, SubSeq(path, 1, n))
           L == Len(path)
           bad == {k \in 0..L : to(L - k) \notin DOMAIN disk}
<1>1. L \in Nat /\ to(L) \in DOMAIN disk
  BY SeqLen, PathPrefixAll
<1>2. \A n \in 1..L : to(n) = Follow(disk, Append(to(n - 1), path[n]))
  BY WhereAlong
<1>3. \A n \in 0..L : IsSeq(to(n))
  BY PathPrefix, WhereIsSeq
<1> HIDE DEF to, L
<1>4. bad \in SUBSET Nat /\ 0 \notin bad
  BY <1>1
<1>5. ASSUME NEW k \in Nat, k # 0, k - 1 \notin bad, k \in bad PROVE FALSE
  <2>1. k \in 1..L /\ L - k + 1 \in 1..L /\ L - k \in 0..L /\ k - 1 \in 0..L
        /\ L - (k - 1) = L - k + 1 /\ L - k + 1 - 1 = L - k
    BY <1>1, <1>5
  <2> DEFINE n == L - k + 1
             w == to(L - k)
             at == Append(w, path[n])
  <2>2. to(n) \in DOMAIN disk
    BY <1>5, <2>1
  <2>3. to(n) = Follow(disk, at)
    BY <1>2, <2>1
  <2>4. IsSeq(w)
    BY <1>3, <2>1
  <2> HIDE DEF n, w
  <2>5. at # <<>> /\ Front(at) = w
    BY <2>4, PathAppend
  <2> HIDE DEF at
  <2>6. CASE at \notin DOMAIN disk
    <3>1. NodeAt(disk, at).kind # "symlink"
      BY <2>6, NodeKinds
    <3> QED BY <2>2, <2>3, <2>6, <3>1, FollowStays
  <2>7. CASE at \in DOMAIN disk
    <3>1. NodeAt(disk, w).kind = "dir"
      BY <2>5, <2>7 DEF DiskInv
    <3>2. w \in DOMAIN disk
      BY <3>1, NodeKinds
    <3> QED BY <1>5, <3>2 DEF w
  <2> QED BY <2>6, <2>7
<1>6. bad = {}
  <2> HIDE DEF bad
  <2> QED BY <1>4, <1>5, FirstStep
<1>7. ASSUME NEW n \in 0..L PROVE to(n) \in DOMAIN disk
  <2>1. L - n \in 0..L /\ L - (L - n) = n
    BY <1>1, <1>7
  <2>2. to(L - (L - n)) \in DOMAIN disk
    BY <1>6, <2>1
  <2> QED BY <2>1, <2>2
<1> QED BY <1>7 DEF to, L

\* Every link recorded and every node walked is in the archive.
LEMMA PackedMembers ==
  ASSUME NEW tree
  PROVE  /\ \A at \in DOMAIN tree.links :
              at \in DOMAIN Packed(tree) /\ Packed(tree)[at].kind = tree.links[at].kind
         /\ \A at \in Walked(tree) :
              /\ at \in DOMAIN Packed(tree)
              /\ at \notin DOMAIN tree.links =>
                   (Packed(tree)[at].kind = "dir" <=> Met(tree, at).kind = "dir")
<1> DEFINE D == Walked(tree) \cup DOMAIN tree.links \cup {e.path : e \in ToSet(tree.extra)}
<1>1. Packed(tree) = [at \in D |-> Member(tree, at)]
  BY DEF Packed
<1>2. ASSUME NEW at \in DOMAIN tree.links PROVE Member(tree, at).kind = tree.links[at].kind
  BY DEF Member
<1>3. ASSUME NEW at \in Walked(tree), at \notin DOMAIN tree.links
      PROVE  Member(tree, at).kind = "dir" <=> Met(tree, at).kind = "dir"
  <2>1. CASE Met(tree, at).kind = "dir"
    BY <1>3, <2>1 DEF Member
  <2>2. CASE Met(tree, at).kind # "dir"
    BY <1>3, <2>2 DEF Member
  <2> QED BY <2>1, <2>2
<1>4. \A at \in DOMAIN tree.links : at \in D
  OBVIOUS
<1>5. \A at \in Walked(tree) : at \in D
  OBVIOUS
<1> HIDE DEF D
<1> QED BY <1>1, <1>2, <1>3, <1>4, <1>5

\* A path that exists in the staging tree, below probed directories that every image
\* starts with, is in the archive: none of them has become a link on the disk.
LEMMA ReachedIsPacked ==
  ASSUME NEW tree, TreeInv(tree), Directories(Packed(tree)), NEW at, IsSeq(at), at # <<>>,
         Above(at) \ {<<>>} \subseteq DirProbes \cap BaseDirs, Exists(tree, at)
  PROVE  /\ at \in DOMAIN Packed(tree)
         /\ \A q \in Above(at) \ {<<>>} : q \in DOMAIN Packed(tree) /\ Packed(tree)[q].kind = "dir"
<1> DEFINE archive == Packed(tree)
           disk == tree.disk
           q(n) == SubSeq(at, 1, n)
           L == Len(at)
           clear(n) == /\ q(n) \in DOMAIN disk /\ disk[q(n)].kind = "dir"
                       /\ Where(disk, q(n)) = q(n) /\ q(n) \notin DOMAIN tree.links
           bad == {n \in 0 .. L - 1 : ~clear(n)}
<1>1. DiskInv(disk) /\ LinksInv(tree.links)
  BY DEF TreeInv
<1>2. /\ L \in Nat \ {0} /\ q(0) = <<>> /\ q(L) = at
      /\ \A n \in 0..L : IsSeq(q(n)) /\ Len(q(n)) = n
      /\ \A n \in 1..L : q(n) # <<>> /\ Where(disk, q(n)) = Follow(disk, Append(Where(disk, q(n - 1)), at[n]))
      /\ \A n \in 1..L : q(n) = Append(q(n - 1), at[n])
  <2>1. L \in Nat \ {0} /\ q(0) = <<>> /\ q(L) = at
    BY PathSplit, PathPrefixAll
  <2>2. \A n \in 0..L : IsSeq(q(n)) /\ Len(q(n)) = n
    BY PathPrefix
  <2>3. \A n \in 1..L : Where(disk, q(n)) = Follow(disk, Append(Where(disk, q(n - 1)), at[n]))
    BY WhereAlong
  <2>4. ASSUME NEW n \in 1..L PROVE q(n) # <<>> /\ q(n) = Append(q(n - 1), at[n])
    <3>1. q(n) # <<>> /\ Front(q(n)) = q(n - 1) /\ Last(q(n)) = at[n]
      BY PathPrefixFront
    <3>2. n \in 0..L
      BY <2>1
    <3> HIDE DEF q
    <3> QED BY <2>2, <3>1, <3>2, PathSplit
  <2> QED BY <2>1, <2>2, <2>3, <2>4
<1>3. \A n \in 0..L : Where(disk, q(n)) \in DOMAIN disk
  BY <1>1, ThroughDirectories DEF Exists
<1>4. ASSUME NEW n \in 0..L PROVE \A p \in Above(q(n)) : \E m \in 0 .. n - 1 : p = q(m)
  <2>1. Len(q(n)) = n /\ IsSeq(q(n)) /\ n \in Nat
    BY <1>2
  <2>2. ASSUME NEW p \in Above(q(n)) PROVE \E m \in 0 .. n - 1 : p = q(m)
    <3>1. PICK m \in 0..n : p = SubSeq(q(n), 1, m)
      BY <2>1, <2>2 DEF Above, Prefixes
    <3>2. m # n
      <4>1. SubSeq(q(n), 1, n) = q(n)
        BY <2>1, PathPrefixAll
      <4> HIDE DEF q
      <4> QED BY <2>2, <3>1, <4>1 DEF Above
    <3>3. m \in 0..L /\ m \in 0 .. n - 1
      BY <1>2, <2>1, <3>2
    <3>4. /\ IsSeq(p) /\ Len(p) = m /\ \A i \in 1..m : p[i] = q(n)[i]
      BY <2>1, <3>1, PathPrefix
    <3>5. /\ IsSeq(q(m)) /\ Len(q(m)) = m /\ \A i \in 1..m : q(m)[i] = at[i]
      BY <3>3, PathPrefix
    <3>6. \A i \in 1..n : q(n)[i] = at[i]
      BY PathPrefix
    <3> HIDE DEF q
    <3>7. \A i \in 1..m : p[i] = q(m)[i]
      BY <2>1, <3>3, <3>4, <3>5, <3>6
    <3>8. p = q(m)
      BY <3>4, <3>5, <3>7, SeqEqual DEF IsSeq
    <3> QED BY <3>3, <3>8
  <2> QED BY <2>2
<1>5. \A n \in 1 .. L - 1 : q(n) \in DirProbes \cap BaseDirs
  <2>1. ASSUME NEW n \in 1 .. L - 1 PROVE q(n) \in Above(at) \ {<<>>}
    <3>0. L \in Nat /\ L # 0
      BY <1>2
    <3> HIDE DEF L
    <3>1. n \in 0..L /\ n \in 1..L /\ n # L
      BY <3>0
    <3>2. Len(q(n)) # Len(at) /\ q(n) # <<>>
      BY <1>2, <3>1 DEF L
    <3>3. q(n) \in Prefixes(at)
      BY <3>1 DEF Prefixes, L
    <3> QED BY <3>2, <3>3 DEF Above
  <2> QED BY <2>1
<1> HIDE DEF q
<1>6. ASSUME NEW n \in 0..L, \A m \in 0 .. n - 1 : clear(m) PROVE n # 0 => q(n) \in Walked(tree)
  <2>1. SUFFICES ASSUME n # 0 PROVE q(n) \in Walked(tree)
    OBVIOUS
  <2>2. n \in 1..L /\ n - 1 \in 0 .. n - 1
    BY <1>2, <2>1
  <2>3. Where(disk, q(n)) = Follow(disk, q(n)) /\ Where(disk, q(n)) \in DOMAIN disk
    BY <1>2, <1>3, <1>6, <2>2
  <2>4. q(n) \in DOMAIN disk
    <3>1. SUFFICES ASSUME q(n) \notin DOMAIN disk PROVE FALSE
      OBVIOUS
    <3>2. NodeAt(disk, q(n)).kind # "symlink"
      BY <3>1, NodeKinds
    <3> QED BY <2>3, <3>1, <3>2, FollowStays
  <2>5. q(n) # <<>>
    BY <1>2, <2>2
  <2>6. Above(q(n)) \cap DOMAIN tree.links = {}
    BY <1>4, <1>6
  <2> QED BY <2>4, <2>5, <2>6 DEF Walked
<1>7. clear(0)
  <2>1. q(0) = <<>> /\ Where(disk, <<>>) = <<>>
    BY <1>2, WhereRoot
  <2> QED BY <1>1, <2>1 DEF DiskInv, LinksInv
<1>8. bad \in SUBSET Nat /\ 0 \notin bad
  BY <1>2, <1>7
<1>9. ASSUME NEW n \in Nat, n # 0, n \in bad, \A m \in bad : n <= m PROVE FALSE
  <2>1. n \in 1 .. L - 1 /\ n \in 0..L /\ n \in 1..L
    BY <1>2, <1>9
  <2>2. \A m \in 0 .. n - 1 : clear(m)
    <3>1. \A m \in 0 .. n - 1 : m \in 0 .. L - 1 /\ ~(n <= m)
      BY <1>2, <1>9
    <3> HIDE DEF clear
    <3> QED BY <1>9, <3>1
  <2>3. q(n) \in Walked(tree)
    BY <1>6, <1>9, <2>1, <2>2
  <2>4. q(n) \in DOMAIN archive /\ archive[q(n)].kind = "dir"
    BY <1>5, <2>1, <2>3, PackedMembers DEF Directories
  <2>5. q(n) \notin DOMAIN tree.links
    BY <1>1, <2>4, PackedMembers DEF LinksInv
  <2>6. disk[q(n)].kind = "dir" /\ q(n) \in DOMAIN disk
    BY <1>1, <1>5, <2>1, NodeKinds DEF DiskInv
  <2>7. Where(disk, q(n)) = q(n)
    <3>1. NodeAt(disk, q(n)).kind # "symlink"
      BY <2>6, NodeKinds
    <3>2. n - 1 \in 0 .. n - 1
      BY <2>1
    <3>3. Where(disk, q(n)) = Follow(disk, q(n))
      BY <1>2, <2>1, <2>2, <3>2
    <3> QED BY <3>1, <3>3, FollowStays
  <2> QED BY <1>9, <2>5, <2>6, <2>7
<1>10. bad = {}
  <2> HIDE DEF bad
  <2> QED BY <1>8, <1>9, FirstStep
<1>11. \A n \in 0 .. L - 1 : clear(n)
  BY <1>10
<1> HIDE DEF clear
<1>12. ASSUME NEW n \in 1..L PROVE q(n) \in Walked(tree)
  <2>1. n \in 0..L /\ n # 0 /\ \A m \in 0 .. n - 1 : clear(m)
    BY <1>2, <1>11
  <2> QED BY <1>6, <2>1
<1>13. at \in DOMAIN archive
  BY <1>2, <1>12, PackedMembers
<1>14. ASSUME NEW p \in Above(at) \ {<<>>} PROVE p \in DOMAIN archive /\ archive[p].kind = "dir"
  <2>1. L \in 0..L /\ q(L) = at /\ q(0) = <<>>
    BY <1>2
  <2>2. PICK m \in 0 .. L - 1 : p = q(m)
    BY <1>4, <2>1
  <2>3. m \in 1 .. L - 1 /\ m \in 1..L
    BY <1>2, <2>1, <2>2
  <2>4. q(m) \in DOMAIN archive
    BY <1>12, <2>3, PackedMembers
  <2> QED BY <1>5, <2>2, <2>3, <2>4 DEF Directories
<1> QED BY <1>13, <1>14

\* An image whose checks all pass has what it takes to start.
LEMMA PassedIsUsable ==
  ASSUME TreeInv(root), Passed(root), NEW at \in Required \cap Probes
  PROVE  /\ at \in DOMAIN Packed(root) /\ Packed(root)[at].mode = "exec"
         /\ \A q \in Above(at) \ {<<>>} : q \in DOMAIN Packed(root) /\ Packed(root)[q].kind = "dir"
<1> DEFINE archive == Packed(root)
<1>1. /\ Exists(root, at) /\ Directories(archive) /\ Executables(archive)
  BY DEF Passed, Staged, Metadata
<1>2. IsSeq(at) /\ at # <<>> /\ Above(at) \ {<<>>} \subseteq DirProbes \cap BaseDirs
  BY ProbesAssumption
<1>3. /\ at \in DOMAIN archive
      /\ \A q \in Above(at) \ {<<>>} : q \in DOMAIN archive /\ archive[q].kind = "dir"
  BY <1>1, <1>2, ReachedIsPacked
<1> HIDE DEF archive
<1>4. archive[at].mode = "exec"
  BY <1>1, <1>3 DEF Executables, Found
<1> QED BY <1>3, <1>4 DEF archive

-----------------------------------------------------------------------------
(* The images: what the build of one architecture has at hand.             *)

AskedInv ==
  stage # "idle" =>
    /\ \E asked \in Requests : archs = asked.archs
    /\ IsSeq(report) /\ (stage = "closure" => Len(report) < Len(Candidates))

\* The tree, and what the resolver has chosen for it.
BuildInv ==
  Building =>
    /\ Arch \in Buildable /\ TreeInv(root) /\ next \in Nat \ {0}
    /\ stage # "index" => ResolverInv(Arch)
    /\ stage \notin {"index", "resolve"} => queue = <<>>

CandidateInv == stage = "closure" => ResolverInv(Candidate)

ImageInv == DirectoryInv /\ AskedInv /\ next \in Nat \ {0} /\ BuildInv /\ CandidateInv

\* What is being built is an architecture that is enabled.
LEMMA ArchIsBuildable ==
  ASSUME DirectoryInv, AskedInv, stage # "idle", pos \in 1..Len(archs), Supported(Arch)
  PROVE  Arch \in Buildable
<1>1. PICK asked \in Requests : archs = asked.archs
  BY DEF AskedInv
<1>2. IsSeq(archs)
  BY DEF DirectoryInv, ResultsInv
<1>3. Arch \in ToSet(asked.archs)
  BY <1>1, <1>2, ElementAt DEF Arch
<1> HIDE DEF Arch
<1>4. Arch \in UNION {ToSet(a.archs) : a \in Requests}
  BY <1>3
<1> QED BY <1>4 DEF Buildable

\* What the report resolves is a candidate.
LEMMA CandidateIsOne ==
  ASSUME IsSeq(report), Len(report) < Len(Candidates) PROVE Candidate \in ToSet(Candidates)
<1>1. IsSeq(Candidates) /\ Len(Candidates) \in Nat /\ Len(report) \in Nat
  BY CandidatesExist, SeqLen
<1>2. Len(report) + 1 \in 1..Len(Candidates)
  BY <1>1
<1> HIDE DEF Candidates
<1> QED BY <1>1, <1>2, ElementAt DEF Candidate

\* A step outside builds, that does not touch the resolver, or ends with a build.
LEMMA NotBuilding ==
  ASSUME ImageInv, DirectoryInv', AskedInv', ~Building', stage' # "closure", next' \in Nat \ {0}
  PROVE  ImageInv'
BY DEF ImageInv, BuildInv, CandidateInv

\* What leaves the resolver alone keeps its invariant.
LEMMA ResolverKept == ASSUME NEW a, ResolverInv(a), UNCHANGED resolverVars PROVE ResolverInv(a)'
<1>1. index' = index /\ queue' = queue /\ queued' = queued /\ order' = order
  BY DEF resolverVars
<1>2. Listed(a) /\ QueueInv /\ GroupsInv
  BY DEF ResolverInv
<1>3. Listed(a)'
  BY <1>1, <1>2 DEF Listed
<1>4. QueueInv'
  BY <1>1, <1>2, IndexKept DEF QueueInv, Had, Chosen
<1>5. GroupsInv'
  BY <1>1, <1>2, IndexKept DEF GroupsInv, Served, Chosen, SatisfiedByChosen
<1> QED BY <1>3, <1>4, <1>5 DEF ResolverInv

\* A step within the build of an architecture.
LEMMA BuildGoes ==
  ASSUME ImageInv, DirectoryInv', Building, Building', UNCHANGED <<archs, pos, report>>,
         TreeInv(root'), next' \in Nat \ {0},
         NEW a, a = Arch, stage' # "index" => ResolverInv(a)',
         stage' \notin {"index", "resolve"} => queue' = <<>>
  PROVE  ImageInv'
<1>1. Arch' = a /\ Arch \in Buildable
  BY DEF Arch, ImageInv, BuildInv
<1>2. stage' # "index" => ResolverInv(Arch)'
  BY <1>1 DEF ResolverInv, Listed
<1>3. stage # "idle" /\ stage' \notin {"idle", "closure"}
  BY DEF Building
<1>4. AskedInv'
  BY <1>3 DEF ImageInv, AskedInv
<1>5. BuildInv'
  BY <1>1, <1>2 DEF BuildInv
<1>6. CandidateInv'
  BY <1>3 DEF CandidateInv
<1> QED BY <1>4, <1>5, <1>6 DEF ImageInv

\* The payloads a mirror may send for a record of its index.
LEMMA PayloadIsTyped ==
  ASSUME NEW arch \in Buildable, Listed(arch), NEW i \in DOMAIN index,
         NEW blob \in {b \in Payload[arch][index[i].package] : Readable(b)}
  PROVE  IsSeq(DataTar(blob)) /\ \A m \in ToSet(DataTar(blob)) : IsMember(m)
<1>1. PICK s \in Stanzas(arch) : "Package" \in DOMAIN s /\ index[i] = RecordOf(s)
  BY DEF Listed
<1>2. index[i].package = s["Package"]
  BY <1>1 DEF RecordOf
<1>3. blob \in {b \in Payload[arch][s["Package"]] : Readable(b)} /\ s \in {t \in Stanzas(arch) : "Package" \in DOMAIN t}
  BY <1>1, <1>2
<1> QED BY <1>3, PayloadAssumption, Zenon DEF IsMember

\* A package is fetched and installed.
LEMMA FetchPackageKeeps == ASSUME ImageInv, DirectoryInv', FetchPackage PROVE ImageInv'
<1>1. /\ stage = "fetch" /\ stage' = "fetch" /\ next <= Len(order) /\ next' = next + 1
      /\ UNCHANGED <<archs, pos, report>> /\ UNCHANGED resolverVars
  BY DEF FetchPackage, Kept
<1>2. Building /\ Building'
  BY <1>1 DEF Building
<1>3. Arch \in Buildable /\ TreeInv(root) /\ ResolverInv(Arch) /\ queue = <<>> /\ next \in Nat \ {0}
  BY <1>1, <1>2 DEF ImageInv, BuildInv
<1>4. PICK a \in Buildable : a = Arch
  BY <1>3
<1>5. ResolverInv(a)
  BY <1>3, <1>4
<1>6. order[next] \in DOMAIN index /\ Listed(a)
  <2>1. IsSeq(order) /\ ToSet(order) \subseteq DOMAIN index /\ Listed(a)
    BY <1>5 DEF ResolverInv, QueueInv
  <2>2. next \in 1..Len(order)
    BY <1>1, <1>3, <2>1, SeqLen
  <2> QED BY <2>1, <2>2, ElementAt
<1> DEFINE record == index[order[next]]
<1>7. TreeInv(root')
  <2>1. CASE root' = root
    BY <1>3, <2>1
  <2>2. ASSUME NEW blob \in {b \in Payload[Arch][record.package] : Readable(b)},
               root' = InstallPayload(root, DataTar(blob), record.package)
        PROVE  TreeInv(root')
    <3>1. IsSeq(DataTar(blob)) /\ \A m \in ToSet(DataTar(blob)) : IsMember(m)
      BY <1>4, <1>6, <2>2, PayloadIsTyped
    <3> QED BY <1>3, <2>2, <3>1, PayloadKeeps
  <2> HIDE DEF record
  <2> QED BY <2>1, <2>2 DEF FetchPackage, record
<1>8. ResolverInv(a)' /\ queue' = <<>> /\ next' \in Nat \ {0}
  BY <1>1, <1>3, <1>5, ResolverKept DEF resolverVars
<1> HIDE DEF Arch
<1> QED BY <1>1, <1>2, <1>4, <1>7, <1>8, BuildGoes

\* The base files, the dpkg state and the Buster layer are written.
LEMMA LayerKeeps == ASSUME ImageInv, DirectoryInv', WriteLayer PROVE ImageInv'
<1>1. /\ stage = "fetch" /\ stage' = "pack" /\ next' = next
      /\ root' = WriteSystem(WriteDpkg(root, Installed, status))
      /\ UNCHANGED <<archs, pos, report>> /\ UNCHANGED resolverVars
  BY DEF WriteLayer, Kept
<1>2. Building /\ Building'
  BY <1>1 DEF Building
<1>3. Arch \in Buildable /\ TreeInv(root) /\ ResolverInv(Arch) /\ queue = <<>> /\ next \in Nat \ {0}
  BY <1>1, <1>2 DEF ImageInv, BuildInv
<1>4. PICK a \in Buildable : a = Arch
  BY <1>3
<1>5. ResolverInv(a)
  BY <1>3, <1>4
<1>6. IsSeq(Installed)
  <2> DEFINE packages == [i \in DOMAIN order |-> index[order[i]].package]
             P == {i \in DOMAIN order : index[order[i]].package \in DOMAIN status}
  <2>1. IsSeq(order)
    BY <1>5 DEF ResolverInv, QueueInv
  <2>2. P \in SUBSET Nat /\ IsFiniteSet(P)
    BY <2>1, PositionsFinite
  <2>3. Installed = Those(packages, P)
    BY DEF Installed
  <2> HIDE DEF packages, P
  <2> QED BY <2>2, <2>3, ThoseProperties
<1>7. TreeInv(root')
  <2> HIDE DEF Installed
  <2>1. TreeInv(WriteDpkg(root, Installed, status))
    BY <1>3, <1>6, DpkgKeeps
  <2> QED BY <1>1, <2>1, SystemKeeps
<1>8. ResolverInv(a)' /\ queue' = <<>> /\ next' \in Nat \ {0}
  BY <1>1, <1>3, <1>5, ResolverKept DEF resolverVars
<1> HIDE DEF Arch
<1> QED BY <1>1, <1>2, <1>4, <1>7, <1>8, BuildGoes

\* The build takes one turn of the resolver.
LEMMA ResolveKeeps == ASSUME ImageInv, DirectoryInv', Resolve PROVE ImageInv'
<1>1. /\ stage = "resolve" /\ stage' \in {"resolve", "fetch"} /\ next' = next /\ root' = root
      /\ UNCHANGED <<archs, pos, report>>
      /\ \/ Visit /\ stage' = "resolve"
         \/ queue = <<>> /\ UNCHANGED resolverVars
  BY DEF Resolve, Kept, Resolved
<1>2. Building /\ Building'
  BY <1>1 DEF Building
<1>3. Arch \in Buildable /\ TreeInv(root') /\ ResolverInv(Arch) /\ next \in Nat \ {0}
  BY <1>1, <1>2 DEF ImageInv, BuildInv
<1>4. PICK a \in Buildable : a = Arch
  BY <1>3
<1>5. ResolverInv(a)
  BY <1>3, <1>4
<1>6. ResolverInv(a)'
  BY <1>1, <1>5, VisitKeeps, ResolverKept
<1>7. stage' \notin {"index", "resolve"} => queue' = <<>>
  BY <1>1 DEF resolverVars
<1> HIDE DEF Arch
<1> QED BY <1>1, <1>2, <1>3, <1>4, <1>6, <1>7, BuildGoes

\* The build fetches the index.
LEMMA FetchIndexKeeps == ASSUME ImageInv, DirectoryInv', FetchIndex PROVE ImageInv'
<1>1. /\ stage = "index" /\ stage' = "resolve" /\ UNCHANGED <<root, archs, pos, report, next>>
  BY DEF FetchIndex, Kept
<1>2. Building /\ Building'
  BY <1>1 DEF Building
<1>3. Arch \in Buildable /\ TreeInv(root') /\ next' \in Nat \ {0}
  BY <1>1, <1>2 DEF ImageInv, BuildInv
<1>4. PICK a \in Buildable : a = Arch
  BY <1>3
<1>5. PICK indexes \in Mirror[a], got \in SUBSET {1, 2} : Begin(Answered(indexes, got), Arch)
  BY <1>4 DEF FetchIndex
<1>6. ResolverInv(a)'
  BY <1>4, <1>5, BeginHolds
<1> HIDE DEF Arch
<1> QED BY <1>1, <1>2, <1>3, <1>4, <1>6, BuildGoes

\* The archive and the manifest are written.
LEMMA LaterKeeps == ASSUME ImageInv, DirectoryInv', Pack \/ WriteManifest PROVE ImageInv'
<1>1. /\ stage \in {"pack", "manifest"} /\ stage' \in {"manifest", "verification"}
      /\ UNCHANGED <<root, archs, pos, report, next>> /\ UNCHANGED resolverVars
  BY DEF Pack, WriteManifest, Kept
<1>2. Building /\ Building'
  BY <1>1 DEF Building
<1>3. /\ Arch \in Buildable /\ TreeInv(root') /\ next' \in Nat \ {0} /\ ResolverInv(Arch)
      /\ queue' = <<>>
  BY <1>1, <1>2 DEF ImageInv, BuildInv, resolverVars
<1>4. PICK a \in Buildable : a = Arch
  BY <1>3
<1>5. ResolverInv(a)'
  BY <1>1, <1>3, <1>4, ResolverKept
<1> HIDE DEF Arch
<1> QED BY <1>1, <1>2, <1>3, <1>4, <1>5, BuildGoes

\* The next name is looked up.
LEMMA LookupKeeps == ASSUME ImageInv, DirectoryInv', Lookup PROVE ImageInv'
<1>1. /\ stage = "lookup" /\ pos <= Len(archs) /\ pos' = pos /\ archs' = archs /\ report' = report
      /\ next' = next
      /\ IF Supported(Arch) THEN stage' = "index" /\ root' = Layout ELSE stage' = "idle"
  BY DEF Lookup, Kept
<1>2. AskedInv'
  BY <1>1 DEF ImageInv, AskedInv
<1>3. CASE Supported(Arch)
  <2>1. stage' = "index" /\ root' = Layout
    BY <1>1, <1>3
  <2>2. pos \in Nat /\ IsSeq(archs) /\ IsSeq(built) /\ Len(built) = pos - 1
    BY <1>1 DEF ImageInv, DirectoryInv, ResultsInv
  <2>3. pos \in 1..Len(archs)
    BY <1>1, <2>2, SeqLen
  <2>4. Arch \in Buildable
    BY <1>1, <1>3, <2>3, ArchIsBuildable DEF ImageInv
  <2>5. Arch' = Arch
    BY <1>1 DEF Arch
  <2> HIDE DEF Arch
  <2>6. TreeInv(root')
    BY <2>1, LayoutHolds
  <2>7. BuildInv'
    BY <1>1, <2>1, <2>4, <2>5, <2>6 DEF BuildInv, ImageInv
  <2>8. CandidateInv'
    BY <2>1 DEF CandidateInv
  <2> QED BY <1>1, <1>2, <2>7, <2>8 DEF ImageInv
<1>4. CASE ~Supported(Arch)
  <2>1. stage' = "idle" /\ ~Building'
    BY <1>1, <1>4 DEF Building
  <2> QED BY <1>1, <1>2, <2>1, NotBuilding DEF ImageInv
<1> QED BY <1>3, <1>4

\* The index of a candidate is fetched.
LEMMA FetchCandidateKeeps == ASSUME ImageInv, DirectoryInv', FetchCandidate PROVE ImageInv'
<1>1. /\ stage = "lookup" /\ stage' = "closure" /\ Len(report) < Len(Candidates)
      /\ UNCHANGED <<archs, pos, next, report>>
  BY DEF FetchCandidate, AllTried
<1>2. ~Building' /\ next' \in Nat \ {0}
  BY <1>1 DEF Building, ImageInv
<1>3. IsSeq(report)
  BY <1>1 DEF ImageInv, AskedInv
<1>4. Candidate \in ToSet(Candidates)
  BY <1>1, <1>3, CandidateIsOne
<1>5. PICK a \in ToSet(Candidates) : a = Candidate
  BY <1>4
<1>6. PICK indexes \in Mirror[a], got \in SUBSET {1, 2} : Begin(Answered(indexes, got), Candidate)
  BY <1>5 DEF FetchCandidate
<1>7. ResolverInv(a)'
  BY <1>5, <1>6, BeginHolds
<1>8. Candidate' = a
  BY <1>1, <1>5 DEF Candidate
<1>9. CandidateInv'
  BY <1>7, <1>8 DEF CandidateInv, ResolverInv, Listed
<1>10. AskedInv'
  BY <1>1 DEF ImageInv, AskedInv
<1> QED BY <1>2, <1>9, <1>10 DEF ImageInv, BuildInv

\* A candidate is judged.
LEMMA JudgeKeeps == ASSUME ImageInv, DirectoryInv', JudgeCandidate PROVE ImageInv'
<1>1. stage = "closure" /\ stage' \in {"closure", "lookup"} /\ UNCHANGED <<archs, pos, next>>
  BY DEF JudgeCandidate
<1>2. ~Building' /\ next' \in Nat \ {0}
  BY <1>1 DEF Building, ImageInv
<1>3. IsSeq(report) /\ Len(report) < Len(Candidates) /\ ResolverInv(Candidate)
  BY <1>1 DEF ImageInv, AskedInv, CandidateInv
<1>4. CASE Visit /\ UNCHANGED <<stage, report>>
  <2>1. PICK a \in ToSet(Candidates) : a = Candidate
    BY <1>3, CandidateIsOne
  <2>2. ResolverInv(a)'
    BY <1>3, <1>4, <2>1, VisitKeeps
  <2>3. Candidate' = a
    BY <1>4, <2>1 DEF Candidate
  <2>4. CandidateInv'
    BY <2>2, <2>3 DEF CandidateInv, ResolverInv, Listed
  <2>5. AskedInv'
    BY <1>1, <1>4 DEF ImageInv, AskedInv
  <2> QED BY <1>2, <2>4, <2>5 DEF ImageInv, BuildInv
<1>5. CASE stage' = "lookup" /\ report' = Append(report, [arch |-> Candidate, resolvable |-> Resolved])
  <2> DEFINE entry == [arch |-> Candidate, resolvable |-> Resolved]
  <2>1. report' = Append(report, entry)
    BY <1>5
  <2> HIDE DEF entry
  <2>2. IsSeq(report')
    BY <1>3, <2>1, AppendIsSeq
  <2>3. AskedInv'
    BY <1>1, <1>5, <2>2 DEF ImageInv, AskedInv
  <2> QED BY <1>2, <1>5, <2>3, NotBuilding
<1> QED BY <1>4, <1>5 DEF JudgeCandidate

\* Every step keeps the invariant of the images.
LEMMA ImageInvStep == ImageInv /\ [Next]_vars => ImageInv'
<1> SUFFICES ASSUME ImageInv, [Next]_vars PROVE ImageInv'
  OBVIOUS
<1>1. DirectoryInv'
  BY DirectoryInvStep DEF ImageInv
<1>2. CASE Start
  <2>1. PICK asked \in Requests : archs' = asked.archs
    BY <1>2 DEF Start
  <2>2. stage' = "lookup" /\ report' = <<>> /\ next' = next
    BY <1>2 DEF Start
  <2>3. AskedInv'
    BY <2>1, <2>2, EmptyIsSeq DEF AskedInv
  <2>4. ~Building'
    BY <2>2 DEF Building
  <2> QED BY <1>1, <2>2, <2>3, <2>4, NotBuilding DEF ImageInv
<1>3. CASE WriteVerification \/ BuildFails
  <2>1. stage # "idle" /\ stage' = "lookup" /\ archs' = archs /\ report' = report /\ next' = 1
    BY <1>3 DEF WriteVerification, BuildFails, Kept, Bare, Building
  <2>2. ~Building' /\ AskedInv' /\ next' \in Nat \ {0}
    BY <2>1 DEF Building, AskedInv, ImageInv
  <2> QED BY <1>1, <2>1, <2>2, NotBuilding
<1>4. CASE WriteReport \/ WriteSums
  <2>1. stage # "idle" /\ stage' \in {"sums", "release"} /\ archs' = archs /\ report' = report /\ next' = next
    BY <1>4 DEF WriteReport, WriteSums, Reporting, AllTried
  <2>2. ~Building' /\ AskedInv' /\ next' \in Nat \ {0}
    BY <2>1 DEF Building, AskedInv, ImageInv
  <2> QED BY <1>1, <2>1, <2>2, NotBuilding
<1>5. CASE End \/ Kill
  <2>1. stage' = "idle" /\ (next' = next \/ next' = 1)
    BY <1>5 DEF End, Kill, Bare
  <2>2. ~Building' /\ AskedInv' /\ next' \in Nat \ {0}
    BY <2>1 DEF Building, AskedInv, ImageInv
  <2> QED BY <1>1, <2>1, <2>2, NotBuilding
<1>6. CASE UNCHANGED vars
  <2>1. UNCHANGED <<stage, archs, pos, report, next, root>> /\ UNCHANGED resolverVars
    BY <1>6 DEF vars, rootVars
  <2>2. AskedInv' /\ next' \in Nat \ {0}
    BY <2>1 DEF AskedInv, ImageInv
  <2>3. CASE Building
    <3>1. Building'
      BY <2>1, <2>3 DEF Building
    <3>2. PICK a \in Buildable : a = Arch
      BY <2>3 DEF ImageInv, BuildInv
    <3>3. TreeInv(root') /\ (stage' # "index" => ResolverInv(a)')
          /\ (stage' \notin {"index", "resolve"} => queue' = <<>>)
      BY <2>1, <2>3, <3>2, ResolverKept DEF ImageInv, BuildInv, resolverVars
    <3> HIDE DEF Arch
    <3> QED BY <1>1, <2>1, <2>2, <2>3, <3>1, <3>2, <3>3, BuildGoes
  <2>4. CASE ~Building /\ stage # "closure"
    <3>1. ~Building' /\ stage' # "closure"
      BY <2>1, <2>4 DEF Building
    <3> QED BY <1>1, <2>2, <3>1, NotBuilding
  <2>5. CASE stage = "closure"
    <3>1. IsSeq(report) /\ Len(report) < Len(Candidates) /\ ResolverInv(Candidate)
      BY <2>5 DEF ImageInv, AskedInv, CandidateInv
    <3>2. PICK a \in ToSet(Candidates) : a = Candidate
      BY <3>1, CandidateIsOne
    <3>3. ResolverInv(a)' /\ Candidate' = a
      BY <2>1, <3>1, <3>2, ResolverKept DEF Candidate
    <3>4. CandidateInv'
      BY <3>3 DEF CandidateInv, ResolverInv, Listed
    <3>5. ~Building'
      BY <2>1, <2>5 DEF Building
    <3> QED BY <1>1, <2>2, <3>4, <3>5 DEF ImageInv, BuildInv
  <2> QED BY <2>3, <2>4, <2>5
<1> QED BY <1>1, <1>2, <1>3, <1>4, <1>5, <1>6, LookupKeeps, FetchIndexKeeps, ResolveKeeps, FetchPackageKeeps,
           LayerKeeps, LaterKeeps, FetchCandidateKeeps, JudgeKeeps, Zenon DEF Next

\* The invariant of the images holds at the start.
LEMMA ImageInvStarts == Init => ImageInv
<1> SUFFICES ASSUME Init PROVE ImageInv
  OBVIOUS
<1>1. stage = "idle" /\ stamp = 0 /\ next = 1
  BY DEF Init
<1> QED BY <1>1 DEF ImageInv, DirectoryInv, AskedInv, BuildInv, CandidateInv, Building

\* The packages the resolver chose are closed under their dependencies (resolver.py:151),
\* whatever the index lists, provides and depends on, and however long the queue gets.
THEOREM ClosureStaysClosed == Spec => []ClosureIsClosed
<1>1. ImageInv => ClosureIsClosed
  <2> SUFFICES ASSUME ImageInv, stage = "fetch"
               PROVE  /\ \A name \in ToSet(Seeds) : index[Pick(name)].package \in Chosen(order)
                      /\ \A i \in ToSet(order) : \A g \in ToSet(index[i].depends) :
                           \/ \E k \in DOMAIN g : SatisfiedByChosen(order, g[k])
                           \/ \E k \in Eligible(g) : index[Pick(g[k].name)].package \in Chosen(order)
                           \/ Eligible(g) = {}
    BY Zenon DEF ClosureIsClosed
  <2>1. Arch \in Buildable /\ ResolverInv(Arch) /\ queue = <<>>
    BY DEF ImageInv, BuildInv, Building
  <2>2. PICK a \in Buildable : a = Arch
    BY <2>1
  <2> QED BY <2>1, <2>2, ResolvedIsClosed
<1> QED BY <1>1, ImageInvStarts, ImageInvStep, PTL DEF Spec

\* An image whose checks all pass (build_rootfs.py:193, 358, 501) has the package manager,
\* executable and below directories, whatever the packages ship and on either host.
THEOREM PassedImagesAreUsable == Spec => []PassedMeansUsable
<1>1. ImageInv => PassedMeansUsable
  <2> SUFFICES ASSUME ImageInv, stage = "manifest", Passed(root), NEW at \in Required \cap Probes
               PROVE  /\ at \in DOMAIN Packed(root) /\ Packed(root)[at].mode = "exec"
                      /\ \A q \in Above(at) \ {<<>>} :
                           q \in DOMAIN Packed(root) /\ Packed(root)[q].kind = "dir"
    BY Zenon DEF PassedMeansUsable
  <2>1. TreeInv(root)
    BY DEF ImageInv, BuildInv, Building
  <2> QED BY <2>1, PassedIsUsable
<1> QED BY <1>1, ImageInvStarts, ImageInvStep, PTL DEF Spec

-----------------------------------------------------------------------------
(* The order of plain versions.                                            *)

\* The loop of Value.
ValueLoop(token, f) ==
  f = [n \in 0..Len(token) |-> IF n = 0 THEN 0 ELSE 10 * f[n - 1] + (token[n] - 48)]

\* The value of a numeral, read digit by digit, is a loop over its digits.
LEMMA ValueLoops ==
  ASSUME NEW token \in Text
  PROVE  \E f : ValueLoop(token, f) /\ Value(token) = f[Len(token)]
<1> DEFINE Fits(m, f) == f = [n \in 0..m |-> IF n = 0 THEN 0 ELSE 10 * f[n - 1] + (token[n] - 48)]
           bad == {m \in Nat : ~(\E f : Fits(m, f))}
<1>1. 0 \notin bad
  <2>1. Fits(0, [n \in 0..0 |-> 0])
    OBVIOUS
  <2> QED BY <2>1
<1>2. ASSUME NEW m \in Nat, m # 0, m - 1 \in Nat, m - 1 \notin bad PROVE m \notin bad
  <2>1. PICK f : Fits(m - 1, f)
    BY <1>2
  <2> DEFINE g == [n \in 0..m |-> IF n = m THEN 10 * f[m - 1] + (token[m] - 48) ELSE f[n]]
  <2>2. ASSUME NEW n \in 0..m PROVE g[n] = IF n = 0 THEN 0 ELSE 10 * g[n - 1] + (token[n] - 48)
    <3>1. CASE n = m
      <4>1. m - 1 \in 0..m /\ m - 1 # m
        BY <1>2
      <4>2. g[m - 1] = f[m - 1] /\ g[m] = 10 * f[m - 1] + (token[m] - 48)
        BY <1>2, <4>1
      <4> QED BY <1>2, <3>1, <4>2
    <3>2. CASE n # m
      <4>1. n \in 0 .. m - 1 /\ g[n] = f[n]
        BY <1>2, <3>2
      <4>2. f[n] = IF n = 0 THEN 0 ELSE 10 * f[n - 1] + (token[n] - 48)
        BY <2>1, <4>1
      <4>3. CASE n = 0
        BY <4>1, <4>2, <4>3
      <4>4. CASE n # 0
        <5>1. n - 1 \in 0..m /\ n - 1 # m
          BY <1>2, <4>1, <4>4
        <5>2. g[n - 1] = f[n - 1]
          BY <5>1
        <5> QED BY <4>1, <4>2, <4>4, <5>2
      <4> QED BY <4>3, <4>4
    <3> QED BY <3>1, <3>2
  <2>3. g = [n \in 0..m |-> g[n]]
    OBVIOUS
  <2> HIDE DEF g
  <2>4. Fits(m, g)
    BY <2>2, <2>3
  <2> QED BY <2>4
<1>3. bad = {}
  <2>1. bad \in SUBSET Nat
    OBVIOUS
  <2> HIDE DEF bad
  <2> QED BY <1>1, <1>2, <2>1, FirstStep
<1>4. \E f : ValueLoop(token, f)
  <2>1. Len(token) \in Nat
    BY LenProperties DEF Text
  <2> QED BY <1>3, <2>1 DEF ValueLoop
<1> DEFINE sum == CHOOSE f : ValueLoop(token, f)
<1>5. ValueLoop(token, sum)
  BY <1>4
<1>6. Value(token) = sum[Len(token)]
  BY DEF Value, ValueLoop
<1> QED BY <1>5, <1>6

\* A number, and one without leading zeros.
Numeral == {token \in Text : token # <<>> /\ IsNumber(token)}
PlainNumeral == {token \in Numeral : Len(token) > 1 => token[1] # 48}

\* The digits of a numeral.
LEMMA NumeralDigits ==
  ASSUME NEW token \in Numeral
  PROVE  Len(token) \in Nat \ {0} /\ \A i \in 1..Len(token) : token[i] \in 48..57
<1>1. token \in Seq(Nat) /\ token # <<>> /\ ToSet(token) \subseteq 48..57
  BY DEF Numeral, Text, IsNumber, Digit
<1>2. Len(token) \in Nat /\ DOMAIN token = 1..Len(token) /\ Len(token) # 0
  BY <1>1, LenProperties, EmptySeq
<1> QED BY <1>1, <1>2 DEF ToSet

\* The partial values of a number, and that those of one that does not start
\* with 0 are not 0.
LEMMA PartialValues ==
  ASSUME NEW token \in Numeral, NEW f, ValueLoop(token, f)
  PROVE  /\ f[0] = 0 /\ \A n \in 0..Len(token) : f[n] \in Nat
         /\ \A n \in 1..Len(token) : f[n] = 10 * f[n - 1] + (token[n] - 48)
         /\ token[1] # 48 => \A n \in 1..Len(token) : f[n] > 0
<1>1. Len(token) \in Nat \ {0} /\ \A i \in 1..Len(token) : token[i] \in 48..57
  BY NumeralDigits
<1>2. \A n \in 0..Len(token) : f[n] = IF n = 0 THEN 0 ELSE 10 * f[n - 1] + (token[n] - 48)
  BY DEF ValueLoop
<1>3. f[0] = 0 /\ \A n \in 1..Len(token) : f[n] = 10 * f[n - 1] + (token[n] - 48)
  <2>1. 0 \in 0..Len(token) /\ \A n \in 1..Len(token) : n \in 0..Len(token) /\ n # 0
    BY <1>1
  <2> QED BY <1>2, <2>1
<1> DEFINE bad == {n \in 0..Len(token) : f[n] \notin Nat \/ (token[1] # 48 /\ n # 0 /\ ~(f[n] > 0))}
<1>4. bad \in SUBSET Nat /\ 0 \notin bad
  BY <1>1, <1>3
<1>5. ASSUME NEW n \in Nat, n # 0, n - 1 \in Nat, n - 1 \notin bad, n \in bad PROVE FALSE
  <2>1. n \in 1..Len(token) /\ n - 1 \in 0..Len(token)
    BY <1>1, <1>5
  <2>2. f[n - 1] \in Nat /\ (token[1] # 48 /\ n # 1 => f[n - 1] > 0)
    BY <1>1, <1>5, <2>1
  <2>3. f[n] = 10 * f[n - 1] + (token[n] - 48) /\ token[n] \in 48..57
    BY <1>1, <1>3, <2>1
  <2>4. f[n] \in Nat
    BY <2>2, <2>3
  <2>5. ASSUME token[1] # 48 PROVE f[n] > 0
    <3>1. CASE n = 1
      BY <1>3, <2>3, <2>2, <2>5, <3>1
    <3>2. CASE n # 1
      BY <2>2, <2>3, <2>5, <3>2
    <3> QED BY <3>1, <3>2
  <2> QED BY <1>5, <2>4, <2>5
<1>6. bad = {}
  <2> HIDE DEF bad
  <2> QED BY <1>4, <1>5, FirstStep
<1>7. \A n \in 0..Len(token) : f[n] \in Nat /\ (token[1] # 48 /\ n # 0 => f[n] > 0)
  BY <1>6
<1>8. \A n \in 1..Len(token) : n \in 0..Len(token) /\ n # 0
  BY <1>1
<1> QED BY <1>3, <1>7, <1>8

\* One digit more, on a smaller and on a larger number.
LEMMA Carry ==
  ASSUME NEW a \in Nat, NEW b \in Nat, a < b, NEW p \in 48..57, NEW q \in 48..57
  PROVE  10 * a + (p - 48) < 10 * b + (q - 48)
<1>1. a + 1 <= b
  OBVIOUS
<1> QED BY <1>1, SMT

\* Of two numbers that differ in the last digit the one with the smaller digit is smaller.
LEMMA DigitCarry ==
  ASSUME NEW a \in Nat, NEW p \in 48..57, NEW q \in 48..57, p < q
  PROVE  10 * a + (p - 48) < 10 * a + (q - 48)
OBVIOUS

\* Once smaller, what a number amounts to stays smaller.
LEMMA StaysLess ==
  ASSUME NEW x \in Numeral, NEW y \in Numeral, NEW f, ValueLoop(x, f), NEW g, ValueLoop(y, g),
         NEW k \in 0..Len(x), NEW d \in Nat, Len(y) = Len(x) + d, f[k] < g[k + d]
  PROVE  f[Len(x)] < g[Len(y)]
<1>1. /\ Len(x) \in Nat \ {0} /\ \A i \in 1..Len(x) : x[i] \in 48..57
      /\ Len(y) \in Nat \ {0} /\ \A i \in 1..Len(y) : y[i] \in 48..57
  BY NumeralDigits
<1>2. /\ \A n \in 0..Len(x) : f[n] \in Nat
      /\ \A n \in 1..Len(x) : f[n] = 10 * f[n - 1] + (x[n] - 48)
      /\ \A n \in 0..Len(y) : g[n] \in Nat
      /\ \A n \in 1..Len(y) : g[n] = 10 * g[n - 1] + (y[n] - 48)
  BY PartialValues
<1> DEFINE bad == {n \in 0 .. Len(x) - k : ~(f[k + n] < g[k + n + d])}
<1>3. bad \in SUBSET Nat /\ 0 \notin bad
  BY <1>1
<1>4. ASSUME NEW n \in Nat, n # 0, n - 1 \in Nat, n - 1 \notin bad, n \in bad PROVE FALSE
  <2>1. n \in 1 .. Len(x) - k /\ n - 1 \in 0 .. Len(x) - k
    BY <1>1, <1>4
  <2> DEFINE i == k + n
             j == k + n + d
  <2>2. i \in 1..Len(x) /\ j \in 1..Len(y) /\ i - 1 \in 0..Len(x) /\ j - 1 \in 0..Len(y)
        /\ i - 1 = k + (n - 1) /\ j - 1 = k + (n - 1) + d
    BY <1>1, <2>1
  <2>3. f[i - 1] < g[j - 1]
    BY <1>4, <2>1, <2>2
  <2>4. ~(f[i] < g[j])
    BY <1>4
  <2> HIDE DEF i, j
  <2>5. f[i] = 10 * f[i - 1] + (x[i] - 48) /\ g[j] = 10 * g[j - 1] + (y[j] - 48)
    BY <1>2, <2>2
  <2>6. f[i - 1] \in Nat /\ g[j - 1] \in Nat /\ x[i] \in 48..57 /\ y[j] \in 48..57
    BY <1>1, <1>2, <2>2
  <2>7. 10 * f[i - 1] + (x[i] - 48) < 10 * g[j - 1] + (y[j] - 48)
    BY <2>3, <2>6, Carry
  <2> QED BY <2>4, <2>5, <2>7
<1>5. bad = {}
  <2> HIDE DEF bad
  <2> QED BY <1>3, <1>4, FirstStep
<1>6. Len(x) - k \in 0 .. Len(x) - k /\ k + (Len(x) - k) = Len(x) /\ k + (Len(x) - k) + d = Len(y)
  BY <1>1
<1>7. f[k + (Len(x) - k)] < g[k + (Len(x) - k) + d]
  BY <1>5, <1>6
<1> QED BY <1>6, <1>7

\* The resolver's order of numbers is that of their values.
LEMMA BeforeIsLess ==
  ASSUME NEW x \in PlainNumeral, NEW y \in PlainNumeral, TokenBefore(x, y)
  PROVE  Value(x) < Value(y)
<1>1. x \in Numeral /\ y \in Numeral /\ x \in Text /\ y \in Text /\ IsNumber(x) /\ IsNumber(y)
  BY DEF PlainNumeral, Numeral
<1>2. PICK f : ValueLoop(x, f) /\ Value(x) = f[Len(x)]
  BY <1>1, ValueLoops
<1>3. PICK g : ValueLoop(y, g) /\ Value(y) = g[Len(y)]
  BY <1>1, ValueLoops
<1>4. Len(x) \in Nat \ {0} /\ Len(y) \in Nat \ {0}
  BY <1>1, NumeralDigits
<1>5. /\ f[0] = 0 /\ \A n \in 0..Len(x) : f[n] \in Nat
      /\ \A n \in 1..Len(x) : f[n] = 10 * f[n - 1] + (x[n] - 48)
  BY <1>1, <1>2, PartialValues
<1>6. /\ g[0] = 0 /\ \A n \in 0..Len(y) : g[n] \in Nat
      /\ \A n \in 1..Len(y) : g[n] = 10 * g[n - 1] + (y[n] - 48)
      /\ y[1] # 48 => \A n \in 1..Len(y) : g[n] > 0
  BY <1>1, <1>3, PartialValues
<1>7. CASE Len(x) # Len(y)
  <2>1. Len(x) < Len(y)
    BY <1>1, <1>7 DEF TokenBefore
  <2> DEFINE d == Len(y) - Len(x)
  <2>2. d \in Nat /\ Len(y) = Len(x) + d /\ 0 \in 0..Len(x) /\ d \in 1..Len(y) /\ 0 + d = d
    BY <1>4, <2>1
  <2>3. y[1] # 48
    BY <1>4, <2>1 DEF PlainNumeral
  <2> HIDE DEF d
  <2>4. f[0] < g[0 + d]
    BY <1>5, <1>6, <2>2, <2>3
  <2>5. f[Len(x)] < g[Len(y)]
    BY <1>1, <1>2, <1>3, <2>2, <2>4, StaysLess
  <2> QED BY <1>2, <1>3, <2>5
<1>8. CASE Len(x) = Len(y)
  <2>1. Before(x, y)
    BY <1>1, <1>8 DEF TokenBefore
  <2>2. ~IsStrictPrefix(x, y)
    BY <1>1, <1>4, <1>8, PrefixOfText
  <2>3. PICK k : Differ(x, y, k)
    BY <2>1, <2>2, Zenon DEF Before, Differ
  <2>4. DOMAIN x = 1..Len(x) /\ DOMAIN y = 1..Len(y)
    BY <1>1, LenProperties DEF Text
  <2>5. k \in 1..Len(x) /\ x[k] < y[k] /\ \A i \in 1 .. k - 1 : x[i] = y[i]
    BY <2>3, <2>4 DEF Differ
  <2>6. /\ \A i \in 1..Len(x) : x[i] \in 48..57
        /\ \A i \in 1..Len(y) : y[i] \in 48..57
    BY <1>1, NumeralDigits
  <2> DEFINE bad == {n \in 0 .. k - 1 : f[n] # g[n]}
  <2>7. bad = {}
    <3>1. bad \in SUBSET Nat /\ 0 \notin bad
      BY <1>5, <1>6, <2>5
    <3>2. ASSUME NEW n \in Nat, n # 0, n - 1 \in Nat, n - 1 \notin bad, n \in bad PROVE FALSE
      <4>1. n \in 1 .. k - 1 /\ n - 1 \in 0 .. k - 1 /\ n \in 1..Len(x) /\ n \in 1..Len(y)
        BY <1>4, <1>8, <2>5, <3>2
      <4>2. f[n - 1] = g[n - 1] /\ x[n] = y[n] /\ f[n] # g[n]
        BY <2>5, <3>2, <4>1
      <4> QED BY <1>5, <1>6, <4>1, <4>2
    <3> HIDE DEF bad
    <3> QED BY <3>1, <3>2, FirstStep
  <2>8. k - 1 \in 0 .. k - 1 /\ k - 1 \in 0..Len(x) /\ k \in 0..Len(x) /\ k \in 1..Len(y) /\ k + 0 = k /\ Len(y) = Len(x) + 0
    BY <1>4, <1>8, <2>5
  <2>9. f[k - 1] = g[k - 1]
    BY <2>7, <2>8
  <2>10. f[k] < g[k + 0]
    <3>1. f[k] = 10 * f[k - 1] + (x[k] - 48) /\ g[k] = 10 * g[k - 1] + (y[k] - 48)
      BY <1>5, <1>6, <2>5, <2>8
    <3>2. f[k - 1] \in Nat /\ x[k] \in 48..57 /\ y[k] \in 48..57
      BY <1>5, <2>5, <2>6, <2>8
    <3>3. y[k] \in 48..57 /\ x[k] < y[k] /\ k + 0 = k
      BY <2>5, <2>6, <2>8
    <3>4. 10 * f[k - 1] + (x[k] - 48) < 10 * f[k - 1] + (y[k] - 48)
      BY <3>2, <3>3, DigitCarry
    <3> QED BY <2>9, <3>1, <3>3, <3>4
  <2>11. f[Len(x)] < g[Len(y)]
    BY <1>1, <1>2, <1>3, <2>8, <2>10, StaysLess
  <2> QED BY <1>2, <1>3, <2>11
<1> QED BY <1>7, <1>8

\* The value of a numeral is a natural.
LEMMA ValueIsNat == ASSUME NEW x \in Numeral PROVE Value(x) \in Nat
<1>1. x \in Text
  BY DEF Numeral
<1>2. PICK f : ValueLoop(x, f) /\ Value(x) = f[Len(x)]
  BY <1>1, ValueLoops
<1>3. Len(x) \in 0..Len(x)
  BY NumeralDigits
<1> QED BY <1>2, <1>3, PartialValues

\* Of two numbers without leading zeros that differ one comes first.
LEMMA ValueOrders ==
  ASSUME NEW x \in PlainNumeral, NEW y \in PlainNumeral, x # y
  PROVE  /\ Value(x) \in Nat /\ Value(y) \in Nat /\ Value(x) # Value(y)
         /\ TokenBefore(x, y) <=> Value(x) < Value(y)
<1>1. x \in Numeral /\ y \in Numeral /\ x \in Text /\ y \in Text /\ IsNumber(x) /\ IsNumber(y)
  BY DEF PlainNumeral, Numeral
<1>2. Value(x) \in Nat /\ Value(y) \in Nat
  BY <1>1, ValueIsNat
<1>3. Len(x) \in Nat /\ Len(y) \in Nat /\ DOMAIN x = 1..Len(x) /\ DOMAIN y = 1..Len(y)
      /\ (\A i \in 1..Len(x) : x[i] \in Nat) /\ (\A i \in 1..Len(y) : y[i] \in Nat)
  BY <1>1, LenProperties, ElementOfSeq DEF Text
<1>4. TokenBefore(x, y) \/ TokenBefore(y, x)
  <2>1. CASE Len(x) # Len(y)
    <3>1. Len(x) < Len(y) \/ Len(y) < Len(x)
      <4>1. \A m, n \in Nat : m # n => m < n \/ n < m
        OBVIOUS
      <4>2. Len(x) \in Nat /\ Len(y) \in Nat
        BY <1>3
      <4> QED BY <2>1, <4>1, <4>2, Zenon
    <3>2. (Len(x) < Len(y) => TokenBefore(x, y)) /\ (Len(y) < Len(x) => TokenBefore(y, x))
      BY <1>1, <2>1, Zenon DEF TokenBefore
    <3> QED BY <3>1, <3>2
  <2>2. CASE Len(x) = Len(y)
    <3> DEFINE S == {i \in 1..Len(x) : x[i] # y[i]}
    <3>1. S # {}
      BY <1>1, <2>2, SeqEqual DEF Text
    <3>2. S \in SUBSET Nat
      OBVIOUS
    <3>3. PICK k \in S : \A m \in S : k <= m
      <4> HIDE DEF S
      <4> QED BY <3>1, <3>2, LeastOf
    <3>4. k \in 1..Len(x) /\ x[k] # y[k] /\ \A i \in 1 .. k - 1 : x[i] = y[i]
      BY <1>3, <3>3
    <3>5. Differ(x, y, k) \/ Differ(y, x, k)
      BY <1>3, <2>2, <3>4 DEF Differ
    <3>6. Before(x, y) \/ Before(y, x)
      BY <3>5, Zenon DEF Before, Differ
    <3> QED BY <1>1, <2>2, <3>6 DEF TokenBefore
  <2> QED BY <2>1, <2>2
<1>5. TokenBefore(x, y) => Value(x) < Value(y)
  BY BeforeIsLess
<1>6. TokenBefore(y, x) => Value(y) < Value(x)
  BY BeforeIsLess
<1> QED BY <1>2, <1>4, <1>5, <1>6

Pairs == Nat \X Nat

\* Two pairs are ordered by the first numbers that differ.
LEMMA BeforePair ==
  ASSUME NEW p \in Pairs, NEW q \in Pairs
  PROVE  Before(p, q) <=> p[1] < q[1] \/ (p[1] = q[1] /\ p[2] < q[2])
<1>1. p \in Text /\ q \in Text /\ Len(p) = 2 /\ Len(q) = 2 /\ DOMAIN p = 1..2 /\ DOMAIN q = 1..2
  <2>1. \A a, b \in Nat : <<a, b>> \in Seq(Nat) /\ Len(<<a, b>>) = 2 /\ DOMAIN <<a, b>> = 1..2
    OBVIOUS
  <2>2. \A r \in Pairs : \E a, b \in Nat : r = <<a, b>>
    BY DEF Pairs
  <2>3. \A r \in Pairs : r \in Seq(Nat) /\ Len(r) = 2 /\ DOMAIN r = 1..2
    <3> TAKE r \in Pairs
    <3>1. PICK a \in Nat, b \in Nat : r = <<a, b>>
      BY <2>2
    <3> QED BY <2>1, <3>1
  <2> QED BY <2>3, Zenon DEF Text
<1>2. p[1] \in Nat /\ p[2] \in Nat /\ q[1] \in Nat /\ q[2] \in Nat
  BY DEF Pairs
<1>3. ~IsStrictPrefix(p, q)
  BY <1>1, PrefixOfText
<1>4. Before(p, q) <=> \E k \in 1..2 : p[k] < q[k] /\ \A i \in 1 .. k - 1 : p[i] = q[i]
  <2>1. Before(p, q) <=> \E k \in DOMAIN p \cap DOMAIN q : p[k] < q[k] /\ \A i \in 1 .. k - 1 : p[i] = q[i]
    BY <1>3, Zenon DEF Before
  <2>2. DOMAIN p \cap DOMAIN q = 1..2
    BY <1>1
  <2> QED BY <2>1, <2>2, Zenon
<1>5. \A k \in 1..2 : k = 1 \/ k = 2
  OBVIOUS
<1>6. (\A i \in 1 .. 1 - 1 : p[i] = q[i]) /\ ((\A i \in 1 .. 2 - 1 : p[i] = q[i]) <=> p[1] = q[1])
  OBVIOUS
<1>7. 1 \in 1..2 /\ 2 \in 1..2
  OBVIOUS
<1> QED BY <1>2, <1>4, <1>5, <1>6, <1>7

\* The parts of a plain version.
Token == Text \ {<<>>}
PlainVersionParts == {parts \in Seq(Token) : PlainParts(parts)}
Rank(token) == IF IsNumber(token) THEN <<0, Value(token)>> ELSE <<302, 0>>

\* A numeral is a token that is a number.
LEMMA PlainTokens ==
  ASSUME NEW parts \in PlainVersionParts
  PROVE  /\ Len(parts) \in Nat /\ DOMAIN parts = 1..Len(parts)
         /\ parts = <<>> \/ Len(parts) % 2 = 1
         /\ \A i \in 1..Len(parts) :
              /\ parts[i] \in Token
              /\ i % 2 = 1 => parts[i] \in PlainNumeral
              /\ i % 2 # 1 => parts[i] = << 46 >>
<1>1. parts \in Seq(Token) /\ PlainParts(parts)
  BY DEF PlainVersionParts
<1>2. Len(parts) \in Nat /\ DOMAIN parts = 1..Len(parts) /\ \A i \in 1..Len(parts) : parts[i] \in Token
  BY <1>1, LenProperties, ElementOfSeq
<1>3. /\ parts = <<>> \/ Len(parts) % 2 = 1
      /\ \A i \in 1..Len(parts) :
           IF i % 2 = 1 THEN IsNumber(parts[i]) /\ (Len(parts[i]) > 1 => parts[i][1] # 48)
                        ELSE parts[i] = << 46 >>
  BY <1>1, <1>2 DEF PlainParts
<1>4. ASSUME NEW i \in 1..Len(parts)
      PROVE  (i % 2 = 1 => parts[i] \in PlainNumeral) /\ (i % 2 # 1 => parts[i] = << 46 >>)
  <2>1. parts[i] \in Text /\ parts[i] # <<>>
    BY <1>2 DEF Token
  <2> QED BY <1>3, <2>1 DEF PlainNumeral, Numeral
<1> QED BY <1>2, <1>3, <1>4

\* A dot is a token that is not a number, and its rank.
LEMMA Dot == ~IsNumber(<< 46 >>) /\ [k \in DOMAIN << 46 >> |-> <<Weight(<< 46 >>[k]), 0>>] = << <<302, 0>> >>
<1>1. DOMAIN << 46 >> = 1..1 /\ << 46 >>[1] = 46 /\ 46 \in ToSet(<< 46 >>)
  BY DEF ToSet
<1>2. ~IsNumber(<< 46 >>)
  BY <1>1 DEF IsNumber, Digit
<1>3. Weight(46) = 302
  BY DEF Weight
<1>4. [k \in 1..1 |-> <<302, 0>>] = << <<302, 0>> >>
  OBVIOUS
<1>5. [k \in DOMAIN << 46 >> |-> <<Weight(<< 46 >>[k]), 0>>] = [k \in 1..1 |-> <<302, 0>>]
  BY <1>1, <1>3
<1> QED BY <1>2, <1>4, <1>5

\* The rank of a token.
LEMMA RankOfToken ==
  ASSUME NEW token, token \in PlainNumeral \/ token = << 46 >>
  PROVE  /\ Rank(token) \in Pairs
         /\ (IF IsNumber(token) THEN << <<0, Value(token)>> >>
             ELSE [k \in DOMAIN token |-> <<Weight(token[k]), 0>>]) = <<Rank(token)>>
<1>1. CASE token \in PlainNumeral
  <2>1. token \in Numeral /\ IsNumber(token)
    BY <1>1 DEF PlainNumeral, Numeral
  <2>2. Value(token) \in Nat
    BY <2>1, ValueIsNat
  <2> QED BY <2>1, <2>2 DEF Rank, Pairs
<1>2. CASE token = << 46 >>
  <2>1. Rank(token) = <<302, 0>>
    BY <1>2, Dot DEF Rank
  <2> QED BY <1>2, <2>1, Dot DEF Pairs
<1> QED BY <1>1, <1>2

\* The ranks of a plain version are those of its tokens.
LEMMA PlainRanks ==
  ASSUME NEW parts \in PlainVersionParts
  PROVE  /\ Ranks(parts) \in Seq(Pairs) /\ Len(Ranks(parts)) = Len(parts)
         /\ \A i \in 1..Len(parts) : Ranks(parts)[i] = Rank(parts[i])
<1>1. /\ Len(parts) \in Nat /\ DOMAIN parts = 1..Len(parts)
      /\ \A i \in 1..Len(parts) : parts[i] \in PlainNumeral \/ parts[i] = << 46 >>
  BY PlainTokens
<1> DEFINE each == [i \in DOMAIN parts |->
                     IF IsNumber(parts[i]) THEN << <<0, Value(parts[i])>> >>
                     ELSE [k \in DOMAIN parts[i] |-> <<Weight(parts[i][k]), 0>>]]
<1>2. \A i \in 1..Len(parts) : each[i] = <<Rank(parts[i])>> /\ Rank(parts[i]) \in Pairs
  BY <1>1, RankOfToken
<1>3. each = [i \in 1..Len(parts) |-> <<Rank(parts[i])>>]
  BY <1>1, <1>2
<1>4. Ranks(parts) = FlattenSeq(each)
  BY DEF Ranks
<1> HIDE DEF each
<1>5. IsSeq(each) /\ Len(each) = Len(parts)
  BY <1>1, <1>3, FunctionIsSeq
<1>6. CASE Len(parts) = 0
  <2>1. each = <<>>
    BY <1>3, <1>6
  <2>2. FlattenSeq(each) = <<>>
    BY <2>1 DEF FlattenSeq
  <2> QED BY <1>4, <1>6, <2>2
<1>7. CASE Len(parts) # 0
  <2>1. PICK f : FlattenLoop(each, f) /\ FlattenSeq(each) = f[Len(each)]
    BY <1>5, <1>7, FlattenLoops
  <2>2. \A n \in 1..Len(parts) : f[n] = IF n = 1 THEN each[n] ELSE f[n - 1] \o each[n]
    BY <1>5, <2>1 DEF FlattenLoop
  <2> DEFINE Good(n) == f[n] \in Seq(Pairs) /\ Len(f[n]) = n /\ \A i \in 1..n : f[n][i] = Rank(parts[i])
             bad == {n \in 0..Len(parts) : n # 0 /\ ~Good(n)}
  <2>3. bad \in SUBSET Nat /\ 0 \notin bad
    BY <1>1
  <2>4. ASSUME NEW n \in Nat, n # 0, n - 1 \in Nat, n - 1 \notin bad, n \in bad PROVE FALSE
    <3>1. n \in 1..Len(parts)
      BY <1>1, <2>4
    <3> DEFINE x == Rank(parts[n])
    <3>2. each[n] = <<x>> /\ x \in Pairs
      BY <1>2, <3>1
    <3>3. CASE n = 1
      <4>1. f[n] = <<x>>
        BY <2>2, <3>1, <3>2, <3>3
      <4>2. Good(n)
        <5> HIDE DEF x
        <5>1. <<x>> \in Seq(Pairs) /\ Len(<<x>>) = 1 /\ <<x>>[1] = x
          BY <3>2
        <5>2. \A i \in 1..n : i = 1
          BY <3>3
        <5> QED BY <3>3, <4>1, <5>1, <5>2 DEF x
      <4> QED BY <2>4, <4>2
    <3>4. CASE n # 1
      <4>1. n - 1 \in 0..Len(parts) /\ n - 1 # 0
        BY <1>1, <3>1, <3>4
      <4>2. Good(n - 1)
        BY <2>4, <4>1
      <4> DEFINE s == f[n - 1]
      <4>3. f[n] = s \o <<x>>
        BY <2>2, <3>1, <3>2, <3>4
      <4>4. s \in Seq(Pairs) /\ Len(s) = n - 1 /\ \A i \in 1 .. n - 1 : s[i] = Rank(parts[i])
        BY <4>2
      <4> HIDE DEF s, x
      <4>5. /\ s \o <<x>> \in Seq(Pairs) /\ Len(s \o <<x>>) = n
            /\ (\A i \in 1 .. n - 1 : (s \o <<x>>)[i] = s[i]) /\ (s \o <<x>>)[n] = x
        BY <3>1, <3>2, <4>4
      <4>6. \A i \in 1..n : i \in 1 .. n - 1 \/ i = n
        BY <3>1
      <4>7. \A i \in 1..n : (s \o <<x>>)[i] = Rank(parts[i])
        BY <4>4, <4>5, <4>6 DEF x
      <4>8. Good(n)
        BY <4>3, <4>5, <4>7
      <4> QED BY <2>4, <4>8
    <3> QED BY <3>3, <3>4
  <2>5. bad = {}
    <3> HIDE DEF bad
    <3> QED BY <2>3, <2>4, FirstStep
  <2>6. Good(Len(parts))
    BY <1>1, <1>7, <2>5
  <2> QED BY <1>4, <1>5, <2>1, <2>6
<1> QED BY <1>6, <1>7

\* One list of tokens starts with another when they agree as far as that goes.
LEMMA PrefixOfParts ==
  ASSUME NEW s \in Seq(Token), NEW t \in Seq(Token)
  PROVE  IsPrefix(s, t) <=> (Len(s) <= Len(t) /\ \A i \in 1..Len(s) : s[i] = t[i])
<1>1. Len(s) \in Nat /\ Len(t) \in Nat /\ SubSeq(s, 1, Len(s)) = s
  BY LenProperties, SubSeqFull
<1>2. ASSUME Len(s) <= Len(t)
      PROVE  /\ SubSeq(t, 1, Len(s)) \in Seq(Token) /\ Len(SubSeq(t, 1, Len(s))) = Len(s)
             /\ \A i \in 1..Len(s) : SubSeq(t, 1, Len(s))[i] = t[i]
  <2>1. IsSeq(t) /\ Len(s) \in 0..Len(t)
    BY <1>1, <1>2, SeqIsSeq
  <2>2. \A i \in 1..Len(s) : t[i] \in Token
    BY <1>1, <1>2, ElementOfSeq
  <2>3. SubSeq(t, 1, Len(s)) \in Seq(Token)
    BY <1>1, <2>2, SubSeqProperties
  <2> QED BY <2>1, <2>3, PathPrefix
<1>3. ASSUME IsPrefix(s, t) PROVE Len(s) <= Len(t) /\ \A i \in 1..Len(s) : s[i] = t[i]
  <2>1. Len(s) <= Len(t) /\ s = SubSeq(t, 1, Len(s))
    BY <1>1, <1>3 DEF IsPrefix
  <2> QED BY <1>2, <2>1
<1>4. ASSUME Len(s) <= Len(t), \A i \in 1..Len(s) : s[i] = t[i] PROVE IsPrefix(s, t)
  <2> DEFINE u == SubSeq(t, 1, Len(s))
  <2>1. u \in Seq(Token) /\ Len(u) = Len(s) /\ \A i \in 1..Len(s) : u[i] = s[i]
    BY <1>2, <1>4
  <2> HIDE DEF u
  <2>2. u = s
    BY <2>1, SeqEqual
  <2> QED BY <1>1, <1>4, <2>2 DEF IsPrefix, u
<1> QED BY <1>3, <1>4

\* The ranks of two tokens that stand at the same place.
LEMMA RanksOrder ==
  ASSUME NEW x, NEW y, (x \in PlainNumeral /\ y \in PlainNumeral) \/ (x = << 46 >> /\ y = << 46 >>)
  PROVE  /\ Rank(x) \in Pairs /\ Rank(y) \in Pairs
         /\ Rank(x) = Rank(y) <=> x = y
         /\ x # y => (TokenBefore(x, y) <=> Before(Rank(x), Rank(y)))
<1>1. CASE x = y
  BY <1>1, RankOfToken
<1>2. CASE x # y
  <2>1. x \in PlainNumeral /\ y \in PlainNumeral /\ IsNumber(x) /\ IsNumber(y)
    BY <1>2 DEF PlainNumeral, Numeral
  <2>2. /\ Value(x) \in Nat /\ Value(y) \in Nat /\ Value(x) # Value(y)
        /\ TokenBefore(x, y) <=> Value(x) < Value(y)
    BY <1>2, <2>1, ValueOrders
  <2> DEFINE p == <<0, Value(x)>>
             q == <<0, Value(y)>>
  <2>3. Rank(x) = p /\ Rank(y) = q
    BY <2>1 DEF Rank
  <2>4. p \in Pairs /\ q \in Pairs /\ p # q /\ p[1] = 0 /\ q[1] = 0 /\ p[2] = Value(x) /\ q[2] = Value(y)
    BY <2>2 DEF Pairs
  <2> HIDE DEF p, q
  <2>5. Before(p, q) <=> Value(x) < Value(y)
    BY <2>4, BeforePair
  <2> QED BY <1>2, <2>2, <2>3, <2>4, <2>5
<1> QED BY <1>1, <1>2

\* What parts are compared by beyond the end of one of them.
Nothing == <<0, 0>>

\* Every other rank comes after that of nothing.
LEMMA AfterNothing ==
  ASSUME NEW p \in Pairs, p # Nothing
  PROVE  Nothing \in Pairs /\ Before(Nothing, p) /\ ~Before(p, Nothing)
<1>1. p[1] \in Nat /\ p[2] \in Nat /\ p = <<p[1], p[2]>> /\ Nothing \in Pairs /\ Nothing[1] = 0 /\ Nothing[2] = 0
  BY DEF Pairs, Nothing
<1>2. p[1] # 0 \/ p[2] # 0
  BY <1>1 DEF Nothing
<1>3. /\ Before(Nothing, p) <=> 0 < p[1] \/ (0 = p[1] /\ 0 < p[2])
      /\ Before(p, Nothing) <=> p[1] < 0 \/ (p[1] = 0 /\ p[2] < 0)
  BY <1>1, BeforePair
<1> QED BY <1>1, <1>2, <1>3

\* The place at which the ranks of parts differ first.
RankAt(t, i) == IF i \in DOMAIN t THEN t[i] ELSE Nothing
FirstPlace(a, b, k) ==
  /\ k \in Nat /\ RankAt(Ranks(a), k) # RankAt(Ranks(b), k)
  /\ \A i \in DOMAIN Ranks(a) \cup DOMAIN Ranks(b) :
       RankAt(Ranks(a), i) # RankAt(Ranks(b), i) => k <= i

\* Debian decides at the first rank that differs.
LEMMA DebianAt ==
  ASSUME NEW a, NEW b, NEW k \in DOMAIN Ranks(a) \cup DOMAIN Ranks(b), FirstPlace(a, b, k),
         DOMAIN Ranks(a) \subseteq Nat, DOMAIN Ranks(b) \subseteq Nat
  PROVE  DebianParts(a, b) = Sign(Before(RankAt(Ranks(a), k), RankAt(Ranks(b), k)))
<1> DEFINE D == DOMAIN Ranks(a) \cup DOMAIN Ranks(b)
           differ == {i \in D : RankAt(Ranks(a), i) # RankAt(Ranks(b), i)}
<1>1. k \in differ /\ \A i \in differ : k <= i /\ i \in Nat
  BY DEF FirstPlace
<1>2. DebianParts(a, b) = IF differ = {} THEN 0
                          ELSE Sign(Before(RankAt(Ranks(a), First(differ)), RankAt(Ranks(b), First(differ))))
  BY Zenon DEF DebianParts, RankAt, Nothing
<1> HIDE DEF differ
<1>3. First(differ) = k
  <2>1. First(differ) \in differ /\ \A i \in differ : First(differ) <= i
    BY <1>1 DEF First
  <2>2. First(differ) \in Nat /\ k \in Nat /\ First(differ) <= k /\ k <= First(differ)
    BY <1>1, <2>1
  <2> QED BY <2>2
<1> QED BY <1>1, <1>2, <1>3

\* Debian finds equal what has the same ranks.
LEMMA DebianSame ==
  ASSUME NEW a PROVE DebianParts(a, a) = 0
BY DEF DebianParts

\* Two lengths, one smaller: what the longer version has at odd and even places.
LEMMA Naturals ==
  ASSUME NEW m \in Nat, NEW n \in Nat
  PROVE  /\ m <= n /\ m # n => m < n
         /\ m < n /\ (m = 0 \/ m % 2 = 1) /\ (m # 0 \/ n > 1) =>
              \E i \in 1..n : i \notin 1..m /\ i % 2 # 1
<1>1. m <= n /\ m # n => m < n
  OBVIOUS
<1>2. ASSUME m < n, m % 2 = 1 PROVE \E i \in 1..n : i \notin 1..m /\ i % 2 # 1
  <2>1. m + 1 \in 1..n /\ m + 1 \notin 1..m /\ (m + 1) % 2 # 1
    BY <1>2
  <2> QED BY <2>1
<1>3. ASSUME m = 0, n > 1 PROVE \E i \in 1..n : i \notin 1..m /\ i % 2 # 1
  <2>1. 2 \in 1..n /\ 2 \notin 1..m /\ 2 % 2 # 1
    BY <1>3
  <2> QED BY <2>1
<1>4. m = 0 => m % 2 # 1
  OBVIOUS
<1> QED BY <1>1, <1>2, <1>3, <1>4

\* Zero is a plain numeral.
LEMMA ZeroNumeral == << 48 >> \in PlainNumeral /\ Value(<< 48 >>) = 0
<1>1. << 48 >> \in Seq(Nat) /\ Len(<< 48 >>) = 1 /\ << 48 >>[1] = 48 /\ << 48 >> # <<>> /\ DOMAIN << 48 >> = 1..1
  OBVIOUS
<1>2. << 48 >> \in Text /\ IsNumber(<< 48 >>)
  BY <1>1 DEF Text, IsNumber, ToSet, Digit
<1>3. << 48 >> \in Numeral /\ << 48 >> \in PlainNumeral
  BY <1>1, <1>2 DEF Numeral, PlainNumeral
<1>4. PICK f : ValueLoop(<< 48 >>, f) /\ Value(<< 48 >>) = f[Len(<< 48 >>)]
  BY <1>2, ValueLoops
<1>5. f[0] = 0 /\ \A n \in 1..Len(<< 48 >>) : f[n] = 10 * f[n - 1] + (<< 48 >>[n] - 48)
  BY <1>3, <1>4, PartialValues
<1>6. 1 \in 1..Len(<< 48 >>) /\ 1 - 1 = 0
  BY <1>1
<1>7. f[1] = 10 * 0 + (48 - 48)
  BY <1>1, <1>5, <1>6
<1> QED BY <1>1, <1>3, <1>4, <1>7

\* On the parts of plain versions the resolver's order and Debian's agree.
LEMMA PartsAgree ==
  ASSUME NEW a \in PlainVersionParts, NEW b \in PlainVersionParts,
         a # <<>> \/ b # << << 48 >> >>, b # <<>> \/ a # << << 48 >> >>
  PROVE  CompareParts(a, b) = DebianParts(a, b)
<1>1. /\ a \in Seq(Token) /\ Len(a) \in Nat /\ DOMAIN a = 1..Len(a) /\ (a = <<>> \/ Len(a) % 2 = 1)
      /\ \A i \in 1..Len(a) : (i % 2 = 1 => a[i] \in PlainNumeral) /\ (i % 2 # 1 => a[i] = << 46 >>)
  BY PlainTokens DEF PlainVersionParts
<1>2. /\ b \in Seq(Token) /\ Len(b) \in Nat /\ DOMAIN b = 1..Len(b) /\ (b = <<>> \/ Len(b) % 2 = 1)
      /\ \A i \in 1..Len(b) : (i % 2 = 1 => b[i] \in PlainNumeral) /\ (i % 2 # 1 => b[i] = << 46 >>)
  BY PlainTokens DEF PlainVersionParts
<1> DEFINE r == Ranks(a)
           s == Ranks(b)
<1>3. /\ r \in Seq(Pairs) /\ DOMAIN r = 1..Len(a) /\ \A i \in 1..Len(a) : r[i] = Rank(a[i]) /\ r[i] \in Pairs
      /\ s \in Seq(Pairs) /\ DOMAIN s = 1..Len(b) /\ \A i \in 1..Len(b) : s[i] = Rank(b[i]) /\ s[i] \in Pairs
  BY PlainRanks, LenProperties, ElementOfSeq
<1>4. \A i \in 1..Len(a) : i \in 1..Len(b) =>
        /\ (a[i] \in PlainNumeral /\ b[i] \in PlainNumeral) \/ (a[i] = << 46 >> /\ b[i] = << 46 >>)
        /\ r[i] = s[i] <=> a[i] = b[i]
        /\ a[i] # b[i] => (TokenBefore(a[i], b[i]) <=> Before(r[i], s[i]))
  <2> SUFFICES ASSUME NEW i \in 1..Len(a), i \in 1..Len(b)
               PROVE  /\ (a[i] \in PlainNumeral /\ b[i] \in PlainNumeral) \/ (a[i] = << 46 >> /\ b[i] = << 46 >>)
                      /\ r[i] = s[i] <=> a[i] = b[i]
                      /\ a[i] # b[i] => (TokenBefore(a[i], b[i]) <=> Before(r[i], s[i]))
    OBVIOUS
  <2>1. (a[i] \in PlainNumeral /\ b[i] \in PlainNumeral) \/ (a[i] = << 46 >> /\ b[i] = << 46 >>)
    BY <1>1, <1>2
  <2>2. r[i] = Rank(a[i]) /\ s[i] = Rank(b[i])
    BY <1>3
  <2> HIDE DEF r, s
  <2> DEFINE x == a[i]
             y == b[i]
  <2>3. (x \in PlainNumeral /\ y \in PlainNumeral) \/ (x = << 46 >> /\ y = << 46 >>)
    BY <2>1
  <2> HIDE DEF x, y
  <2>4. /\ Rank(x) = Rank(y) <=> x = y
        /\ x # y => (TokenBefore(x, y) <=> Before(Rank(x), Rank(y)))
    BY <2>3, RanksOrder
  <2> QED BY <2>1, <2>2, <2>4, Zenon DEF x, y
<1> DEFINE D == DOMAIN r \cup DOMAIN s
<1>5. D \subseteq Nat /\ \A i \in D : i # 0 /\ (i \in 1..Len(a) \/ i \in 1..Len(b))
  BY <1>3
<1>6. /\ IsPrefix(a, b) <=> (Len(a) <= Len(b) /\ \A i \in 1..Len(a) : a[i] = b[i])
      /\ IsPrefix(b, a) <=> (Len(b) <= Len(a) /\ \A i \in 1..Len(b) : b[i] = a[i])
  BY <1>1, <1>2, PrefixOfParts
<1> HIDE DEF r, s
<1>7. \A k \in D : FirstPlace(a, b, k) => DebianParts(a, b) = Sign(Before(RankAt(r, k), RankAt(s, k)))
  BY <1>1, <1>2, <1>3, DebianAt DEF r, s
<1> DEFINE differ == {i \in D : RankAt(r, i) # RankAt(s, i)}
<1>8. differ # {} => \E k \in differ : FirstPlace(a, b, k)
  <2>1. differ \in SUBSET Nat
    BY <1>5
  <2>2. ASSUME NEW k \in differ, \A m \in differ : k <= m PROVE FirstPlace(a, b, k)
    BY <2>1, <2>2 DEF FirstPlace, r, s
  <2> HIDE DEF differ
  <2> QED BY <2>1, <2>2, LeastOf
<1>9. CASE a = b
  BY <1>9, DebianSame DEF CompareParts
<1>10. CASE a # b /\ IsPrefix(a, b)
  <2>1. Len(a) < Len(b) /\ \A i \in 1..Len(a) : a[i] = b[i]
    <3>1. Len(a) <= Len(b) /\ \A i \in 1..Len(a) : a[i] = b[i]
      BY <1>6, <1>10
    <3>2. Len(a) # Len(b)
      BY <1>1, <1>2, <1>10, <3>1, SeqEqual
    <3>3. Len(a) \in Nat /\ Len(b) \in Nat
      BY <1>1, <1>2
    <3> QED BY <3>1, <3>2, <3>3, Naturals
  <2>2. CompareParts(a, b) = -1
    BY <1>10 DEF CompareParts
  <2>3. \A i \in differ : i \in 1..Len(b) /\ i \notin 1..Len(a) /\ RankAt(r, i) = Nothing /\ RankAt(s, i) = s[i]
    BY <1>1, <1>2, <1>3, <1>4, <1>5, <2>1 DEF RankAt
  <2>4. \E i \in 1..Len(b) : i \notin 1..Len(a) /\ s[i] # Nothing
    <3>1. CASE a # <<>> \/ Len(b) > 1
      <4>0. Len(a) \in Nat /\ Len(b) \in Nat /\ (Len(a) = 0 \/ Len(a) % 2 = 1)
            /\ (Len(a) # 0 \/ Len(b) > 1) /\ Len(a) < Len(b)
        BY <1>1, <1>2, <2>1, <3>1, EmptySeq
      <4>1. PICK i \in 1..Len(b) : i \notin 1..Len(a) /\ i % 2 # 1
        BY <4>0, Naturals
      <4>2. b[i] = << 46 >>
        BY <1>2, <4>1
      <4>3. s[i] = <<302, 0>>
        BY <1>3, <4>1, <4>2, Dot DEF Rank
      <4> QED BY <4>1, <4>3 DEF Nothing
    <3>2. CASE a = <<>> /\ ~(Len(b) > 1)
      <4>1. Len(b) = 1 /\ Len(a) = 0
        BY <1>1, <1>2, <2>1, <3>2
      <4>2. b[1] \in PlainNumeral
        BY <1>2, <4>1
      <4>3. b[1] # << 48 >>
        <5>1. << << 48 >> >> \in Seq(Token) /\ Len(<< << 48 >> >>) = 1 /\ << << 48 >> >>[1] = << 48 >>
          BY DEF Token, Text
        <5>2. \A i \in 1..Len(b) : i = 1
          BY <4>1
        <5> QED BY <1>2, <3>2, <4>1, <5>1, <5>2, SeqEqual
      <4>4. << 48 >> \in PlainNumeral
        BY ZeroNumeral
      <4>5. Value(b[1]) # Value(<< 48 >>)
        BY <4>2, <4>3, <4>4, ValueOrders
      <4>6. Value(<< 48 >>) = 0
        BY ZeroNumeral
      <4>7. Rank(b[1]) = <<0, Value(b[1])>>
        BY <4>2 DEF Rank, PlainNumeral, Numeral
      <4>8. s[1] # Nothing
        BY <1>3, <4>1, <4>5, <4>6, <4>7 DEF Nothing
      <4> QED BY <4>1, <4>8
    <3> QED BY <3>1, <3>2
  <2>5. differ # {}
    BY <1>3, <2>1, <2>4 DEF RankAt
  <2>6. PICK k \in differ : FirstPlace(a, b, k)
    BY <1>8, <2>5
  <2>7. RankAt(r, k) = Nothing /\ RankAt(s, k) \in Pairs /\ RankAt(s, k) # Nothing
    BY <1>3, <2>3, <2>6
  <2>8. Before(RankAt(r, k), RankAt(s, k))
    BY <2>7, AfterNothing
  <2>9. DebianParts(a, b) = -1
    BY <1>7, <2>6, <2>8 DEF Sign
  <2> QED BY <2>2, <2>9
<1>11. CASE a # b /\ ~IsPrefix(a, b) /\ IsPrefix(b, a)
  <2>1. Len(b) < Len(a) /\ \A i \in 1..Len(b) : b[i] = a[i]
    <3>1. Len(b) <= Len(a) /\ \A i \in 1..Len(b) : b[i] = a[i]
      BY <1>6, <1>11
    <3>2. Len(b) # Len(a)
      BY <1>1, <1>2, <1>11, <3>1, SeqEqual
    <3>3. Len(a) \in Nat /\ Len(b) \in Nat
      BY <1>1, <1>2
    <3> QED BY <3>1, <3>2, <3>3, Naturals
  <2>2. CompareParts(a, b) = 1
    BY <1>11 DEF CompareParts
  <2>3. \A i \in differ : i \in 1..Len(a) /\ i \notin 1..Len(b) /\ RankAt(s, i) = Nothing /\ RankAt(r, i) = r[i]
    BY <1>1, <1>2, <1>3, <1>4, <1>5, <2>1 DEF RankAt
  <2>4. \E i \in 1..Len(a) : i \notin 1..Len(b) /\ r[i] # Nothing
    <3>1. CASE b # <<>> \/ Len(a) > 1
      <4>0. Len(b) \in Nat /\ Len(a) \in Nat /\ (Len(b) = 0 \/ Len(b) % 2 = 1)
            /\ (Len(b) # 0 \/ Len(a) > 1) /\ Len(b) < Len(a)
        BY <1>1, <1>2, <2>1, <3>1, EmptySeq
      <4>1. PICK i \in 1..Len(a) : i \notin 1..Len(b) /\ i % 2 # 1
        BY <4>0, Naturals
      <4>2. a[i] = << 46 >>
        BY <1>1, <4>1
      <4>3. r[i] = <<302, 0>>
        BY <1>3, <4>1, <4>2, Dot DEF Rank
      <4> QED BY <4>1, <4>3 DEF Nothing
    <3>2. CASE b = <<>> /\ ~(Len(a) > 1)
      <4>1. Len(a) = 1 /\ Len(b) = 0
        BY <1>1, <1>2, <2>1, <3>2
      <4>2. a[1] \in PlainNumeral
        BY <1>1, <4>1
      <4>3. a[1] # << 48 >>
        <5>1. << << 48 >> >> \in Seq(Token) /\ Len(<< << 48 >> >>) = 1 /\ << << 48 >> >>[1] = << 48 >>
          BY DEF Token, Text
        <5>2. \A i \in 1..Len(a) : i = 1
          BY <4>1
        <5> QED BY <1>1, <3>2, <4>1, <5>1, <5>2, SeqEqual
      <4>4. << 48 >> \in PlainNumeral
        BY ZeroNumeral
      <4>5. Value(a[1]) # Value(<< 48 >>)
        BY <4>2, <4>3, <4>4, ValueOrders
      <4>6. Value(<< 48 >>) = 0
        BY ZeroNumeral
      <4>7. Rank(a[1]) = <<0, Value(a[1])>>
        BY <4>2 DEF Rank, PlainNumeral, Numeral
      <4>8. r[1] # Nothing
        BY <1>3, <4>1, <4>5, <4>6, <4>7 DEF Nothing
      <4> QED BY <4>1, <4>8
    <3> QED BY <3>1, <3>2
  <2>5. differ # {}
    BY <1>3, <2>1, <2>4 DEF RankAt
  <2>6. PICK k \in differ : FirstPlace(a, b, k)
    BY <1>8, <2>5
  <2>7. RankAt(s, k) = Nothing /\ RankAt(r, k) \in Pairs /\ RankAt(r, k) # Nothing
    BY <1>3, <2>3, <2>6
  <2>8. ~Before(RankAt(r, k), RankAt(s, k))
    BY <2>7, AfterNothing
  <2>9. DebianParts(a, b) = 1
    BY <1>7, <2>6, <2>8 DEF Sign
  <2> QED BY <2>2, <2>9
<1>12. CASE a # b /\ ~IsPrefix(a, b) /\ ~IsPrefix(b, a)
  <2> DEFINE S == {i \in 1..Len(a) : i \in 1..Len(b) /\ a[i] # b[i]}
  <2>1. S # {} /\ S \in SUBSET Nat
    BY <1>1, <1>2, <1>6, <1>12
  <2>2. PICK k \in S : \A m \in S : k <= m
    <3> HIDE DEF S
    <3> QED BY <2>1, LeastOf
  <2>3. k \in 1..Len(a) /\ k \in 1..Len(b) /\ a[k] # b[k] /\ \A j \in 1 .. k - 1 : a[j] = b[j]
    BY <1>1, <1>2, <2>2
  <2> DEFINE At(i) == i \in DOMAIN a \cap DOMAIN b /\ a[i] # b[i] /\ \A j \in 1 .. i - 1 : a[j] = b[j]
             m == CHOOSE i \in DOMAIN a \cap DOMAIN b : a[i] # b[i] /\ \A j \in 1 .. i - 1 : a[j] = b[j]
  <2>4. m = k
    <3>1. At(k)
      BY <1>1, <1>2, <2>3
    <3>2. At(m)
      BY <3>1
    <3> HIDE DEF m
    <3>3. m \in 1..Len(a) /\ m \in 1..Len(b) /\ a[m] # b[m] /\ \A j \in 1 .. m - 1 : a[j] = b[j]
      BY <1>1, <1>2, <3>2
    <3>4. ~(m < k) /\ ~(k < m)
      BY <2>3, <3>3
    <3> QED BY <2>3, <3>3, <3>4
  <2>5. CompareParts(a, b) = Sign(TokenBefore(a[m], b[m]))
    BY <1>12, Zenon DEF CompareParts
  <2> HIDE DEF m
  <2>6. CompareParts(a, b) = Sign(TokenBefore(a[k], b[k]))
    BY <2>4, <2>5, Zenon
  <2>7. RankAt(r, k) = r[k] /\ RankAt(s, k) = s[k] /\ k \in D /\ r[k] # s[k]
        /\ (TokenBefore(a[k], b[k]) <=> Before(r[k], s[k]))
    BY <1>3, <1>4, <2>3 DEF RankAt
  <2>8. FirstPlace(a, b, k)
    <3>1. ASSUME NEW i \in D, RankAt(r, i) # RankAt(s, i) PROVE k <= i
      <4>1. i \in Nat \ {0} /\ k \in Nat
        BY <1>5, <2>3
      <4>2. ASSUME i < k PROVE FALSE
        <5>1. i \in 1..Len(a) /\ i \in 1..Len(b) /\ a[i] = b[i]
          BY <1>1, <1>2, <2>3, <4>1, <4>2
        <5>2. r[i] = s[i]
          BY <1>4, <5>1
        <5> QED BY <1>3, <3>1, <5>1, <5>2 DEF RankAt
      <4> QED BY <4>1, <4>2
    <3>2. k \in Nat
      BY <2>3
    <3> QED BY <2>7, <3>1, <3>2 DEF FirstPlace, r, s
  <2>9. DebianParts(a, b) = Sign(Before(RankAt(r, k), RankAt(s, k)))
    BY <1>7, <2>7, <2>8
  <2> QED BY <2>6, <2>7, <2>9 DEF Sign
<1> QED BY <1>9, <1>10, <1>11, <1>12

\* The resolver and Debian order plain versions alike.
LEMMA PlainAgree ==
  ASSUME NEW v, NEW w, IsVersion(v), IsVersion(w), Plain(v), Plain(w)
  PROVE  Vercmp(v, w) = Debian(v, w)
<1>1. \A x \in {v, w} : /\ x.up \in PlainVersionParts /\ x.up # <<>>
                        /\ x.down \in PlainVersionParts /\ x.down # << << 48 >> >>
  <2>1. \A x \in {v, w} : IsVersion(x) /\ Plain(x)
    OBVIOUS
  <2> QED BY <2>1, Zenon DEF IsVersion, Plain, PlainVersionParts, Token, Text
<1>2. CompareParts(v.up, w.up) = DebianParts(v.up, w.up)
  BY <1>1, PartsAgree
<1>3. CompareParts(v.down, w.down) = DebianParts(v.down, w.down)
  BY <1>1, PartsAgree
<1> QED BY <1>2, <1>3, Zenon DEF Vercmp, Debian

\* The order of resolver.py:19 is Debian's on plain versions, of any number
\* of parts and with numbers of any size: a dependency on a version is met as Debian means it.
THEOREM PlainVersionsAgree == Spec => []PlainVersionsMeetDebian
<1>1. ImageInv => PlainVersionsMeetDebian
  <2> SUFFICES ASSUME ImageInv, stage = "fetch", NEW i \in ToSet(order), NEW j \in ToSet(order),
                      NEW g \in ToSet(index[i].depends), NEW alt \in ToSet(g),
                      Plain(alt.version), Plain(index[j].version)
               PROVE  Vercmp(index[j].version, alt.version) = Debian(index[j].version, alt.version)
    BY Zenon DEF PlainVersionsMeetDebian
  <2>1. Arch \in Buildable /\ ResolverInv(Arch)
    BY DEF ImageInv, BuildInv, Building
  <2>2. PICK a \in Buildable : a = Arch
    BY <2>1
  <2>3. Typed(index) /\ ToSet(order) \subseteq DOMAIN index
    BY <2>1, <2>2, ListedIsTyped DEF ResolverInv, QueueInv
  <2>4. IsVersion(index[j].version) /\ IsVersion(alt.version)
    BY <2>3 DEF Typed
  <2> QED BY <2>4, PlainAgree
<1> QED BY <1>1, ImageInvStarts, ImageInvStep, PTL DEF Spec

-----------------------------------------------------------------------------
(* What was shipped: links, files, and the history of both.                *)

\* The links of the layout, and paths that do not go through them.
Roots == {<<name>> : name \in Alias}
HeadOk(path) == path # <<>> => path[1] \notin Alias

\* A link the archive has leads to a path, or to one it is below.
Told(links, to) == \E l \in DOMAIN links \ Roots : links[l].kind = "symlink" /\ links[l].to = to
Led(links, at) == \E q \in Prefixes(at) : Told(links, q)
Linked(links, at) == Prefixes(at) \cap DOMAIN links # {} \/ Led(links, at)

\* Every link on the disk leads where a link in the archive does, and stands where one
\* does or below.
LinksGrounded(on, disk, links) ==
  \A at \in DOMAIN disk : disk[at].kind = "symlink" =>
    /\ on = "posix" /\ HeadOk(disk[at].to)
    /\ at \in Roots \/ (Told(links, disk[at].to) /\ (at \in DOMAIN links \/ Led(links, at)))
NamesGrounded(on, disk) ==
  on = "windows" => \A at \in DOMAIN disk : disk[at].kind = "file" => Last(at) \notin OddNames
Grounded(on, disk, links) == LinksGrounded(on, disk, links) /\ NamesGrounded(on, disk)

\* What the archive has of links is what a package ships.
Sourced(arch, links) ==
  \A at \in DOMAIN links \ Roots :
    \E x \in Shipments(arch) :
      /\ Normalize(x.member.name) = at /\ x.member.kind = links[at].kind /\ x.member.to = links[at].to

\* A package ships a file at a path, with a mode.
FileShipped(arch, at, mode, by) ==
  \E x \in Shipments(arch) :
    /\ Normalize(x.member.name) = at /\ x.member.kind = "file" /\ x.member.mode = mode /\ x.by = by

\* A file that was shipped is on the disk, or kept aside, or a directory is in its way.
Here(on, tree, at, file) ==
  \/ NodeAt(tree.disk, at).kind = "dir"
  \/ /\ NodeAt(tree.disk, at) = File(file.by)
     /\ at \in DOMAIN tree.modes /\ tree.modes[at] = file.mode
  \/ /\ at \notin DOMAIN tree.disk /\ on = "windows" /\ Last(at) \in OddNames
     /\ \E e \in ToSet(tree.extra) : e.path = at

\* What is kept aside was shipped.
Aside(arch, extra) ==
  /\ IsSeq(extra)
  /\ \A e \in ToSet(extra) : FileShipped(arch, e.path, e.mode, e.by)

\* Every file that counts as shipped is here, or a link of the archive hides it.
Shown(on, arch, tree, sent) ==
  \A at \in DOMAIN sent :
    /\ IsSeq(at) /\ at # <<>> /\ HeadOk(at)
    /\ FileShipped(arch, at, sent[at].mode, sent[at].by)
    /\ Linked(tree.links, at) \/ Here(on, tree, at, sent[at])

\* What a tree and the history of its files have to do with each other, while no writer raised.
Sound(on, arch, tree, sent) ==
  /\ Grounded(on, tree.disk, tree.links) /\ Aside(arch, tree.extra) /\ Shown(on, arch, tree, sent)

\* Until a build ends: the packages' files first, the links the packages name while packages
\* are installed.
ShippedInv ==
  /\ host \in {"posix", "windows"}
  /\ ~Building => shipped = <<>>
  /\ stage \in {"manifest", "verification"} => root.ok
  /\ Building /\ root.ok =>
       /\ Sound(host, Arch, root, shipped)
       /\ stage \in {"index", "resolve", "fetch"} => Sourced(Arch, root.links)

\* Paths that agree name by name are the same.
LEMMA PathEqual ==
  ASSUME NEW p, IsSeq(p), NEW q, IsSeq(q), Len(p) = Len(q), \A i \in 1..Len(p) : p[i] = q[i]
  PROVE  p = q
<1>1. DOMAIN p = 1..Len(p) /\ DOMAIN q = 1..Len(q)
  BY SeqLen
<1>2. p \in [1..Len(p) -> ToSet(p)] /\ q \in [1..Len(p) -> ToSet(q)]
  BY <1>1 DEF IsSeq
<1>3. p = [i \in 1..Len(p) |-> p[i]] /\ q = [i \in 1..Len(p) |-> q[i]]
  BY <1>2
<1> QED BY <1>3

\* A prefix of a prefix is one, and the longer a path the more prefixes it has.
LEMMA PrefixFacts ==
  ASSUME NEW p, IsSeq(p)
  PROVE  /\ p \in Prefixes(p) /\ <<>> \in Prefixes(p)
         /\ \A q \in Prefixes(p) : Prefixes(q) \subseteq Prefixes(p)
         /\ \A q \in Prefixes(p) : IsSeq(q) /\ (q # <<>> => p # <<>> /\ q[1] = p[1])
         /\ \A x : Prefixes(p) \subseteq Prefixes(Append(p, x))
<1>1. Len(p) \in Nat /\ 0 \in 0..Len(p) /\ Len(p) \in 0..Len(p)
  BY SeqLen
<1>2. p \in Prefixes(p) /\ <<>> \in Prefixes(p)
  BY <1>1, PathPrefixAll, Zenon DEF Prefixes
<1>3. ASSUME NEW n \in 0..Len(p), NEW r \in Prefixes(SubSeq(p, 1, n)) PROVE r \in Prefixes(p)
  <2> DEFINE q == SubSeq(p, 1, n)
  <2>1. IsSeq(q) /\ Len(q) = n /\ \A i \in 1..n : q[i] = p[i]
    BY PathPrefix
  <2>2. PICK m \in 0..n : r = SubSeq(q, 1, m)
    BY <2>1 DEF Prefixes
  <2> HIDE DEF q
  <2>3. m \in 0..Len(q) /\ m \in 0..Len(p) /\ \A i \in 1..m : i \in 1..n
    BY <1>1, <2>1
  <2>4. IsSeq(r) /\ Len(r) = m /\ \A i \in 1..m : r[i] = q[i]
    BY <2>1, <2>2, <2>3, PathPrefix
  <2>5. IsSeq(SubSeq(p, 1, m)) /\ Len(SubSeq(p, 1, m)) = m /\ \A i \in 1..m : SubSeq(p, 1, m)[i] = p[i]
    BY <2>3, PathPrefix
  <2>6. r = SubSeq(p, 1, m)
    BY <2>1, <2>3, <2>4, <2>5, PathEqual
  <2> QED BY <2>3, <2>6 DEF Prefixes
<1>4. \A q \in Prefixes(p) : Prefixes(q) \subseteq Prefixes(p)
  BY <1>3, Zenon DEF Prefixes
<1>5. ASSUME NEW q \in Prefixes(p) PROVE IsSeq(q) /\ (q # <<>> => p # <<>> /\ q[1] = p[1])
  <2>1. PICK n \in 0..Len(p) : q = SubSeq(p, 1, n)
    BY DEF Prefixes
  <2>2. IsSeq(q) /\ Len(q) = n /\ \A i \in 1..n : q[i] = p[i]
    BY <2>1, PathPrefix
  <2>3. ASSUME q # <<>> PROVE p # <<>> /\ q[1] = p[1]
    <3>1. Len(q) \in Nat \ {0}
      BY <2>2, <2>3, PathSplit
    <3>2. 1 \in 1..n /\ Len(p) # 0
      BY <1>1, <2>2, <3>1
    <3>3. Len(<<>>) = 0
      OBVIOUS
    <3> QED BY <2>2, <3>2, <3>3
  <2> QED BY <2>2, <2>3
<1>6. ASSUME NEW x PROVE Prefixes(p) \subseteq Prefixes(Append(p, x))
  <2> DEFINE q == Append(p, x)
  <2>1. IsSeq(q) /\ Len(q) = Len(p) + 1 /\ Front(q) = p /\ q # <<>>
    BY AppendIsSeq, PathAppend
  <2> HIDE DEF q
  <2>2. Front(q) = SubSeq(q, 1, Len(q) - 1) /\ Len(q) - 1 \in 0..Len(q)
    BY <1>1, <2>1 DEF Front
  <2>3. p \in Prefixes(q)
    BY <2>1, <2>2 DEF Prefixes
  <2>4. ASSUME NEW r \in Prefixes(p) PROVE r \in Prefixes(q)
    <3>1. PICK m \in 0..Len(p) : r = SubSeq(p, 1, m)
      BY DEF Prefixes
    <3>2. m \in 0..Len(p) /\ m \in 0..Len(q) /\ \A i \in 1..m : i \in 1..Len(p)
      BY <1>1, <2>1
    <3>3. IsSeq(r) /\ Len(r) = m /\ \A i \in 1..m : r[i] = p[i]
      BY <3>1, PathPrefix
    <3>4. IsSeq(SubSeq(q, 1, m)) /\ Len(SubSeq(q, 1, m)) = m /\ \A i \in 1..m : SubSeq(q, 1, m)[i] = q[i]
      BY <2>1, <3>2, PathPrefix
    <3>5. \A i \in 1..Len(p) : q[i] = p[i]
      BY AppendIsSeq DEF q
    <3>6. r = SubSeq(q, 1, m)
      BY <3>2, <3>3, <3>4, <3>5, PathEqual
    <3> QED BY <3>2, <3>6 DEF Prefixes
  <2> QED BY <2>4 DEF q
<1> QED BY <1>2, <1>4, <1>5, <1>6, Zenon

\* The paths of packages and writers do not start with an alias.
LEMMA HeadFacts ==
  ASSUME NEW p, IsSeq(p)
  PROVE  /\ p # <<>> => HeadOk(Normalize(p))
         /\ Normalize(p) = p => HeadOk(p)
         /\ HeadOk(p) => p \notin Roots /\ \A q \in Prefixes(p) : HeadOk(q) /\ q \notin Roots
<1>1. "usr" \notin Alias
  BY RootfsAssumption
<1>2. IsSeq(<<"usr">> \o p) /\ Len(<<"usr">> \o p) = 1 + Len(p) /\ (<<"usr">> \o p)[1] = "usr" /\ Len(p) \in Nat
  <2>1. Len(p) \in Nat /\ Len(<<"usr">>) = 1 /\ <<"usr">>[1] = "usr" /\ IsSeq(<<"usr">>)
    BY SeqLen, TupleIsSeq
  <2>2. 1 \in 1 .. 1 + Len(p)
    BY <2>1
  <2>3. /\ IsSeq(<<"usr">> \o p) /\ Len(<<"usr">> \o p) = 1 + Len(p)
        /\ \A i \in 1 .. 1 + Len(p) : (<<"usr">> \o p)[i] = IF i <= 1 THEN <<"usr">>[i] ELSE p[i - 1]
    BY <2>1, JoinIsSeq
  <2> QED BY <2>1, <2>2, <2>3
<1>3. p # <<>> => HeadOk(Normalize(p))
  BY <1>1, <1>2 DEF HeadOk, Normalize
<1>4. Normalize(p) = p => HeadOk(p)
  <2>1. <<"usr">> \o p # p
    BY <1>2
  <2> QED BY <2>1 DEF HeadOk, Normalize
<1>5. ASSUME NEW q, HeadOk(q) PROVE q \notin Roots
  <2>1. ASSUME NEW name \in Alias, q = <<name>> PROVE FALSE
    BY <1>5, <2>1, TupleIsSeq DEF HeadOk
  <2> QED BY <2>1 DEF Roots
<1>6. ASSUME HeadOk(p), NEW q \in Prefixes(p) PROVE HeadOk(q)
  BY <1>6, PrefixFacts DEF HeadOk
<1> QED BY <1>3, <1>4, <1>5, <1>6

\* What is below a link that is recorded is linked.
LEMMA LedBelow ==
  ASSUME NEW links, NEW p, IsSeq(p), NEW q \in Prefixes(p)
  PROVE  (Led(links, q) => Led(links, p)) /\ (Linked(links, q) => Linked(links, p))
         /\ (q \in DOMAIN links => Linked(links, p))
BY PrefixFacts DEF Led, Linked

\* Links on the disk lead where links of the archive do: a path that is followed stays where
\* it is, or ends where such a link leads.
LEMMA FollowTold ==
  ASSUME NEW on, NEW disk, NEW links, LinksGrounded(on, disk, links), DiskInv(disk),
         NEW at, at \notin Roots
  PROVE  \/ Follow(disk, at) = at
         \/ /\ on = "posix" /\ at \in DOMAIN disk /\ disk[at].kind = "symlink"
            /\ Told(links, Follow(disk, at)) /\ IsSeq(Follow(disk, at))
<1>1. PICK hop : /\ HopLoop(disk, at, hop)
                 /\ Follow(disk, at) = IF NodeAt(disk, at).kind = "symlink" THEN hop[MaxLinks] ELSE at
  BY FollowLoop
<1>2. MaxLinks \in Nat
  BY DEF MaxLinks
<1>3. hop[0] = at /\ \A n \in 1..MaxLinks : hop[n] = Hop(disk, hop[n - 1])
  BY <1>1, <1>2 DEF HopLoop
<1> DEFINE Good(q) == q = at \/ (Told(links, q) /\ IsSeq(q) /\ HeadOk(q))
<1>4. ASSUME NEW q, Good(q) PROVE Good(Hop(disk, q))
  <2>1. q \notin Roots
    BY <1>4, HeadFacts
  <2>2. CASE q \in DOMAIN disk /\ disk[q].kind = "symlink"
    <3>1. Hop(disk, q) = disk[q].to
      BY <2>2 DEF Hop, NodeAt
    <3>2. Told(links, disk[q].to) /\ HeadOk(disk[q].to) /\ IsSeq(disk[q].to)
      BY <2>1, <2>2 DEF LinksGrounded, DiskInv
    <3> QED BY <3>1, <3>2
  <2>3. CASE ~(q \in DOMAIN disk /\ disk[q].kind = "symlink")
    <3>1. Hop(disk, q) = q
      BY <2>3 DEF Hop, NodeAt, None
    <3> QED BY <1>4, <3>1
  <2> QED BY <2>2, <2>3
<1> HIDE DEF Good
<1> DEFINE bad == {n \in 0..MaxLinks : ~Good(hop[n])}
<1>5. bad \in SUBSET Nat /\ 0 \notin bad
  BY <1>2, <1>3 DEF Good
<1>6. ASSUME NEW n \in Nat, n # 0, n - 1 \notin bad, n \in bad PROVE FALSE
  <2>1. n \in 1..MaxLinks /\ n - 1 \in 0..MaxLinks
    BY <1>2, <1>6
  <2>2. Good(hop[n - 1])
    BY <1>6, <2>1
  <2>3. Good(hop[n])
    BY <1>3, <1>4, <2>1, <2>2
  <2> QED BY <1>6, <2>3
<1>7. bad = {}
  <2> HIDE DEF bad
  <2> QED BY <1>5, <1>6, FirstStep
<1>8. Good(hop[MaxLinks])
  BY <1>2, <1>7
<1>9. NodeAt(disk, at).kind = "symlink" => at \in DOMAIN disk /\ disk[at].kind = "symlink" /\ on = "posix"
  BY DEF NodeAt, None, LinksGrounded
<1> QED BY <1>1, <1>8, <1>9 DEF Good

\* A link told is led to.
LEMMA ToldIsLed == ASSUME NEW links, NEW at, IsSeq(at), Told(links, at) PROVE Led(links, at)
BY PrefixFacts DEF Led

\* A path leads to itself, unless a link that is recorded leads to it or stands on its way.
LEMMA WhereTo ==
  ASSUME NEW on, NEW disk, NEW links, LinksGrounded(on, disk, links), DiskInv(disk),
         NEW p, IsSeq(p), HeadOk(p)
  PROVE  \/ Where(disk, p) = p
         \/ on = "posix" /\ Led(links, Where(disk, p)) /\ Linked(links, p)
<1> DEFINE q(n) == SubSeq(p, 1, n)
           Good(n) == \/ Where(disk, q(n)) = q(n)
                      \/ on = "posix" /\ Led(links, Where(disk, q(n))) /\ Linked(links, p)
<1>1. Len(p) \in Nat
  BY SeqLen
<1>2. /\ Where(disk, q(0)) = <<>> /\ q(0) = <<>>
      /\ \A n \in 1..Len(p) : Where(disk, q(n)) = Follow(disk, Append(Where(disk, q(n - 1)), p[n]))
  BY WhereAlong, PathPrefixAll
<1>3. ASSUME NEW n \in 1..Len(p)
      PROVE  /\ IsSeq(q(n)) /\ IsSeq(q(n - 1)) /\ q(n) = Append(q(n - 1), p[n])
             /\ q(n) \in Prefixes(p) /\ IsSeq(Where(disk, q(n - 1)))
  <2>1. n \in 0..Len(p) /\ n - 1 \in 0..Len(p)
    BY <1>1
  <2>2. IsSeq(q(n)) /\ IsSeq(q(n - 1))
    BY <2>1, PathPrefix
  <2>3. Front(q(n)) = q(n - 1) /\ Last(q(n)) = p[n] /\ q(n) # <<>>
    BY PathPrefixFront
  <2>4. q(n) = Append(Front(q(n)), Last(q(n)))
    BY <2>2, <2>3, PathSplit
  <2>5. q(n) \in Prefixes(p)
    BY <2>1 DEF Prefixes
  <2> HIDE DEF q
  <2> QED BY <2>2, <2>3, <2>4, <2>5, WhereIsSeq
<1>4. ASSUME NEW at, at \in DOMAIN disk, disk[at].kind = "symlink", at \notin Roots, NEW n \in 1..Len(p), at = q(n)
      PROVE  Linked(links, p)
  <2>1. at \in DOMAIN links \/ Led(links, at)
    BY <1>4 DEF LinksGrounded
  <2>2. at \in Prefixes(p)
    BY <1>3, <1>4
  <2>3. /\ Led(links, at) => Led(links, p)
        /\ Linked(links, at) => Linked(links, p)
        /\ at \in DOMAIN links => Linked(links, p)
    BY <2>2, LedBelow, Zenon
  <2>4. Led(links, at) => Linked(links, at)
    BY DEF Linked
  <2> QED BY <2>1, <2>3, <2>4
<1> HIDE DEF q
<1>5. Good(0)
  BY <1>2
<1>6. ASSUME NEW n \in 1..Len(p), Good(n - 1) PROVE Good(n)
  <2> DEFINE from == Where(disk, q(n - 1))
             at == Append(from, p[n])
  <2>1. Where(disk, q(n)) = Follow(disk, at)
    BY <1>2
  <2>2. IsSeq(from) /\ IsSeq(at)
    BY <1>3, PathAppend
  <2>3. CASE from = q(n - 1)
    <3>1. at = q(n) /\ q(n) \in Prefixes(p)
      BY <1>3, <2>3
    <3>2. at \notin Roots
      BY <3>1, HeadFacts
    <3> HIDE DEF at, from
    <3>3. CASE Follow(disk, at) = at
      BY <2>1, <3>1, <3>3
    <3>4. CASE /\ on = "posix" /\ at \in DOMAIN disk /\ disk[at].kind = "symlink"
               /\ Told(links, Follow(disk, at)) /\ IsSeq(Follow(disk, at))
      <4>1. Linked(links, p)
        BY <1>4, <3>1, <3>2, <3>4
      <4>2. Led(links, Follow(disk, at))
        BY <3>4, ToldIsLed
      <4> QED BY <2>1, <3>4, <4>1, <4>2
    <3> QED BY <3>2, <3>3, <3>4, FollowTold
  <2>4. CASE on = "posix" /\ Led(links, from) /\ Linked(links, p)
    <3>1. from \in Prefixes(at)
      BY <2>2, PrefixFacts, Zenon
    <3>2. Led(links, at)
      BY <2>2, <2>4, <3>1, LedBelow
    <3>3. IsSeq(Follow(disk, at))
      BY <2>2, FollowIsSeq
    <3>4. Led(links, Follow(disk, at))
      <4>1. CASE at \notin Roots
        <5> HIDE DEF at, from
        <5> QED BY <3>2, <3>3, <4>1, FollowTold, ToldIsLed
      <4>2. CASE at \in Roots
        <5>1. from = <<>>
          <6>1. PICK name \in Alias : at = <<name>>
            BY <4>2 DEF Roots
          <6>2. Len(at) = Len(from) + 1 /\ Len(at) = 1 /\ Len(from) \in Nat
            BY <2>2, <6>1, AppendIsSeq, TupleIsSeq, SeqLen
          <6>3. Len(from) = 0
            BY <6>2
          <6> HIDE DEF from
          <6> QED BY <2>2, <6>3, PathSplit
        <5>2. <<>> \in Prefixes(Follow(disk, at))
          BY <3>3, PrefixFacts
        <5> HIDE DEF at, from
        <5> QED BY <2>4, <3>3, <5>1, <5>2, LedBelow
      <4> QED BY <4>1, <4>2
    <3> HIDE DEF at, from
    <3> QED BY <2>1, <2>4, <3>4
  <2> QED BY <1>6, <2>3, <2>4
<1> DEFINE bad == {n \in 0..Len(p) : ~Good(n)}
<1> HIDE DEF Good
<1>7. bad \in SUBSET Nat /\ 0 \notin bad
  BY <1>1, <1>5
<1>8. ASSUME NEW n \in Nat, n # 0, n - 1 \notin bad, n \in bad PROVE FALSE
  <2>1. n \in 1..Len(p) /\ n - 1 \in 0..Len(p)
    BY <1>1, <1>8
  <2> QED BY <1>6, <1>8, <2>1
<1>9. bad = {}
  <2> HIDE DEF bad
  <2> QED BY <1>7, <1>8, FirstStep
<1>10. Good(Len(p))
  BY <1>1, <1>9
<1>11. q(Len(p)) = p
  BY PathPrefixAll DEF q
<1> QED BY <1>10, <1>11 DEF Good

\* Likewise where the last name of a path stands.
LEMMA EntryTo ==
  ASSUME NEW on, NEW disk, NEW links, LinksGrounded(on, disk, links), DiskInv(disk),
         NEW p, IsSeq(p), p # <<>>, HeadOk(p)
  PROVE  \/ Entry(disk, p) = p /\ Where(disk, Front(p)) = Front(p)
         \/ on = "posix" /\ Led(links, Entry(disk, p)) /\ Linked(links, p)
<1>1. IsSeq(Front(p)) /\ p = Append(Front(p), Last(p))
  BY PathSplit
<1>2. Front(p) \in Prefixes(p)
  BY <1>1, PrefixFacts, Zenon
<1>3. HeadOk(Front(p))
  BY <1>2, HeadFacts
<1> DEFINE from == Where(disk, Front(p))
<1>4. IsSeq(from)
  BY <1>1, WhereIsSeq
<1>5. Entry(disk, p) = Append(from, Last(p))
  BY DEF Entry
<1>6. \/ from = Front(p)
      \/ on = "posix" /\ Led(links, from) /\ Linked(links, Front(p))
  BY <1>1, <1>3, WhereTo
<1> HIDE DEF from
<1>7. CASE from = Front(p)
  BY <1>1, <1>5, <1>7 DEF from
<1>8. CASE on = "posix" /\ Led(links, from) /\ Linked(links, Front(p))
  <2>1. IsSeq(Append(from, Last(p))) /\ from \in Prefixes(Append(from, Last(p)))
    BY <1>4, PathAppend, PrefixFacts, Zenon
  <2> QED BY <1>2, <1>5, <1>8, <2>1, LedBelow
<1> QED BY <1>6, <1>7, <1>8

\* At a path a disk stays as it is, or gets a directory.
KeepsAt(disk, new, at) ==
  /\ at \in DOMAIN disk => at \in DOMAIN new /\ new[at] = disk[at]
  /\ at \notin DOMAIN disk /\ at \in DOMAIN new => new[at].kind = "dir"

LinksGrow(links, new) == DOMAIN links \subseteq DOMAIN new /\ \A to : Told(links, to) => Told(new, to)

\* Two steps that leave a path alone do together.
LEMMA KeepsTwice ==
  ASSUME NEW a, NEW b, NEW c, NEW at, KeepsAt(a, b, at), KeepsAt(b, c, at) PROVE KeepsAt(a, c, at)
BY DEF KeepsAt

\* What leads somewhere or is recorded stays so when there are more links.
LEMMA GrowthLinks ==
  ASSUME NEW links, NEW new, LinksGrow(links, new), NEW at
  PROVE  (Led(links, at) => Led(new, at)) /\ (Linked(links, at) => Linked(new, at))
BY DEF LinksGrow, Led, Linked

\* What a disk may get so that its links still lead where those of the archive do.
Fair(on, links, at, node) ==
  \/ node.kind = "dir"
  \/ node.kind = "file" /\ (on = "windows" => Last(at) \notin OddNames)
  \/ /\ node.kind = "symlink" /\ on = "posix" /\ HeadOk(node.to)
     /\ Told(links, node.to) /\ (at \in DOMAIN links \/ Led(links, at))

\* Links on the disk stay grounded when a change adds none that is not.
LEMMA StaysGrounded ==
  ASSUME NEW on, NEW disk, NEW links, Grounded(on, disk, links), NEW newLinks, LinksGrow(links, newLinks),
         NEW new, \A at \in DOMAIN new : (at \in DOMAIN disk /\ new[at] = disk[at]) \/ Fair(on, newLinks, at, new[at])
  PROVE  Grounded(on, new, newLinks)
<1>1. \A at : Led(links, at) => Led(newLinks, at)
  BY GrowthLinks
<1>2. LinksGrounded(on, new, newLinks)
  <2> SUFFICES ASSUME NEW at \in DOMAIN new, new[at].kind = "symlink"
               PROVE  /\ on = "posix" /\ HeadOk(new[at].to)
                      /\ at \in Roots \/ (Told(newLinks, new[at].to) /\ (at \in DOMAIN newLinks \/ Led(newLinks, at)))
    BY DEF LinksGrounded
  <2>1. CASE at \in DOMAIN disk /\ new[at] = disk[at]
    <3>1. /\ on = "posix" /\ HeadOk(disk[at].to)
          /\ at \in Roots \/ (Told(links, disk[at].to) /\ (at \in DOMAIN links \/ Led(links, at)))
      BY <2>1 DEF Grounded, LinksGrounded
    <3> QED BY <1>1, <2>1, <3>1 DEF LinksGrow
  <2>2. CASE Fair(on, newLinks, at, new[at])
    BY <2>2 DEF Fair
  <2> QED BY <2>1, <2>2
<1>3. NamesGrounded(on, new)
  <2> SUFFICES ASSUME on = "windows", NEW at \in DOMAIN new, new[at].kind = "file"
               PROVE  Last(at) \notin OddNames
    BY DEF NamesGrounded
  <2>1. CASE at \in DOMAIN disk /\ new[at] = disk[at]
    BY <2>1 DEF Grounded, NamesGrounded
  <2>2. CASE Fair(on, newLinks, at, new[at])
    BY <2>2 DEF Fair
  <2> QED BY <2>1, <2>2
<1> QED BY <1>2, <1>3 DEF Grounded

\* A writer that changes no link lets the links of the archive grow by none.
LEMMA LinksStay == ASSUME NEW links PROVE LinksGrow(links, links)
BY DEF LinksGrow

-----------------------------------------------------------------------------
(* What the writers leave alone on the disk.                               *)

\* Directories are added, nothing else.
LEMMA MakeDirsSpares ==
  ASSUME NEW disk, NEW path
  PROVE  /\ \A at : KeepsAt(disk, MakeDirs(disk, path), at)
         /\ \A on, links : Grounded(on, disk, links) => Grounded(on, MakeDirs(disk, path), links)
<1> DEFINE new == MakeDirs(disk, path)
           made == {Where(disk, q) : q \in Prefixes(path) \ {<<>>}}
<1>1. new = [at \in DOMAIN disk \cup made |-> IF at \in DOMAIN disk THEN disk[at] ELSE Dir]
  BY DEF MakeDirs
<1> HIDE DEF new, made
<1>2. \A at \in DOMAIN disk : at \in DOMAIN new /\ new[at] = disk[at]
  BY <1>1
<1>3. \A at \in DOMAIN new : at \notin DOMAIN disk => new[at].kind = "dir"
  BY <1>1 DEF Dir
<1>4. \A at : KeepsAt(disk, new, at)
  BY <1>2, <1>3 DEF KeepsAt
<1>5. ASSUME NEW on, NEW links, Grounded(on, disk, links) PROVE Grounded(on, new, links)
  <2>1. \A at \in DOMAIN new : (at \in DOMAIN disk /\ new[at] = disk[at]) \/ Fair(on, links, at, new[at])
    BY <1>2, <1>3 DEF Fair
  <2> QED BY <1>5, <2>1, LinksStay, StaysGrounded
<1> QED BY <1>4, <1>5 DEF new

\* A path that leads to itself is a directory once it was made.
LEMMA MakeDirsMakes ==
  ASSUME NEW disk, DiskInv(disk), NEW path, IsSeq(path), ~Blocked(disk, path), Where(disk, path) = path
  PROVE  NodeAt(MakeDirs(disk, path), path).kind = "dir"
<1> DEFINE new == MakeDirs(disk, path)
           made == {Where(disk, q) : q \in Prefixes(path) \ {<<>>}}
<1>1. new = [at \in DOMAIN disk \cup made |-> IF at \in DOMAIN disk THEN disk[at] ELSE Dir]
  BY DEF MakeDirs
<1>2. CASE path = <<>>
  <2>1. <<>> \in DOMAIN disk /\ disk[<<>>].kind = "dir"
    BY DEF DiskInv
  <2> HIDE DEF made
  <2> QED BY <1>1, <1>2, <2>1 DEF NodeAt
<1>3. CASE path # <<>>
  <2>1. path \in Prefixes(path) \ {<<>>}
    BY <1>3, PrefixFacts
  <2>2. path \in made /\ NodeAt(disk, path).kind \notin {"file", "symlink"}
    BY <2>1, Zenon DEF Blocked
  <2>3. path \in DOMAIN disk => disk[path].kind = "dir"
    BY <2>2 DEF NodeAt, DiskInv
  <2> HIDE DEF made
  <2> QED BY <1>1, <2>2, <2>3 DEF NodeAt, Dir
<1> QED BY <1>2, <1>3

\* What is unlinked is the path, or something links lead to.
LEMMA UnlinkSpares ==
  ASSUME NEW on, NEW disk, NEW links, Grounded(on, disk, links), DiskInv(disk),
         NEW path, IsSeq(path), path # <<>>, HeadOk(path)
  PROVE  /\ \A at : at # path /\ ~Led(links, at) => KeepsAt(disk, Unlink(disk, path), at)
         /\ Grounded(on, Unlink(disk, path), links)
<1> DEFINE gone == Entry(disk, path)
           new == Unlink(disk, path)
<1>1. gone = path \/ Led(links, gone)
  BY EntryTo DEF Grounded
<1>2. new = disk \/ new = [x \in DOMAIN disk \ {gone} |-> disk[x]]
  BY DEF Unlink, Without
<1> HIDE DEF gone, new
<1>3. \A at : at # path /\ ~Led(links, at) => KeepsAt(disk, new, at)
  BY <1>1, <1>2 DEF KeepsAt
<1>4. \A at \in DOMAIN new : (at \in DOMAIN disk /\ new[at] = disk[at]) \/ Fair(on, links, at, new[at])
  BY <1>2
<1>5. Grounded(on, new, links)
  BY <1>4, LinksStay, StaysGrounded
<1> QED BY <1>3, <1>5 DEF new

\* A link stands at the path, or where links lead to.
LEMMA SymlinkSpares ==
  ASSUME NEW disk, NEW links, Grounded(host, disk, links), DiskInv(disk),
         NEW path, IsSeq(path), path # <<>>, HeadOk(path), NEW to, HeadOk(to),
         NEW newLinks, LinksGrow(links, newLinks), path \in DOMAIN newLinks, Told(newLinks, to)
  PROVE  /\ \A at : at # path /\ ~Led(links, at) => KeepsAt(disk, Symlink(disk, path, to), at)
         /\ Grounded(host, Symlink(disk, path, to), newLinks)
<1> DEFINE put == Entry(disk, path)
           new == Symlink(disk, path, to)
<1>1. put = path \/ Led(links, put)
  BY EntryTo DEF Grounded
<1>2. new = disk \/ (host = "posix" /\ new = [x \in DOMAIN disk \cup {put} |-> IF x = put THEN LinkTo(to) ELSE disk[x]])
  BY DEF Symlink, With
<1>3. put \in DOMAIN newLinks \/ Led(newLinks, put)
  BY <1>1, GrowthLinks
<1>4. LinkTo(to).kind = "symlink" /\ LinkTo(to).to = to
  BY DEF LinkTo
<1> HIDE DEF put, new
<1>5. \A at : at # path /\ ~Led(links, at) => KeepsAt(disk, new, at)
  BY <1>1, <1>2 DEF KeepsAt
<1>6. host = "posix" => Fair(host, newLinks, put, LinkTo(to))
  BY <1>3, <1>4 DEF Fair
<1>7. \A at \in DOMAIN new : (at \in DOMAIN disk /\ new[at] = disk[at]) \/ Fair(host, newLinks, at, new[at])
  BY <1>2, <1>6
<1>8. Grounded(host, new, newLinks)
  BY <1>7, StaysGrounded
<1> QED BY <1>5, <1>8 DEF new

\* A file is written at the path, or where links lead to.
LEMMA WrittenSpares ==
  ASSUME NEW disk, NEW links, Grounded(host, disk, links), DiskInv(disk),
         NEW path, IsSeq(path), path # <<>>, HeadOk(path), Writable(disk, path), NEW by
  PROVE  /\ \A at : at # path /\ ~Led(links, at) => KeepsAt(disk, With(disk, Where(disk, path), File(by)), at)
         /\ Grounded(host, With(disk, Where(disk, path), File(by)), links)
<1> DEFINE put == Where(disk, path)
           new == With(disk, put, File(by))
<1>1. put = path \/ (host = "posix" /\ Led(links, put))
  BY WhereTo DEF Grounded
<1>2. new = [x \in DOMAIN disk \cup {put} |-> IF x = put THEN File(by) ELSE disk[x]]
  BY DEF With
<1>3. host = "windows" => Last(path) \notin OddNames
  BY DEF Writable
<1> HIDE DEF put, new
<1>4. \A at : at # path /\ ~Led(links, at) => KeepsAt(disk, new, at)
  BY <1>1, <1>2 DEF KeepsAt
<1>5. Fair(host, links, put, File(by))
  BY <1>1, <1>3 DEF Fair, File
<1>6. \A at \in DOMAIN new : (at \in DOMAIN disk /\ new[at] = disk[at]) \/ Fair(host, links, at, new[at])
  BY <1>2, <1>5
<1>7. Grounded(host, new, links)
  BY <1>6, LinksStay, StaysGrounded
<1> QED BY <1>4, <1>7 DEF new, put

\* What Record changes.
LEMMA RecordFields ==
  ASSUME NEW tree, IsTree(tree), NEW path, NEW kind, NEW mode, NEW to
  PROVE  LET new == Record(tree, path, kind, mode, to) IN
         /\ new.disk = tree.disk /\ new.extra = tree.extra /\ new.ok = tree.ok
         /\ new.modes = With(tree.modes, path, IF kind = "symlink" THEN "exec" ELSE mode)
         /\ new.links = IF kind \in {"symlink", "hardlink"}
                          THEN With(tree.links, path, [kind |-> kind, to |-> to]) ELSE tree.links
<1> DEFINE links == IF kind \in {"symlink", "hardlink"}
                      THEN With(tree.links, path, [kind |-> kind, to |-> to]) ELSE tree.links
           modes == With(tree.modes, path, IF kind = "symlink" THEN "exec" ELSE mode)
           new == Record(tree, path, kind, mode, to)
<1>1. DOMAIN tree = {"disk", "modes", "links", "extra", "ok"}
  BY TreeFields
<1>2. new = [tree EXCEPT !.modes = modes, !.links = links]
  BY DEF Record
<1> HIDE DEF links, modes, new
<1>3. /\ new.disk = tree.disk /\ new.extra = tree.extra /\ new.ok = tree.ok
      /\ new.modes = modes /\ new.links = links
  BY <1>1, <1>2
<1> QED BY <1>3 DEF links, modes, new

\* What Record changes for what is no link.
LEMMA RecordNoLink ==
  ASSUME NEW tree, IsTree(tree), NEW path, NEW kind, kind \in {"dir", "file"}, NEW mode, NEW to
  PROVE  LET new == Record(tree, path, kind, mode, to) IN
         /\ new.disk = tree.disk /\ new.extra = tree.extra /\ new.ok = tree.ok
         /\ new.modes = With(tree.modes, path, mode) /\ new.links = tree.links
<1> DEFINE new == Record(tree, path, kind, mode, to)
           entry == [kind |-> kind, to |-> to]
<1>1. kind \notin {"symlink", "hardlink"} /\ kind # "symlink"
  OBVIOUS
<1>2. /\ new.disk = tree.disk /\ new.extra = tree.extra /\ new.ok = tree.ok
      /\ new.modes = With(tree.modes, path, IF kind = "symlink" THEN "exec" ELSE mode)
      /\ new.links = IF kind \in {"symlink", "hardlink"} THEN With(tree.links, path, entry) ELSE tree.links
  BY RecordFields
<1> HIDE DEF new, entry
<1>3. new.modes = With(tree.modes, path, mode) /\ new.links = tree.links
  BY <1>1, <1>2
<1>4. /\ new.disk = tree.disk /\ new.extra = tree.extra /\ new.ok = tree.ok
      /\ new.modes = With(tree.modes, path, mode) /\ new.links = tree.links
  BY <1>2, <1>3
<1> QED BY <1>4 DEF new

\* A tree with another disk.
LEMMA DiskFields ==
  ASSUME NEW tree, IsTree(tree), NEW disk
  PROVE  LET new == [tree EXCEPT !.disk = disk] IN
         /\ IsTree(new) /\ new.disk = disk /\ new.modes = tree.modes /\ new.links = tree.links
         /\ new.extra = tree.extra /\ new.ok = tree.ok
BY TreeFields DEF IsTree

\* A writer that raised gives a tree that is not ok.
LEMMA RaiseFails == ASSUME NEW tree, IsTree(tree) PROVE ~Raise(tree).ok
BY TreeFields DEF Raise

\* Files that were shipped stay here when only what was shipped again changes.
LEMMA StaysHere ==
  ASSUME NEW on, NEW tree, NEW new, NEW at, NEW file, Here(on, tree, at, file),
         KeepsAt(tree.disk, new.disk, at),
         at \in DOMAIN tree.modes => at \in DOMAIN new.modes /\ new.modes[at] = tree.modes[at],
         ToSet(tree.extra) \subseteq ToSet(new.extra)
  PROVE  Here(on, new, at, file)
<1>1. CASE NodeAt(tree.disk, at).kind = "dir"
  <2>1. at \in DOMAIN tree.disk
    BY <1>1 DEF NodeAt, None
  <2> QED BY <1>1, <2>1 DEF KeepsAt, NodeAt, Here
<1>2. CASE NodeAt(tree.disk, at) = File(file.by) /\ at \in DOMAIN tree.modes /\ tree.modes[at] = file.mode
  <2>1. at \in DOMAIN tree.disk
    BY <1>2 DEF NodeAt, None, File
  <2> QED BY <1>2, <2>1 DEF KeepsAt, NodeAt, Here
<1>3. CASE /\ at \notin DOMAIN tree.disk /\ on = "windows" /\ Last(at) \in OddNames
           /\ \E e \in ToSet(tree.extra) : e.path = at
  BY <1>3 DEF KeepsAt, NodeAt, Here
<1> QED BY <1>1, <1>2, <1>3 DEF Here

\* The files shipped stay shown across a writer, those it writes aside.
LEMMA StaysShown ==
  ASSUME NEW on, NEW arch, NEW tree, NEW sent, Shown(on, arch, tree, sent), NEW new, NEW after,
         LinksGrow(tree.links, new.links), ToSet(tree.extra) \subseteq ToSet(new.extra),
         \A at \in DOMAIN after :
           \/ /\ at \in DOMAIN sent /\ after[at] = sent[at]
              /\ ~Linked(new.links, at) =>
                   \/ /\ KeepsAt(tree.disk, new.disk, at)
                      /\ at \in DOMAIN tree.modes => at \in DOMAIN new.modes /\ new.modes[at] = tree.modes[at]
                   \/ Here(on, new, at, after[at])
           \/ /\ IsSeq(at) /\ at # <<>> /\ HeadOk(at) /\ FileShipped(arch, at, after[at].mode, after[at].by)
              /\ ~Linked(new.links, at) => Here(on, new, at, after[at])
  PROVE  Shown(on, arch, new, after)
<1> SUFFICES ASSUME NEW at \in DOMAIN after
             PROVE  /\ IsSeq(at) /\ at # <<>> /\ HeadOk(at)
                    /\ FileShipped(arch, at, after[at].mode, after[at].by)
                    /\ Linked(new.links, at) \/ Here(on, new, at, after[at])
  BY Zenon DEF Shown
<1>1. CASE /\ at \in DOMAIN sent /\ after[at] = sent[at]
           /\ ~Linked(new.links, at) =>
                \/ /\ KeepsAt(tree.disk, new.disk, at)
                   /\ at \in DOMAIN tree.modes => at \in DOMAIN new.modes /\ new.modes[at] = tree.modes[at]
                \/ Here(on, new, at, after[at])
  <2>1. /\ IsSeq(at) /\ at # <<>> /\ HeadOk(at)
        /\ FileShipped(arch, at, sent[at].mode, sent[at].by)
        /\ Linked(tree.links, at) \/ Here(on, tree, at, sent[at])
    BY <1>1, Zenon DEF Shown
  <2>2. Linked(tree.links, at) => Linked(new.links, at)
    BY GrowthLinks
  <2>3. ASSUME Here(on, tree, at, sent[at]), KeepsAt(tree.disk, new.disk, at),
               at \in DOMAIN tree.modes => at \in DOMAIN new.modes /\ new.modes[at] = tree.modes[at]
        PROVE  Here(on, new, at, sent[at])
    BY <2>3, StaysHere
  <2> QED BY <1>1, <2>1, <2>2, <2>3
<1> QED BY <1>1, Zenon

\* Links that packages agree on are added to, never changed.
LEMMA RecordedGrow ==
  ASSUME PathsAgree, NEW arch \in Buildable, NEW links, Sourced(arch, links),
         NEW x \in Shipments(arch), x.member.kind \in {"symlink", "hardlink"},
         NEW path, path = Normalize(x.member.name), path \notin Roots,
         NEW new, new = With(links, path, [kind |-> x.member.kind, to |-> x.member.to])
  PROVE  /\ LinksGrow(links, new) /\ Sourced(arch, new) /\ path \in DOMAIN new
         /\ x.member.kind = "symlink" => Told(new, x.member.to)
<1> DEFINE entry == [kind |-> x.member.kind, to |-> x.member.to]
<1>1. new = [at \in DOMAIN links \cup {path} |-> IF at = path THEN entry ELSE links[at]]
  BY DEF With
<1>2. entry.kind = x.member.kind /\ entry.to = x.member.to
  OBVIOUS
<1> HIDE DEF entry
<1>3. ASSUME NEW l \in DOMAIN links \ Roots, links[l].kind = "symlink"
      PROVE  l \in DOMAIN new \ Roots /\ new[l].kind = "symlink" /\ new[l].to = links[l].to
  <2>1. CASE l # path
    BY <1>1, <1>3, <2>1
  <2>2. CASE l = path
    <3>1. PICK y \in Shipments(arch) :
            Normalize(y.member.name) = l /\ y.member.kind = links[l].kind /\ y.member.to = links[l].to
      BY DEF Sourced
    <3>2. x.member.kind = "symlink" /\ x.member.to = y.member.to
      BY <1>3, <2>2, <3>1 DEF PathsAgree
    <3> QED BY <1>1, <1>2, <1>3, <2>2, <3>1, <3>2
  <2> QED BY <2>1, <2>2
<1>4. ASSUME NEW to, Told(links, to) PROVE Told(new, to)
  BY <1>3, <1>4 DEF Told
<1>5. Sourced(arch, new)
  BY <1>1, <1>2 DEF Sourced
<1>6. x.member.kind = "symlink" => Told(new, x.member.to)
  BY <1>1, <1>2 DEF Told
<1> QED BY <1>1, <1>4, <1>5, <1>6 DEF LinksGrow

-----------------------------------------------------------------------------
(* The writers, and what was shipped.                                      *)

\* A directory hides no file that was shipped.
LEMMA AddDirShows ==
  ASSUME NEW arch, NEW tree, TreeInv(tree), NEW sent, Sound(host, arch, tree, sent),
         NEW path, IsSeq(path), path # <<>>, HeadOk(path), NEW mode, AddDir(tree, path, mode).ok
  PROVE  /\ Sound(host, arch, AddDir(tree, path, mode), sent)
         /\ AddDir(tree, path, mode).links = tree.links /\ tree.ok
<1> DEFINE disk == MakeDirs(tree.disk, path)
           made == [tree EXCEPT !.disk = disk]
           new == AddDir(tree, path, mode)
<1>1. tree.ok /\ ~Blocked(tree.disk, path) /\ new = Record(made, path, "dir", mode, <<>>)
  BY RaiseFails DEF AddDir, TreeInv
<1>2. /\ IsTree(made) /\ made.disk = disk /\ made.modes = tree.modes /\ made.links = tree.links
      /\ made.extra = tree.extra
  BY DiskFields DEF TreeInv
<1> HIDE DEF made, new, disk
<1>3. /\ new.disk = disk /\ new.extra = tree.extra /\ new.links = tree.links
      /\ new.modes = With(tree.modes, path, mode)
  <2>1. "dir" \in {"dir", "file"}
    OBVIOUS
  <2>2. LET r == Record(made, path, "dir", mode, <<>>) IN
        /\ r.disk = made.disk /\ r.extra = made.extra /\ r.links = made.links
        /\ r.modes = With(made.modes, path, mode)
    BY <1>2, <2>1, RecordNoLink
  <2> QED BY <1>1, <1>2, <2>2
<1>4. (\A at : KeepsAt(tree.disk, disk, at)) /\ Grounded(host, disk, tree.links)
  BY MakeDirsSpares DEF Sound, disk
<1>5. ASSUME NEW at \in DOMAIN sent, ~Linked(new.links, at)
      PROVE  \/ /\ KeepsAt(tree.disk, new.disk, at)
                /\ at \in DOMAIN tree.modes => at \in DOMAIN new.modes /\ new.modes[at] = tree.modes[at]
             \/ Here(host, new, at, sent[at])
  <2>1. CASE at # path
    BY <1>3, <1>4, <2>1 DEF With
  <2>2. CASE at = path
    <3>1. Where(tree.disk, path) = path
      BY <1>3, <1>5, <2>2, WhereTo DEF Sound, Grounded, TreeInv
    <3>2. NodeAt(disk, path).kind = "dir"
      BY <1>1, <3>1, MakeDirsMakes DEF TreeInv, disk
    <3> QED BY <1>3, <2>2, <3>2 DEF Here
  <2> QED BY <2>1, <2>2
<1>6. Shown(host, arch, tree, sent) /\ Aside(arch, tree.extra)
  BY DEF Sound
<1>7. LinksGrow(tree.links, new.links) /\ ToSet(tree.extra) \subseteq ToSet(new.extra)
  BY <1>3, LinksStay
<1>8. Shown(host, arch, new, sent)
  BY <1>5, <1>6, <1>7, StaysShown
<1> QED BY <1>1, <1>3, <1>4, <1>6, <1>8 DEF Sound, new

\* A link hides no file that was shipped but at its own path, or below it.
LEMMA AddSymlinkShows ==
  ASSUME PathsAgree, NEW arch \in Buildable,
         NEW tree, TreeInv(tree), NEW sent, Sound(host, arch, tree, sent), Sourced(arch, tree.links),
         NEW x \in Shipments(arch), x.member.kind = "symlink", HeadOk(x.member.to), IsSeq(x.member.to),
         NEW path, path = Normalize(x.member.name), IsSeq(path), path # <<>>, HeadOk(path),
         AddSymlink(tree, path, x.member.to).ok
  PROVE  /\ Sound(host, arch, AddSymlink(tree, path, x.member.to), Without(sent, path))
         /\ Sourced(arch, AddSymlink(tree, path, x.member.to).links)
<1> DEFINE to == x.member.to
           disk1 == MakeDirs(tree.disk, Front(path))
           disk2 == Unlink(disk1, path)
           disk3 == Symlink(disk2, path, to)
           made == [tree EXCEPT !.disk = disk3]
           new == AddSymlink(tree, path, to)
           links == With(tree.links, path, [kind |-> "symlink", to |-> to])
<1>1. ~Blocked(tree.disk, Front(path)) /\ new = Record(made, path, "symlink", "exec", to)
  BY RaiseFails DEF AddSymlink, TreeInv
<1>2. /\ IsTree(made) /\ made.disk = disk3 /\ made.modes = tree.modes /\ made.links = tree.links
      /\ made.extra = tree.extra
  BY DiskFields DEF TreeInv
<1> HIDE DEF made, new, to
<1>3. /\ new.disk = disk3 /\ new.extra = tree.extra /\ new.links = links
      /\ new.modes = With(tree.modes, path, "exec")
  BY <1>1, <1>2, RecordFields
<1>4. path \notin Roots
  BY HeadFacts
<1>5. LinksGrow(tree.links, links) /\ Sourced(arch, links) /\ path \in DOMAIN links /\ Told(links, to)
  BY <1>4, RecordedGrow DEF to
<1> HIDE DEF links
<1>6. (\A at : KeepsAt(tree.disk, disk1, at)) /\ Grounded(host, disk1, tree.links) /\ DiskInv(disk1)
  BY <1>1, MakeDirsSpares, MakeDirsKeeps, PathSplit DEF Sound, TreeInv
<1> HIDE DEF disk1
<1>7. /\ \A at : at # path /\ ~Led(tree.links, at) => KeepsAt(disk1, disk2, at)
      /\ Grounded(host, disk2, tree.links) /\ DiskInv(disk2)
  BY <1>6, UnlinkSpares, UnlinkKeeps
<1> HIDE DEF disk2
<1>8. /\ \A at : at # path /\ ~Led(tree.links, at) => KeepsAt(disk2, disk3, at)
      /\ Grounded(host, disk3, links)
  BY <1>5, <1>7, SymlinkSpares DEF to
<1> HIDE DEF disk3
<1>9. ASSUME NEW at \in DOMAIN Without(sent, path)
      PROVE  /\ at \in DOMAIN sent /\ Without(sent, path)[at] = sent[at]
             /\ ~Linked(new.links, at) =>
                  /\ KeepsAt(tree.disk, new.disk, at)
                  /\ at \in DOMAIN tree.modes => at \in DOMAIN new.modes /\ new.modes[at] = tree.modes[at]
  <2>1. at \in DOMAIN sent /\ Without(sent, path)[at] = sent[at] /\ at # path
    BY DEF Without
  <2>2. ASSUME ~Linked(new.links, at) PROVE KeepsAt(tree.disk, new.disk, at)
    <3>1. ~Led(tree.links, at)
      BY <1>3, <1>5, <2>2, GrowthLinks DEF Linked
    <3> QED BY <1>3, <1>6, <1>7, <1>8, <2>1, <3>1, KeepsTwice
  <2>3. at \in DOMAIN tree.modes => at \in DOMAIN new.modes /\ new.modes[at] = tree.modes[at]
    BY <1>3, <2>1 DEF With
  <2> QED BY <2>1, <2>2, <2>3
<1>10. Shown(host, arch, tree, sent) /\ Aside(arch, tree.extra)
  BY DEF Sound
<1>11. LinksGrow(tree.links, new.links) /\ ToSet(tree.extra) \subseteq ToSet(new.extra)
  BY <1>3, <1>5
<1>12. Shown(host, arch, new, Without(sent, path))
  BY <1>9, <1>10, <1>11, StaysShown
<1> QED BY <1>3, <1>5, <1>8, <1>10, <1>12 DEF Sound, new, to

\* A hard link, which is only noted, hides no file but at its own path.
LEMMA HardlinkShows ==
  ASSUME PathsAgree, NEW arch \in Buildable,
         NEW tree, TreeInv(tree), NEW sent, Sound(host, arch, tree, sent), Sourced(arch, tree.links),
         NEW x \in Shipments(arch), x.member.kind = "hardlink",
         NEW path, path = Normalize(x.member.name), IsSeq(path), path # <<>>, HeadOk(path)
  PROVE  /\ Sound(host, arch, Record(tree, path, "hardlink", "exec", x.member.to), Without(sent, path))
         /\ Sourced(arch, Record(tree, path, "hardlink", "exec", x.member.to).links)
<1> DEFINE new == Record(tree, path, "hardlink", "exec", x.member.to)
           links == With(tree.links, path, [kind |-> "hardlink", to |-> x.member.to])
<1>1. /\ new.disk = tree.disk /\ new.extra = tree.extra /\ new.links = links
      /\ new.modes = With(tree.modes, path, "exec")
  BY RecordFields DEF TreeInv
<1> HIDE DEF new
<1>2. path \notin Roots
  BY HeadFacts
<1>3. LinksGrow(tree.links, links) /\ Sourced(arch, links)
  BY <1>2, RecordedGrow
<1> HIDE DEF links
<1>4. ASSUME NEW at \in DOMAIN Without(sent, path)
      PROVE  /\ at \in DOMAIN sent /\ Without(sent, path)[at] = sent[at]
             /\ KeepsAt(tree.disk, new.disk, at)
             /\ at \in DOMAIN tree.modes => at \in DOMAIN new.modes /\ new.modes[at] = tree.modes[at]
  BY <1>1 DEF Without, KeepsAt, With
<1>5. Shown(host, arch, tree, sent) /\ Aside(arch, tree.extra) /\ Grounded(host, tree.disk, tree.links)
  BY DEF Sound
<1>6. LinksGrow(tree.links, new.links) /\ ToSet(tree.extra) \subseteq ToSet(new.extra)
  BY <1>1, <1>3
<1>7. Shown(host, arch, new, Without(sent, path))
  BY <1>4, <1>5, <1>6, StaysShown
<1>8. Grounded(host, tree.disk, links)
  <2>1. \A at \in DOMAIN tree.disk : tree.disk[at] = tree.disk[at]
    OBVIOUS
  <2> QED BY <1>3, <1>5, StaysGrounded
<1> QED BY <1>1, <1>3, <1>5, <1>7, <1>8 DEF Sound, new

\* A file that is installed is shown, on the disk or kept aside.
LEMMA AddFileShows ==
  ASSUME NEW arch, NEW tree, TreeInv(tree), NEW sent, Sound(host, arch, tree, sent), host \in {"posix", "windows"},
         NEW path, IsSeq(path), path # <<>>, HeadOk(path), NEW mode, NEW by,
         FileShipped(arch, path, mode, by), AddFile(tree, path, mode, by).ok
  PROVE  /\ Sound(host, arch, AddFile(tree, path, mode, by), With(sent, path, [mode |-> mode, by |-> by]))
         /\ AddFile(tree, path, mode, by).links = tree.links
<1> DEFINE disk == MakeDirs(tree.disk, Front(path))
           noted == Record(tree, path, "file", mode, <<>>)
           put == With(disk, Where(disk, path), File(by))
           e == [path |-> path, mode |-> mode, by |-> by]
           more == Append(noted.extra, e)
           new == AddFile(tree, path, mode, by)
           file == [mode |-> mode, by |-> by]
           after == With(sent, path, file)
<1>1. ~Blocked(tree.disk, Front(path))
      /\ new = IF Writable(disk, path) THEN [noted EXCEPT !.disk = put]
               ELSE [noted EXCEPT !.disk = disk, !.extra = more]
  BY RaiseFails DEF AddFile, TreeInv
<1> HIDE DEF new, put, more
<1>2. "file" \in {"dir", "file"}
  OBVIOUS
<1>3. /\ noted.disk = tree.disk /\ noted.extra = tree.extra /\ noted.ok = tree.ok
      /\ noted.modes = With(tree.modes, path, mode) /\ noted.links = tree.links
  BY <1>2, RecordNoLink DEF TreeInv
<1>4. IsTree(noted)
  BY RecordKeeps DEF TreeInv
<1> HIDE DEF noted
<1>5. IsSeq(Front(path)) /\ path = Append(Front(path), Last(path))
  BY PathSplit
<1>6. (\A at : KeepsAt(tree.disk, disk, at)) /\ Grounded(host, disk, tree.links) /\ DiskInv(disk)
  BY <1>1, <1>5, MakeDirsSpares, MakeDirsKeeps DEF Sound, TreeInv
<1>7. ASSUME ~Linked(tree.links, path)
      PROVE  /\ Where(disk, path) = path /\ NodeAt(disk, Front(path)).kind = "dir"
             /\ path \in DOMAIN disk => disk[path].kind # "symlink"
  <2>1. Where(tree.disk, Front(path)) = Front(path)
    BY <1>7, EntryTo DEF Sound, Grounded, TreeInv
  <2>2. NodeAt(disk, Front(path)).kind = "dir"
    BY <1>1, <1>5, <2>1, MakeDirsMakes DEF TreeInv
  <2> HIDE DEF disk
  <2>3. Where(disk, path) = path
    BY <1>6, <1>7, WhereTo DEF Grounded
  <2>4. path \notin Roots
    BY HeadFacts
  <2>5. path \in DOMAIN tree.links \/ Led(tree.links, path) => Linked(tree.links, path)
    BY PrefixFacts DEF Linked
  <2>6. path \in DOMAIN disk => disk[path].kind # "symlink"
    BY <1>6, <1>7, <2>4, <2>5 DEF Grounded, LinksGrounded
  <2> QED BY <2>2, <2>3, <2>6
<1> HIDE DEF disk
<1>8. /\ DOMAIN after = DOMAIN sent \cup {path} /\ after[path] = file
      /\ \A at \in DOMAIN sent : at # path => after[at] = sent[at]
  BY DEF With
<1>9. file.mode = mode /\ file.by = by
  OBVIOUS
<1> HIDE DEF after, file
<1>10. Shown(host, arch, tree, sent) /\ Aside(arch, tree.extra)
  BY DEF Sound
<1>11. CASE Writable(disk, path)
  <2>1. /\ new.disk = put /\ new.modes = With(tree.modes, path, mode) /\ new.links = tree.links
        /\ new.extra = tree.extra
    BY <1>1, <1>3, <1>4, <1>11, DiskFields
  <2>2. /\ \A at : at # path /\ ~Led(tree.links, at) => KeepsAt(disk, put, at)
        /\ Grounded(host, put, tree.links)
    BY <1>6, <1>11, WrittenSpares DEF put
  <2>3. ASSUME NEW at \in DOMAIN after, at # path
        PROVE  /\ at \in DOMAIN sent /\ after[at] = sent[at]
               /\ ~Linked(new.links, at) =>
                    /\ KeepsAt(tree.disk, new.disk, at)
                    /\ at \in DOMAIN tree.modes => at \in DOMAIN new.modes /\ new.modes[at] = tree.modes[at]
    <3>1. ~Linked(new.links, at) => KeepsAt(tree.disk, new.disk, at)
      BY <1>6, <2>1, <2>2, <2>3, KeepsTwice DEF Linked
    <3> QED BY <1>8, <2>1, <2>3, <3>1 DEF With
  <2>4. ~Linked(new.links, path) => Here(host, new, path, after[path])
    <3>1. ASSUME ~Linked(tree.links, path) PROVE NodeAt(put, path) = File(by)
      BY <1>7, <3>1 DEF put, With, NodeAt
    <3>2. path \in DOMAIN new.modes /\ new.modes[path] = mode
      BY <2>1 DEF With
    <3> QED BY <1>8, <1>9, <2>1, <3>1, <3>2 DEF Here
  <2>5. LinksGrow(tree.links, new.links) /\ ToSet(tree.extra) \subseteq ToSet(new.extra)
    BY <2>1, LinksStay
  <2>6. Shown(host, arch, new, after)
    BY <1>8, <1>9, <1>10, <2>3, <2>4, <2>5, StaysShown
  <2> QED BY <1>10, <2>1, <2>2, <2>6 DEF Sound, new, after, file
<1>12. CASE ~Writable(disk, path)
  <2>1. /\ new.disk = disk /\ new.modes = With(tree.modes, path, mode) /\ new.links = tree.links
        /\ new.extra = more
    <3>1. DOMAIN noted = {"disk", "modes", "links", "extra", "ok"}
      BY <1>4, TreeFields
    <3>2. new = [noted EXCEPT !.disk = disk, !.extra = more]
      BY <1>1, <1>12
    <3> QED BY <1>3, <3>1, <3>2
  <2>2. IsSeq(more) /\ ToSet(more) = ToSet(tree.extra) \cup {e}
    BY <1>3, <1>10, AppendIsSeq, AppendElements DEF Aside, more
  <2>3. ASSUME NEW at \in DOMAIN after, at # path
        PROVE  /\ at \in DOMAIN sent /\ after[at] = sent[at]
               /\ KeepsAt(tree.disk, new.disk, at)
               /\ at \in DOMAIN tree.modes => at \in DOMAIN new.modes /\ new.modes[at] = tree.modes[at]
    BY <1>6, <1>8, <2>1, <2>3 DEF With
  <2>4. ASSUME ~Linked(new.links, path) PROVE Here(host, new, path, after[path])
    <3>1. /\ Where(disk, path) = path /\ NodeAt(disk, Front(path)).kind = "dir"
          /\ path \in DOMAIN disk => disk[path].kind # "symlink"
      BY <1>7, <2>1, <2>4
    <3>2. CASE NodeAt(disk, path).kind = "dir"
      BY <2>1, <3>2 DEF Here
    <3>3. CASE NodeAt(disk, path).kind # "dir"
      <4>1. NodeAt(disk, path).kind \in {"none", "file"}
        BY <1>6, <3>1, <3>3 DEF NodeAt, None, DiskInv
      <4>2. host = "windows" /\ Last(path) \in OddNames
        BY <1>12, <3>1, <4>1 DEF Writable
      <4>3. path \notin DOMAIN disk
        BY <1>6, <4>1, <4>2 DEF Grounded, NamesGrounded, NodeAt, DiskInv
      <4>4. e \in ToSet(new.extra) /\ e.path = path
        BY <2>1, <2>2
      <4> HIDE DEF e
      <4> QED BY <2>1, <4>2, <4>3, <4>4 DEF Here
    <3> QED BY <3>2, <3>3
  <2>5. LinksGrow(tree.links, new.links) /\ ToSet(tree.extra) \subseteq ToSet(new.extra)
    BY <2>1, <2>2, LinksStay
  <2>6. Shown(host, arch, new, after)
    BY <1>8, <1>9, <1>10, <2>3, <2>4, <2>5, StaysShown
  <2>7. Aside(arch, more)
    BY <1>10, <2>2 DEF Aside
  <2> QED BY <1>6, <2>1, <2>6, <2>7 DEF Sound, new, after, file
<1> QED BY <1>11, <1>12

\* What Buster writes itself was not shipped.
LEMMA WriteTextShows ==
  ASSUME NEW arch, NEW tree, TreeInv(tree), NEW sent, Sound(host, arch, tree, sent),
         NEW path, IsSeq(path), path # <<>>, HeadOk(path), path \notin DOMAIN sent, NEW mode,
         WriteText(tree, path, mode).ok
  PROVE  /\ Sound(host, arch, WriteText(tree, path, mode), sent)
         /\ WriteText(tree, path, mode).links = tree.links /\ tree.ok
<1> DEFINE disk == MakeDirs(tree.disk, Front(path))
           put == With(disk, Where(disk, path), File("buster"))
           made == [tree EXCEPT !.disk = put]
           new == WriteText(tree, path, mode)
<1>1. /\ tree.ok /\ ~Blocked(tree.disk, Front(path)) /\ Writable(disk, path)
      /\ new = Record(made, path, "file", mode, <<>>)
  BY RaiseFails DEF WriteText, TreeInv
<1>2. /\ IsTree(made) /\ made.disk = put /\ made.modes = tree.modes /\ made.links = tree.links
      /\ made.extra = tree.extra
  BY DiskFields DEF TreeInv
<1> HIDE DEF made, new, put
<1>3. "file" \in {"dir", "file"}
  OBVIOUS
<1>4. /\ new.disk = put /\ new.extra = tree.extra /\ new.links = tree.links
      /\ new.modes = With(tree.modes, path, mode)
  <2>1. LET r == Record(made, path, "file", mode, <<>>) IN
        /\ r.disk = made.disk /\ r.extra = made.extra /\ r.links = made.links
        /\ r.modes = With(made.modes, path, mode)
    BY <1>2, <1>3, RecordNoLink
  <2> QED BY <1>1, <1>2, <2>1
<1>5. (\A at : KeepsAt(tree.disk, disk, at)) /\ Grounded(host, disk, tree.links) /\ DiskInv(disk)
  BY <1>1, PathSplit, MakeDirsSpares, MakeDirsKeeps DEF Sound, TreeInv
<1> HIDE DEF disk
<1>6. /\ \A at : at # path /\ ~Led(tree.links, at) => KeepsAt(disk, put, at)
      /\ Grounded(host, put, tree.links)
  BY <1>1, <1>5, WrittenSpares DEF put
<1>7. ASSUME NEW at \in DOMAIN sent
      PROVE  ~Linked(new.links, at) =>
               /\ KeepsAt(tree.disk, new.disk, at)
               /\ at \in DOMAIN tree.modes => at \in DOMAIN new.modes /\ new.modes[at] = tree.modes[at]
  <2>1. at # path
    OBVIOUS
  <2>2. ~Linked(new.links, at) => KeepsAt(tree.disk, new.disk, at)
    BY <1>4, <1>5, <1>6, <2>1, KeepsTwice DEF Linked
  <2> QED BY <1>4, <2>1, <2>2 DEF With
<1>8. Shown(host, arch, tree, sent) /\ Aside(arch, tree.extra)
  BY DEF Sound
<1>9. LinksGrow(tree.links, new.links) /\ ToSet(tree.extra) \subseteq ToSet(new.extra)
  BY <1>4, LinksStay
<1>10. Shown(host, arch, new, sent)
  BY <1>7, <1>8, <1>9, StaysShown
<1> QED BY <1>1, <1>4, <1>6, <1>8, <1>10 DEF Sound, new

\* What is said of the files shipped holds of fewer.
LEMMA FewerShown ==
  ASSUME NEW on, NEW arch, NEW tree, NEW sent, Sound(on, arch, tree, sent),
         NEW less, DOMAIN less \subseteq DOMAIN sent, \A at \in DOMAIN less : less[at] = sent[at]
  PROVE  Sound(on, arch, tree, less)
BY DEF Sound, Shown

\* A disk that differs at a path nobody shipped a file at.
LEMMA DiskShows ==
  ASSUME NEW on, NEW arch, NEW tree, TreeInv(tree), NEW sent, Sound(on, arch, tree, sent),
         NEW path, path \notin DOMAIN sent, NEW disk, Grounded(on, disk, tree.links),
         \A at : at # path /\ ~Led(tree.links, at) => KeepsAt(tree.disk, disk, at)
  PROVE  Sound(on, arch, [tree EXCEPT !.disk = disk], sent)
<1> DEFINE new == [tree EXCEPT !.disk = disk]
<1>1. /\ new.disk = disk /\ new.modes = tree.modes /\ new.links = tree.links /\ new.extra = tree.extra
  BY DiskFields DEF TreeInv
<1> HIDE DEF new
<1>2. ASSUME NEW at \in DOMAIN sent
      PROVE  ~Linked(new.links, at) =>
               /\ KeepsAt(tree.disk, new.disk, at)
               /\ at \in DOMAIN tree.modes => at \in DOMAIN new.modes /\ new.modes[at] = tree.modes[at]
  BY <1>1 DEF Linked
<1>3. Shown(on, arch, tree, sent) /\ Aside(arch, tree.extra)
  BY DEF Sound
<1>4. LinksGrow(tree.links, new.links) /\ ToSet(tree.extra) \subseteq ToSet(new.extra)
  BY <1>1, LinksStay
<1>5. Shown(on, arch, new, sent)
  BY <1>2, <1>3, <1>4, StaysShown
<1> QED BY <1>1, <1>3, <1>5 DEF Sound, new

\* The two names of os-release.
LEMMA ReleasePaths ==
  /\ IsSeq(Release) /\ Release # <<>> /\ HeadOk(Release)
  /\ IsSeq(EtcRelease) /\ EtcRelease # <<>> /\ HeadOk(EtcRelease) /\ EtcRelease \notin Roots
<1>1. Release \in Seq({"usr", "lib", "os-release"}) /\ EtcRelease \in Seq({"etc", "os-release"})
      /\ Release # <<>> /\ EtcRelease # <<>>
  BY DEF Release, EtcRelease
<1>2. IsSeq(Release) /\ IsSeq(EtcRelease)
  BY <1>1, SeqIsSeq
<1>3. Release[1] = "usr" /\ EtcRelease[1] = "etc"
  BY DEF Release, EtcRelease
<1>4. HeadOk(Release) /\ HeadOk(EtcRelease)
  BY <1>3, RootfsAssumption DEF HeadOk
<1> QED BY <1>1, <1>2, <1>4, HeadFacts

\* etc/os-release as a link, where packages agree on links.
LEMMA EtcLinkShows ==
  ASSUME PathsAgree, NEW arch \in Buildable,
         NEW tree, TreeInv(tree), NEW sent, Sound(host, arch, tree, sent), Sourced(arch, tree.links),
         EtcRelease \notin DOMAIN sent,
         NEW new, new = Record([tree EXCEPT !.disk = Symlink(tree.disk, EtcRelease, Release)],
                               EtcRelease, "symlink", "exec", Release)
  PROVE  Sound(host, arch, new, sent)
<1> DEFINE disk == Symlink(tree.disk, EtcRelease, Release)
           made == [tree EXCEPT !.disk = disk]
           entry == [kind |-> "symlink", to |-> Release]
           links == With(tree.links, EtcRelease, entry)
<1>1. /\ IsTree(made) /\ made.disk = disk /\ made.modes = tree.modes /\ made.links = tree.links
      /\ made.extra = tree.extra
  BY DiskFields DEF TreeInv
<1>2. new = Record(made, EtcRelease, "symlink", "exec", Release)
  OBVIOUS
<1> HIDE DEF made
<1>3. /\ new.disk = disk /\ new.extra = tree.extra /\ new.links = links
      /\ new.modes = With(tree.modes, EtcRelease, "exec")
  BY <1>1, <1>2, RecordFields
<1>4. links = [at \in DOMAIN tree.links \cup {EtcRelease} |-> IF at = EtcRelease THEN entry ELSE tree.links[at]]
  BY DEF With
<1>5. entry.kind = "symlink" /\ entry.to = Release
  OBVIOUS
<1> HIDE DEF links, entry
<1>6. ASSUME NEW l \in DOMAIN tree.links \ Roots, tree.links[l].kind = "symlink"
      PROVE  l \in DOMAIN links \ Roots /\ links[l].kind = "symlink" /\ links[l].to = tree.links[l].to
  <2>1. CASE l # EtcRelease
    BY <1>4, <1>6, <2>1
  <2>2. CASE l = EtcRelease
    <3>1. PICK y \in Shipments(arch) : /\ Normalize(y.member.name) = l /\ y.member.kind = tree.links[l].kind
                                       /\ y.member.to = tree.links[l].to
      BY DEF Sourced
    <3>2. y.member.to = Release
      BY <1>6, <2>2, <3>1 DEF PathsAgree
    <3> QED BY <1>4, <1>5, <1>6, <2>2, <3>1, <3>2
  <2> QED BY <2>1, <2>2
<1>7. ASSUME NEW to, Told(tree.links, to) PROVE Told(links, to)
  BY <1>6, <1>7 DEF Told
<1>8. EtcRelease \in DOMAIN links /\ Told(links, Release)
  BY <1>4, <1>5, ReleasePaths DEF Told
<1>9. LinksGrow(tree.links, links)
  BY <1>4, <1>7 DEF LinksGrow
<1>10. /\ \A at : at # EtcRelease /\ ~Led(tree.links, at) => KeepsAt(tree.disk, disk, at)
       /\ Grounded(host, disk, links)
  BY <1>8, <1>9, ReleasePaths, SymlinkSpares DEF Sound, TreeInv
<1> HIDE DEF disk
<1>11. ASSUME NEW at \in DOMAIN sent
       PROVE  ~Linked(new.links, at) =>
                /\ KeepsAt(tree.disk, new.disk, at)
                /\ at \in DOMAIN tree.modes => at \in DOMAIN new.modes /\ new.modes[at] = tree.modes[at]
  <2>1. at # EtcRelease
    OBVIOUS
  <2>2. ASSUME ~Linked(new.links, at) PROVE KeepsAt(tree.disk, new.disk, at)
    <3>1. ~Led(tree.links, at)
      BY <1>3, <1>9, <2>2, GrowthLinks DEF Linked
    <3> QED BY <1>3, <1>10, <2>1, <3>1
  <2> QED BY <1>3, <2>1, <2>2 DEF With
<1>12. Shown(host, arch, tree, sent) /\ Aside(arch, tree.extra)
  BY DEF Sound
<1>13. LinksGrow(tree.links, new.links) /\ ToSet(tree.extra) \subseteq ToSet(new.extra)
  BY <1>3, <1>9
<1>14. Shown(host, arch, new, sent)
  BY <1>11, <1>12, <1>13, StaysShown
<1> QED BY <1>3, <1>10, <1>12, <1>14 DEF Sound

\* os-release, as file and link or as two files.
LEMMA ReleaseShows ==
  ASSUME PathsAgree, NEW arch \in Buildable,
         NEW tree, TreeInv(tree), NEW sent, Sound(host, arch, tree, sent), Sourced(arch, tree.links),
         Release \notin DOMAIN sent, EtcRelease \notin DOMAIN sent, WriteRelease(tree).ok
  PROVE  Sound(host, arch, WriteRelease(tree), sent) /\ tree.ok
<1> DEFINE one == WriteText(tree, Release, "data")
           bare == Unlink(one.disk, EtcRelease)
           text == [one EXCEPT !.disk = bare]
           linked == Symlink(bare, EtcRelease, Release)
<1>1. WriteRelease(tree) =
        IF ~one.ok THEN one
        ELSE IF linked # bare
          THEN Record([one EXCEPT !.disk = linked], EtcRelease, "symlink", "exec", Release)
        ELSE WriteText(text, EtcRelease, "data")
  BY DEF WriteRelease
<1>2. one.ok
  BY <1>1
<1>3. Sound(host, arch, one, sent) /\ one.links = tree.links /\ tree.ok /\ TreeInv(one)
  BY <1>2, ReleasePaths, WriteTextShows, WriteTextKeeps
<1> HIDE DEF one
<1>4. /\ \A at : at # EtcRelease /\ ~Led(one.links, at) => KeepsAt(one.disk, bare, at)
      /\ Grounded(host, bare, one.links) /\ DiskInv(bare)
  BY <1>3, ReleasePaths, UnlinkSpares, UnlinkKeeps DEF Sound, TreeInv
<1> HIDE DEF bare
<1>5. Sound(host, arch, text, sent) /\ TreeInv(text)
  BY <1>3, <1>4, DiskShows, DiskChanges
<1>6. text.disk = bare /\ text.links = tree.links
  BY <1>3, DiskFields DEF TreeInv
<1>7. [one EXCEPT !.disk = linked] = [text EXCEPT !.disk = Symlink(text.disk, EtcRelease, Release)]
  <2>1. one = [disk |-> one.disk, modes |-> one.modes, links |-> one.links, extra |-> one.extra, ok |-> one.ok]
    BY <1>3 DEF TreeInv, IsTree
  <2> HIDE DEF linked
  <2>2. [one EXCEPT !.disk = linked] = [text EXCEPT !.disk = linked]
    BY <2>1
  <2>3. linked = Symlink(text.disk, EtcRelease, Release)
    BY <1>6 DEF linked
  <2> QED BY <2>2, <2>3
<1> HIDE DEF text
<1>8. CASE linked # bare
  BY <1>1, <1>2, <1>3, <1>5, <1>6, <1>7, <1>8, EtcLinkShows
<1>9. CASE linked = bare
  <2>1. WriteRelease(tree) = WriteText(text, EtcRelease, "data")
    BY <1>1, <1>2, <1>9
  <2> QED BY <1>3, <1>5, <2>1, ReleasePaths, WriteTextShows
<1> QED BY <1>8, <1>9

\* A normalized path does not start with an alias.
LEMMA NormalizedHead == ASSUME NEW path, IsSeq(path), path # <<>> PROVE HeadOk(Normalize(path))
<1>1. /\ Len(<<"usr">> \o path) = 1 + Len(path) /\ Len(path) \in Nat
      /\ \A i \in 1 .. 1 + Len(path) : (<<"usr">> \o path)[i] = IF i <= 1 THEN <<"usr">>[i] ELSE path[i - 1]
  BY TupleIsSeq, JoinIsSeq, SeqLen
<1>2. (<<"usr">> \o path)[1] = "usr"
  BY <1>1
<1> QED BY <1>2, RootfsAssumption DEF Normalize, HeadOk

\* Nor does the target of a link.
LEMMA TargetHead == ASSUME NEW to, IsSeq(to), Normalize(to) = to PROVE HeadOk(to)
<1>1. ASSUME to # <<>>, to[1] \in Alias PROVE FALSE
  <2>1. <<"usr">> \o to = to
    BY <1>1 DEF Normalize
  <2>2. Len(<<"usr">> \o to) = 1 + Len(to) /\ Len(to) \in Nat
    BY TupleIsSeq, JoinIsSeq, SeqLen
  <2> QED BY <2>1, <2>2
<1> QED BY <1>1 DEF HeadOk

\* A member is installed as it is shipped.
LEMMA InstallShows ==
  ASSUME PathsAgree, NEW arch \in Buildable, host \in {"posix", "windows"},
         NEW tree, TreeInv(tree), NEW sent, Sound(host, arch, tree, sent), Sourced(arch, tree.links),
         NEW x \in Shipments(arch), IsMember(x.member), Normalize(x.member.to) = x.member.to,
         Install(tree, x.member, x.by).ok
  PROVE  /\ Sound(host, arch, Install(tree, x.member, x.by), ShipOne(sent, x.member, x.by))
         /\ Sourced(arch, Install(tree, x.member, x.by).links) /\ tree.ok
<1> DEFINE m == x.member
           path == Normalize(m.name)
           new == Install(tree, m, x.by)
           after == ShipOne(sent, m, x.by)
<1>1. /\ m.kind \in {"dir", "symlink", "hardlink", "file"} /\ IsSeq(m.name) /\ m.name # <<>> /\ IsSeq(m.to)
  BY DEF IsMember
<1>2. IsSeq(path) /\ path # <<>> /\ HeadOk(path) /\ HeadOk(m.to)
  BY <1>1, NormalizeIsPath, NormalizedHead, TargetHead
<1>3. tree.ok
  BY DEF Install
<1>4. /\ m.kind = "dir" => new = AddDir(tree, path, m.mode)
      /\ m.kind = "symlink" => new = AddSymlink(tree, path, m.to)
      /\ m.kind = "hardlink" => new = Record(tree, path, "hardlink", "exec", m.to)
      /\ m.kind = "file" => new = AddFile(tree, path, m.mode, x.by)
  BY <1>1, <1>3 DEF Install
<1>5. after = IF m.kind = "file" THEN With(sent, path, [mode |-> m.mode, by |-> x.by]) ELSE Without(sent, path)
  BY DEF ShipOne
<1> HIDE DEF new, after
<1>6. CASE m.kind = "dir"
  <2>1. Sound(host, arch, new, sent) /\ new.links = tree.links
    BY <1>2, <1>4, <1>6, AddDirShows DEF new
  <2>2. after = Without(sent, path)
    BY <1>5, <1>6
  <2>3. DOMAIN after \subseteq DOMAIN sent /\ \A at \in DOMAIN after : after[at] = sent[at]
    BY <2>2 DEF Without
  <2>4. Sound(host, arch, new, after)
    BY <2>1, <2>3, FewerShown
  <2> QED BY <1>3, <2>1, <2>4 DEF new, after
<1>7. CASE m.kind = "symlink"
  <2>1. AddSymlink(tree, path, m.to).ok
    BY <1>4, <1>7 DEF new
  <2>2. path = Normalize(x.member.name) /\ x.member.kind = "symlink"
    BY <1>7
  <2> HIDE DEF path
  <2>3. /\ Sound(host, arch, AddSymlink(tree, path, x.member.to), Without(sent, path))
        /\ Sourced(arch, AddSymlink(tree, path, x.member.to).links)
    BY <1>1, <1>2, <2>1, <2>2, AddSymlinkShows
  <2> QED BY <1>3, <1>4, <1>5, <1>7, <2>3 DEF new, after
<1>8. CASE m.kind = "hardlink"
  <2>1. path = Normalize(x.member.name) /\ x.member.kind = "hardlink"
    BY <1>8
  <2> HIDE DEF path
  <2>2. /\ Sound(host, arch, Record(tree, path, "hardlink", "exec", x.member.to), Without(sent, path))
        /\ Sourced(arch, Record(tree, path, "hardlink", "exec", x.member.to).links)
    BY <1>2, <2>1, HardlinkShows
  <2> QED BY <1>3, <1>4, <1>5, <1>8, <2>2 DEF new, after
<1>9. CASE m.kind = "file"
  <2>1. FileShipped(arch, path, m.mode, x.by)
    BY <1>9 DEF FileShipped
  <2>2. AddFile(tree, path, m.mode, x.by).ok
    BY <1>4, <1>9 DEF new
  <2> DEFINE mode == m.mode
             by == x.by
  <2> HIDE DEF path, mode, by
  <2>3. /\ Sound(host, arch, AddFile(tree, path, mode, by), With(sent, path, [mode |-> mode, by |-> by]))
        /\ AddFile(tree, path, mode, by).links = tree.links
    <3>1. FileShipped(arch, path, mode, by) /\ AddFile(tree, path, mode, by).ok
      BY <2>1, <2>2 DEF mode, by
    <3> QED BY <1>2, <3>1, AddFileShows
  <2> USE DEF mode, by
  <2> QED BY <1>3, <1>4, <1>5, <1>9, <2>3 DEF new, after
<1> QED BY <1>1, <1>6, <1>7, <1>8, <1>9

Ships(sent, members, by, after) ==
  after[0] = sent /\ \A n \in 1..Len(members) : after[n] = ShipOne(after[n - 1], members[n], by)

\* The history of a package's files is a loop over its members.
LEMMA ShipLoop ==
  ASSUME NEW sent, NEW members, IsSeq(members), NEW by
  PROVE  \E after : Ships(sent, members, by, after) /\ Ship(sent, members, by) = after[Len(members)]
<1> DEFINE Fits(m, f) == f = [n \in 0..m |-> IF n = 0 THEN sent ELSE ShipOne(f[n - 1], members[n], by)]
           bad == {m \in Nat : ~(\E f : Fits(m, f))}
<1>1. 0 \notin bad
  <2>1. Fits(0, [n \in 0..0 |-> sent])
    OBVIOUS
  <2> QED BY <2>1
<1>2. ASSUME NEW m \in Nat, m # 0, m - 1 \in Nat, m - 1 \notin bad PROVE m \notin bad
  <2>1. PICK f : Fits(m - 1, f)
    BY <1>2
  <2>2. Fits(m, [n \in 0..m |-> IF n = m THEN ShipOne(f[m - 1], members[m], by) ELSE f[n]])
    BY <1>2, <2>1
  <2> QED BY <2>2
<1>3. bad = {}
  <2>1. bad \in SUBSET Nat
    OBVIOUS
  <2> HIDE DEF bad
  <2> QED BY <1>1, <1>2, <2>1, FirstStep
<1>4. Len(members) \in Nat
  BY SeqLen
<1> DEFINE N == Len(members)
           after == CHOOSE f : Fits(N, f)
<1>5. Fits(N, after)
  BY <1>3, <1>4
<1>6. Ship(sent, members, by) = after[N]
  BY DEF Ship
<1> HIDE DEF after
<1>7. after[0] = sent /\ \A n \in 1..N : after[n] = ShipOne(after[n - 1], members[n], by)
  BY <1>4, <1>5
<1> QED BY <1>6, <1>7 DEF Ships

\* The payload of a package, as what it ships.
ShippedBy(arch, members, by) ==
  \A m \in ToSet(members) : [by |-> by, member |-> m] \in Shipments(arch) /\ IsMember(m) /\ Normalize(m.to) = m.to

\* The tree and the history of what was shipped, member by member.
LEMMA PayloadShows ==
  ASSUME PathsAgree, NEW arch \in Buildable, host \in {"posix", "windows"},
         NEW tree, TreeInv(tree), NEW sent, tree.ok => Sound(host, arch, tree, sent) /\ Sourced(arch, tree.links),
         NEW members, IsSeq(members), NEW by, ShippedBy(arch, members, by),
         InstallPayload(tree, members, by).ok
  PROVE  /\ Sound(host, arch, InstallPayload(tree, members, by), Ship(sent, members, by))
         /\ Sourced(arch, InstallPayload(tree, members, by).links)
<1>1. PICK t : Installs(tree, members, by, t) /\ InstallPayload(tree, members, by) = t[Len(members)]
  BY PayloadLoop
<1>2. PICK s : Ships(sent, members, by, s) /\ Ship(sent, members, by) = s[Len(members)]
  BY ShipLoop
<1> DEFINE N == Len(members)
           Good(n) == /\ TreeInv(t[n])
                      /\ t[n].ok => Sound(host, arch, t[n], s[n]) /\ Sourced(arch, t[n].links)
           broken == {n \in 0..N : ~Good(n)}
<1>3. N \in Nat
  BY SeqLen
<1>4. Good(0)
  BY <1>1, <1>2 DEF Installs, Ships
<1>5. ASSUME NEW n \in 1..N, Good(n - 1) PROVE Good(n)
  <2>1. t[n] = Install(t[n - 1], members[n], by) /\ s[n] = ShipOne(s[n - 1], members[n], by)
    BY <1>1, <1>2, <1>5 DEF Installs, Ships
  <2>2. PICK m : m = members[n]
    OBVIOUS
  <2>3. IsMember(m) /\ Normalize(m.to) = m.to /\ [by |-> by, member |-> m] \in Shipments(arch)
    BY <1>5, <2>2, ElementAt DEF ShippedBy
  <2>4. PICK old : old = t[n - 1]
    OBVIOUS
  <2>5. PICK past : past = s[n - 1]
    OBVIOUS
  <2>6. PICK x \in Shipments(arch) : x.member = m /\ x.by = by
    BY <2>3
  <2>7. TreeInv(t[n])
    BY <1>5, <2>1, <2>2, <2>3, InstallKeeps
  <2>8. ASSUME t[n].ok PROVE Sound(host, arch, t[n], s[n]) /\ Sourced(arch, t[n].links)
    <3>1. Install(old, x.member, x.by).ok
      BY <2>1, <2>2, <2>4, <2>6, <2>8
    <3>2. old.ok
      BY <3>1 DEF Install
    <3>3. TreeInv(old) /\ Sound(host, arch, old, past) /\ Sourced(arch, old.links)
      BY <1>5, <2>4, <2>5, <3>2
    <3>4. /\ Sound(host, arch, Install(old, x.member, x.by), ShipOne(past, x.member, x.by))
          /\ Sourced(arch, Install(old, x.member, x.by).links)
      BY <2>3, <2>6, <3>1, <3>3, InstallShows
    <3> QED BY <2>1, <2>2, <2>4, <2>5, <2>6, <3>4
  <2> QED BY <2>7, <2>8
<1> HIDE DEF Good
<1>6. broken = {}
  <2>1. broken \in SUBSET Nat /\ 0 \notin broken
    BY <1>3, <1>4
  <2>2. ASSUME NEW n \in Nat, n # 0, n - 1 \notin broken, n \in broken PROVE FALSE
    <3>1. n \in 1..N /\ n - 1 \in 0..N
      BY <1>3, <2>2
    <3> QED BY <1>5, <2>2, <3>1
  <2> HIDE DEF broken
  <2> QED BY <2>1, <2>2, FirstStep
<1>7. Good(N)
  BY <1>3, <1>6
<1> QED BY <1>1, <1>2, <1>7 DEF Good

\* The files of Buster's, where no package's file is known.
Apart(files, sent) == IsSeq(files) /\ \A f \in ToSet(files) : Path(f.path) /\ f.path \notin DOMAIN sent

\* Texts that Buster writes, at paths where no file of a package is known.
LEMMA TextsShow ==
  ASSUME NEW arch, NEW tree, TreeInv(tree), NEW sent, tree.ok => Sound(host, arch, tree, sent),
         NEW files, Apart(files, sent), WriteAll(tree, files).ok
  PROVE  /\ Sound(host, arch, WriteAll(tree, files), sent) /\ WriteAll(tree, files).links = tree.links
         /\ tree.ok
<1> DEFINE N == Len(files)
<1>1. PICK t : /\ t[0] = tree
               /\ \A n \in 1..N : t[n] = WriteText(t[n - 1], files[n].path, files[n].mode)
               /\ WriteAll(tree, files) = t[N]
  BY WriteAllLoop DEF Apart
<1> DEFINE Good(n) == /\ TreeInv(t[n])
                      /\ t[n].ok => Sound(host, arch, t[n], sent) /\ t[n].links = tree.links /\ tree.ok
           broken == {n \in 0..N : ~Good(n)}
<1>2. N \in Nat
  BY SeqLen DEF Apart
<1>3. Good(0)
  BY <1>1
<1>4. ASSUME NEW n \in 1..N, Good(n - 1) PROVE Good(n)
  <2>1. PICK old : old = t[n - 1]
    OBVIOUS
  <2>2. PICK f : f = files[n]
    OBVIOUS
  <2>3. IsSeq(f.path) /\ f.path # <<>> /\ HeadOk(f.path) /\ f.path \notin DOMAIN sent
    BY <2>2, ElementAt DEF Apart, Path, HeadOk
  <2>4. t[n] = WriteText(old, f.path, f.mode) /\ TreeInv(old)
    BY <1>1, <1>4, <2>1, <2>2
  <2>5. TreeInv(t[n])
    BY <2>3, <2>4, WriteTextKeeps
  <2>6. ASSUME t[n].ok PROVE Sound(host, arch, t[n], sent) /\ t[n].links = tree.links /\ tree.ok
    <3>1. old.ok
      BY <2>4, <2>6, RaiseFails DEF WriteText, TreeInv
    <3>2. Sound(host, arch, old, sent) /\ old.links = tree.links /\ tree.ok
      BY <1>4, <2>1, <3>1
    <3>3. WriteText(old, f.path, f.mode).ok
      BY <2>4, <2>6
    <3>4. Sound(host, arch, WriteText(old, f.path, f.mode), sent) /\ WriteText(old, f.path, f.mode).links = old.links
      BY <2>3, <2>4, <3>2, <3>3, WriteTextShows
    <3> QED BY <2>4, <3>2, <3>4
  <2> QED BY <2>5, <2>6
<1> HIDE DEF Good
<1>5. broken = {}
  <2>1. broken \in SUBSET Nat /\ 0 \notin broken
    BY <1>2, <1>3
  <2>2. ASSUME NEW n \in Nat, n # 0, n - 1 \notin broken, n \in broken PROVE FALSE
    <3>1. n \in 1..N /\ n - 1 \in 0..N
      BY <1>2, <2>2
    <3> QED BY <1>4, <2>2, <3>1
  <2> HIDE DEF broken
  <2> QED BY <2>1, <2>2, FirstStep
<1>6. Good(N)
  BY <1>2, <1>5
<1> QED BY <1>1, <1>6 DEF Good

\* The directories of the dpkg schema.
LEMMA DirsShow ==
  ASSUME NEW arch, NEW tree, TreeInv(tree), NEW sent, tree.ok => Sound(host, arch, tree, sent),
         NEW made, made = [n \in 0..Len(DpkgDirs) |-> IF n = 0 THEN tree ELSE AddDir(made[n - 1], DpkgDirs[n], "exec")],
         made[Len(DpkgDirs)].ok
  PROVE  /\ Sound(host, arch, made[Len(DpkgDirs)], sent) /\ made[Len(DpkgDirs)].links = tree.links
         /\ tree.ok
<1> DEFINE N == Len(DpkgDirs)
           Good(n) == /\ TreeInv(made[n])
                      /\ made[n].ok => Sound(host, arch, made[n], sent) /\ made[n].links = tree.links /\ tree.ok
           broken == {n \in 0..N : ~Good(n)}
<1>1. IsSeq(DpkgDirs) /\ \A at \in ToSet(DpkgDirs) : IsSeq(at) /\ at # <<>> /\ HeadOk(at)
  BY RootfsAssumption DEF HeadOk
<1>2. N \in Nat
  BY <1>1, SeqLen
<1>0. made[0] = tree /\ \A n \in 1..N : made[n] = AddDir(made[n - 1], DpkgDirs[n], "exec")
  BY <1>2
<1>3. Good(0)
  BY <1>0
<1>4. ASSUME NEW n \in 1..N, Good(n - 1) PROVE Good(n)
  <2>1. PICK old : old = made[n - 1]
    OBVIOUS
  <2>2. PICK at : at = DpkgDirs[n]
    OBVIOUS
  <2>3. IsSeq(at) /\ at # <<>> /\ HeadOk(at)
    BY <1>1, <2>2, ElementAt
  <2>4. made[n] = AddDir(old, at, "exec") /\ TreeInv(old)
    BY <1>0, <1>4, <2>1, <2>2
  <2>5. TreeInv(made[n])
    BY <2>3, <2>4, AddDirKeeps
  <2>6. ASSUME made[n].ok PROVE Sound(host, arch, made[n], sent) /\ made[n].links = tree.links /\ tree.ok
    <3>1. old.ok
      BY <2>4, <2>6, RaiseFails DEF AddDir, TreeInv
    <3>2. Sound(host, arch, old, sent) /\ old.links = tree.links /\ tree.ok
      BY <1>4, <2>1, <3>1
    <3>3. AddDir(old, at, "exec").ok
      BY <2>4, <2>6
    <3>4. Sound(host, arch, AddDir(old, at, "exec"), sent) /\ AddDir(old, at, "exec").links = old.links
      BY <2>3, <2>4, <3>2, <3>3, AddDirShows
    <3> QED BY <2>4, <3>2, <3>4
  <2> QED BY <2>5, <2>6
<1> HIDE DEF Good
<1>5. broken = {}
  <2>1. broken \in SUBSET Nat /\ 0 \notin broken
    BY <1>2, <1>3
  <2>2. ASSUME NEW n \in Nat, n # 0, n - 1 \notin broken, n \in broken PROVE FALSE
    <3>1. n \in 1..N /\ n - 1 \in 0..N
      BY <1>2, <2>2
    <3> QED BY <1>4, <2>2, <3>1
  <2> HIDE DEF broken
  <2> QED BY <2>1, <2>2, FirstStep
<1>6. Good(N)
  BY <1>2, <1>5
<1> QED BY <1>6 DEF Good

\* The dpkg database hides no file that is still counted as shipped.
LEMMA DpkgShows ==
  ASSUME NEW arch, NEW tree, TreeInv(tree), NEW sent, tree.ok => Sound(host, arch, tree, sent),
         NEW packages, IsSeq(packages), NEW contents,
         \A at \in ToSet(DpkgFiles(tree.disk, packages, contents)) : at \notin DOMAIN sent,
         WriteDpkg(tree, packages, contents).ok
  PROVE  /\ Sound(host, arch, WriteDpkg(tree, packages, contents), sent)
         /\ WriteDpkg(tree, packages, contents).links = tree.links /\ tree.ok
<1> DEFINE files == DpkgTexts(tree.disk, packages, contents)
<1>1. PICK made : /\ made = [n \in 0..Len(DpkgDirs) |-> IF n = 0 THEN tree ELSE AddDir(made[n - 1], DpkgDirs[n], "exec")]
                  /\ WriteDpkg(tree, packages, contents) = WriteAll(made[Len(DpkgDirs)], files)
  BY DpkgSteps
<1>2. Apart(files, sent)
  BY DpkgTextsArePaths DEF Apart
<1> HIDE DEF files
<1>3. PICK last : last = made[Len(DpkgDirs)]
  OBVIOUS
<1>4. IsSeq(DpkgDirs) /\ (\A at \in ToSet(DpkgDirs) : IsSeq(at) /\ at # <<>>)
  BY RootfsAssumption
<1>5. TreeInv(last)
  BY <1>1, <1>3, <1>4, DirectoriesKeep
<1>6. last.ok => Sound(host, arch, last, sent) /\ last.links = tree.links /\ tree.ok
  BY <1>1, <1>3, DirsShow
<1>7. WriteAll(last, files).ok
  BY <1>1, <1>3
<1>8. Sound(host, arch, WriteAll(last, files), sent) /\ WriteAll(last, files).links = last.links /\ last.ok
  BY <1>2, <1>5, <1>6, <1>7, TextsShow
<1> QED BY <1>1, <1>3, <1>6, <1>8

\* Nor does what Buster writes after it.
LEMMA SystemShows ==
  ASSUME PathsAgree, NEW arch \in Buildable,
         NEW tree, TreeInv(tree), NEW sent, tree.ok => Sound(host, arch, tree, sent) /\ Sourced(arch, tree.links),
         Release \notin DOMAIN sent, EtcRelease \notin DOMAIN sent,
         \A f \in ToSet(BaseFiles) \cup ToSet(LayerFiles) : f.path \notin DOMAIN sent,
         WriteSystem(tree).ok
  PROVE  Sound(host, arch, WriteSystem(tree), sent)
<1>1. Apart(BaseFiles, sent) /\ Apart(LayerFiles, sent)
  BY RootfsAssumption DEF Apart, Path
<1>2. PICK based : based = WriteAll(tree, BaseFiles)
  OBVIOUS
<1>3. PICK named : named = WriteRelease(based)
  OBVIOUS
<1>4. TreeInv(based) /\ TreeInv(named)
  BY <1>1, <1>2, <1>3, WriteAllKeeps, ReleaseKeeps DEF Apart, Path
<1>5. WriteSystem(tree) = WriteAll(named, LayerFiles) /\ WriteAll(named, LayerFiles).ok
  BY <1>2, <1>3 DEF WriteSystem
<1>6. based.ok => Sound(host, arch, based, sent) /\ based.links = tree.links /\ tree.ok
  BY <1>1, <1>2, TextsShow
<1>7. based.ok => Sound(host, arch, based, sent) /\ Sourced(arch, based.links)
  BY <1>6
<1>8. named.ok => based.ok
  BY <1>3, <1>4, RaiseFails DEF WriteRelease, WriteText, TreeInv
<1>9. named.ok => Sound(host, arch, named, sent)
  <2>1. SUFFICES ASSUME named.ok PROVE Sound(host, arch, named, sent)
    OBVIOUS
  <2>2. WriteRelease(based).ok /\ Sound(host, arch, based, sent) /\ Sourced(arch, based.links)
    BY <1>3, <1>7, <1>8, <2>1
  <2>3. Sound(host, arch, WriteRelease(based), sent)
    BY <1>4, <2>2, ReleaseShows
  <2> QED BY <1>3, <2>3
<1> QED BY <1>1, <1>4, <1>5, <1>9, TextsShow

\* The empty layout has no link but the aliases, and no file.
LEMMA LayoutShows ==
  ASSUME NEW arch, host \in {"posix", "windows"}
  PROVE  Sound(host, arch, Layout, <<>>) /\ Sourced(arch, Layout.links)
<1> DEFINE dirs == BaseDirs \cup {<<>>}
           merged == {<<name>> : name \in Alias}
           disk == [at \in dirs \cup merged |->
                      IF at \in dirs \/ host # "posix" THEN Dir ELSE LinkTo(<<"usr">> \o at)]
           links == [at \in merged |-> [kind |-> "symlink", to |-> <<"usr">> \o at]]
<1>1. Layout = [disk |-> disk, modes |-> [at \in BaseDirs \cup merged |-> "exec"],
                links |-> links, extra |-> <<>>, ok |-> TRUE]
  BY DEF Layout
<1>2. ASSUME NEW at \in DOMAIN disk, disk[at] # Dir
      PROVE  at \in Roots /\ host = "posix" /\ disk[at] = LinkTo(<<"usr">> \o at)
  BY <1>2 DEF Roots
<1>3. ASSUME NEW at \in Roots PROVE HeadOk(<<"usr">> \o at)
  <2>1. PICK name \in Alias : at = <<name>>
    BY <1>3 DEF Roots
  <2>2. (<<"usr">> \o at)[1] = "usr"
    BY <2>1
  <2> QED BY <2>2, RootfsAssumption DEF HeadOk
<1>4. Dir.kind = "dir" /\ \A to : LinkTo(to).kind = "symlink" /\ LinkTo(to).to = to
  BY DEF Dir, LinkTo
<1>5. DOMAIN links = Roots
  BY DEF Roots
<1> HIDE DEF disk, links
<1>6. ASSUME NEW at \in DOMAIN disk
      PROVE  /\ disk[at].kind \in {"dir", "symlink"}
             /\ disk[at].kind = "symlink" => host = "posix" /\ HeadOk(disk[at].to) /\ at \in Roots
  <2>1. CASE disk[at] = Dir
    <3>1. disk[at].kind = "dir"
      BY <1>4, <2>1
    <3> QED BY <3>1
  <2>2. CASE disk[at] # Dir
    <3>1. at \in Roots /\ host = "posix" /\ disk[at] = LinkTo(<<"usr">> \o at)
      BY <1>2, <2>2
    <3>2. disk[at].kind = "symlink" /\ disk[at].to = <<"usr">> \o at
      BY <1>4, <3>1
    <3> QED BY <1>3, <3>1, <3>2
  <2> QED BY <2>1, <2>2
<1>7. Grounded(host, disk, links)
  BY <1>6 DEF Grounded, LinksGrounded, NamesGrounded
<1>8. IsSeq(<<>>) /\ ToSet(<<>>) = {} /\ DOMAIN <<>> = {}
  BY EmptyIsSeq DEF ToSet
<1>9. Sourced(arch, links)
  BY <1>5 DEF Sourced
<1> QED BY <1>1, <1>7, <1>8, <1>9 DEF Sound, Aside, Shown

\* What the mirror sends for a listed package is what that package ships.
LEMMA PayloadIsShipped ==
  ASSUME NEW arch \in Buildable, Listed(arch), NEW i \in DOMAIN index,
         NEW blob \in {b \in Payload[arch][index[i].package] : Readable(b)}
  PROVE  IsSeq(DataTar(blob)) /\ ShippedBy(arch, DataTar(blob), index[i].package)
<1>1. PICK s \in Stanzas(arch) : "Package" \in DOMAIN s /\ index[i] = RecordOf(s)
  BY DEF Listed
<1>2. index[i].package = s["Package"]
  BY <1>1 DEF RecordOf
<1>3. s \in {t \in Stanzas(arch) : "Package" \in DOMAIN t} /\ blob \in {b \in Payload[arch][s["Package"]] : Readable(b)}
  BY <1>1, <1>2
<1>4. IsSeq(DataTar(blob)) /\ \A m \in ToSet(DataTar(blob)) : IsMember(m) /\ Normalize(m.to) = m.to
  BY <1>3, PayloadAssumption, Zenon DEF IsMember
<1>5. ASSUME NEW m \in ToSet(DataTar(blob)) PROVE [by |-> s["Package"], member |-> m] \in Shipments(arch)
  BY <1>3, <1>5 DEF Shipments
<1> QED BY <1>2, <1>4, <1>5 DEF ShippedBy

-----------------------------------------------------------------------------
(* What was shipped, step by step.                                         *)

\* Before the first build nothing is shipped.
LEMMA ShippedStarts == Init => ShippedInv
<1> SUFFICES ASSUME Init PROVE ShippedInv
  OBVIOUS
<1>1. host \in {"posix", "windows"} /\ shipped = <<>> /\ stage = "idle"
  BY DEF Init
<1> QED BY <1>1 DEF ShippedInv, Building

\* What is to be shown of a step of a build.
LEMMA ShippedGoes ==
  ASSUME ShippedInv, host' = host, Building', Arch' = Arch,
         stage' \in {"manifest", "verification"} => root'.ok,
         root'.ok => /\ Sound(host, Arch, root', shipped')
                     /\ stage' \in {"index", "resolve", "fetch"} => Sourced(Arch, root'.links)
  PROVE  ShippedInv'
<1> HIDE DEF Arch
<1>1. host' \in {"posix", "windows"}
  BY DEF ShippedInv
<1> QED BY <1>1 DEF ShippedInv

\* A build starts from the empty layout.
LEMMA LookupShips == ASSUME ImageInv, ShippedInv, Lookup PROVE ShippedInv'
<1>1. /\ stage = "lookup" /\ host' = host /\ shipped' = shipped /\ archs' = archs /\ pos' = pos
      /\ IF Supported(Arch) THEN stage' = "index" /\ root' = Layout ELSE stage' = "idle"
  BY DEF Lookup, Kept
<1>2. shipped' = <<>> /\ host' \in {"posix", "windows"}
  BY <1>1 DEF ShippedInv, Building
<1>3. CASE Supported(Arch)
  <2>1. stage' = "index" /\ root' = Layout /\ Arch' = Arch
    BY <1>1, <1>3 DEF Arch
  <2> HIDE DEF Arch
  <2>2. Building'
    BY <2>1 DEF Building
  <2>3. Sound(host, Arch, Layout, <<>>) /\ Sourced(Arch, Layout.links)
    BY LayoutShows DEF ShippedInv
  <2>4. Sound(host, Arch, root', shipped') /\ Sourced(Arch, root'.links)
    BY <1>2, <2>1, <2>3
  <2> QED BY <1>1, <2>1, <2>2, <2>4, ShippedGoes
<1>4. CASE ~Supported(Arch)
  <2>1. stage' = "idle"
    BY <1>1, <1>4
  <2> QED BY <1>2, <2>1 DEF ShippedInv, Building
<1> QED BY <1>3, <1>4

\* Steps that leave the tree alone.
LEMMA LaterShips ==
  ASSUME ImageInv, ShippedInv, FetchIndex \/ Resolve \/ Pack \/ WriteManifest PROVE ShippedInv'
<1>1. /\ UNCHANGED <<host, root, shipped, archs, pos>>
      /\ \/ stage \in {"index", "resolve"} /\ stage' \in {"resolve", "fetch"}
         \/ stage = "pack" /\ root.ok /\ stage' = "manifest"
         \/ stage = "manifest" /\ stage' = "verification"
  BY DEF FetchIndex, Resolve, Pack, WriteManifest, Kept
<1>2. Building /\ Building' /\ Arch' = Arch
  BY <1>1 DEF Building, Arch
<1> HIDE DEF Arch
<1>3. stage' \in {"manifest", "verification"} => root'.ok
  BY <1>1 DEF ShippedInv
<1>4. root'.ok => /\ Sound(host, Arch, root', shipped')
                  /\ stage' \in {"index", "resolve", "fetch"} => Sourced(Arch, root'.links)
  BY <1>1, <1>2 DEF ShippedInv
<1> QED BY <1>1, <1>2, <1>3, <1>4, ShippedGoes

\* A package is fetched and installed.
LEMMA FetchPackageShips == ASSUME PathsAgree, ImageInv, ShippedInv, FetchPackage PROVE ShippedInv'
<1>1. /\ stage = "fetch" /\ stage' = "fetch" /\ next <= Len(order) /\ root.ok
      /\ UNCHANGED <<host, archs, pos>>
  BY DEF FetchPackage, Kept
<1>2. Building /\ Building' /\ Arch' = Arch
  BY <1>1 DEF Building, Arch
<1>3. Arch \in Buildable /\ TreeInv(root) /\ ResolverInv(Arch) /\ next \in Nat \ {0}
  BY <1>1, <1>2 DEF ImageInv, BuildInv
<1>4. PICK a \in Buildable : a = Arch
  BY <1>3
<1>5. order[next] \in DOMAIN index /\ Listed(a)
  <2>1. IsSeq(order) /\ ToSet(order) \subseteq DOMAIN index /\ Listed(a)
    BY <1>3, <1>4 DEF ResolverInv, QueueInv
  <2>2. next \in 1..Len(order)
    BY <1>1, <1>3, <2>1, SeqLen
  <2> QED BY <2>1, <2>2, ElementAt
<1>6. host \in {"posix", "windows"} /\ Sound(host, a, root, shipped) /\ Sourced(a, root.links)
  BY <1>1, <1>2, <1>4 DEF ShippedInv
<1> DEFINE record == index[order[next]]
<1>7. root'.ok => Sound(host, a, root', shipped') /\ Sourced(a, root'.links)
  <2>1. CASE UNCHANGED <<root, shipped>>
    BY <1>6, <2>1
  <2>2. ASSUME NEW blob \in {b \in Payload[Arch][record.package] : Readable(b)},
               root' = InstallPayload(root, DataTar(blob), record.package),
               shipped' = Ship(shipped, DataTar(blob), record.package)
        PROVE  root'.ok => Sound(host, a, root', shipped') /\ Sourced(a, root'.links)
    <3>1. IsSeq(DataTar(blob)) /\ ShippedBy(a, DataTar(blob), record.package)
      BY <1>4, <1>5, <2>2, PayloadIsShipped
    <3>2. PICK by : by = record.package
      OBVIOUS
    <3>3. PICK members : members = DataTar(blob)
      OBVIOUS
    <3> HIDE DEF record
    <3>4. InstallPayload(root, members, by).ok =>
            /\ Sound(host, a, InstallPayload(root, members, by), Ship(shipped, members, by))
            /\ Sourced(a, InstallPayload(root, members, by).links)
      BY <1>3, <1>6, <3>1, <3>2, <3>3, PayloadShows
    <3> QED BY <2>2, <3>2, <3>3, <3>4
  <2> HIDE DEF record
  <2> QED BY <2>1, <2>2 DEF FetchPackage, record
<1>8. stage' \notin {"manifest", "verification"}
  BY <1>1
<1> HIDE DEF Arch
<1> QED BY <1>1, <1>2, <1>4, <1>7, <1>8, ShippedGoes

\* The layers are written over it; what they write is no longer counted as shipped.
LEMMA LayerShips == ASSUME PathsAgree, ImageInv, ShippedInv, WriteLayer PROVE ShippedInv'
<1> DEFINE texts == ToSet(DpkgFiles(root.disk, Installed, status))
           written == {Release, EtcRelease} \cup {f.path : f \in ToSet(BaseFiles \o LayerFiles)} \cup texts
<1>1. /\ stage = "fetch" /\ stage' = "pack" /\ root.ok
      /\ root' = WriteSystem(WriteDpkg(root, Installed, status))
      /\ UNCHANGED <<host, archs, pos>>
  BY DEF WriteLayer, Kept
<1>2. shipped' = [at \in DOMAIN shipped \ written |-> shipped[at]]
  BY DEF WriteLayer
<1>3. Building /\ Building' /\ Arch' = Arch
  BY <1>1 DEF Building, Arch
<1>4. Arch \in Buildable /\ TreeInv(root) /\ ResolverInv(Arch)
  BY <1>1, <1>3 DEF ImageInv, BuildInv
<1>5. PICK a \in Buildable : a = Arch
  BY <1>4
<1>6. IsSeq(Installed)
  <2> DEFINE packages == [i \in DOMAIN order |-> index[order[i]].package]
             P == {i \in DOMAIN order : index[order[i]].package \in DOMAIN status}
  <2>1. IsSeq(order)
    BY <1>4, <1>5 DEF ResolverInv, QueueInv
  <2>2. P \in SUBSET Nat /\ IsFiniteSet(P)
    BY <2>1, PositionsFinite
  <2>3. Installed = Those(packages, P)
    BY DEF Installed
  <2> HIDE DEF packages, P
  <2> QED BY <2>2, <2>3, ThoseProperties
<1>7. PICK packages : packages = Installed
  OBVIOUS
<1> HIDE DEF Installed
<1>8. host \in {"posix", "windows"} /\ Sound(host, a, root, shipped) /\ Sourced(a, root.links)
  BY <1>1, <1>3, <1>5 DEF ShippedInv
<1>9. PICK less : less = [at \in DOMAIN shipped \ written |-> shipped[at]]
  OBVIOUS
<1>10. DOMAIN less = DOMAIN shipped \ written /\ \A at \in DOMAIN less : less[at] = shipped[at]
  BY <1>9
<1>11. \A f \in ToSet(BaseFiles) \cup ToSet(LayerFiles) : f.path \in written
  BY RootfsAssumption, JoinElements
<1>12. Release \in written /\ EtcRelease \in written /\ texts \subseteq written
  OBVIOUS
<1>13. \A at \in ToSet(DpkgFiles(root.disk, packages, status)) : at \notin DOMAIN less
  BY <1>7, <1>10, <1>12
<1> HIDE DEF written, texts
<1>14. Sound(host, a, root, less)
  BY <1>8, <1>10, FewerShown
<1>15. PICK tree : tree = WriteDpkg(root, packages, status)
  OBVIOUS
<1>16. TreeInv(tree)
  BY <1>4, <1>6, <1>7, <1>15, DpkgKeeps
<1>17. tree.ok => Sound(host, a, tree, less) /\ Sourced(a, tree.links)
  <2>1. WriteDpkg(root, packages, status).ok =>
          Sound(host, a, WriteDpkg(root, packages, status), less)
          /\ WriteDpkg(root, packages, status).links = root.links
    BY <1>4, <1>6, <1>7, <1>13, <1>14, DpkgShows
  <2> QED BY <1>8, <1>15, <2>1
<1>18. /\ Release \notin DOMAIN less /\ EtcRelease \notin DOMAIN less
       /\ \A f \in ToSet(BaseFiles) \cup ToSet(LayerFiles) : f.path \notin DOMAIN less
  BY <1>10, <1>11, <1>12
<1>19. WriteSystem(tree).ok => Sound(host, a, WriteSystem(tree), less)
  BY <1>16, <1>17, <1>18, SystemShows
<1>20. root'.ok => Sound(host, a, root', shipped')
  BY <1>1, <1>2, <1>7, <1>9, <1>15, <1>19
<1>21. stage' \notin {"manifest", "verification"} /\ stage' \notin {"index", "resolve", "fetch"}
  BY <1>1
<1> HIDE DEF Arch
<1> QED BY <1>1, <1>3, <1>5, <1>20, <1>21, ShippedGoes

\* Every step keeps the invariant of what was shipped.
LEMMA ShippedStep == ASSUME PathsAgree PROVE ImageInv /\ ShippedInv /\ [Next]_vars => ShippedInv'
<1> SUFFICES ASSUME ImageInv, ShippedInv, [Next]_vars PROVE ShippedInv'
  OBVIOUS
<1>1. ASSUME ~Building', shipped' = <<>>, host' = host PROVE ShippedInv'
  BY <1>1 DEF ShippedInv, Building
<1>2. CASE Start \/ FetchCandidate \/ JudgeCandidate \/ WriteReport \/ WriteSums \/ End
  <2>1. /\ UNCHANGED <<host, shipped>> /\ ~Building
        /\ stage' \in {"lookup", "closure", "sums", "release", "idle"}
    BY <1>2 DEF Start, FetchCandidate, JudgeCandidate, WriteReport, WriteSums, End, rootVars, Reporting,
                AllTried, Building
  <2> QED BY <1>1, <2>1 DEF ShippedInv, Building
<1>3. CASE WriteVerification \/ BuildFails \/ Kill
  <2>1. shipped' = <<>> /\ host' = host /\ stage' \in {"lookup", "idle"}
    BY <1>3 DEF WriteVerification, BuildFails, Kill, Bare, Kept
  <2> QED BY <1>1, <2>1 DEF Building
<1>4. CASE UNCHANGED vars
  <2>1. UNCHANGED <<stage, archs, pos, root, shipped, host>>
    BY <1>4 DEF vars, rootVars
  <2>2. Arch' = Arch /\ Building' = Building
    BY <2>1 DEF Arch, Building
  <2> HIDE DEF Arch
  <2> QED BY <2>1, <2>2 DEF ShippedInv
<1> QED BY <1>2, <1>3, <1>4, LookupShips, LaterShips, FetchPackageShips, LayerShips, Zenon DEF Next

\* A file that is here, or was kept aside, is the file in the archive.
LEMMA SoundIsPacked ==
  ASSUME PathsAgree, NEW arch \in Buildable,
         NEW tree, NEW sent, Sound(host, arch, tree, sent), NEW at \in DOMAIN sent,
         ~Linked(tree.links, at), NodeAt(tree.disk, at).kind # "dir", sent[at].mode # "none"
  PROVE  /\ at \in DOMAIN Packed(tree) /\ Packed(tree)[at].kind = "file"
         /\ Packed(tree)[at].mode = sent[at].mode /\ Packed(tree)[at].by = sent[at].by
<1> DEFINE file == sent[at]
           D == Walked(tree) \cup DOMAIN tree.links \cup {e.path : e \in ToSet(tree.extra)}
<1>1. /\ IsSeq(at) /\ at # <<>> /\ FileShipped(arch, at, file.mode, file.by) /\ Here(host, tree, at, file)
      /\ IsSeq(tree.extra) /\ \A e \in ToSet(tree.extra) : FileShipped(arch, e.path, e.mode, e.by)
  BY DEF Sound, Shown, Aside
<1>2. Prefixes(at) \cap DOMAIN tree.links = {} /\ at \in Prefixes(at)
  BY <1>1, PrefixFacts DEF Linked
<1>3. at \notin DOMAIN tree.links /\ Above(at) \cap DOMAIN tree.links = {}
  BY <1>2 DEF Above
<1>4. Packed(tree) = [x \in D |-> Member(tree, x)]
  BY DEF Packed
<1> HIDE DEF file
<1>5. CASE NodeAt(tree.disk, at) = File(file.by) /\ at \in DOMAIN tree.modes /\ tree.modes[at] = file.mode
  <2>1. at \in DOMAIN tree.disk /\ tree.disk[at] = File(file.by)
    BY <1>5 DEF NodeAt, None, File
  <2>2. at \in Walked(tree)
    BY <1>1, <1>3, <2>1 DEF Walked
  <2>3. File(file.by).kind = "file" /\ File(file.by).by = file.by
    BY DEF File
  <2>4. ModeOf(tree, at, "data") = file.mode
    BY <1>5 DEF ModeOf, file
  <2>5. Met(tree, at) = File(file.by)
    BY <1>5, <2>3, FollowStays DEF Met
  <2>6. Member(tree, at) = [kind |-> "file", mode |-> file.mode, by |-> file.by]
    BY <1>3, <2>2, <2>3, <2>4, <2>5 DEF Member
  <2> QED BY <1>4, <2>2, <2>6 DEF file
<1>6. CASE /\ at \notin DOMAIN tree.disk /\ host = "windows" /\ Last(at) \in OddNames
           /\ \E e \in ToSet(tree.extra) : e.path = at
  <2> DEFINE places == {i \in DOMAIN tree.extra : tree.extra[i].path = at}
             e == tree.extra[First(places)]
  <2>1. First(places) \in places
    <3>1. places \in SUBSET Nat
      BY <1>1, SeqLen
    <3>2. places # {}
      BY <1>6 DEF ToSet
    <3> HIDE DEF places
    <3> QED BY <3>1, <3>2, FirstOf
  <2>2. e \in ToSet(tree.extra) /\ e.path = at
    BY <2>1 DEF ToSet
  <2>3. Member(tree, at) = [kind |-> "file", mode |-> IF e.mode = "none" THEN "data" ELSE e.mode, by |-> e.by]
    BY <1>3, <1>6 DEF Member, Walked
  <2> HIDE DEF e, places
  <2>4. FileShipped(arch, at, e.mode, e.by)
    BY <1>1, <2>2
  <2>5. PICK x \in Shipments(arch) :
          Normalize(x.member.name) = at /\ x.member.kind = "file" /\ x.member.mode = file.mode /\ x.by = file.by
    BY <1>1 DEF FileShipped
  <2>6. PICK y \in Shipments(arch) :
          Normalize(y.member.name) = at /\ y.member.kind = "file" /\ y.member.mode = e.mode /\ y.by = e.by
    BY <2>4 DEF FileShipped
  <2>7. x.by = y.by /\ x.member.mode = y.member.mode
    BY <1>6, <2>5, <2>6 DEF PathsAgree
  <2>8. file.by = e.by /\ file.mode = e.mode /\ e.mode # "none"
    BY <2>5, <2>6, <2>7 DEF file
  <2>9. Member(tree, at) = [kind |-> "file", mode |-> file.mode, by |-> file.by] /\ at \in D
    BY <2>2, <2>3, <2>8
  <2> QED BY <1>4, <2>9 DEF file
<1> QED BY <1>1, <1>5, <1>6 DEF Here

\* Where packages agree on the paths they share, whatever else they ship, in any order and
\* number, on either host: a file a package ships is in the archive with its mode and contents, unless a
\* link, a directory or a mode of 0 is in its way (rootfs.py:8-16, 180).
THEOREM WhatIsShippedIsPacked == ASSUME PathsAgree PROVE Spec => []WhatShipsIsPacked
<1>1. ImageInv /\ ShippedInv => WhatShipsIsPacked
  <2> SUFFICES ASSUME ImageInv, ShippedInv, stage = "manifest", NEW at \in DOMAIN shipped
               PROVE  \/ /\ at \in DOMAIN Packed(root) /\ Packed(root)[at].kind = "file"
                         /\ Packed(root)[at].mode = shipped[at].mode /\ Packed(root)[at].by = shipped[at].by
                      \/ Prefixes(at) \cap DOMAIN root.links # {}
                      \/ \E l \in DOMAIN root.links \ {<<name>> : name \in Alias} :
                           root.links[l].kind = "symlink" /\ root.links[l].to \in Prefixes(at)
                      \/ NodeAt(root.disk, at).kind = "dir" \/ shipped[at].mode = "none"
    BY Zenon DEF WhatShipsIsPacked
  <2>1. Building /\ root.ok
    BY DEF ShippedInv, Building
  <2>2. PICK a \in Buildable : a = Arch
    BY <2>1 DEF ImageInv, BuildInv
  <2>3. Sound(host, a, root, shipped)
    BY <2>1, <2>2 DEF ShippedInv
  <2>4. CASE Linked(root.links, at)
    BY <2>4, Zenon DEF Linked, Led, Told, Roots
  <2>5. CASE ~Linked(root.links, at)
    BY <2>3, <2>5, SoundIsPacked
  <2> QED BY <2>4, <2>5
<1>2. Init => ImageInv /\ ShippedInv
  BY ImageInvStarts, ShippedStarts
<1>3. ImageInv /\ ShippedInv /\ [Next]_vars => ImageInv' /\ ShippedInv'
  BY ImageInvStep, ShippedStep
<1> QED BY <1>1, <1>2, <1>3, PTL DEF Spec
=============================================================================
