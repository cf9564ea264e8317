----------------------------- MODULE ReleaseBuild -----------------------------
(***************************************************************************)
(* build_release.py: one image after the other for the architectures asked *)
(* for.  An architecture that fails does not stop the others; a run that   *)
(* is killed stops where it is, and the next one works in the same         *)
(* directory.  Every file of the directory has a stamp for its contents:   *)
(* the number of the image it is or belongs to, or 0 for a torn file.      *)
(***************************************************************************)
EXTENDS Rootfs, Resolver, Debs

CONSTANTS
  Requests,  \* what a run may be asked for: [archs, check]; check: --candidates-check
  Mirror,    \* Mirror[arch]: what a mirror may have: its own index and that for "all"
  Payload,   \* Payload[arch][package]: what a mirror may send for it, as .deb archives
  Required, Probes, DataProbes, DirProbes, \* the paths verify_rootfs looks at
  Wanted,    \* the packages it looks for
  Launcher,
  Headers,   \* Headers[arch][package]: machine and class of the binaries in its archive
  Versioned, \* the names a libc gives its loader beside the public one
  MaxRuns    \* bound: runs of the program

ASSUME RequestAssumption ==
  \A asked \in Requests : asked.archs \in Seq(ToSet(asked.archs)) /\ asked.check \in BOOLEAN

\* what a mirror may list for an architecture
Stanzas(arch) == UNION {ToSet(indexes[1]) \cup ToSet(indexes[2]) : indexes \in Mirror[arch]}
Buildable == {arch \in UNION {ToSet(asked.archs) : asked \in Requests} : Supported(arch)}

ASSUME MirrorAssumption ==
  \A arch \in Buildable \cup ToSet(Candidates) :
    /\ \A indexes \in Mirror[arch] : IsSeq(indexes[1]) /\ IsSeq(indexes[2])
    /\ \A stanza \in Stanzas(arch) : IsStanza(stanza)

\* parts of a path are names; a member that has no name is passed over; a
\* target stands for a path without the aliases
ASSUME PayloadAssumption ==
  \A arch \in Buildable :
    \A stanza \in {s \in Stanzas(arch) : "Package" \in DOMAIN s} :
      \A blob \in {b \in Payload[arch][stanza["Package"]] : Readable(b)} :
        /\ IsSeq(DataTar(blob))
        /\ \A m \in ToSet(DataTar(blob)) :
             /\ m.kind \in {"dir", "symlink", "hardlink", "file"}
             /\ IsSeq(m.name) /\ m.name # <<>> /\ IsSeq(m.to) /\ Normalize(m.to) = m.to

\* build_rootfs.py looks at the directories its programs are in (554), which
\* are of those every image starts with (rootfs.py:42)
ASSUME ProbesAssumption ==
  \A at \in Required \cap Probes :
    IsSeq(at) /\ at # <<>> /\ Above(at) \ {<<>>} \subseteq DirProbes \cap BaseDirs

VARIABLES
  stage,  \* what the run is doing
  archs,  \* the architectures asked for
  pos,    \* the one it is at
  next,   \* of the chosen records, the one to fetch
  status, \* contents of the packages: those of var/lib/dpkg/status
  built,  \* the results so far: [arch, ok, passed]
  check,  \* the candidates are to be evaluated
  report, \* candidates_closure_report so far: [arch, resolvable]
  dist,   \* the files in the output directory
  sums,   \* the lines of its SHA256SUMS
  stamp, runs

vars == <<rootVars, resolverVars, stage, archs, pos, next, status, built,
          check, report, dist, sums, stamp, runs>>

Arch == archs[pos]
Report == <<"report", "candidates">>
Artifact(arch) == <<"artifact", arch>>
Manifest(arch) == <<"manifest", arch>>
Verification(arch) == <<"verification", arch>>
Outputs(arch) == {Artifact(arch), Manifest(arch), Verification(arch)}
Building == stage \in {"index", "resolve", "fetch", "pack", "manifest", "verification"}
Kept == UNCHANGED <<host, archs, check, report, runs>>

Init ==
  /\ host \in {"posix", "windows"}
  /\ root = <<>> /\ shipped = <<>>
  /\ index = <<>> /\ queue = <<>> /\ queued = {} /\ order = <<>>
  /\ stage = "idle" /\ archs = <<>> /\ pos = 1 /\ next = 1 /\ status = <<>> /\ built = <<>>
  /\ check = FALSE /\ report = <<>>
  /\ dist = <<>> /\ sums = <<>> /\ stamp = 0 /\ runs = 0

-----------------------------------------------------------------------------
(* The checks: verify_rootfs looks at the staging tree,                    *)
(* verify_buster_layer and verify_tar_metadata at the archive.             *)

Exists(tree, path) == Where(tree.disk, path) \in DOMAIN tree.disk
Reads(tree, path) == NodeAt(tree.disk, Where(tree.disk, path))

\* find_loader: below the directories a libc puts it in, links to directories
\* not followed
IsLoaderName(name, meta) == name \in meta.loaders \cup Versioned
Loaders(tree, meta) ==
  LET tops == {Where(tree.disk, top) : top \in {<<"lib64">>, <<"lib">>, meta.libDir}}
  IN  {at \in DOMAIN tree.disk :
         /\ Above(at) \cap tops # {} /\ IsLoaderName(Last(at), meta)
         /\ NodeAt(tree.disk, Where(tree.disk, at)).kind # "dir"}

\* parse_elf of what is read at a path, if it is one, and the match with the architecture
ParseElf(tree, path) ==
  LET node == Reads(tree, path) IN
  IF node.kind = "file" /\ node.by \in DOMAIN Headers[Arch] THEN Headers[Arch][node.by] ELSE <<>>
Matches(tree, path, meta) == ParseElf(tree, path) = meta.elf

\* binary_file("bash")
Bash(tree) ==
  LET names == << <<"usr", "bin", "bash">>, <<"bin", "bash">>, <<"usr", "bin", "bash3">> >>
  IN  SelectSeq(names, LAMBDA path : Reads(tree, path).kind = "file")

\* loader_names_in_artifact
LoadersPacked(archive, meta) == {at \in DOMAIN archive : Last(at) \in meta.loaders}

Staged(tree, archive, meta) ==
  /\ \A path \in Required : Exists(tree, path)
  /\ Wanted \subseteq DOMAIN status
  /\ \E at \in Loaders(tree, meta) : Matches(tree, at, meta)
  /\ Bash(tree) # <<>> => Matches(tree, Bash(tree)[1], meta)
  /\ LoadersPacked(archive, meta) # {}
  /\ Reads(tree, EtcRelease) = File("buster")

\* _tar_bytes: the contents of a member, when it is a regular file
TarBytes(archive, at) ==
  IF at \in DOMAIN archive /\ archive[at].kind = "file" THEN archive[at].by ELSE "none"

Layer(archive) ==
  /\ TarBytes(archive, Launcher) = "buster" /\ archive[Launcher].mode = "exec"
  /\ TarBytes(archive, Release) = "buster"
  /\ EtcRelease \in DOMAIN archive
  /\ archive[EtcRelease].kind = "symlink" => archive[EtcRelease].to = Release

Found(archive) == {archive[at].mode : at \in Probes \cap DOMAIN archive}

\* Mutated form: one executable is enough
SomeExecutable(archive) == Found(archive) = {} \/ "exec" \in Found(archive)

Executables(archive) == Found(archive) \subseteq {"exec"}

Directories(archive) ==
  \A at \in DirProbes \cap DOMAIN archive : archive[at].kind = "dir"

Metadata(archive, meta) ==
  /\ Executables(archive)
  /\ \A at \in DataProbes \cap DOMAIN archive :
       archive[at].kind = "file" => archive[at].mode = "data"
  /\ \E at \in LoadersPacked(archive, meta) : archive[at].mode = "exec"
  /\ \A name \in Alias : <<name>> \in DOMAIN archive => archive[<<name>>].kind = "symlink"
  /\ Directories(archive)

Passed(tree) ==
  LET archive == Packed(tree)
      meta == LookupArch(Arch)
  IN  Staged(tree, archive, meta) /\ Layer(archive) /\ Metadata(archive, meta)

-----------------------------------------------------------------------------
Bare ==
  /\ root' = <<>> /\ shipped' = <<>> /\ Cleared
  /\ next' = 1 /\ status' = <<>>

\* main(): the architectures, one at a time; a token nobody knows ends it
Start ==
  /\ stage = "idle" /\ runs < MaxRuns
  /\ \E asked \in Requests : archs' = asked.archs /\ check' = asked.check
  /\ report' = <<>> /\ runs' = runs + 1
  /\ stage' = "lookup" /\ pos' = 1 /\ built' = <<>>
  /\ UNCHANGED <<rootVars, resolverVars, next, status, dist, sums, stamp>>

Lookup ==
  /\ stage = "lookup" /\ pos <= Len(archs)
  /\ IF Supported(Arch) THEN stage' = "index" /\ root' = Layout
                          ELSE stage' = "idle" /\ root' = <<>>
  /\ UNCHANGED <<shipped, resolverVars, pos, next, status, built, dist, sums, stamp>> /\ Kept

Answered(indexes, got) ==
  (IF 1 \in got THEN ParsePackages(indexes[1]) ELSE <<>>)
  \o (IF 2 \in got THEN ParsePackages(indexes[2]) ELSE <<>>)

\* fetch_index: either index may be unavailable
FetchIndex ==
  /\ stage = "index" /\ stage' = "resolve"
  /\ \E indexes \in Mirror[Arch], got \in SUBSET {1, 2} :
       LET found == Answered(indexes, got) IN found # <<>> /\ Begin(found, Arch)
  /\ UNCHANGED <<root, shipped, pos, next, status, built, dist, sums, stamp>> /\ Kept

Resolve ==
  /\ stage = "resolve"
  /\ \/ Visit /\ UNCHANGED stage
     \/ Resolved /\ stage' = "fetch" /\ UNCHANGED resolverVars
  /\ UNCHANGED <<root, shipped, pos, next, status, built, dist, sums, stamp>> /\ Kept

\* the payload of the next record; one without a file name is passed over
FetchPackage ==
  LET record == index[order[next]] IN
  /\ stage = "fetch" /\ next <= Len(order) /\ root.ok
  /\ next' = next + 1
  /\ \/ ~record.file /\ UNCHANGED <<root, shipped, status>>
     \/ /\ record.file
        /\ \E blob \in {b \in Payload[Arch][record.package] : Readable(b)} :
             /\ root' = InstallPayload(root, DataTar(blob), record.package)
             /\ shipped' = Ship(shipped, DataTar(blob), record.package)
             /\ status' = With(status, record.package, Extract(blob))
  /\ UNCHANGED <<resolverVars, stage, pos, built, dist, sums, stamp>> /\ Kept

\* the chosen packages that have contents, in their order
Installed ==
  Those([i \in DOMAIN order |-> index[order[i]].package],
        {i \in DOMAIN order : index[order[i]].package \in DOMAIN status})

\* the writers, in their order
WriteLayer ==
  /\ stage = "fetch" /\ next > Len(order) /\ root.ok
  /\ root' = WriteSystem(WriteDpkg(root, Installed, status))
  /\ LET written == {Release, EtcRelease} \cup {f.path : f \in ToSet(BaseFiles \o LayerFiles)}
                    \cup ToSet(DpkgFiles(root.disk, Installed, status))
     IN  shipped' = [at \in DOMAIN shipped \ written |-> shipped[at]]
  /\ stage' = "pack"
  /\ UNCHANGED <<resolverVars, pos, next, status, built, dist, sums, stamp>> /\ Kept

Pack ==
  /\ stage = "pack" /\ root.ok /\ Packable(root) /\ stage' = "manifest"
  /\ stamp' = stamp + 1 /\ dist' = With(dist, Artifact(Arch), stamp + 1)
  /\ UNCHANGED <<root, shipped, resolverVars, pos, next, status, built, sums>> /\ Kept

\* write_manifest_and_checksums: the lines of this image are added to those
\* that are there
WriteManifest ==
  /\ stage = "manifest" /\ stage' = "verification"
  /\ dist' = With(dist, Manifest(Arch), stamp)
  /\ sums' = With(With(sums, Artifact(Arch), stamp), Manifest(Arch), stamp)
  /\ UNCHANGED <<root, shipped, resolverVars, pos, next, status, built, stamp>> /\ Kept

WriteVerification ==
  /\ stage = "verification" /\ stage' = "lookup"
  /\ dist' = With(dist, Verification(Arch), stamp)
  /\ built' = Append(built, [arch |-> Arch, ok |-> TRUE, passed |-> Passed(root)])
  /\ pos' = pos + 1 /\ Bare
  /\ UNCHANGED <<sums, stamp>> /\ Kept

(* The candidates, at the level of their closure. *)

AllTried == stage = "lookup" /\ pos > Len(archs)
Candidate == Candidates[Len(report) + 1]
Reporting == AllTried /\ check /\ Len(report) = Len(Candidates)

\* here no index at all is no error: the seeds will not be found
FetchCandidate ==
  /\ AllTried /\ check /\ Len(report) < Len(Candidates) /\ stage' = "closure"
  /\ \E indexes \in Mirror[Candidate], got \in SUBSET {1, 2} :
       Begin(Answered(indexes, got), Candidate)
  /\ UNCHANGED <<rootVars, archs, pos, next, status, built, check, report, dist, sums, stamp, runs>>

JudgeCandidate ==
  /\ stage = "closure"
  /\ \/ Visit /\ UNCHANGED <<stage, report>>
     \/ /\ Resolved \/ Unsatisfiable
        /\ report' = Append(report, [arch |-> Candidate, resolvable |-> Resolved])
        /\ stage' = "lookup" /\ Cleared
  /\ UNCHANGED <<rootVars, archs, pos, next, status, built, check, dist, sums, stamp, runs>>

WriteReport ==
  /\ Reporting /\ stage' = "sums"
  /\ stamp' = stamp + 1 /\ dist' = With(dist, Report, stamp + 1)
  /\ UNCHANGED <<rootVars, resolverVars, pos, next, status, built, sums>>
  /\ UNCHANGED <<archs, check, report, runs>>

-----------------------------------------------------------------------------
\* what a step that does not end leaves in the directory
Halfway ==
  CASE stage = "pack"         -> {dist, Without(dist, Artifact(Arch)), With(dist, Artifact(Arch), 0)}
    [] stage = "manifest"     -> {dist, With(dist, Manifest(Arch), 0), With(dist, Manifest(Arch), stamp)}
    [] stage = "verification" -> {dist, With(dist, Verification(Arch), 0)}
    [] Reporting              -> {dist, With(dist, Report, 0)}
    [] OTHER                  -> {dist}

\* anything a build may raise: a mirror that does not answer, a dependency
\* that cannot be had, an archive that is none, a full disk
BuildFails ==
  /\ Building /\ stage' = "lookup" /\ pos' = pos + 1
  /\ built' = Append(built, [arch |-> Arch, ok |-> FALSE, passed |-> FALSE])
  /\ dist' \in Halfway /\ Bare
  /\ UNCHANGED <<sums, stamp>> /\ Kept

Done(result) == {f \in Outputs(result.arch) : result.ok /\ f \in DOMAIN dist}
Reported == IF report = <<>> THEN {} ELSE {Report}
Tracked == (UNION {Done(built[i]) : i \in DOMAIN built}) \cup Reported

\* Mutated form: the lines of earlier runs stay
AddedTo(lines) == [f \in DOMAIN lines \cup Tracked |-> IF f \in Tracked THEN dist[f] ELSE lines[f]]

Authoritative(lines) == [f \in Tracked |-> dist[f]]

\* write_authoritative_shasums, when there is anything to list
WriteSums ==
  /\ (AllTried /\ ~check) \/ stage = "sums"
  /\ stage' = "release"
  /\ sums' = IF Tracked = {} THEN sums ELSE Authoritative(sums)
  /\ UNCHANGED <<rootVars, resolverVars, archs, pos, next, status, built, check, report, dist, stamp, runs>>

Forgotten ==
  /\ archs' = <<>> /\ pos' = 1 /\ built' = <<>> /\ check' = FALSE /\ report' = <<>>

\* release.json, and the exit code
End ==
  /\ stage = "release" /\ stage' = "idle"
  /\ Forgotten
  /\ UNCHANGED <<rootVars, resolverVars, next, status, dist, sums, stamp, runs>>

\* a kill, or a report that cannot be written: the directory may not be there
Kill ==
  /\ stage # "idle" /\ stage' = "idle"
  /\ dist' \in Halfway /\ Forgotten /\ Bare
  /\ UNCHANGED <<host, sums, stamp, runs>>

Next ==
  \/ Start \/ Lookup \/ FetchIndex \/ Resolve \/ FetchPackage \/ WriteLayer \/ Pack
  \/ WriteManifest \/ WriteVerification \/ BuildFails
  \/ FetchCandidate \/ JudgeCandidate \/ WriteReport \/ WriteSums \/ End \/ Kill

Spec == Init /\ [][Next]_vars

-----------------------------------------------------------------------------
\* The order of versions as Debian's policy has it: runs of other characters
\* before runs of digits, "~" before the end, the end before letters, letters
\* before the rest, numbers by value.
Weight(code) == IF code = 126 THEN -1 ELSE IF code \in 65 .. 122 THEN code ELSE code + 256
Value(token) ==
  LET upTo[n \in 0..Len(token)] == IF n = 0 THEN 0 ELSE 10 * upTo[n - 1] + (token[n] - 48)
  IN  upTo[Len(token)]
Ranks(parts) ==
  FlattenSeq([i \in DOMAIN parts |->
    IF IsNumber(parts[i]) THEN << <<0, Value(parts[i])>> >>
    ELSE [k \in DOMAIN parts[i] |-> <<Weight(parts[i][k]), 0>>]])
DebianParts(a, b) ==
  LET r == Ranks(a)
      s == Ranks(b)
      At(t, i) == IF i \in DOMAIN t THEN t[i] ELSE <<0, 0>>
      differ == {i \in DOMAIN r \cup DOMAIN s : At(r, i) # At(s, i)}
      i == First(differ)
  IN  IF differ = {} THEN 0
      ELSE Sign(Before(At(r, i), At(s, i)))

Debian(v, w) ==
  IF v.epoch # w.epoch THEN Sign(v.epoch < w.epoch)
  ELSE IF DebianParts(v.up, w.up) # 0 THEN DebianParts(v.up, w.up)
  ELSE DebianParts(v.down, w.down)

\* A version of numbers without leading zeros, divided by dots; its revision
\* is not 0, which to Debian is the same as none.
PlainParts(parts) ==
  /\ parts = <<>> \/ Len(parts) % 2 = 1
  /\ \A i \in DOMAIN parts :
       IF i % 2 = 1 THEN IsNumber(parts[i]) /\ (Len(parts[i]) > 1 => parts[i][1] # 48)
                    ELSE parts[i] = <<46>>
Plain(v) == PlainParts(v.up) /\ v.up # <<>> /\ PlainParts(v.down) /\ v.down # << <<48>> >>

\* A dependency that names a version is met by the package in the image also
\* in Debian's order, when both versions are plain.  (With letters, tildes,
\* leading zeros, a revision of 0 or a second hyphen the resolver's own order
\* differs: it has 1.0~rc1 after 1.0, and 1-0 after 1.)
PlainVersionsMeetDebian ==
  stage = "fetch" /\ next = 1 =>
    \A i \in ToSet(order), j \in ToSet(order) :
      \A g \in ToSet(index[i].depends) : \A alt \in ToSet(g) :
        /\ alt.name = index[j].package /\ alt.op # ""
        /\ Plain(alt.version) /\ Plain(index[j].version)
        => Vercmp(index[j].version, alt.version) = Debian(index[j].version, alt.version)

\* When the resolver ends, every seed has its candidate in the image, and
\* every group of every chosen record is met by a chosen record or by the
\* candidate of an alternative - unless no alternative had a candidate that
\* would do, in which case the group has been dropped without an error.
ClosureIsClosed ==
  stage = "fetch" /\ next = 1 =>
    /\ \A name \in ToSet(Seeds) : index[Pick(name)].package \in Chosen(order)
    /\ \A i \in ToSet(order) : \A g \in ToSet(index[i].depends) :
         \/ \E k \in DOMAIN g : SatisfiedByChosen(order, g[k])
         \/ \E k \in Eligible(g) : index[Pick(g[k].name)].package \in Chosen(order)
         \/ Eligible(g) = {}

\* What the packages of an architecture put at the paths of an image.
Shipments(arch) ==
  UNION {UNION {{[by |-> s["Package"], member |-> m] : m \in ToSet(DataTar(blob))}
                : blob \in {b \in Payload[arch][s["Package"]] : Readable(b)}}
         : s \in {s \in Stanzas(arch) : "Package" \in DOMAIN s}}

\* What Debian's policy has of packages that are installed together, and the
\* code does not look at: they do not differ on where a link leads, nor on a
\* file - here one a Windows host cannot write - and os-release in etc, when
\* it is a link, leads where write_os_release has it.
PathsAgree ==
  \A arch \in Buildable : \A x, y \in Shipments(arch) :
    LET path == Normalize(x.member.name) IN
    path = Normalize(y.member.name) =>
      /\ x.member.kind = "symlink" /\ y.member.kind \in {"symlink", "hardlink"} =>
           /\ y.member.kind = "symlink" /\ y.member.to = x.member.to
           /\ path = EtcRelease => x.member.to = Release
      /\ x.member.kind = "file" /\ y.member.kind = "file" /\ Last(path) \in OddNames =>
           x.by = y.by /\ x.member.mode = y.member.mode

\* What a package ships at a path is in the archive at that path, with its
\* mode and its contents, whatever the build host can represent (the promise
\* of rootfs.py:8-16) - unless a link was recorded at the path or above it, a
\* link leads to it, a directory is in its way, or its mode was 0.
WhatShipsIsPacked ==
  stage = "manifest" =>
    LET archive == Packed(root) IN
    \A at \in DOMAIN shipped :
      \/ /\ at \in DOMAIN archive /\ archive[at].kind = "file"
         /\ archive[at].mode = shipped[at].mode /\ archive[at].by = shipped[at].by
      \/ Prefixes(at) \cap DOMAIN root.links # {}
      \/ \E l \in DOMAIN root.links \ {<<name>> : name \in Alias} :
           root.links[l].kind = "symlink" /\ root.links[l].to \in Prefixes(at)
      \/ NodeAt(root.disk, at).kind = "dir" \/ shipped[at].mode = "none"

\* When every check passes, the package manager is in the archive, executable
\* and below directories: the checks that read the staging tree and those
\* that read the archive, of which several pass when they find nothing, are
\* enough together.
PassedMeansUsable ==
  stage = "manifest" /\ Passed(root) =>
    LET archive == Packed(root) IN
    \A at \in Required \cap Probes :
      /\ at \in DOMAIN archive /\ archive[at].mode = "exec"
      /\ \A q \in Above(at) \ {<<>>} : q \in DOMAIN archive /\ archive[q].kind = "dir"

\* After a run every line of SHA256SUMS is the digest of what is in the
\* directory now, whatever earlier runs, failed builds and kills have left
\* there.  When no architecture was named twice, the lines are exactly those
\* of the outputs of the architectures it built, and of the report if one was
\* asked for, no file is torn, and each manifest is the one of its image.
\* (A name given twice may be built once and then torn.)
NamedOnce == \A i, j \in DOMAIN archs : archs[i] = archs[j] => i = j
SumsAreTrue ==
  stage = "release" /\ Tracked # {} =>
    /\ \A f \in DOMAIN sums : f \in DOMAIN dist /\ sums[f] = dist[f]
    /\ NamedOnce =>
         /\ DOMAIN sums = (UNION {Outputs(built[i].arch) : i \in {j \in DOMAIN built : built[j].ok}})
                         \cup (IF check THEN {Report} ELSE {})
         /\ \A f \in DOMAIN sums : dist[f] > 0
         /\ \A i \in DOMAIN built : built[i].ok =>
              dist[Manifest(built[i].arch)] = dist[Artifact(built[i].arch)]
=============================================================================
