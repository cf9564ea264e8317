-------------------------------- MODULE Rootfs --------------------------------
(***************************************************************************)
(* The tree an image is packed from (osbuild/rootfs.py): a staging tree on *)
(* the build host's disk, and beside it the metadata overlay that the      *)
(* archive takes modes and links from.  The disk follows symbolic links    *)
(* when it is written to, the overlay goes by the path as the package      *)
(* names it: the two agree as long as no path leads through a link.        *)
(*                                                                         *)
(* A path is a sequence of names.  A link's target is written as the path  *)
(* from the root it stands for.  A mode is "exec" (0755), "data" (0644) or *)
(* "none" (0).  Contents are told apart by who wrote them.                 *)
(***************************************************************************)
EXTENDS Integers, FiniteSets, SequencesExt, Architectures

CONSTANTS
  BaseDirs,   \* BASE_DIRS, a set of paths
  Alias,      \* bin, sbin, lib (lib64): the names of usr/ packages may omit
  OddNames,   \* names a Windows host cannot write
  DpkgDirs,   \* DPKG_SCHEMA_DIRS, a sequence of paths
  BaseFiles,  \* the base configuration, a sequence of [path, mode]
  LayerFiles  \* Buster's own layer, likewise

ASSUME RootfsAssumption ==
  /\ Alias \cap {"usr", "etc", "var"} = {}
  /\ \A at \in BaseDirs : IsSeq(at) /\ Prefixes(at) \ {<<>>} \subseteq BaseDirs
  /\ IsSeq(DpkgDirs) /\ \A at \in ToSet(DpkgDirs) : IsSeq(at) /\ at # <<>> /\ at[1] \notin Alias
  /\ \A files \in {BaseFiles, LayerFiles} :
       IsSeq(files) /\ \A f \in ToSet(files) : IsSeq(f.path) /\ f.path # <<>> /\ f.path[1] \notin Alias

VARIABLES
  host,   \* "posix", or "windows": a host without symbolic links
  root,   \* [disk, modes, links, extra, ok]; ok: no writer has raised
  shipped \* history: the last file a package installed at a path

rootVars == <<host, root, shipped>>

None == [kind |-> "none"]
Dir == [kind |-> "dir"]
File(by) == [kind |-> "file", by |-> by]
LinkTo(path) == [kind |-> "symlink", to |-> path]
Above(path) == Prefixes(path) \ {path}
Release == <<"usr", "lib", "os-release">>
EtcRelease == <<"etc", "os-release">>

With(f, key, value) == [x \in DOMAIN f \cup {key} |-> IF x = key THEN value ELSE f[x]]
Without(f, key) == [x \in DOMAIN f \ {key} |-> f[x]]

-----------------------------------------------------------------------------
(* The disk. *)

NodeAt(disk, at) == IF at \in DOMAIN disk THEN disk[at] ELSE None

\* A link leads on while it leads to a link, as often as the host allows.
MaxLinks == 40
Hop(disk, at) == IF NodeAt(disk, at).kind = "symlink" THEN disk[at].to ELSE at
Follow(disk, at) ==
  LET hop[n \in 0..MaxLinks] == IF n = 0 THEN at ELSE Hop(disk, hop[n - 1])
  IN  IF NodeAt(disk, at).kind = "symlink" THEN hop[MaxLinks] ELSE at

\* where a path leads, links followed
Where(disk, path) ==
  LET at[n \in 0..Len(path)] ==
        IF n = 0 THEN <<>> ELSE Follow(disk, Append(at[n - 1], path[n]))
  IN  at[Len(path)]
\* where its last name stands
Entry(disk, path) == Append(Where(disk, Front(path)), Last(path))

\* os.makedirs(path, exist_ok=True) raises at a file, at links that lead to
\* each other, and at a dangling link
Blocked(disk, path) ==
  \E q \in Prefixes(path) \ {<<>>} :
    \/ NodeAt(disk, Where(disk, q)).kind \in {"file", "symlink"}
    \/ NodeAt(disk, Entry(disk, q)).kind = "symlink" /\ Where(disk, q) \notin DOMAIN disk
MakeDirs(disk, path) ==
  LET made == {Where(disk, q) : q \in Prefixes(path) \ {<<>>}}
  IN  [at \in DOMAIN disk \cup made |-> IF at \in DOMAIN disk THEN disk[at] ELSE Dir]

\* open(path, "wb") can write: not a directory, and not through a link into
\* a directory that is not there
Writable(disk, path) ==
  LET at == Where(disk, path) IN
  /\ NodeAt(disk, at).kind \in {"none", "file"}
  /\ NodeAt(disk, Front(at)).kind = "dir"
  /\ host = "windows" => Last(path) \notin OddNames

-----------------------------------------------------------------------------
(* The writers.  Each takes the tree and gives the next one. *)

Record(tree, path, kind, mode, to) ==
  LET link == kind \in {"symlink", "hardlink"} IN
  [tree EXCEPT !.modes = With(@, path, IF kind = "symlink" THEN "exec" ELSE mode),
               !.links = IF link THEN With(@, path, [kind |-> kind, to |-> to]) ELSE @]

Raise(tree) == [tree EXCEPT !.ok = FALSE]

AddDir(tree, path, mode) ==
  IF ~tree.ok \/ Blocked(tree.disk, path) THEN Raise(tree)
  ELSE Record([tree EXCEPT !.disk = MakeDirs(@, path)], path, "dir", mode, <<>>)

\* os.symlink: refused by a Windows host, where something is in the way, and
\* where there is no directory
Symlink(disk, path, to) ==
  IF /\ host = "posix" /\ Entry(disk, path) \notin DOMAIN disk
     /\ NodeAt(disk, Where(disk, Front(path))).kind = "dir"
    THEN With(disk, Entry(disk, path), LinkTo(to)) ELSE disk

\* what is there is unlinked, which a directory is not
Unlink(disk, path) ==
  IF NodeAt(disk, Entry(disk, path)).kind \in {"file", "symlink"}
    THEN Without(disk, Entry(disk, path)) ELSE disk

AddSymlink(tree, path, to) ==
  IF Blocked(tree.disk, Front(path)) THEN Raise(tree)
  ELSE Record([tree EXCEPT !.disk = Symlink(Unlink(MakeDirs(@, Front(path)), path), path, to)],
              path, "symlink", "exec", to)

\* a file of a package; what the host cannot write is kept aside
AddFile(tree, path, mode, by) ==
  LET disk == MakeDirs(tree.disk, Front(path)) IN
  IF Blocked(tree.disk, Front(path)) THEN Raise(tree)
  ELSE LET noted == Record(tree, path, "file", mode, <<>>) IN
       IF Writable(disk, path)
         THEN [noted EXCEPT !.disk = With(disk, Where(disk, path), File(by))]
         ELSE [noted EXCEPT !.disk = disk,
                            !.extra = Append(@, [path |-> path, mode |-> mode, by |-> by])]

\* a file of Buster's: what the host cannot write is an error
WriteText(tree, path, mode) ==
  LET disk == MakeDirs(tree.disk, Front(path)) IN
  IF ~tree.ok \/ Blocked(tree.disk, Front(path)) \/ ~Writable(disk, path) THEN Raise(tree)
  ELSE Record([tree EXCEPT !.disk = With(disk, Where(disk, path), File("buster"))],
              path, "file", mode, <<>>)

\* packages older than the merged /usr name bin/x what is usr/bin/x
Normalize(path) == IF path # <<>> /\ path[1] \in Alias THEN <<"usr">> \o path ELSE path

Layout ==
  LET dirs == BaseDirs \cup {<<>>}
      merged == {<<name>> : name \in Alias}
  IN  [disk  |-> [at \in dirs \cup merged |->
                    IF at \in dirs \/ host # "posix" THEN Dir ELSE LinkTo(<<"usr">> \o at)],
       modes |-> [at \in BaseDirs \cup merged |-> "exec"],
       links |-> [at \in merged |-> [kind |-> "symlink", to |-> <<"usr">> \o at]],
       extra |-> <<>>, ok |-> TRUE]

\* one member of a package's payload; nothing follows a writer that raised
Install(tree, member, by) ==
  LET path == Normalize(member.name) IN
  IF ~tree.ok THEN tree
  ELSE CASE member.kind = "dir"      -> AddDir(tree, path, member.mode)
         [] member.kind = "symlink"  -> AddSymlink(tree, path, member.to)
         [] member.kind = "hardlink" -> Record(tree, path, "hardlink", "exec", member.to)
         [] member.kind = "file"     -> AddFile(tree, path, member.mode, by)

InstallPayload(tree, members, by) ==
  LET after[n \in 0..Len(members)] == IF n = 0 THEN tree ELSE Install(after[n - 1], members[n], by)
  IN  after[Len(members)]

ShipOne(sent, member, by) ==
  LET path == Normalize(member.name) IN
  IF member.kind = "file" THEN With(sent, path, [mode |-> member.mode, by |-> by])
                          ELSE Without(sent, path)

Ship(sent, members, by) ==
  LET after[n \in 0..Len(members)] == IF n = 0 THEN sent ELSE ShipOne(after[n - 1], members[n], by)
  IN  after[Len(members)]

\* write_os_release: the file under usr/lib, and etc/os-release a link to it,
\* or a copy on a host without links
WriteRelease(tree) ==
  LET one  == WriteText(tree, Release, "data")
      bare == Unlink(one.disk, EtcRelease)
  IN  IF ~one.ok THEN one
      ELSE IF Symlink(bare, EtcRelease, Release) # bare
        THEN Record([one EXCEPT !.disk = Symlink(bare, EtcRelease, Release)],
                    EtcRelease, "symlink", "exec", Release)
      ELSE WriteText([one EXCEPT !.disk = bare], EtcRelease, "data")

WriteAll(tree, files) ==
  LET after[n \in 0..Len(files)] ==
        IF n = 0 THEN tree ELSE WriteText(after[n - 1], files[n].path, files[n].mode)
  IN  after[Len(files)]

\* write_dpkg_state: the package manager's own directories and files; what a package
\* has left at two of them is kept.
Database == <<"var", "lib", "dpkg">>
DpkgFiles(disk, packages, contents) ==
  LET at(name) == Database \o <<name>>
      info(name) == Database \o <<"info", name>>
  IN  <<at("arch")>>
      \o LET own == <<at("diversions"), at("statoverride")>>
         IN  Those(own, {i \in DOMAIN own : Entry(disk, own[i]) \notin DOMAIN disk})
      \o <<at("status")>>
      \o [i \in DOMAIN packages |-> info(packages[i] \o ".list")]
      \o LET with == Those(packages, {i \in DOMAIN packages : contents[packages[i]].conffiles})
         IN  [i \in DOMAIN with |-> info(with[i] \o ".conffiles")]

WriteDpkg(tree, packages, contents) ==
  LET made[n \in 0..Len(DpkgDirs)] == IF n = 0 THEN tree ELSE AddDir(made[n - 1], DpkgDirs[n], "exec")
      files == DpkgFiles(tree.disk, packages, contents)
  IN  WriteAll(made[Len(DpkgDirs)], [i \in DOMAIN files |-> [path |-> files[i], mode |-> "data"]])

\* write_base_config and write_passwd_db, write_os_release, install_buster
WriteSystem(tree) == WriteAll(WriteRelease(WriteAll(tree, BaseFiles)), LayerFiles)

-----------------------------------------------------------------------------
(* The archive: pack_tree. *)

\* os.walk does not descend into what the overlay calls a link
Walked(tree) ==
  {at \in DOMAIN tree.disk \ {<<>>} : Above(at) \cap DOMAIN tree.links = {}}

\* Mutated form: modes are read back from the staging tree, which has none on
\* a Windows host
StagedMode(tree, at, default) ==
  IF at \notin DOMAIN tree.modes \/ host = "windows" THEN default ELSE tree.modes[at]

ModeOf(tree, at, default) ==
  IF at \notin DOMAIN tree.modes \/ tree.modes[at] = "none" THEN default ELSE tree.modes[at]

\* A link the overlay does not know, because it was made through another
\* one, is packed as what it leads to; it must lead somewhere.
Met(tree, at) == NodeAt(tree.disk, Follow(tree.disk, at))
Packable(tree) == \A at \in Walked(tree) \ DOMAIN tree.links : Met(tree, at).kind \in {"dir", "file"}

Member(tree, at) ==
  IF at \in DOMAIN tree.links
    THEN [kind |-> tree.links[at].kind, mode |-> "exec", to |-> tree.links[at].to]
  ELSE IF at \in Walked(tree)
    THEN IF Met(tree, at).kind = "dir" THEN [kind |-> "dir", mode |-> ModeOf(tree, at, "exec")]
         ELSE [kind |-> "file", mode |-> ModeOf(tree, at, "data"), by |-> Met(tree, at).by]
  ELSE LET e == tree.extra[First({i \in DOMAIN tree.extra : tree.extra[i].path = at})] IN
       [kind |-> "file", mode |-> IF e.mode = "none" THEN "data" ELSE e.mode, by |-> e.by]

Packed(tree) ==
  [at \in Walked(tree) \cup DOMAIN tree.links \cup {e.path : e \in ToSet(tree.extra)}
     |-> Member(tree, at)]
=============================================================================
