---------------------------- MODULE MCReleaseBuild ----------------------------
(* amd64 has many indexes and plain payloads, arm64 one index and payloads *)
(* with what may go wrong with a path; armhf, a candidate, is built while  *)
(* the candidates are evaluated; aarch64 is an alias, mips nothing.        *)
EXTENDS ReleaseBuild, TLC

bin == <<"usr", "bin">>
lib == <<"usr", "lib">>
etc == <<"etc">>
dpkg == bin \o <<"dpkg">>
launch == bin \o <<"buster">>
x == lib \o <<"x">>
bash == bin \o <<"bash">>
ld(arch) == LookupArch(arch).libDir \o <<CHOOSE name \in LookupArch(arch).loaders : TRUE>>
passwd == etc \o <<"passwd">>

MCBaseDirs == {<<"usr">>, bin, lib, etc}
MCAlias == {"bin", "lib"}
MCDpkgDirs == <<Database \o <<"info">> >>
MCBase == << [path |-> passwd, mode |-> "data"] >>
MCLayer == << [path |-> launch, mode |-> "exec"] >>
MCRequired == {EtcRelease, passwd, dpkg, Release, <<"bin">>, <<"lib">>}
MCProbes == {dpkg, bash}
MCDataProbes == {passwd, EtcRelease, Release}
MCDirProbes == {bin, etc, <<"usr">>}

(* Versions: 9, 10, 9.1, 1:9 and 9~a, and their records. *)
num(n) == IF n < 10 THEN <<48 + n>> ELSE <<48 + (n \div 10), 48 + (n % 10)>>
plain(n) == [epoch |-> 0, up |-> <<num(n)>>, down |-> <<>>]
v9 == plain(9)
v10 == plain(10)
v91 == [v9 EXCEPT !.up = @ \o << <<46>>, num(1) >>]
e9 == [v9 EXCEPT !.epoch = 1]
v9a == [v9 EXCEPT !.up = @ \o << <<126>>, <<97>> >>, !.down = <<num(1)>>]

stanza(name, version, arch) ==
  ("Package" :> name) @@ ("Version" :> version) @@ ("Architecture" :> arch)
filed(name, version, arch) == stanza(name, version, arch) @@ ("Filename" :> name)
any(name) == [name |-> name, op |-> "", version |-> v9]
bound(name, op, version) == [name |-> name, op |-> op, version |-> version]

libs(arch) ==
  { <<filed("lib", v, arch)>> : v \in {v9, v10, v91, e9, v9a} }
  \cup { <<filed("lib", v9, arch), filed("lib", v10, arch)>>,
         <<stanza("meta", v9, arch) @@ ("Depends" :> << <<any("lib")>> >>) @@ ("Provides" :> {"lib", "virtual"})>>,
         <<filed("lib", v10, arch), stanza("meta", v9, arch) @@ ("Provides" :> {"virtual"})>> }
needs ==
  { "Depends" :> << <<bound("lib", ">=", v10)>> >>,
    "Pre-Depends" :> << <<bound("lib", "<", v91)>> >>,
    "Depends" :> << <<bound("lib", "=", v10), any("virtual")>> >>,
    ("Depends" :> << <<any("lib"), any("virtual")>> >>) @@ ("Pre-Depends" :> << <<any("virtual")>> >>) }
nameless == "Version" :> v9
common == <<nameless, ("Package" :> "data") @@ ("Filename" :> "data") @@ ("Provides" :> {"files"})>>
mirrors(arch) ==
  { << <<filed("base", v9, arch) @@ n>> \o l, common>> : n \in needs, l \in libs(arch) }

file(path, mode) == [kind |-> "file", name |-> path, mode |-> mode, to |-> <<>>]
link(path, to) == [kind |-> "symlink", name |-> path, mode |-> "exec", to |-> to]
hard(path, to) == [kind |-> "hardlink", name |-> path, mode |-> "exec", to |-> to]
folder(path) == [kind |-> "dir", name |-> path, mode |-> "exec", to |-> <<>>]

std(arch) ==
  << folder(<<"bin">>), file(<<"bin", "dpkg">>, "exec"), file(bash, "exec"), file(ld(arch), "exec") >>
odd ==
  { file(x, "none"), file(x \o <<"y">>, "data"),
    file(etc \o <<"alt", "x">>, "exec"), file(dpkg, "data"), link(bin, lib), link(EtcRelease, Release), file(EtcRelease, "data"),
    hard(bin \o <<"h">>, dpkg), file(lib \o <<"a::b">>, "exec"), file(etc, "data"),
    link(ld("arm64"), lib \o <<"ld-2.36.so">>) }
early ==
  { link(dpkg, x), link(bin, lib), file(etc, "data"), link(etc \o <<"alt">>, lib) }
late ==
  { file(x, "exec"), link(etc \o <<"alt">>, lib),
    link(dpkg, x), file(Database \o <<"diversions">>, "exec"), file(Database, "data") }

\* links made through another one: to a directory, and to a file that may be there
chained ==
  << link(etc \o <<"alt">>, lib), link(etc \o <<"alt", "s">>, bin), link(etc \o <<"alt", "t">>, x) >>

(* The archives: the payloads in .deb files, and a few that are damaged. *)
member(name, holds) == [name |-> name, whole |-> TRUE, holds |-> holds]
deb(said, files) ==
  [magic |-> TRUE, members |-> <<member("debian-binary", {}), member(Control, said), member(Data, files)>>]
debs(said, S) == {deb(said, files) : files \in S}
bare == deb({"control"}, <<>>)
damaged(files) ==
  { [magic |-> FALSE, members |-> <<>>],
    [deb({"control"}, files) EXCEPT !.members[3].whole = FALSE],
    [magic |-> TRUE, members |-> <<member("//", {}), member(Data, files)>>] }

plainly(arch) ==
  [base |-> debs({"control", "conffiles"}, {std(arch)}), lib |-> {bare}, meta |-> {bare}, data |-> {bare}]
MCPayload ==
  [ amd64 |-> plainly("amd64"),
    armhf |-> plainly("armhf"), aarch64 |-> plainly("aarch64"),
    arm64 |-> [plainly("arm64") EXCEPT
                 !.base = @ \cup debs({"control"}, {<<a>> \o std("arm64") : a \in early}
                                                \cup {std("arm64") \o <<a>> : a \in odd})
                            \cup damaged(std("arm64")),
                 !.data = @ \cup debs({"control"}, {<<a>> : a \in late} \cup {chained})] ]
(* The binaries of armhf are of the 32-bit class. *)
MCHeaders ==
  [ amd64 |-> [base |-> <<62, 2>>], arm64 |-> [base |-> <<183, 2>>], armhf |-> [base |-> <<40, 1>>] ]

(* For an alias a mirror has no index of its own. *)
all == <<filed("lib", v9, "all")>> \o common
MCMirror ==
  [a \in {"amd64", "arm64", "aarch64"} \cup ToSet(Candidates) |->
     CASE a = "amd64" -> mirrors("amd64")
       [] a \in {"arm64", "armhf"} ->
            { << <<filed("base", v9, a) @@ ("Depends" :> << <<any("files")>> >>)>>, all>> }
       [] a = "aarch64" -> { << <<>>, all>> }
       [] OTHER -> { << <<>>, <<>> >> }]
MCSeeds == <<"base", "data", "files">>
MCRequests ==
  { [archs |-> <<"amd64", "arm64">>, check |-> FALSE],
    [archs |-> <<"aarch64", "mips">>, check |-> FALSE], [archs |-> <<"armhf">>, check |-> TRUE] }

\* base and data ship the same link; the theorem about what is packed speaks of these payloads
ASSUME PayloadsAgree == PathsAgree
===============================================================================
