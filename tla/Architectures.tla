----------------------------- MODULE Architectures -----------------------------
(***************************************************************************)
(* The architectures images are built for (osbuild/architectures.py): each *)
(* has a token, which names it on a mirror, and may have aliases.          *)
(***************************************************************************)
EXTENDS SequencesExt

\* ArchMeta; elf: the machine and the class of its binaries; deb_lib_dir() is libDir
ArchMeta(token, aliases, elf, triplet, loader, tier) ==
  [token |-> token, aliases |-> aliases, elf |-> elf, libDir |-> <<"usr", "lib", triplet>>,
   loaders |-> {loader}, tier |-> tier]

ArchRegistry ==
  << ArchMeta("amd64", {"x86_64"}, <<62, 2>>, "x86_64-linux-gnu", "ld-linux-x86-64.so.2", "enabled"),
     ArchMeta("arm64", {"aarch64"}, <<183, 2>>, "aarch64-linux-gnu", "ld-linux-aarch64.so.1", "enabled"),
     ArchMeta("armhf", {"armv7l", "armv7l-gnueabihf"}, <<40, 2>>, "arm-linux-gnueabihf", "ld-linux-armhf.so.3", "candidate"),
     ArchMeta("armel", {}, <<40, 2>>, "arm-linux-gnueabi", "ld-linux.so.3", "candidate"),
     ArchMeta("i386", {"x86"}, <<3, 1>>, "i386-linux-gnu", "ld-linux.so.2", "candidate"),
     ArchMeta("ppc64el", {"ppc64le", "powerpc64le"}, <<21, 2>>, "powerpc64le-linux-gnu", "ld64.so.2", "candidate"),
     ArchMeta("s390x", {}, <<22, 2>>, "s390x-linux-gnu", "ld64.so.1", "candidate"),
     ArchMeta("riscv64", {}, <<243, 2>>, "riscv64-linux-gnu", "ld-linux-riscv64-lp64d.so.1", "candidate"),
     ArchMeta("mips64el", {}, <<8, 2>>, "mips64el-linux-gnuabi64", "ld-2.31.so", "candidate") >>

\* lookup(): by the token first, then by an alias; none raises
Meant(name) ==
  LET token == SelectInSeq(ArchRegistry, LAMBDA meta : meta.token = name)
  IN  IF token # 0 THEN token ELSE SelectInSeq(ArchRegistry, LAMBDA meta : name \in meta.aliases)
Supported(name) == Meant(name) # 0
LookupArch(name) == ArchRegistry[Meant(name)]

IsSeq(s) == s \in Seq(ToSet(s))

\* the elements of a sequence that stand at some of its positions, in their order
Those(s, positions) ==
  LET upTo(i) == {j \in positions : j <= i}
  IN  [n \in 1..Cardinality(positions) |-> s[CHOOSE i \in positions : Cardinality(upTo(i)) = n]]

First(S) == CHOOSE i \in S : \A j \in S : i <= j

\* enabled() and candidates(), by their tokens
Tier(tier) ==
  LET metas == Those(ArchRegistry, {i \in DOMAIN ArchRegistry : ArchRegistry[i].tier = tier})
  IN  [i \in DOMAIN metas |-> metas[i].token]
Enabled == Tier("enabled")
Candidates == Tier("candidate")
===============================================================================
