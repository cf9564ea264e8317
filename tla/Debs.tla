--------------------------------- MODULE Debs ---------------------------------
(***************************************************************************)
(* The packages of a mirror (osbuild/deb.py): a .deb is an ar archive of   *)
(* members [name, whole, holds], in which tar archives hold what is        *)
(* installed and what dpkg is told.  What is downloaded may be something   *)
(* else, and may end anywhere: a wrong md5 is only logged.                 *)
(***************************************************************************)
EXTENDS SequencesExt

Control == "control.tar"
Data == "data.tar"

\* parse_ar(): the members up to one that is cut off, without the symbol table
ParseAr(blob) ==
  LET torn == SelectInSeq(blob.members, LAMBDA m : ~m.whole)
      read == IF torn = 0 THEN blob.members ELSE SubSeq(blob.members, 1, torn - 1)
  IN  SelectSeq(read, LAMBDA m : m.name # "//")

\* data_tar(): the first member with that name, else it raises
DataAt(blob) == SelectInSeq(ParseAr(blob), LAMBDA m : m.name = Data)
DataTar(blob) == ParseAr(blob)[DataAt(blob)].holds

\* extract(): what the last control archive says, or nothing without one
Extract(blob) ==
  LET controls == SelectSeq(ParseAr(blob), LAMBDA m : m.name = Control)
  IN  [conffiles |-> controls # <<>> /\ "conffiles" \in Last(controls).holds]

\* neither of them raises
Readable(blob) == blob.magic /\ DataAt(blob) # 0
===============================================================================
