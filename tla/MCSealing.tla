----------------------------- MODULE MCSealing ------------------------------
(***************************************************************************)
(* Sealing on a small scale.  Blocks of four bytes with a length field of  *)
(* two, so that salt and block index end where the field begins; two       *)
(* master keys of different lengths; tables of three cipher blocks and of  *)
(* one and a half chunks; counters of two binary digits, which wrap.       *)
(***************************************************************************)
EXTENDS Sealing

MCKeys   == {Text("a"), Text("b") \o Text("c")}
MCSalts  == {Text("salt")}
Entry(l) == [k \in 1..6 |-> {<<l>>}]
MCIvs    == {<<1, 1>>, <<0, 1>>}
MCTables == {Entry("x"), Entry("y")}
=============================================================================
