----------------------------- MODULE MCGetFile ------------------------------
(***************************************************************************)
(* An instance of GetFile for TLC: three versions, the first two under one *)
(* name and the second the longer.                                         *)
(***************************************************************************)
EXTENDS GetFileProps

MCVersions == 1..3
MCNameOf == [v \in MCVersions |-> IF v < 3 THEN "a" ELSE "b"]
MCSize == [v \in MCVersions |-> IF v = 2 THEN 2 ELSE 1]
=============================================================================
