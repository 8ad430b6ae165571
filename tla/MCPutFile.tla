----------------------------- MODULE MCPutFile ------------------------------
(***************************************************************************)
(* Instances of PutFile for TLC.                                           *)
(***************************************************************************)
EXTENDS PutFileProps

\* three versions, the first two under one name and the second the longer
ReuseVersions == 1..3
ReuseNameOf == [v \in ReuseVersions |-> IF v < 3 THEN "a" ELSE "b"]
ReuseSize == [v \in ReuseVersions |-> IF v = 2 THEN 2 ELSE 1]
=============================================================================
