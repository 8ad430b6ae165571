---------------------------- MODULE PutFileProps ----------------------------
(***************************************************************************)
(* What put_file should guarantee.                                         *)
(***************************************************************************)
EXTENDS PutFile

(* s starts v: its blocks are the first ones of v, in order. *)
Starts(s, v) == /\ Len(s) <= Size[v]
                /\ \A i \in 1..Len(s) : s[i] = <<v, i>>

(* s is the whole of a version published under n. *)
Whole(n, s) == \E v \in published : NameOf[v] = n /\ s = Content(v)

(* The environments in which no file is listed before it is whole. *)
Orderly == env \subseteq {"fault", "late", "backup"}

(* Those in which nothing of an abandoned session falls between the SIZE and *)
(* the APPE of a later transfer, or into the file that it stores.            *)
Tidy == "race" \notin env

-----------------------------------------------------------------------------
(* A reader of REMOTEDIR sees a whole version or nothing: a file is stored  *)
(* as .name and renamed once its size is right (fexp.c 675-679).  Where     *)
(* RNTOs run late he may see a part of a file, but only while its source    *)
(* is there: it is replaced before that goes.                               *)
WholeFile ==
  Orderly =>
    \A n \in Names :
      remote[n] # NoFile /\ ("late" \notin env \/ local[n] = NoFile) =>
        Whole(n, remote[n])

(* Whatever is stored, resumed, and renamed late, but for the races that     *)
(* "race" stands for, also of files that grow: a file in REMOTEDIR is the   *)
(* beginning of one version published under its name, not a mix.            *)
NoTornFile ==
  Tidy =>
    \A n \in Names : remote[n] # NoFile =>
      \E v \in published : NameOf[v] = n /\ Starts(remote[n], v)

(* With BAKDIR set a version that has left localDir is in the backup        *)
(* directory (fexp.c 690-699), until another of the same name follows it;   *)
(* so also when files grow and whatever abandoned sessions still do.        *)
BackupKeepsAll ==
  "backup" \in env =>
    \A v \in published :
      LET n == NameOf[v] IN
        \/ v \in {local[n], lbak[n]}
        \/ \E w \in published \ {v} : NameOf[w] = n /\ lbak[n] = w

(* put_file implements the promise of Delivery in orderly environments: a   *)
(* file leaves localDir only when its whole content has been renamed to its *)
(* name on the server (fexp.c 675-690), although the SIZE and rename that   *)
(* decide it run on a server where an earlier RNTO may still run.  Of the   *)
(* other environments nothing is said.                                      *)
Waiting == {v \in published : local[NameOf[v]] = v}
Promise == INSTANCE Delivery WITH
             offered <- IF Orderly THEN published ELSE {},
             waiting <- IF Orderly THEN Waiting ELSE {},
             delivered <- IF Orderly THEN delivered ELSE {}

Implements == Promise!Spec

(* The thread spins in readresp until somebody ends the program (ftplib.c   *)
(* 289-299).                                                                *)
Hung == <>[](pc = "spin")

(* Every file is delivered and leaves localDir in the end, or the thread     *)
(* hangs: whatever a failed pass left on the server, a later one resumes or  *)
(* replaces (fexp.c 613-619).                                               *)
DeliveredEventually ==
  Hung \/ \A v \in Versions : Orderly /\ v \in published ~>
                                 v \in delivered /\ local[NameOf[v]] # v

-----------------------------------------------------------------------------
(* The thread is busy with src. *)
Busy == pc \in {"start", "xfer", "verify", "rename", "remove"}

(* localDir holds published versions under their names, those that are to  *)
(* be sent among them, and the one that the thread is busy with.           *)
SourceInv ==
  /\ \A n \in Names : local[n] # NoFile =>
       local[n] \in published /\ NameOf[local[n]] = n
  /\ \A v \in Versions : len[v] <= Size[v]
  /\ \A n \in todo : local[n] # NoFile
  /\ Busy => local[Cur] = src /\ Cur \notin todo
  /\ pc # "xfer" => wire = <<>>

(* A temporary file starts the version that waits under its name. *)
TmpInv ==
  \A n \in Names : rtmp[n] # NoFile =>
    local[n] # NoFile /\ Starts(rtmp[n], local[n])

(* The file that STOR or APPE opened, under whichever name it has now. *)
Target == IF sink = "tmp" THEN rtmp[Cur] ELSE remote[Cur]

(* The transfer under way: APPE is sent only when all that is in the file   *)
(* is skipped; what is stored, and then what is on the wire, are the blocks  *)
(* of the file that waits, up to the last one read.                         *)
XferInv ==
  /\ pc = "start" /\ rpos > 0 => rtmp[Cur] # NoFile /\ rpos = Len(rtmp[Cur])
  /\ pc = "xfer" => /\ sink \in {"tmp", "dest"}
                    /\ Len(Target) + Len(wire) = rpos /\ rpos <= Size[src]
                    /\ \A i \in 1..Len(Target) : Target[i] = <<src, i>>
                    /\ \A i \in 1..Len(wire) : wire[i] = <<src, Len(Target) + i>>
                    /\ sink = "dest" => rtmp[Cur] = NoFile /\ "late" \in env
  /\ pc = "remove" => rtmp[Cur] = NoFile

(* What abandoned sessions left is carried out late only where the           *)
(* environment says so.                                                     *)
LateInv == /\ "late" \notin env => \A n \in Names : late[n] = 0
           /\ Tidy => stray = [n \in Names |-> Nothing]

(* Where no file is listed before it is whole, the listing says how long   *)
(* the files are.                                                          *)
SizeInv ==
  /\ \A v \in published : len[v] = Size[v]
  /\ \A n \in todo : listed[n] = Size[local[n]]
  /\ pc \in {"start", "xfer", "verify"} => listed[Cur] = Size[src]

(* There, a version that is gone, or is about to go, was delivered, and     *)
(* stands whole in REMOTEDIR in the second case; one that is about to be    *)
(* renamed is whole.                                                        *)
SentInv ==
  /\ \A v \in published : local[NameOf[v]] = v \/ v \in delivered
  /\ pc = "rename" => rtmp[Cur] \in {NoFile, Content(src)}
  /\ pc = "remove" => src \in delivered /\ Whole(Cur, remote[Cur])

(* The inductive invariant of the proofs: what holds in every environment;   *)
(* that the blocks of a file stay together where nothing races; and that    *)
(* where, besides, files are listed whole they are sent whole.              *)
SharedInv == /\ TypeOK
             /\ SourceInv
             /\ LateInv
             /\ BackupKeepsAll

TidyInv == TmpInv /\ XferInv /\ NoTornFile

WholeInv == SizeInv /\ SentInv /\ WholeFile

Agreement == SharedInv /\ (Tidy => TidyInv) /\ (Orderly => WholeInv)
=============================================================================
