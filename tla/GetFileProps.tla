---------------------------- MODULE GetFileProps ----------------------------
(***************************************************************************)
(* What get_file should guarantee, and the inductive invariant behind it.  *)
(***************************************************************************)
EXTENDS GetFile

(* No two versions are published under one name. *)
UniqueNames == "reuse" \notin env

(* s starts v: its blocks are the first ones of v, in order. *)
Starts(s, v) == /\ Len(s) <= Size[v]
                /\ \A i \in 1..Len(s) : s[i] = <<v, i>>

(* The environments in which no version is replaced or listed before it is *)
(* whole, write() stores what it is given, and a removal runs late only     *)
(* where names are not used again.                                          *)
Orderly == /\ env \subseteq {"fault", "late", "backup", "reuse"}
           /\ "late" \in env => UniqueNames

-----------------------------------------------------------------------------
(* Every version that was published is still on the server or was whole in *)
(* localDir once.                                                          *)
NoLoss == \A v \in published : remote[NameOf[v]] = v \/ v \in delivered

(* A file leaves the remote directory only when its whole content has been *)
(* put into localDir under its name: get_file's DELE or RNTO (fexp.c       *)
(* 506-523) never runs ahead of, or besides, its rename (499), and a       *)
(* removal that runs late removes nothing that was not delivered.          *)
NothingLost == Orderly => NoLoss

(* What stands in localDir is the whole of one version published under that *)
(* name.                                                                    *)
WholeFile ==
  \A n \in Names : local[n] # <<>> =>
    \E v \in published : NameOf[v] = n /\ local[n] = Content(v)

(* Whatever partial transfers, resumptions and refused resumptions (fexp.c  *)
(* 446-489) put a file together, localDir has whole files only.             *)
OnlyWhole == Orderly => WholeFile

(* A disk that takes less than it is given, which nothing looks at where it *)
(* happens (fexp.c 475), does no harm as long as nothing else goes wrong:   *)
(* the size of the temporary file tells (fexp.c 499).                       *)
ShortIsCaught == env \subseteq {"short", "reuse"} => NoLoss /\ WholeFile

(* Even when files are listed while they grow, or are replaced and nothing *)
(* fails, a file in localDir is the beginning of one version, never a mix   *)
(* of two.  (A temporary file that an interrupted transfer left behind is   *)
(* resumed, fexp.c 446-468, with whatever has its name by then: a file that *)
(* replaced the first, or one published after a late removal of it.)        *)
Unmixed == /\ "short" \notin env
           /\ ~({"fault", "replace"} \subseteq env)
           /\ ~({"late", "reuse"} \subseteq env)

NoTornFile ==
  Unmixed =>
    \A n \in Names : local[n] # <<>> =>
      \E v \in published : NameOf[v] = n /\ Starts(local[n], v)

(* A resumed transfer only adds: once a block is in a temporary file, no   *)
(* step but the end of the transfer (rename or unlink, fexp.c 499-502)     *)
(* changes it, at whatever offset a transfer restarts.                     *)
TmpOnlyGrows ==
  [][Orderly =>
       \A n \in Names :
         \/ pc = "verify" /\ n = Cur
         \/ /\ Len(tmp[n]) <= Len(tmp'[n])
            /\ \A i \in 1..Len(tmp[n]) : tmp'[n][i] = tmp[n][i]]_vars

(* Without faults a version is put into localDir at most once: the removal *)
(* that follows the rename (fexp.c 504-523) keeps the next listing from    *)
(* naming it again, also when files are replaced or grow.                  *)
ExactlyOnce ==
  [][pc = "verify" /\ pc' = "remove" /\ "fault" \notin env =>
       src \notin delivered]_vars

(* With BAKDIR set every version stays on the server, in the remote         *)
(* directory or in the backup directory (fexp.c 514-523), until another of  *)
(* its name follows it there; so whatever fails, or runs late, or grows.    *)
BackupKeepsAll ==
  "backup" \in env /\ "replace" \notin env =>
    \A v \in published :
      LET n == NameOf[v] IN
        \/ v \in {remote[n], bak[n]}
        \/ \E w \in published \ {v} : NameOf[w] = n /\ bak[n] = w

(* get_file implements the promise of Delivery in orderly environments; of *)
(* the others nothing is said.                                             *)
Waiting == {v \in published : remote[NameOf[v]] = v}
Promise == INSTANCE Delivery WITH
             offered <- IF Orderly THEN published ELSE {},
             waiting <- IF Orderly THEN Waiting ELSE {},
             delivered <- IF Orderly THEN delivered ELSE {}

Implements == Promise!Spec

(* The thread spins in readresp until somebody ends the program (ftplib.c   *)
(* 289-299).                                                                *)
Hung == <>[](pc = "spin")

(* Every file published is delivered in the end, or the thread hangs: after *)
(* a failure the pass is abandoned, the session reopened and the directory   *)
(* listed again (fexp.c 416-434), what an earlier transfer left behind does  *)
(* not stop it, and a program that was restarted goes on.                    *)
DeliveredEventually ==
  Hung \/ \A v \in Versions : Orderly /\ v \in published ~> v \in delivered

(* A file name in the remote directory does not stay there for ever, also  *)
(* when the file is replaced by a shorter one during its transfer, unless  *)
(* the thread hangs.                                                       *)
EmptiedEventually ==
  Hung \/
    \A n \in Names :
      remote[n] # NoFile /\ "short" \notin env ~> remote[n] = NoFile

-----------------------------------------------------------------------------
(* What UniqueNames means, in every environment. *)
NamesInv ==
  UniqueNames => \A v, w \in published : NameOf[v] = NameOf[w] => v = w

(* The remote directory holds whole versions, under their names. *)
ServerInv ==
  /\ \A n \in Names : remote[n] # NoFile =>
       remote[n] \in published /\ NameOf[remote[n]] = n
  /\ \A v \in published : len[v] = Size[v]
  /\ delivered \subseteq published

(* A temporary file starts the version that waits under its name. *)
TmpInv ==
  \A n \in Names : tmp[n] # <<>> =>
    \E v \in published : /\ NameOf[v] = n
                         /\ Starts(tmp[n], v)
                         /\ remote[n] = v \/ UniqueNames

(* The sizes of the listing are those of the files it named. *)
ListInv ==
  \A n \in todo :
    \E v \in published : /\ NameOf[v] = n
                         /\ listed[n] = Size[v]
                         /\ remote[n] = v \/ UniqueNames

(* The transfer under way writes at the server's position, within the file *)
(* that starts the version it reads.                                       *)
XferInv ==
  pc \in {"xfer", "verify", "remove"} =>
    /\ src \in published
    /\ listed[Cur] = Size[src]
    /\ Cur \notin todo
    /\ remote[Cur] = src \/ (UniqueNames /\ src \in delivered)
    /\ Starts(tmp[Cur], src)
    /\ pc = "xfer" => off = rpos /\ rpos <= Len(tmp[Cur])
    /\ pc = "remove" => src \in delivered /\ tmp[Cur] = <<>>

(* A removal that is still to run names a version that was delivered. *)
LateInv ==
  \A n \in Names : late[n] > 0 =>
    UniqueNames /\ \E v \in delivered : NameOf[v] = n

IInv == /\ TypeOK
        /\ ServerInv
        /\ TmpInv
        /\ ListInv
        /\ XferInv
        /\ LateInv
        /\ NoLoss
        /\ WholeFile

(* The inductive invariant of the proofs: the server keeps whole versions,  *)
(* what is stored starts the version being read, and the listing, the       *)
(* transfer and the removals still to run agree on which version that is.   *)
Agreement == NamesInv /\ (Orderly => IInv)

-----------------------------------------------------------------------------
(* What holds in every environment. *)
EntriesInv ==
  /\ \A n \in Names : remote[n] # NoFile =>
       remote[n] \in published /\ NameOf[remote[n]] = n
  /\ \A v \in Versions : len[v] <= Size[v]
  /\ delivered \subseteq published
  /\ \A n \in Names : late[n] > 0 => {"fault", "late"} \subseteq env
  /\ pc \in {"xfer", "verify", "remove"} => src \in published

(* Without faults the session lives, and what was delivered is no longer in *)
(* the remote directory, unless its removal is the next step.               *)
OnceInv ==
  "fault" \notin env =>
    /\ pc # "poll" => alive
    /\ \A v \in delivered : remote[NameOf[v]] = v => pc = "remove" /\ src = v
    /\ pc \in {"xfer", "verify"} => src \notin delivered

(* Only a transfer under way has a temporary file. *)
TmpEmpty ==
  \A n \in Names : tmp[n] # <<>> => pc \in {"xfer", "verify"} /\ n = Cur

(* The file being read is the one its temporary file starts. *)
ReadInv ==
  pc \in {"xfer", "verify", "remove"} =>
    /\ Starts(tmp[Cur], src)
    /\ pc = "xfer" => off = rpos /\ rpos <= Len(tmp[Cur])
    /\ pc = "remove" => tmp[Cur] = <<>>
    /\ remote[Cur] = src \/ UniqueNames \/ "replace" \in env

(* A temporary file starts one version: where files are replaced, the one   *)
(* that is being read, and elsewhere the one that waits under its name.     *)
UnmixedInv ==
  Unmixed => /\ ReadInv
             /\ IF "replace" \in env THEN TmpEmpty ELSE TmpInv

(* Where only writes fall short, a temporary file is as long as what was    *)
(* read or else, for good, shorter; it is right in the first case.          *)
ShortInv ==
  env \subseteq {"short", "reuse"} =>
    /\ TmpEmpty
    /\ \A v \in published : len[v] = Size[v]
    /\ \A n \in todo : remote[n] # NoFile /\ listed[n] = Size[remote[n]]
    /\ pc \in {"xfer", "verify", "remove"} =>
         remote[Cur] = src /\ Cur \notin todo /\ listed[Cur] = Size[src]
    /\ pc \in {"xfer", "verify"} =>
         /\ off = Len(tmp[Cur]) /\ off <= rpos /\ rpos <= Size[src]
         /\ off = rpos => Starts(tmp[Cur], src)
         /\ pc = "verify" => rpos = Size[src]
    /\ pc = "remove" => src \in delivered

(* The inductive invariants of all environments together. *)
Consistent == /\ TypeOK
              /\ NamesInv
              /\ Orderly => IInv
              /\ EntriesInv
              /\ BackupKeepsAll
              /\ OnceInv
              /\ UnmixedInv
              /\ NoTornFile
              /\ ShortInv
              /\ ShortIsCaught
=============================================================================
