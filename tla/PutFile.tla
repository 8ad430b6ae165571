------------------------------ MODULE PutFile -------------------------------
(***************************************************************************)
(* One "put" section of fexp: the thread that runs put_file (fexp.c        *)
(* 550-719), the local directory it empties, and the two directories of    *)
(* the server it fills: TMPDIR, where a file is stored as .name, and       *)
(* REMOTEDIR, where it is renamed to.                                      *)
(*                                                                         *)
(* Contents are sequences of blocks as in GetFile.  An entry of a server   *)
(* directory is NoFile or a content: here an empty file and no file are    *)
(* different things, because STOR makes the one from the other.            *)
(*                                                                         *)
(* An environment is a set of the following words; each behaviour has one  *)
(* of Environments throughout:                                             *)
(*   "fault"    as in GetFile, MaxFaults in all                            *)
(*   "late"     an RNTO sent on a session that was given up may still run, *)
(*              at any time but between the SIZE and the APPE of a transfer  *)
(*              of the same name                                             *)
(*   "race"     also there; and the STOR of such a session, or what it had   *)
(*              sent of a file, may still be carried out at any time; without *)
(*              this word that is done before the session is given up, or     *)
(*              never                                                         *)
(*   "grow"     the producer may be still writing a file that is listed    *)
(*   "backup"   BAKDIR is set: a file that was sent is moved there         *)
(***************************************************************************)
EXTENDS Integers, Sequences, FiniteSets

CONSTANTS Versions, Names, NameOf, Size, NoFile, Environments, MaxFaults

ASSUME NameOfAssumption == NameOf \in [Versions -> Names]
ASSUME SizeAssumption == Size \in [Versions -> Nat]
ASSUME NoFileAssumption == /\ NoFile \notin Versions
                           /\ NoFile \notin Seq(Versions \X Nat)
ASSUME FaultsAssumption == MaxFaults \in Nat

VARIABLES
  local,      \* localDir: the version under each name, or NoFile
  lbak,       \* the local backup directory
  len,        \* how many blocks of each version its producer has written
  published,  \* history: the versions that were ever put into localDir
  rtmp,       \* the server's TMPDIR: the content of .name, or NoFile
  remote,     \* the server's REMOTEDIR: the content of name, or NoFile
  late,       \* per name, RNTOs sent on abandoned sessions, still to run
  stray,      \* per name, what else the server still does for such a session
  sink,       \* the directory that now names the file STOR or APPE opened
  delivered,  \* history: the versions that were whole when renamed to remote
  pc, alive, todo, listed,   \* as in GetFile
  src,        \* the local file that is open for reading
  rpos,       \* startpoint; then how many of its blocks were read or skipped
  wire,       \* blocks written to the data connection, not yet stored
  faults,
  env         \* the environment, which does not change

source == <<local, lbak, len, published>>
server == <<rtmp, remote, late, stray, sink, delivered>>
thread == <<pc, alive, todo, listed, src, rpos, wire>>
vars   == <<source, server, thread, faults, env>>

Entries == Versions \cup {NoFile}
Blocks == Versions \X Nat
Cur == NameOf[src]
Content(v) == [i \in 1..len[v] |-> <<v, i>>]
Present == {n \in Names : local[n] # NoFile}

(* The directories that name a file on the server, if any does still.      *)
Places == {"tmp", "dest", "none"}

(* What is left of an abandoned session's transfer: blocks to be stored, and *)
(* the place of the file that they belong to, or its STOR (NoFile).         *)
Leftovers == [at : Places, rest : Seq(Blocks) \cup {<<NoFile>>}]
Nothing == [at |-> "none", rest |-> <<>>]

SourceOK ==
  /\ local \in [Names -> Entries]
  /\ lbak \in [Names -> Entries]
  /\ len \in [Versions -> Nat]
  /\ published \subseteq Versions

ServerOK ==
  /\ rtmp \in [Names -> Seq(Blocks) \cup {NoFile}]
  /\ remote \in [Names -> Seq(Blocks) \cup {NoFile}]
  /\ late \in [Names -> Nat]
  /\ stray \in [Names -> Leftovers]
  /\ sink \in Places
  /\ delivered \subseteq Versions
  /\ \A n \in Names : /\ (stray[n].at = "tmp" => rtmp[n] \in Seq(Blocks))
                       /\ (stray[n].at = "dest" => remote[n] \in Seq(Blocks))

ThreadOK ==
  /\ pc \in {"poll", "loop", "start", "xfer", "verify", "rename", "remove", "spin"}
  /\ alive \in BOOLEAN
  /\ todo \subseteq Names
  /\ listed \in [Names -> Nat]
  /\ src \in Entries
  /\ pc \in {"start", "xfer", "verify", "rename", "remove"} => src \in Versions
  /\ pc = "xfer" /\ sink = "tmp" => rtmp[Cur] \in Seq(Blocks)
  /\ pc = "xfer" /\ sink = "dest" => remote[Cur] \in Seq(Blocks)
  /\ rpos \in Nat
  /\ wire \in Seq(Blocks)
  /\ faults \in 0..MaxFaults

TypeOK == SourceOK /\ ServerOK /\ ThreadOK

Init ==
  /\ local = [n \in Names |-> NoFile]
  /\ lbak = [n \in Names |-> NoFile]
  /\ len = [v \in Versions |-> 0]
  /\ published = {}
  /\ rtmp = [n \in Names |-> NoFile]
  /\ remote = [n \in Names |-> NoFile]
  /\ late = [n \in Names |-> 0]
  /\ stray = [n \in Names |-> Nothing]
  /\ sink = "tmp"
  /\ delivered = {}
  /\ pc = "poll"
  /\ alive = FALSE
  /\ todo = {}
  /\ listed = [n \in Names |-> 0]
  /\ src = NoFile
  /\ rpos = 0
  /\ wire = <<>>
  /\ faults = 0
  /\ env \in Environments

-----------------------------------------------------------------------------
(* A fault is taken from the budget of the behaviour. *)
Fault == /\ "fault" \in env
         /\ faults < MaxFaults
         /\ faults' = faults + 1

(* The transfer is over: ofd and ftpfp are closed. *)
CloseFiles == /\ src' = NoFile
              /\ rpos' = 0
              /\ wire' = <<>>

(* What a step that waits for a reply leads to: to l, or for ever nowhere    *)
(* when the session died between the lines of a reply of several, as in     *)
(* GetFile.                                                                 *)
Goes(l) == pc' \in IF alive /\ ~alive' THEN {l, "spin"} ELSE {l}

(* "break" out of the loop over ftab. *)
Break(s) == /\ alive' = s
            /\ Goes("poll")
            /\ todo' = {}
            /\ listed' = [n \in Names |-> 0]
            /\ CloseFiles

(* A command fails: on a dead session at once, or by a fault. *)
CommandFails == \/ /\ ~alive
                   /\ Break(FALSE)
                   /\ UNCHANGED faults
                \/ /\ Fault
                   /\ \E s \in {alive, FALSE} : Break(s)

(* What the server answers to SIZE of .name. *)
SizeOf(n) == IF rtmp[n] = NoFile THEN 0 ELSE Len(rtmp[n])

(* ftp_size returns size: 0 when there is no such file, the server refuses   *)
(* SIZE, or the session is dead or dies.                                    *)
FtpSize(n, size) ==
  \/ size = (IF alive THEN SizeOf(n) ELSE 0) /\ UNCHANGED <<alive, faults>>
  \/ size = 0 /\ Fault /\ alive' \in {alive, FALSE}

(* A session dies that was storing .name: the server may still have to do    *)
(* rest for it, to the file at that place.                                  *)
Abandon(n, at, rest) ==
  \/ UNCHANGED stray
  \/ /\ "race" \in env /\ alive /\ ~alive' /\ rest # <<>>
     /\ stray' = [stray EXCEPT ![n] = [at |-> at, rest |-> rest]]

-----------------------------------------------------------------------------
(* setup_ftp_env succeeds. *)
Session ==
  /\ pc = "poll" /\ ~alive
  /\ alive' = TRUE
  /\ UNCHANGED <<source, server, pc, todo, listed, src, rpos, wire, faults>>

(* It fails, as in GetFile. *)
SessionFails ==
  /\ pc = "poll" /\ ~alive
  /\ Fault
  /\ pc' = "spin"
  /\ UNCHANGED <<source, server, alive, todo, listed, src, rpos, wire>>

(* dscan: the names and sizes in localDir.  One that fails changes nothing. *)
Scan ==
  /\ pc = "poll" /\ alive
  /\ pc' = "loop"
  /\ todo' = Present
  /\ listed' = [n \in Names |-> IF n \in todo' THEN len[local[n]] ELSE 0]
  /\ UNCHANGED <<source, server, alive, src, rpos, wire, faults>>

(* The loop has gone through ftab: free it and poll again. *)
EndPass ==
  /\ pc = "loop" /\ todo = {}
  /\ Break(alive)
  /\ UNCHANGED <<source, server, faults>>

(* ftp_size of .name is the point to resume from. *)
AskSize(n) ==
  /\ pc = "loop" /\ n \in todo
  /\ \E p \in {SizeOf(n), 0} : FtpSize(n, p) /\ rpos' = p
  /\ Goes("start")
  /\ src' = local[n]
  /\ todo' = todo \ {n}
  /\ UNCHANGED <<source, server, listed, wire>>

(* Mutants: the file is not made; it is made, but not emptied, by STOR. *)
StartNoFile(n, p) == rpos' = p /\ UNCHANGED rtmp
StartNotEmptied(n, p) ==
  /\ rtmp' = [rtmp EXCEPT ![n] = IF @ = NoFile THEN <<>> ELSE @]
  /\ rpos' = p

(* FtpAccess: APPE when there is something to skip, else STOR, which makes  *)
(* the file or empties it; APPE makes it where there is none.               *)
Start(n, p) ==
  /\ rtmp' = IF p > 0 /\ rtmp[n] # NoFile THEN rtmp
                                          ELSE [rtmp EXCEPT ![n] = <<>>]
  /\ rpos' = p

(* A server that refuses REST is given the file from its start. *)
Stor ==
  /\ pc = "start" /\ alive
  /\ \E p \in {rpos, 0} : Start(Cur, p)
  /\ sink' = "tmp"
  /\ pc' = "xfer"
  /\ UNCHANGED <<source, remote, late, stray, delivered, alive, todo, listed,
                 src, wire, faults>>

(* The commands fail, the STOR perhaps after the server has carried it out, *)
(* or while it still has to.                                                *)
StorFails ==
  /\ pc = "start"
  /\ CommandFails
  /\ \/ UNCHANGED rtmp /\ Abandon(Cur, "none", <<NoFile>>)
     \/ /\ alive
        /\ rtmp' = [rtmp EXCEPT ![Cur] = <<>>]
        /\ UNCHANGED stray
  /\ UNCHANGED <<source, remote, late, sink, delivered>>

(* One turn of the read / FtpWrite loop. *)
Send ==
  /\ pc = "xfer" /\ rpos < len[src]
  /\ wire' = Append(wire, <<src, rpos + 1>>)
  /\ rpos' = rpos + 1
  /\ UNCHANGED <<source, server, pc, alive, todo, listed, src, faults>>

(* The server appends a block to the file of name n at the place at; to one  *)
(* that has no name any more nobody sees it.                                *)
AppendTo(at, n, b) ==
  /\ rtmp' = IF at = "tmp" THEN [rtmp EXCEPT ![n] = Append(@, b)] ELSE rtmp
  /\ remote' = IF at = "dest" THEN [remote EXCEPT ![n] = Append(@, b)] ELSE remote

(* The server stores what arrives. *)
Store ==
  /\ pc = "xfer" /\ wire # <<>>
  /\ AppendTo(sink, Cur, Head(wire))
  /\ wire' = Tail(wire)
  /\ UNCHANGED <<source, late, stray, sink, delivered, pc, alive, todo, listed,
                 src, rpos, faults>>

(* read returns 0.  FtpClose waits for the reply that tells that the server *)
(* has stored everything, or, by a fault, that it has not, or for no reply: *)
(* its result is not looked at.                                             *)
Eof ==
  /\ pc = "xfer" /\ rpos >= len[src]
  /\ \/ wire = <<>> /\ UNCHANGED <<alive, stray, faults>>
     \/ Fault /\ alive' \in BOOLEAN /\ Abandon(Cur, sink, wire)
  /\ Goes("verify")
  /\ wire' = <<>>
  /\ UNCHANGED <<source, rtmp, remote, late, sink, delivered, todo, listed, src, rpos>>

(* read or FtpWrite returns -1: what was stored stays for the next pass. *)
WriteError ==
  /\ pc = "xfer"
  /\ Fault
  /\ \E s \in BOOLEAN : Break(s)
  /\ Abandon(Cur, sink, wire)
  /\ UNCHANGED <<source, rtmp, remote, late, sink, delivered>>

-----------------------------------------------------------------------------
(* Mutants: no check; a check that a short file passes. *)
AnySize(size) == TRUE
NotTooLong(size) == size <= listed[Cur]

(* The only check on what was transferred: ftp_size against the listing. *)
SizeMatches(size) == size = listed[Cur]

VerifySize ==
  /\ pc = "verify"
  /\ \E size \in {SizeOf(Cur), 0} :
       FtpSize(Cur, size) /\ SizeMatches(size)
  /\ Goes("rename")
  /\ UNCHANGED <<source, server, todo, listed, src, rpos, wire>>

(* The size is wrong.  Unlike get_file, put_file does not remove its         *)
(* temporary file then.                                                     *)
VerifyFails ==
  /\ pc = "verify"
  /\ \E size \in {SizeOf(Cur), 0} :
       FtpSize(Cur, size) /\ ~SizeMatches(size)
  /\ Break(alive')
  /\ UNCHANGED <<source, server>>

(* Another file follows under its name: where a file that had it is now. *)
Moved(at) == IF at = "tmp" THEN "dest" ELSE "none"

(* What the server does for RNTO: .name becomes name, replacing it. *)
RenameRemote(n) ==
  /\ remote' = [remote EXCEPT ![n] = rtmp[n]]
  /\ rtmp' = [rtmp EXCEPT ![n] = NoFile]
  /\ stray' = [stray EXCEPT ![n].at = Moved(@)]
  /\ delivered' = delivered \cup
       {v \in published : NameOf[v] = n /\ rtmp[n] = Content(v)}

(* RNFR finds the file, and RNTO is sent. *)
Renaming == pc = "rename" /\ alive /\ rtmp[Cur] # NoFile

RenameOk ==
  /\ Renaming
  /\ RenameRemote(Cur)
  /\ pc' = "remove"
  /\ UNCHANGED <<source, late, sink, alive, todo, listed, src, rpos, wire, faults>>

(* The rename is carried out and its reply is lost. *)
RenameReplyLost ==
  /\ Renaming
  /\ Fault
  /\ RenameRemote(Cur)
  /\ Break(FALSE)
  /\ UNCHANGED <<source, late, sink>>

(* The reply is timed out, and the server has not read the RNTO yet: there   *)
(* is no part of a reply, so readresp returns.                              *)
RenameLate ==
  /\ "late" \in env
  /\ Renaming
  /\ Fault
  /\ late' = [late EXCEPT ![Cur] = @ + 1]
  /\ Break(FALSE) /\ pc' = "poll"
  /\ UNCHANGED <<source, rtmp, remote, stray, sink, delivered>>

(* There is no such file, or a command fails. *)
RenameFails ==
  /\ pc = "rename"
  /\ \/ CommandFails
     \/ /\ alive /\ rtmp[Cur] = NoFile
        /\ Break(alive)
        /\ UNCHANGED faults
  /\ UNCHANGED <<source, server>>

(* Mutant: the file is unlinked although BAKDIR is set. *)
RemoveUnlinks(n) == local' = [local EXCEPT ![n] = NoFile] /\ UNCHANGED lbak

(* unlink(localFile), or rename to bakDir. *)
RemoveLocal(n) ==
  /\ local' = [local EXCEPT ![n] = NoFile]
  /\ lbak' = IF "backup" \in env THEN [lbak EXCEPT ![n] = local[n]] ELSE lbak

RemoveOk ==
  /\ pc = "remove"
  /\ RemoveLocal(Cur)
  /\ pc' = "loop"
  /\ CloseFiles
  /\ UNCHANGED <<len, published, server, alive, todo, listed, faults>>

RemoveFails ==
  /\ pc = "remove"
  /\ Fault
  /\ Break(alive)
  /\ UNCHANGED <<source, server>>

-----------------------------------------------------------------------------
(* readresp on a dead session: readline returns 0, for ever. *)
Spin == pc = "spin" /\ UNCHANGED <<source, server, thread, faults>>

(* The server reads the RNTO of an abandoned session.  A transfer that is  *)
(* storing into .name goes on storing into the same file under its new     *)
(* name.                                                                   *)
LateRename(n) ==
  /\ late[n] > 0
  /\ pc = "start" /\ Cur = n /\ rpos > 0 => "race" \in env
  /\ late' = [late EXCEPT ![n] = @ - 1]
  /\ IF rtmp[n] # NoFile
       THEN /\ RenameRemote(n)
            /\ sink' = IF pc = "xfer" /\ Cur = n THEN Moved(sink) ELSE sink
       ELSE UNCHANGED <<rtmp, remote, stray, sink, delivered>>
  /\ UNCHANGED <<source, thread, faults>>

(* It carries out the STOR of such a session, or stores a block for it. *)
LateStore(n) ==
  LET s == stray[n] IN
  /\ \/ /\ s.rest = <<NoFile>>
        /\ rtmp' = [rtmp EXCEPT ![n] = <<>>]
        /\ stray' = [stray EXCEPT ![n] = [at |-> "tmp", rest |-> <<>>]]
        /\ UNCHANGED remote
     \/ /\ s.rest \notin {<<>>, <<NoFile>>}
        /\ AppendTo(s.at, n, Head(s.rest))
        /\ stray' = [stray EXCEPT ![n].rest = Tail(@)]
  /\ UNCHANGED <<source, late, sink, delivered, thread, faults>>

(* The process dies and is started again; files and server stay. *)
Crash ==
  /\ Fault
  /\ Break(FALSE) /\ pc' = "poll"
  /\ IF pc = "xfer" THEN Abandon(Cur, sink, wire) ELSE UNCHANGED stray
  /\ UNCHANGED <<source, rtmp, remote, late, sink, delivered>>

(* A producer puts v into localDir, whole unless it may grow. *)
Publish(v) ==
  /\ v \notin published
  /\ local[NameOf[v]] = NoFile
  /\ published' = published \cup {v}
  /\ local' = [local EXCEPT ![NameOf[v]] = v]
  /\ \E k \in IF "grow" \in env THEN 0..Size[v] ELSE {Size[v]} :
        len' = [len EXCEPT ![v] = k]
  /\ UNCHANGED <<lbak, server, thread, faults>>

(* Its producer writes one more block of v. *)
Grow(v) ==
  /\ local[NameOf[v]] = v
  /\ len[v] < Size[v]
  /\ len' = [len EXCEPT ![v] = @ + 1]
  /\ UNCHANGED <<local, lbak, published, server, thread, faults>>

-----------------------------------------------------------------------------
(* A step of the thread that runs put_file, or of the server for it. *)
Thread ==
  /\ \/ Session \/ SessionFails \/ Scan \/ EndPass
     \/ \E n \in Names : AskSize(n)
     \/ Stor \/ StorFails \/ Send \/ Store \/ Eof \/ WriteError
     \/ VerifySize \/ VerifyFails
     \/ RenameOk \/ RenameReplyLost \/ RenameLate \/ RenameFails
     \/ RemoveOk \/ RemoveFails
     \/ Spin
  /\ UNCHANGED env

Surroundings ==
  /\ \/ \E n \in Names : LateRename(n) \/ LateStore(n)
     \/ Crash
     \/ \E v \in Versions : Publish(v) \/ Grow(v)
  /\ UNCHANGED env

Next == Thread \/ Surroundings

Spec == Init /\ [][Next]_vars

(* put_file never stops for good, as in GetFile, and the server stores what  *)
(* it is sent: otherwise the write or the wait for the reply times out,      *)
(* which is a fault.                                                         *)
FairSpec == Spec /\ WF_vars(Thread)
=============================================================================
