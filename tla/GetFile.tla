------------------------------ MODULE GetFile -------------------------------
(***************************************************************************)
(* One "get" section of fexp: the thread that runs get_file (fexp.c        *)
(* 383-544), the remote directory it empties, and the local disk it fills. *)
(*                                                                         *)
(* A file's content is a sequence of blocks; block i of version v is the   *)
(* pair <<v, i>>, so that a file put together from two versions shows.     *)
(* A temporary or local file that does not exist is the empty sequence.    *)
(*                                                                         *)
(* An environment is a set of the following words; each behaviour has one  *)
(* of Environments throughout:                                             *)
(*   "fault"    refused commands, lost replies and connections, failing    *)
(*              local calls, a crash of the process; MaxFaults in all      *)
(*   "late"     a DELE or RNTO sent on a session that timed out may still  *)
(*              be executed later: the code abandons such a session        *)
(*              without closing it                                         *)
(*   "reuse"    a name may be published again once its file is gone         *)
(*   "replace"  with it: while its file is still waiting                    *)
(*   "grow"     the producer may be still writing a file that is listed    *)
(*   "short"    write() may store less than it was given (full disk)       *)
(*   "backup"   BAKDIR is set: RNTO into it instead of DELE                *)
(***************************************************************************)
EXTENDS Integers, Sequences, FiniteSets

CONSTANTS Versions,   \* publications of files in the remote directory
          Names,      \* file names that match FILEMATCH
          NameOf,     \* the name each version is published under
          Size,       \* the number of blocks of each version
          NoFile,     \* the value of a directory entry that is not there
          Environments, \* the environments to look at
          MaxFaults   \* bound on the faults of a behaviour

ASSUME NameOfAssumption == NameOf \in [Versions -> Names]
ASSUME SizeAssumption == Size \in [Versions -> Nat]
ASSUME NoFileAssumption == NoFile \notin Versions
ASSUME FaultsAssumption == MaxFaults \in Nat

VARIABLES
  remote,     \* the remote directory: the version under each name, or NoFile
  bak,        \* the remote backup directory
  len,        \* how many blocks of each version its producer has written
  published,  \* history: the versions that were ever put into remote
  late,       \* per name, removals sent on abandoned sessions, still to run
  tmp,        \* tmpDir: the content of .name
  local,      \* localDir: the content of name
  delivered,  \* history: the versions that were whole when renamed to local
  pc,         \* where get_file is
  alive,      \* FtpStatus(ftp)
  todo,       \* the files of ftab the loop has not reached
  listed,     \* ftab[.]->st.st_size: the sizes the listing gave
  src,        \* the file the server opened for RETR
  rpos,       \* the next block the server sends, less one
  off,        \* the file offset of ofd
  faults,     \* the faults so far
  env         \* the environment, which does not change

server == <<remote, bak, len, published, late>>
disk   == <<tmp, local, delivered>>
thread == <<pc, alive, todo, listed, src, rpos, off>>
vars   == <<server, disk, thread, faults, env>>

Entries == Versions \cup {NoFile}
Cur == NameOf[src]                     \* the name being transferred
Content(v) == [i \in 1..len[v] |-> <<v, i>>]
Present == {n \in Names : remote[n] # NoFile}

TypeOK ==
  /\ remote \in [Names -> Entries]
  /\ bak \in [Names -> Entries]
  /\ len \in [Versions -> Nat]
  /\ published \subseteq Versions
  /\ late \in [Names -> Nat]
  /\ tmp \in [Names -> Seq(Versions \X Nat)]
  /\ local \in [Names -> Seq(Versions \X Nat)]
  /\ delivered \subseteq Versions
  /\ pc \in {"poll", "loop", "xfer", "verify", "remove", "spin"}
  /\ alive \in BOOLEAN
  /\ todo \subseteq Names
  /\ listed \in [Names -> Nat]
  /\ src \in Entries
  /\ pc \in {"xfer", "verify", "remove"} => src \in Versions
  /\ rpos \in Nat
  /\ off \in Nat
  /\ faults \in 0..MaxFaults

Init ==
  /\ remote = [n \in Names |-> NoFile]
  /\ bak = [n \in Names |-> NoFile]
  /\ len = [v \in Versions |-> 0]
  /\ published = {}
  /\ late = [n \in Names |-> 0]
  /\ tmp = [n \in Names |-> <<>>]
  /\ local = [n \in Names |-> <<>>]
  /\ delivered = {}
  /\ pc = "poll"
  /\ alive = FALSE
  /\ todo = {}
  /\ listed = [n \in Names |-> 0]
  /\ src = NoFile
  /\ rpos = 0
  /\ off = 0
  /\ faults = 0
  /\ env \in Environments

-----------------------------------------------------------------------------
(* A fault is taken from the budget of the behaviour. *)
Fault == /\ "fault" \in env
         /\ faults < MaxFaults
         /\ faults' = faults + 1

(* The transfer of the current file is over: ofd and ftpfp are closed. *)
CloseFiles == /\ src' = NoFile
              /\ rpos' = 0
              /\ off' = 0

(* "break" out of the loop over ftab: the rest of the listing is dropped    *)
(* and the pass ends.  s is what FtpStatus will then say of the session.    *)
(* When a session dies while a reply is waited for, that may be between the *)
(* lines of a reply of several, and readresp never returns.                 *)
Break(s) == /\ pc' \in IF alive /\ ~s THEN {"poll", "spin"} ELSE {"poll"}
            /\ alive' = s
            /\ todo' = {}
            /\ listed' = [n \in Names |-> 0]
            /\ CloseFiles

(* A command fails: at once on a session that is not alive, and otherwise   *)
(* by a fault, which the session survives (a refusal) or not (a timeout).   *)
CommandFails == \/ /\ ~alive
                   /\ Break(FALSE)
                   /\ UNCHANGED faults
                \/ /\ Fault
                   /\ \E s \in {alive, FALSE} : Break(s)

(* write() at file offset i: overwrites what is there, or appends. *)
Put(s, i, b) == IF i < Len(s) THEN [s EXCEPT ![i + 1] = b] ELSE Append(s, b)

-----------------------------------------------------------------------------
(* setup_ftp_env succeeds. *)
Session ==
  /\ pc = "poll" /\ ~alive
  /\ alive' = TRUE
  /\ UNCHANGED <<server, disk, pc, todo, listed, src, rpos, off, faults>>

(* It fails, which changes nothing, unless a reply to the login breaks off  *)
(* between its lines.                                                       *)
SessionFails ==
  /\ pc = "poll" /\ ~alive
  /\ Fault
  /\ pc' = "spin"
  /\ UNCHANGED <<server, disk, alive, todo, listed, src, rpos, off>>

(* ftp_dscan: the names and sizes in the remote directory. *)
Scan ==
  /\ pc = "poll" /\ alive
  /\ pc' = "loop"
  /\ \/ /\ todo' = Present
        /\ UNCHANGED <<alive, faults>>
     \/ \* the data connection is lost while the listing is read: the code
        \* takes what it has for the whole, and FtpClose finds out or not
        /\ Fault
        /\ todo' \in SUBSET Present
        /\ alive' \in BOOLEAN
  /\ listed' = [n \in Names |-> IF n \in todo' THEN len[remote[n]] ELSE 0]
  /\ UNCHANGED <<server, disk, src, rpos, off>>

(* LIST is refused, or the session breaks before it starts. *)
ScanFails ==
  /\ pc = "poll" /\ alive
  /\ Fault
  /\ \E s \in BOOLEAN : Break(s)
  /\ UNCHANGED <<server, disk>>

(* The loop has gone through ftab: free it and poll again. *)
EndPass ==
  /\ pc = "loop" /\ todo = {}
  /\ Break(alive)
  /\ UNCHANGED <<server, disk, faults>>

(* Mutant: one block is left out. *)
ResumeLater(n) == {Len(tmp[n]) + 1}

(* Where the transfer of n may start: at the size of the temporary file, or *)
(* at 0 when the server refuses REST.                                       *)
ResumePoints(n) == {Len(tmp[n]), 0}

(* FtpAccess(RETR) can succeed. *)
AccessGranted(n) == alive /\ remote[n] # NoFile

(* Mutants: the lseek is left out; the file is opened with O_TRUNC. *)
OpenNoSeek(n, p) == off' = 0 /\ UNCHANGED tmp
OpenTruncates(n, p) == off' = p /\ tmp' = [tmp EXCEPT ![n] = <<>>]

(* The temporary file is opened, not truncated, at offset p. *)
OpenTmp(n, p) == off' = p /\ UNCHANGED tmp

Retr(n) ==
  /\ pc = "loop" /\ n \in todo
  /\ AccessGranted(n)
  /\ src' = remote[n]
  /\ \E p \in ResumePoints(n) : rpos' = p /\ OpenTmp(n, p)
  /\ todo' = todo \ {n}
  /\ pc' = "xfer"
  /\ UNCHANGED <<server, local, delivered, alive, listed, faults>>

RetrFails(n) ==
  /\ pc = "loop" /\ n \in todo
  /\ \/ CommandFails
     \/ /\ alive /\ remote[n] = NoFile      \* 550, no such file
        /\ Break(alive)
        /\ UNCHANGED faults
  /\ UNCHANGED <<server, disk>>

-----------------------------------------------------------------------------
(* One turn of the FtpRead / write loop. *)
ReadBlock ==
  /\ pc = "xfer" /\ rpos < len[src]
  /\ tmp' = [tmp EXCEPT ![Cur] = Put(@, off, <<src, rpos + 1>>)]
  /\ rpos' = rpos + 1
  /\ off' = off + 1
  /\ UNCHANGED <<server, local, delivered, pc, alive, todo, listed, src, faults>>

(* write() stores less than it was given: only -1 is looked for, so the     *)
(* block that was not stored is never missed.                               *)
ShortWrite ==
  /\ "short" \in env
  /\ pc = "xfer" /\ rpos < len[src]
  /\ rpos' = rpos + 1
  /\ UNCHANGED <<server, disk, pc, alive, todo, listed, src, off, faults>>

(* FtpRead returns 0: the server has sent what it has.  The result of       *)
(* FtpClose, the server's last word on the transfer, is not looked at; when *)
(* that reply does not come the session is dead and the loop goes on.       *)
Eof ==
  /\ pc = "xfer" /\ rpos >= len[src]
  /\ pc' = "verify"
  /\ \/ UNCHANGED <<alive, faults>>
     \/ Fault /\ alive' = FALSE
  /\ UNCHANGED <<server, disk, todo, listed, src, rpos, off>>

(* The data connection is closed early, which read() cannot tell from the   *)
(* end of the file.                                                         *)
EarlyEof ==
  /\ pc = "xfer" /\ rpos < len[src]
  /\ Fault
  /\ pc' = "verify"
  /\ alive' \in BOOLEAN
  /\ UNCHANGED <<server, disk, todo, listed, src, rpos, off>>

(* FtpRead or write returns -1: the temporary file stays for the next pass. *)
(* So it does when FtpClose, after this or after the end of the file, waits *)
(* for ever.                                                                *)
ReadError ==
  /\ pc = "xfer"
  /\ Fault
  /\ \E s \in BOOLEAN : Break(s)
  /\ UNCHANGED <<server, disk>>

-----------------------------------------------------------------------------
(* Mutants: no check; a check that a short file passes. *)
AnySize == TRUE
NotTooLong == Len(tmp[Cur]) <= listed[Cur]

(* The only check on what was transferred: the size of the temporary file   *)
(* against the size in the listing.                                         *)
SizeMatches == Len(tmp[Cur]) = listed[Cur]

(* Mutant: the temporary file is copied and left behind. *)
InstallCopy ==
  /\ local' = [local EXCEPT ![Cur] = tmp[Cur]]
  /\ delivered' = IF tmp[Cur] = Content(src) THEN delivered \cup {src}
                                             ELSE delivered
  /\ UNCHANGED tmp

(* rename(tmpFile, localFile). *)
Install ==
  /\ local' = [local EXCEPT ![Cur] = tmp[Cur]]
  /\ tmp' = [tmp EXCEPT ![Cur] = <<>>]
  /\ delivered' = IF tmp[Cur] = Content(src) THEN delivered \cup {src}
                                             ELSE delivered

VerifyOk ==
  /\ pc = "verify"
  /\ SizeMatches
  /\ Install
  /\ pc' = "remove"
  /\ UNCHANGED <<server, alive, todo, listed, src, rpos, off, faults>>

(* Mutant: the unlink is left out. *)
KeepTmp == UNCHANGED tmp

(* unlink(tmpFile). *)
Discard == tmp' = [tmp EXCEPT ![Cur] = <<>>]

(* The size is wrong, or stat or rename failed. *)
VerifyFails ==
  /\ pc = "verify"
  /\ \/ ~SizeMatches /\ UNCHANGED faults
     \/ Fault
  /\ Discard
  /\ Break(alive)
  /\ UNCHANGED <<server, local, delivered>>

(* Mutants: the wrong name is removed; the file is deleted despite BAKDIR. *)
RemoveNothing(n) == UNCHANGED <<remote, bak>>
RemoveDeletes(n) == remote' = [remote EXCEPT ![n] = NoFile] /\ UNCHANGED bak

(* What the server does for DELE name, or for RNTO bakDir/name. *)
RemoveRemote(n) ==
  /\ remote' = [remote EXCEPT ![n] = NoFile]
  /\ bak' = IF "backup" \in env THEN [bak EXCEPT ![n] = remote[n]] ELSE bak

RemoveOk ==
  /\ pc = "remove"
  /\ alive /\ remote[Cur] # NoFile
  /\ RemoveRemote(Cur)
  /\ pc' = "loop"
  /\ CloseFiles
  /\ UNCHANGED <<len, published, late, disk, alive, todo, listed, faults>>

(* The command is executed and its reply is lost. *)
RemoveReplyLost ==
  /\ pc = "remove"
  /\ alive /\ remote[Cur] # NoFile
  /\ Fault
  /\ RemoveRemote(Cur)
  /\ Break(FALSE)
  /\ UNCHANGED <<len, published, late, disk>>

(* The reply is timed out, and the server has not read the command yet. *)
RemoveLate ==
  /\ "late" \in env
  /\ pc = "remove" /\ alive
  /\ Fault
  /\ late' = [late EXCEPT ![Cur] = @ + 1]
  /\ Break(FALSE) /\ pc' = "poll"
  /\ UNCHANGED <<remote, bak, len, published, disk>>

RemoveFails ==
  /\ pc = "remove"
  /\ \/ CommandFails
     \/ /\ alive /\ remote[Cur] = NoFile
        /\ Break(alive)
        /\ UNCHANGED faults
  /\ UNCHANGED <<server, disk>>

-----------------------------------------------------------------------------
(* readresp on a dead session: readline returns 0, for ever. *)
Spin == pc = "spin" /\ UNCHANGED <<server, disk, thread, faults>>

(* The server reads the removal of an abandoned session. *)
LateRemove(n) ==
  /\ late[n] > 0
  /\ late' = [late EXCEPT ![n] = @ - 1]
  /\ IF remote[n] # NoFile THEN RemoveRemote(n) ELSE UNCHANGED <<remote, bak>>
  /\ UNCHANGED <<len, published, disk, thread, faults>>

(* The process dies and is started again; files and server stay. *)
Crash ==
  /\ Fault
  /\ Break(FALSE) /\ pc' = "poll"
  /\ UNCHANGED <<server, disk>>

(* A producer puts v into the remote directory, whole unless it may grow. *)
Publish(v) ==
  /\ v \notin published
  /\ remote[NameOf[v]] = NoFile \/ "replace" \in env
  /\ \A w \in published : NameOf[w] = NameOf[v] => "reuse" \in env
  /\ published' = published \cup {v}
  /\ remote' = [remote EXCEPT ![NameOf[v]] = v]
  /\ \E k \in IF "grow" \in env THEN 0..Size[v] ELSE {Size[v]} :
        len' = [len EXCEPT ![v] = k]
  /\ UNCHANGED <<bak, late, disk, thread, faults>>

(* Its producer writes one more block of v. *)
Grow(v) ==
  /\ remote[NameOf[v]] = v
  /\ len[v] < Size[v]
  /\ len' = [len EXCEPT ![v] = @ + 1]
  /\ UNCHANGED <<remote, bak, published, late, disk, thread, faults>>

-----------------------------------------------------------------------------
(* A step of the thread that runs get_file. *)
Thread ==
  /\ \/ Session \/ SessionFails \/ Scan \/ ScanFails \/ EndPass
     \/ \E n \in Names : Retr(n) \/ RetrFails(n)
     \/ ReadBlock \/ ShortWrite \/ Eof \/ EarlyEof \/ ReadError
     \/ VerifyOk \/ VerifyFails
     \/ RemoveOk \/ RemoveReplyLost \/ RemoveLate \/ RemoveFails
     \/ Spin
  /\ UNCHANGED env

Surroundings ==
  /\ \/ \E n \in Names : LateRemove(n)
     \/ Crash
     \/ \E v \in Versions : Publish(v) \/ Grow(v)
  /\ UNCHANGED env

Next == Thread \/ Surroundings

Spec == Init /\ [][Next]_vars

(* get_file never stops for good: its waits have a timeout (TIMEOUT in the   *)
(* configuration, given to FtpConnect), but for the connect of a data       *)
(* connection, which the system gives up, and the pauses are sleeps of a    *)
(* few seconds.  That it may go on without getting anywhere is Spin.        *)
FairSpec == Spec /\ WF_vars(Thread)
=============================================================================
