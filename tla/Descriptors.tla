---------------------------- MODULE Descriptors -----------------------------
(***************************************************************************)
(* The file descriptors of the process, which the threads of all sections  *)
(* share: setup_ftp_env and FtpQuit, FtpConnect and myconnect, FtpAccess   *)
(* and FtpClose, and the local file of a transfer, each as the system      *)
(* calls it makes.  A call that makes a descriptor gets the lowest number  *)
(* that is free; a call that closes a number closes whatever it then       *)
(* names.                                                                  *)
(*                                                                         *)
(* An environment is a set of the following words; each behaviour has one  *)
(* of Environments throughout:                                             *)
(*   "refuse"    a connection attempt of myconnect fails                   *)
(*   "deny"      the server refuses a greeting, a login, a command, or the *)
(*               data connection                                           *)
(*   "drop"      a session times out and is given up                       *)
(*   "long"      a path does not fit into a command of 256 bytes           *)
(*   "port"      built with FTPLIB_DEFMODE=FTPLIB_PORT (makefile)          *)
(*   "noaccept"  in PORT mode, the server does not connect back            *)
(***************************************************************************)
EXTENDS Integers

CONSTANTS Threads,
          MaxFd,      \* descriptors are 0..MaxFd; 0 is the standard input
          Environments

ASSUME MaxFdAssumption == MaxFd \in Nat

VARIABLES
  table,    \* what each descriptor names
  pc,       \* where the thread is
  ctl,      \* the control connection: ftp->handle, or sControl
  data,     \* the data connection: ftpfp->handle, or sData
  file,     \* the local file: ofd
  env       \* the environment, which does not change

vars == <<table, pc, ctl, data, file, env>>

PortMode == "port" \in env

Fds == 0..MaxFd
None == -1                       \* no descriptor; also what a failed call gives
Kinds == {"ctl", "listen", "data", "file", "lost", "orphan"}
Free == <<"free", "">>
Std == <<"std", "">>
Objects == Threads \X Kinds

TypeOK ==
  /\ table \in [Fds -> Objects \cup {Free, Std}]
  /\ pc \in [Threads -> {"down", "connect", "again", "greet", "idle", "port",
                         "retr", "open", "xfer", "close", "zero", "wild"}]
  /\ ctl \in [Threads -> Fds \cup {None}]
  /\ data \in [Threads -> Fds \cup {None}]
  /\ file \in [Threads -> Fds \cup {None}]

Init ==
  /\ table = [f \in Fds |-> IF f = 0 THEN Std ELSE Free]
  /\ pc = [t \in Threads |-> "down"]
  /\ ctl = [t \in Threads |-> None]
  /\ data = [t \in Threads |-> None]
  /\ file = [t \in Threads |-> None]
  /\ env \in Environments

-----------------------------------------------------------------------------
FreeFds == {f \in Fds : table[f] = Free}
Full == FreeFds = {}

(* The descriptor the kernel gives next, if there is one. *)
Lowest == {f \in FreeFds : \A g \in FreeFds : f <= g}

(* The table after descriptor f has been made, or closed. *)
Made(f, o) == [table EXCEPT ![f] = o]
Closed(f) == IF f = None THEN table ELSE [table EXCEPT ![f] = Free]

Go(t, from, to) == pc[t] = from /\ pc' = [pc EXCEPT ![t] = to]

-----------------------------------------------------------------------------
(* FtpConnect: socket(); with no descriptor left setup_ftp_env fails and    *)
(* is tried again.                                                          *)
Socket(t) ==
  \/ /\ Go(t, "down", "connect")
     /\ \E f \in Lowest : /\ table' = Made(f, <<t, "ctl">>)
                          /\ ctl' = [ctl EXCEPT ![t] = f]
     /\ UNCHANGED <<data, file>>
  \/ pc[t] = "down" /\ Full /\ UNCHANGED vars

Connected(t) ==
  /\ Go(t, "connect", "greet")
  /\ UNCHANGED <<table, ctl, data, file>>

(* myconnect fails, and closes the socket ... *)
ConnectFails(t) ==
  /\ "refuse" \in env
  /\ Go(t, "connect", "again")
  /\ table' = Closed(ctl[t])
  /\ UNCHANGED <<ctl, data, file>>

(* ... and FtpConnect closes it again. *)
CloseAgain(t) ==
  /\ Go(t, "again", "down")
  /\ table' = Closed(ctl[t])
  /\ ctl' = [ctl EXCEPT ![t] = None]
  /\ UNCHANGED <<data, file>>

(* The greeting, FtpLogin, and the checks of setup_ftp_env. *)
LoggedIn(t) ==
  /\ Go(t, "greet", "idle")
  /\ UNCHANGED <<table, ctl, data, file>>

(* Mutant: FtpQuit does not close the connection. *)
QuitOpen(t) == ctl' = [ctl EXCEPT ![t] = None] /\ UNCHANGED table

(* FtpConnect's last failure, and FtpQuit. *)
Quit(t) == table' = Closed(ctl[t]) /\ ctl' = [ctl EXCEPT ![t] = None]

LoginFails(t) ==
  /\ "deny" \in env
  /\ Go(t, "greet", "down")
  /\ Quit(t)
  /\ UNCHANGED <<data, file>>

(* The session has died: get_file and put_file assign a new one to ftp, and *)
(* nobody closes the socket of the old one.                                 *)
Drop(t) ==
  /\ "drop" \in env
  /\ Go(t, "idle", "down")
  /\ table' = IF table[ctl[t]] = <<t, "ctl">>
                THEN [table EXCEPT ![ctl[t]] = <<t, "lost">>] ELSE table
  /\ ctl' = [ctl EXCEPT ![t] = None]
  /\ UNCHANGED <<data, file>>

-----------------------------------------------------------------------------
(* FtpOpenPort: socket(). *)
DataSocket(t) ==
  \/ /\ Go(t, "idle", "port")
     /\ \E f \in Lowest :
          /\ table' = Made(f, <<t, IF PortMode THEN "listen" ELSE "data">>)
          /\ data' = [data EXCEPT ![t] = f]
     /\ UNCHANGED <<ctl, file>>
  \/ pc[t] = "idle" /\ Full /\ UNCHANGED vars   \* -1, whatever the mode

(* connect() in passive mode, listen() and the PORT command otherwise. *)
PortOpened(t) ==
  /\ Go(t, "port", "retr")
  /\ UNCHANGED <<table, ctl, data, file>>

(* Mutant: FtpAccess closes what FtpOpenPort has closed. *)
PortFailsKept(t) ==
  /\ "deny" \in env
  /\ Go(t, "port", "close")
  /\ table' = Closed(data[t])
  /\ UNCHANGED <<ctl, data, file>>

(* They fail: FtpOpenPort closes the socket and returns -1 in passive mode, *)
(* but 0 in PORT mode, and FtpAccess tests for -1: then it goes on with a   *)
(* netbuf that nobody made.                                                 *)
PortFails(t) ==
  /\ "deny" \in env
  /\ Go(t, "port", IF PortMode THEN "wild" ELSE "idle")
  /\ table' = Closed(data[t])
  /\ data' = [data EXCEPT ![t] = None]
  /\ UNCHANGED <<ctl, file>>


(* RETR, STOR, APPE or LIST is accepted; in PORT mode FtpAcceptConnection  *)
(* puts the connection in the place of the listening socket.               *)
Access(t) ==
  /\ Go(t, "retr", "open")
  /\ IF PortMode
       THEN \E f \in Lowest :
              /\ table' = [table EXCEPT ![f] = <<t, "data">>, ![data[t]] = Free]
              /\ data' = [data EXCEPT ![t] = f]
       ELSE UNCHANGED <<table, data>>
  /\ UNCHANGED <<ctl, file>>

(* The command is refused: FtpClose. *)
AccessFails(t) ==
  /\ "deny" \in env
  /\ Go(t, "retr", "idle")
  /\ table' = Closed(data[t])
  /\ data' = [data EXCEPT ![t] = None]
  /\ UNCHANGED <<ctl, file>>

(* The path is too long for the command: FtpAccess returns without FtpClose, *)
(* and the next transfer puts its own connection into ftpfp: the data       *)
(* connection is an orphan, which nobody can close any more.                *)
PathTooLong(t) ==
  /\ "long" \in env
  /\ Go(t, "retr", "idle")
  /\ table' = IF table[data[t]] \in {t} \X {"listen", "data"}
                THEN [table EXCEPT ![data[t]] = <<t, "orphan">>] ELSE table
  /\ data' = [data EXCEPT ![t] = None]
  /\ UNCHANGED <<ctl, file>>

(* FtpAcceptConnection fails: it closes the listening socket and sets the  *)
(* handle to 0 ...                                                         *)
AcceptFails(t) ==
  /\ PortMode
  /\ "noaccept" \in env \/ Full
  /\ Go(t, "retr", "zero")
  /\ table' = Closed(data[t])
  /\ data' = [data EXCEPT ![t] = None]
  /\ UNCHANGED <<ctl, file>>

(* ... and FtpAccess has FtpClose close that. *)
CloseZero(t) ==
  /\ Go(t, "zero", "idle")
  /\ table' = Closed(0)
  /\ UNCHANGED <<ctl, data, file>>

(* open() of the local file, whose result nobody looks at: it is -1 when   *)
(* the open fails.  A listing has no local file.                           *)
OpenFile(t) ==
  /\ Go(t, "open", "xfer")
  /\ \/ \E f \in Lowest : /\ file' = [file EXCEPT ![t] = f]
                          /\ table' = Made(f, <<t, "file">>)
     \/ UNCHANGED <<table, file>>
  /\ UNCHANGED <<ctl, data>>

(* close(ofd). *)
CloseFile(t) ==
  /\ Go(t, "xfer", "close")
  /\ table' = Closed(file[t])
  /\ file' = [file EXCEPT ![t] = None]
  /\ UNCHANGED <<ctl, data>>

(* FtpClose. *)
CloseData(t) ==
  /\ Go(t, "close", "idle")
  /\ table' = Closed(data[t])
  /\ data' = [data EXCEPT ![t] = None]
  /\ UNCHANGED <<ctl, file>>

-----------------------------------------------------------------------------
Step(t) ==
  \/ Socket(t) \/ Connected(t) \/ ConnectFails(t) \/ CloseAgain(t)
  \/ LoggedIn(t) \/ LoginFails(t) \/ Drop(t)
  \/ DataSocket(t) \/ PortOpened(t) \/ PortFails(t)
  \/ Access(t) \/ PathTooLong(t) \/ AccessFails(t)
  \/ AcceptFails(t) \/ CloseZero(t)
  \/ OpenFile(t) \/ CloseFile(t) \/ CloseData(t)

(* After the use of a netbuf that nobody made nothing can be told. *)
Wild == (\E t \in Threads : pc[t] = "wild") /\ UNCHANGED vars

Next ==
  /\ \/ (\A t \in Threads : pc[t] # "wild") /\ \E t \in Threads : Step(t)
     \/ Wild
  /\ UNCHANGED env

Spec == Init /\ [][Next]_vars

-----------------------------------------------------------------------------
(* The environments without PORT mode and without the double close of     *)
(* FtpConnect.                                                            *)
Orderly == "refuse" \notin env /\ ~PortMode

(* What the session, the transfer and the local file of t are numbered by *)
(* is what t opened under these numbers.                                   *)
Owns(t) ==
  /\ ctl[t] # None /\ pc[t] # "again" => table[ctl[t]] = <<t, "ctl">>
  /\ data[t] # None => table[data[t]] \in {<<t, "listen">>, <<t, "data">>}
  /\ file[t] # None => table[file[t]] = <<t, "file">>

(* A thread uses its own descriptors only, however the calls of the threads *)
(* interleave and whether or not the table is full: no failure on the way   *)
(* to a session or a transfer (ftplib.c 403-460, 632-705, 844-860; fexp.c   *)
(* 350-370) closes a number twice or goes on with one that it has closed.   *)
OwnDescriptors == Orderly => \A t \in Threads : Owns(t)

(* Every descriptor that is open is one a thread will close, the socket of *)
(* a session that was given up, or an orphan of PathTooLong.               *)
Accounted ==
  \A f \in Fds :
    \/ table[f] \in {Free, Std} \cup (Threads \X {"lost", "orphan"})
    \/ \E t \in Threads : f \in {ctl[t], data[t], file[t]} /\ table[f][1] = t

(* The sockets of sessions that are given up (fexp.c 418-426), and the data *)
(* connection of a path that is too long (ftplib.c 840-841), are all that   *)
(* the process loses: every other failure on the way to a session or a      *)
(* transfer closes what was opened.                                         *)
NothingLost == Orderly => Accounted

(* FtpAccess "return[s] a handle for a data stream" (ftplib.c 791): during *)
(* the transfer the handle names the data connection that was opened.      *)
HandleOfStream ==
  \A t \in Threads : pc[t] = "xfer" => table[data[t]] = <<t, "data">>
=============================================================================
