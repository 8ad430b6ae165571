------------------------------ MODULE InfoPipe ------------------------------
(***************************************************************************)
(* The pipe through which the threads of the sections tell the window      *)
(* process what they do (set_message, fexp.c 285-297; update_gui,          *)
(* gtkwin.c 154-210).  Both ends are non-blocking, all threads share one   *)
(* stream, writeFp, under a mutex, and the pipe outlives the windows: it   *)
(* fills while there is none.                                              *)
(*                                                                         *)
(* A message travels as two units: its head ("p:w:l:" and the beginning of *)
(* the text), and the rest of its text with the newline.  No line is cut   *)
(* for want of room: logmsg makes up to 255 characters, set_message puts    *)
(* its prefix before them, and the buffer of update_gui, an array of 256   *)
(* ints, takes 1023.                                                       *)
(***************************************************************************)
EXTENDS Integers, SequencesExt

CONSTANTS Threads, MaxMsgs,   \* bound on the messages of a behaviour
          MaxPids,            \* bound on the window processes
          MaxPipe, MaxRead    \* units in a full pipe, and in one read()

ASSUME PipeAssumption == /\ MaxMsgs \in Nat /\ MaxPids \in Nat
                         /\ MaxPipe \in Nat /\ MaxRead \in Nat

VARIABLES
  inside,   \* the threads between the lock and the unlock of set_message
  left,     \* what the fprintf of each has still to put into the stream
  sent,     \* messages so far
  wbuf,     \* the buffer of writeFp
  pipe,
  guiPid,   \* as in Supervisor, less what makes no difference here
  gui,      \* what each window process is doing
  copy,     \* its copy of wbuf, made by fork
  rbuf,     \* the buffer of its readFp
  shown     \* the lines that were parsed and shown, in order

main == <<inside, left, sent, wbuf>>
vars == <<main, pipe, guiPid, gui, copy, rbuf, shown>>

Pids == 1..MaxPids
Kinds == {"head", "text"}
Units == [msg : 1..MaxMsgs, kind : Kinds]
Unit(m, kind) == [msg |-> m, kind |-> kind]
Message(m) == <<Unit(m, "head"), Unit(m, "text")>>

TypeOK ==
  /\ inside \subseteq Threads
  /\ left \in [Threads -> Seq(Units)] /\ wbuf \in Seq(Units)
  /\ pipe \in Seq(Units)
  /\ sent \in 0..MaxMsgs
  /\ guiPid \in Pids \cup {0}
  /\ gui \in [Pids -> {"none", "idle", "read", "close", "exit", "gone", "dead"}]
  /\ copy \in [Pids -> Seq(Units)] /\ rbuf \in [Pids -> Seq(Units)]
  /\ shown \in Seq(Seq(Units))
  /\ \A t \in Threads \ inside : left[t] = <<>>
  /\ Len(wbuf) <= 2 /\ Len(pipe) <= MaxPipe

(* The first window is forked before there is any thread. *)
Init ==
  /\ inside = {} /\ left = [t \in Threads |-> <<>>] /\ sent = 0
  /\ wbuf = <<>> /\ pipe = <<>>
  /\ guiPid \in {0, 1} \cap ({0} \cup Pids)
  /\ gui = [p \in Pids |-> IF p = guiPid THEN "idle" ELSE "none"]
  /\ copy = [p \in Pids |-> <<>>] /\ rbuf = [p \in Pids |-> <<>>]
  /\ shown = <<>>

-----------------------------------------------------------------------------
(* Mutant: no mutex around the stream. *)
LockIgnored(t) == t \notin inside

(* pthread_mutex_lock *)
LockFree(t) == inside = {}

SetMessage(t) ==
  /\ sent < MaxMsgs /\ LockFree(t)
  /\ inside' = inside \cup {t}
  /\ sent' = sent + 1
  /\ left' = [left EXCEPT ![t] = Message(sent + 1)]
  /\ UNCHANGED <<wbuf, pipe, guiPid, gui, copy, rbuf, shown>>

(* fprintf, putting the parts of the line into the buffer. *)
Printf(t) ==
  /\ left[t] # <<>>
  /\ wbuf' = Append(wbuf, Head(left[t]))
  /\ left' = [left EXCEPT ![t] = Tail(@)]
  /\ UNCHANGED <<inside, sent, pipe, guiPid, gui, copy, rbuf, shown>>

Fits(units) == Len(pipe) + Len(units) <= MaxPipe

(* Mutants: a pipe that blocks; a write that stores what there is room for. *)
WriteBlocks(units) == Fits(units) /\ pipe' = pipe \o units
WritePart(units) ==
  pipe' = IF Fits(units) THEN pipe \o units
                         ELSE SubSeq(pipe \o units, 1, MaxPipe)

(* write() of less than PIPE_BUF bytes into a non-blocking pipe: all or     *)
(* nothing; the stream empties its buffer either way.                      *)
Write(units) == pipe' = IF Fits(units) THEN pipe \o units ELSE pipe

(* fflush and pthread_mutex_unlock. *)
Flush(t) ==
  /\ t \in inside /\ left[t] = <<>>
  /\ Write(wbuf)
  /\ wbuf' = <<>> /\ inside' = inside \ {t}
  /\ UNCHANGED <<left, sent, guiPid, gui, copy, rbuf, shown>>

(* main, asked for a window, forks: whatever a thread has in writeFp at     *)
(* that moment is in the buffer of the child too.                          *)
Reopen(p) ==
  /\ guiPid = 0 /\ gui[p] = "none"
  /\ guiPid' = p
  /\ gui' = [gui EXCEPT ![p] = "idle"]
  /\ copy' = [copy EXCEPT ![p] = wbuf]
  /\ UNCHANGED <<main, pipe, rbuf, shown>>

-----------------------------------------------------------------------------
Becomes(p, state) == gui' = [gui EXCEPT ![p] = state]

(* GTK calls update_gui. *)
Update(p) ==
  /\ gui[p] = "idle" /\ Becomes(p, "read")
  /\ UNCHANGED <<main, pipe, guiPid, copy, rbuf, shown>>

(* fgets returns a line with its newline, or what there is when the pipe    *)
(* has no more.                                                            *)
Ends(u) == u.kind = "text"
LineEnd(units) == SelectInSeq(units, Ends)

(* fgets needs more than the stream has: read(). *)
Fill(p) ==
  /\ gui[p] = "read" /\ LineEnd(rbuf[p]) = 0 /\ pipe # <<>>
  /\ LET n == IF Len(pipe) < MaxRead THEN Len(pipe) ELSE MaxRead
     IN  /\ rbuf' = [rbuf EXCEPT ![p] = @ \o SubSeq(pipe, 1, n)]
         /\ pipe' = SubSeq(pipe, n + 1, Len(pipe))
  /\ UNCHANGED <<main, guiPid, gui, copy, shown>>

Whole(line) == Len(line) = 2 /\ line = Message(line[1].msg)

(* Mutant: of what was read only the first line is looked at. *)
RestLost(units, n) == <<>>

Rest(units, n) == SubSeq(units, n + 1, Len(units))

(* A line with less than two colons ends the window process (strchr returns *)
(* NULL, and a 0 is written there); one that was put together of two        *)
(* messages is shown on whatever page its numbers say.                     *)
Gets(p) ==
  /\ gui[p] = "read" /\ rbuf[p] # <<>>
  /\ LineEnd(rbuf[p]) # 0 \/ pipe = <<>>
  /\ LET n == IF LineEnd(rbuf[p]) = 0 THEN Len(rbuf[p]) ELSE LineEnd(rbuf[p])
         line == SubSeq(rbuf[p], 1, n)
     IN  /\ rbuf' = [rbuf EXCEPT ![p] = Rest(@, n)]
         /\ \/ shown' = Append(shown, line) /\ UNCHANGED gui
            \/ ~Whole(line) /\ Becomes(p, "dead") /\ UNCHANGED shown
  /\ UNCHANGED <<main, pipe, guiPid, copy>>

(* fgets finds nothing: update_gui returns TRUE. *)
Return(p) ==
  /\ gui[p] = "read" /\ rbuf[p] = <<>> /\ pipe = <<>>
  /\ Becomes(p, "idle")
  /\ UNCHANGED <<main, pipe, guiPid, copy, rbuf, shown>>

(* "Run as backend": clicks are handled between the calls of update_gui. *)
ClickBackend(p) ==
  /\ gui[p] = "idle" /\ Becomes(p, "close")
  /\ UNCHANGED <<main, pipe, guiPid, copy, rbuf, shown>>

(* kill(getppid(), SIGUSR2), and main forgets the process. *)
Report(p) ==
  /\ gui[p] = "close" /\ Becomes(p, "exit")
  /\ guiPid' = 0
  /\ UNCHANGED <<main, pipe, copy, rbuf, shown>>

(* exit() writes what its copy of writeFp holds. *)
Exit(p) ==
  /\ gui[p] = "exit" /\ Becomes(p, "gone")
  /\ Write(copy[p])
  /\ UNCHANGED <<main, guiPid, copy, rbuf, shown>>

-----------------------------------------------------------------------------
Section(t) == SetMessage(t) \/ Printf(t) \/ Flush(t)

Reader(p) == Update(p) \/ Fill(p) \/ Gets(p) \/ Return(p)

Window(p) == Reader(p) \/ ClickBackend(p) \/ Report(p) \/ Exit(p)

Next == \/ \E t \in Threads : Section(t)
        \/ \E p \in Pids : Reopen(p) \/ Window(p)

Spec == Init /\ [][Next]_vars

(* The threads are scheduled, and so is a window process in GTK's idle loop. *)
(* Nothing makes the user close or open one.                               *)
FairSpec == /\ Spec
            /\ \A t \in Threads : WF_vars(Printf(t)) /\ WF_vars(Flush(t))
            /\ \A p \in Pids : WF_vars(Reader(p))

-----------------------------------------------------------------------------
(* No window was forked in the middle of a set_message. *)
NoCopies == \A p \in Pids : copy[p] = <<>>

(* What was sent and is not shown yet: what the window has read, and what   *)
(* is in the pipe.                                                         *)
Unread == IF guiPid = 0 THEN pipe ELSE rbuf[guiPid] \o pipe

(* The order in which the threads send the parts of messages. *)
Before(u, v) == \/ u.msg < v.msg
                \/ u.msg = v.msg /\ u.kind = "head" /\ v.kind = "text"
Precede(a, b) == \A i \in DOMAIN a, j \in DOMAIN b : Before(a[i], b[j])
Sorted(units) ==
  \A i, j \in DOMAIN units : i < j => Before(units[i], units[j])

(* The last message that has left writeFp. *)
Flushed == IF inside = {} THEN sent ELSE sent - 1

(* One thread at most is inside set_message; writeFp holds what it has      *)
(* written of its message, and nothing of another one.                     *)
OneWriter ==
  /\ inside = {} => wbuf = <<>>
  /\ \A t \in inside :
       inside = {t} /\ wbuf \o left[t] = Message(sent)

(* Only the window that main knows reads, and no other one has read what   *)
(* it has not shown.                                                       *)
OneReader ==
  \A p \in Pids : /\ gui[p] \in {"idle", "read", "close", "dead"} => guiPid = p
                  /\ rbuf[p] # <<>> => gui[p] \in {"read", "dead"}
                  /\ gui[p] = "none" => copy[p] = <<>>

Ordered ==
  /\ Sorted(Unread)
  /\ \A k \in DOMAIN Unread : Unread[k].msg <= Flushed
  /\ \A i \in DOMAIN shown :
       /\ shown[i] # <<>>
       /\ \A k \in DOMAIN shown[i] : shown[i][k].msg <= Flushed
       /\ Precede(shown[i], Unread)
       /\ \A j \in DOMAIN shown : i < j => Precede(shown[i], shown[j])

(* No part of a message is shown twice or after a later one, by whichever   *)
(* of the windows that come and go: what one has not read the next one     *)
(* does.  (fexp.c 285-297, gtkwin.c 154-210; but for windows that were     *)
(* forked in the middle of a set_message.)                                 *)
InOrder == TypeOK /\ OneWriter /\ OneReader /\ (NoCopies => Ordered)

(* Heads and texts alternate, each text behind the head of its message. *)
Paired(units) ==
  \A k \in DOMAIN units :
    IF units[k].kind = "head"
      THEN k < Len(units) /\ units[k + 1] = Unit(units[k].msg, "text")
      ELSE k > 1 /\ units[k - 1] = Unit(units[k].msg, "head")

(* What a window shows, and will show of what was sent, are messages, each  *)
(* from one thread and whole, and none ends it: however the threads, the   *)
(* reads and the windows interleave (fexp.c 285-297, gtkwin.c 165-168), but *)
(* for windows that were forked in the middle of a set_message.            *)
LinesWhole ==
  NoCopies =>
    /\ Paired(Unread)
    /\ \A i \in DOMAIN shown : Whole(shown[i])
    /\ \A p \in Pids : gui[p] # "dead"

(* A transfer never waits for the window: set_message ends, whether the     *)
(* pipe is full, nobody reads it, or the window is dead (fexp.c 98-104).   *)
NeverWaits == \A t \in Threads : t \in inside ~> t \notin inside

(* What has got into the pipe is shown while there is a window that lives. *)
KeepsUp ==
  \A m \in 1..MaxMsgs, p \in Pids :
    gui[p] \in {"idle", "read"} /\ (\E i \in DOMAIN pipe : pipe[i].msg = m) ~>
      \/ gui[p] \notin {"idle", "read"}
      \/ \E i \in DOMAIN shown : \E k \in DOMAIN shown[i] : shown[i][k].msg = m
=============================================================================
