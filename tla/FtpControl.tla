----------------------------- MODULE FtpControl -----------------------------
(***************************************************************************)
(* The control connection of one FTP session: FtpSendCmd and readresp of   *)
(* ftplib.c with the socket_wait and readline under them, and the server's *)
(* side as far as its replies go.                                          *)
(*                                                                         *)
(* A command is plain (one reply) or a transfer (a preliminary reply, and  *)
(* a final one that FtpClose reads).  Commands are numbered 1..N, round    *)
(* and round, so that a reply can be told from that of another command.    *)
(* An environment is a set of the following words, the liberties of the    *)
(* server; each behaviour has one of Environments throughout:              *)
(*   "multi"  replies of several lines                                     *)
(*   "long"   a reply line of more than 255 bytes                          *)
(*   "close"  it closes the connection, after a 421 or without a word      *)
(***************************************************************************)
EXTENDS Integers, Sequences

CONSTANTS N, Environments, MaxChan   \* MaxChan bounds the unread lines

ASSUME NAssumption == N \in Nat \ {0}
ASSUME ChanAssumption == MaxChan \in Nat \ {0}

VARIABLES
  alive,    \* nControl->alive
  pc,       \* "idle", "xfer", or in readresp: "first" line, "more" lines
  cmd,      \* the number of the last command
  stage,    \* the reply readresp waits for: "only", "prelim" or "final"
  verdict,  \* history: what the last readresp returned, and on which line
  chan,     \* the lines sent by the server and not read
  owed,     \* the replies the server has still to send, with the number of
            \* lines of each that it has sent
  closed,   \* the server has closed the connection
  reset,    \* and has answered a later write with a reset
  env       \* the environment, which does not change

client == <<alive, pc, cmd, stage, verdict>>
server == <<chan, owed, closed, reset>>
vars == <<client, server, env>>

Stages == {"only", "prelim", "final"}
Codes == {"ok", "no"}              \* the character that is expected, or not
Reply == [cmd : 0..N, stage : Stages]
MoreLines == 2                     \* bound on the lines before the last one
Owed == [re : Reply, said : 0..MoreLines]
Line == [re : Reply, kind : {"last", "more", "cut"}, code : Codes]

Unasked == [cmd |-> 0, stage |-> "only"]
Awaited == [cmd |-> cmd, stage |-> stage]

TypeOK ==
  /\ alive \in BOOLEAN
  /\ pc \in {"idle", "xfer", "first", "more"}
  /\ cmd \in 0..N
  /\ stage \in Stages
  /\ verdict \in [re : Reply, by : Reply, ok : BOOLEAN]
  /\ chan \in Seq(Line) /\ Len(chan) <= MaxChan
  /\ owed \in Seq(Owed) /\ Len(owed) <= MaxChan
  /\ closed \in BOOLEAN
  /\ reset \in BOOLEAN
  /\ pc \in {"first", "xfer"} => alive
  /\ reset => closed

Init ==
  /\ alive = TRUE
  /\ pc = "idle"
  /\ cmd = 0
  /\ stage = "only"
  /\ verdict = [re |-> Unasked, by |-> Unasked, ok |-> FALSE]
  /\ chan = <<>>
  /\ owed = <<>>
  /\ closed = FALSE
  /\ reset = FALSE
  /\ env \in Environments

-----------------------------------------------------------------------------
(* readresp returns, having judged a line of the reply "by". *)
Return(by, ok) ==
  /\ verdict' = [re |-> Awaited, by |-> by, ok |-> ok]
  /\ pc' = IF ok /\ stage = "prelim" THEN "xfer" ELSE "idle"

(* FtpSendCmd writes the command; into a connection the server has closed   *)
(* the first write succeeds all the same, and provokes the reset.           *)
SendCmd ==
  /\ pc = "idle" /\ alive /\ ~reset
  /\ Len(owed) < MaxChan
  /\ cmd' = (cmd % N) + 1
  /\ stage' \in {"only", "prelim"}
  /\ pc' = "first"
  /\ owed' = IF closed THEN owed ELSE Append(owed, [re |-> Awaited', said |-> 0])
  /\ reset' = closed
  /\ UNCHANGED <<alive, verdict, chan, closed>>

(* Mutant: a failed write leaves the session as it was. *)
SendIgnored ==
  /\ pc = "idle" /\ alive /\ reset
  /\ UNCHANGED vars

(* socket_wait or net_write fails. *)
SendFails ==
  /\ pc = "idle" /\ alive /\ reset
  /\ alive' = FALSE
  /\ UNCHANGED <<pc, cmd, stage, verdict, server>>

(* Mutant: the data connection is closed and the reply is left unread. *)
FtpCloseSilent ==
  /\ pc = "xfer"
  /\ pc' = "idle"
  /\ UNCHANGED <<alive, cmd, stage, verdict, server>>

(* The data connection has been read or written: FtpClose awaits the reply. *)
FtpClose ==
  /\ pc = "xfer"
  /\ stage' = "final"
  /\ pc' = "first"
  /\ UNCHANGED <<alive, cmd, verdict, server>>

(* The first line of a reply.  Of a line that is too long readline keeps an *)
(* empty string, and the rest of it is the next line.                       *)
ReadFirst ==
  /\ pc = "first" /\ chan # <<>>
  /\ LET line == Head(chan) IN
       IF line.kind = "more"
         THEN pc' = "more" /\ UNCHANGED verdict
         ELSE Return(line.re, line.kind = "last" /\ line.code = "ok")
  /\ chan' = Tail(chan)
  /\ UNCHANGED <<alive, cmd, stage, owed, closed, reset>>

(* Further lines, up to the one that begins with the code and a space; but  *)
(* once socket_wait has failed, readline reads no more.                     *)
ReadMore ==
  /\ pc = "more" /\ chan # <<>> /\ alive
  /\ LET line == Head(chan) IN
       IF line.kind # "last"
         THEN UNCHANGED <<pc, verdict>>
         ELSE Return(line.re, line.code = "ok")
  /\ chan' = Tail(chan)
  /\ UNCHANGED <<alive, cmd, stage, owed, closed, reset>>

(* Mutant: the wait times out and the session stays alive. *)
TimeoutForgiven ==
  /\ pc = "first" /\ chan = <<>> /\ ~closed
  /\ Return(Unasked, FALSE)
  /\ UNCHANGED <<alive, cmd, stage, server>>

(* Nothing comes within TIMEOUT seconds.  readline then returns 0 bytes and *)
(* not -1: for the first line readresp takes the text of the error for the  *)
(* reply and returns 0, in the loop over further lines it goes round again. *)
Timeout ==
  /\ pc \in {"first", "more"} /\ alive
  /\ chan = <<>> /\ ~closed
  /\ alive' = FALSE
  /\ IF pc = "first" THEN Return(Unasked, FALSE) ELSE UNCHANGED <<pc, verdict>>
  /\ UNCHANGED <<cmd, stage, server>>

(* On a dead session readline returns 0 at once, for ever. *)
Spin ==
  /\ pc = "more" /\ ~alive
  /\ UNCHANGED vars

(* Mutant: readresp goes on after the end of file, too. *)
ReadEofIgnored == pc \in {"first", "more"} /\ chan = <<>> /\ closed
                    /\ UNCHANGED vars

(* End of file, which leaves the session alive, or a read error. *)
ReadEof ==
  /\ pc \in {"first", "more"} /\ alive
  /\ chan = <<>> /\ closed
  /\ alive' \in {TRUE, ~reset}
  /\ Return(Unasked, FALSE)
  /\ UNCHANGED <<cmd, stage, server>>

(* get_file and put_file open a new session in place of a dead one, without *)
(* closing the old one's socket.                                            *)
Reconnect ==
  /\ pc = "idle" /\ ~alive
  /\ alive' = TRUE
  /\ chan' = <<>> /\ owed' = <<>>
  /\ closed' = FALSE /\ reset' = FALSE
  /\ UNCHANGED <<pc, cmd, stage, verdict>>

-----------------------------------------------------------------------------
(* The server finishes the reply it owes; a transfer that it begins it owes *)
(* a second reply for.                                                      *)
ServerReply ==
  /\ owed # <<>> /\ ~closed
  /\ \E code \in Codes :
       LET re == Head(owed).re
           more == IF re.stage = "prelim" /\ code = "ok"
                     THEN <<[re |-> [re EXCEPT !.stage = "final"], said |-> 0]>>
                     ELSE <<>>
       IN /\ owed' = more \o Tail(owed)
          /\ \/ /\ Len(chan) < MaxChan
                /\ chan' = Append(chan, [re |-> re, kind |-> "last", code |-> code])
             \/ \* the rest of a long line begins with anything
                /\ "long" \in env /\ Len(chan) + 1 < MaxChan
                /\ \E any \in Codes :
                     chan' = chan \o <<[re |-> re, kind |-> "cut", code |-> code],
                                       [re |-> re, kind |-> "last", code |-> any]>>
  /\ UNCHANGED <<client, closed, reset>>

(* The server sends a line of a reply that is not its last. *)
ServerMore ==
  /\ "multi" \in env
  /\ owed # <<>> /\ ~closed /\ Len(chan) < MaxChan
  /\ Head(owed).said < MoreLines
  /\ owed' = [owed EXCEPT ![1].said = @ + 1]
  /\ chan' = Append(chan, [re |-> Head(owed).re, kind |-> "more", code |-> "ok"])
  /\ UNCHANGED <<client, closed, reset>>

(* The server closes the connection, telling so with a 421 or not. *)
ServerClose ==
  /\ "close" \in env /\ ~closed
  /\ closed' = TRUE
  /\ owed' = <<>>
  /\ \/ UNCHANGED chan
     \/ /\ Len(chan) < MaxChan
        /\ chan' = Append(chan, [re |-> Unasked, kind |-> "last", code |-> "no"])
  /\ UNCHANGED <<client, reset>>

-----------------------------------------------------------------------------
Client ==
  /\ \/ SendCmd \/ SendFails \/ FtpClose \/ ReadFirst \/ ReadMore
     \/ Timeout \/ Spin \/ ReadEof \/ Reconnect
  /\ UNCHANGED env

Server == (ServerReply \/ ServerMore \/ ServerClose) /\ UNCHANGED env

Next == Client \/ Server

Spec == Init /\ [][Next]_vars

(* The thread goes on, whatever the server does: every wait has a timeout.  *)
(* Nothing is assumed of the server.                                        *)
FairSpec == Spec /\ WF_vars(Client)

-----------------------------------------------------------------------------
(* What FtpSendCmd and FtpClose promise ("return 1 if proper response       *)
(* received, 0 otherwise", ftplib.c 520): a reply that is accepted is the   *)
(* reply of that very command.  Whatever is timed out, cut off or closed, a *)
(* reply that came after its command was given up is never taken for that   *)
(* of a later one (ftplib.c 105, 522-543), as long as every line fits in    *)
(* readline's buffer.                                                       *)
OwnReply == "long" \notin env /\ verdict.ok => verdict.by = verdict.re

(* The reply that comes next when all goes well. *)
Expected == IF pc = "xfer" THEN [cmd |-> cmd, stage |-> "final"] ELSE Awaited

(* A preliminary reply that grants a transfer announces its final reply. *)
Announces(line, re) == /\ line.kind = "last" /\ line.code = "ok"
                       /\ line.re.stage = "prelim"
                       /\ re = [line.re EXCEPT !.stage = "final"]

(* A reply is due that is expected, or announced by one of the k first      *)
(* lines that are not read.                                                 *)
Due(re, k) == \/ pc # "idle" /\ re = Expected
              \/ \E j \in 1..k : Announces(chan[j], re)

(* What is unread and what is owed, in this order, are the rest of the      *)
(* reply that is awaited, of the one that it announces, and a 421 that      *)
(* nobody asked for; each reply ends once.                                  *)
Order ==
  /\ \A i \in 1..Len(chan) :
       /\ chan[i].kind # "cut"
       /\ chan[i].re = Unasked =>
            i = Len(chan) /\ closed /\ chan[i].kind = "last" /\ chan[i].code = "no"
       /\ chan[i].re # Unasked => Due(chan[i].re, i - 1)
       /\ chan[i].kind = "last" =>
            /\ \A j \in (i + 1)..Len(chan) :
                 chan[j].re = Unasked \/ Announces(chan[i], chan[j].re)
            /\ owed # <<>> => Announces(chan[i], owed[1].re)
  /\ owed # <<>> => ~closed /\ Len(owed) = 1 /\ Due(owed[1].re, Len(chan))

(* A session that is alive is in step with its server: what will be read    *)
(* is what is waited for, and between two commands no reply is owed or      *)
(* unread, but for a 421.                                                   *)
InStep ==
  /\ TypeOK
  /\ pc # "idle" => cmd # 0
  /\ alive /\ "long" \notin env =>
       /\ Order
       /\ pc = "idle" => /\ owed = <<>>
                         /\ \A i \in 1..Len(chan) : chan[i].re = Unasked

(* A command that was sent returns to its caller (ftplib.c 518-520: "send a *)
(* command and wait for expected response"), whatever the server does.      *)
Returns == pc \in {"first", "more"} ~> pc \in {"idle", "xfer"}

(* A command returns, unless its wait has timed out between the lines of a *)
(* reply of several lines (ftplib.c 289-299).                              *)
ReturnsOrSpins ==
  pc \in {"first", "more"} ~> pc \in {"idle", "xfer"} \/ (pc = "more" /\ ~alive)

(* A connection that the server has closed is given up in the end, although *)
(* an end of file alone does not make readline mark the session dead.       *)
DeadNoticed == closed ~> ~alive
=============================================================================
