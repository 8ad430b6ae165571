------------------------------ MODULE Readline -------------------------------
(***************************************************************************)
(* ftplib.c 121-195: readline takes a line from a stream of bytes, by way  *)
(* of the buffer of the connection, into the buffer of its caller: a reply *)
(* (readresp) or an entry of a directory (FtpRead).  A byte is a record of *)
(* the line of the peer that it belongs to and of what it is.              *)
(*                                                                         *)
(* Words of an environment:                                                *)
(*   "late"   the peer may be slower than the timeout                       *)
(*   "error"  a read may fail                                              *)
(***************************************************************************)
EXTENDS Integers, SequencesExt

CONSTANTS MaxLine,        \* the bytes of the caller's buffer
          FTPLIB_BUFSIZ,  \* those of the connection's
          Lines,          \* the most that a peer sends before it closes
          Lengths,        \* of its lines, without the end of the line
          Environments

ASSUME BufferAssumption == MaxLine \in Nat \ {0, 1} /\ FTPLIB_BUFSIZ \in Nat \ {0}
ASSUME LinesAssumption == Lines \in Nat /\ Lengths \subseteq Nat

VARIABLES
  sent,     \* history: the lines of the peer
  net,      \* the bytes on their way
  cbuf,     \* the bytes from cget to cput; cavail is their number
  cleft,    \* the room behind cput
  pc,       \* "idle", in readline "copy", "check" or "read", or "wild"
  buf,      \* the caller's buffer from its beginning to bp
  max,      \* the room that readline believes is left there
  eof,
  retval,
  got,      \* history: what the calls returned
  outside,  \* history: a byte was written before or behind the buffer
  alive, env

peer == <<sent, net>>
ctl == <<cbuf, cleft, alive>>
call == <<buf, max, eof, retval>>
vars == <<peer, ctl, pc, call, got, outside, env>>

Bytes == [line : Nat, is : {"c", "cr", "lf"}]
Byte(line, is) == [line |-> line, is |-> is]
Ends == {<<"cr", "lf">>, <<"lf">>}
LineOf(n, length, end) ==
  [k \in 1..length |-> Byte(n, "c")] \o [k \in DOMAIN end |-> Byte(n, end[k])]

(* What a peer may send: the last line may lack its end. *)
StreamsOf(n) ==
  {[i \in 1..n |-> LineOf(i, lengths[i], ends[i])] :
     lengths \in [1..n -> Lengths],
     ends \in {e \in [1..n -> Ends \cup {<<>>}] : \A i \in 1..n - 1 : e[i] # <<>>}}
Streams == UNION {StreamsOf(n) : n \in 0..Lines}

(* The bytes behind each line, and behind none. *)
Behind(lines) ==
  LET behind[i \in 0..Len(lines)] ==
        IF i = Len(lines) THEN <<>> ELSE lines[i + 1] \o behind[i + 1]
  IN  behind

Init ==
  /\ env \in Environments
  /\ sent \in {lines \in Streams : \A line \in Range(lines) : line # <<>>}
  /\ net = Behind(sent)[0]
  /\ cbuf = <<>> /\ cleft = 0 /\ alive = TRUE
  /\ pc = "idle" /\ buf = <<>> /\ max = 0 /\ eof = FALSE /\ retval = 0
  /\ got = <<>> /\ outside = FALSE

-----------------------------------------------------------------------------
(* A call with a buffer of MaxLine bytes; callers give up after an error or the *)
(* end of the stream.                                                      *)
Call ==
  /\ pc = "idle" /\ alive
  /\ got # <<>> => Last(got).retval >= 0
  /\ pc' = "copy" /\ buf' = <<>> /\ max' = MaxLine /\ eof' = FALSE /\ retval' = 0
  /\ UNCHANGED <<peer, ctl, got, outside, env>>

Return(text, value) ==
  /\ pc' = "idle" /\ buf' = text /\ retval' = value
  /\ got' = Append(got, [text |-> text, retval |-> value])

(* Bytes without the first p, and the ends of lines among them. *)
Past(bytes, p) == SubSeq(bytes, p + 1, Len(bytes))
LF(bytes) == {i \in DOMAIN bytes : bytes[i].is = "lf"}

(* What memccpy may copy, the ends of lines there, and what it copies: as     *)
(* much as fits, or to the first end.                                      *)
Room == IF max >= Len(cbuf) THEN Len(cbuf) ELSE max - 1
Stops == LF(SubSeq(cbuf, 1, Room))
Copied == IF Stops = {} THEN Room ELSE Min(Stops)

EndsCrLf(text) == Len(text) >= 2 /\ text[Len(text) - 1].is = "cr"
NoCr(text) == IF EndsCrLf(text) THEN Append(SubSeq(text, 1, Len(text) - 2), Last(text))
              ELSE text

(* Mutant: a carriage return that is dropped is still counted. *)
CopyCounted ==
  /\ pc = "copy" /\ cbuf # <<>> /\ max > 0
  /\ cbuf' = Past(cbuf, Copied) /\ max' = max - Copied
  /\ LET text == buf \o SubSeq(cbuf, 1, Copied)
     IN  IF Stops = {}
           THEN /\ pc' = "check" /\ buf' = text /\ retval' = retval + Copied
                /\ outside' = (outside \/ Len(text) >= MaxLine) /\ UNCHANGED got
           ELSE \/ /\ Return(NoCr(text), retval + Copied)
                   /\ outside' = (outside \/ Len(text) >= MaxLine)
                \/ /\ Len(text) = 1 /\ Return(<<>>, 0) /\ outside' = TRUE
  /\ UNCHANGED <<peer, cleft, alive, eof, env>>

(* The bytes are copied, and at the end of a line "\r\n" becomes "\n".  (Of a *)
(* line that is "\n" alone, the test reads the byte before the buffer, which *)
(* may be anything.)                                                       *)
Copy ==
  /\ pc = "copy" /\ cbuf # <<>> /\ max > 0
  /\ cbuf' = Past(cbuf, Copied) /\ max' = max - Copied
  /\ LET text == buf \o SubSeq(cbuf, 1, Copied)
     IN  IF Stops = {}
           THEN /\ pc' = "check" /\ buf' = text /\ retval' = retval + Copied
                /\ outside' = (outside \/ Len(text) >= MaxLine) /\ UNCHANGED got
           ELSE \/ /\ Return(NoCr(text),
                             retval + Copied - (IF EndsCrLf(text) THEN 1 ELSE 0))
                   /\ outside' = (outside \/ Len(text) >= MaxLine)
                \/ /\ Len(text) = 1 /\ Return(<<>>, 0) /\ outside' = TRUE
  /\ UNCHANGED <<peer, cleft, alive, eof, env>>

(* With no room at all, memccpy is to copy -1 bytes, which is every byte up *)
(* to a "\n" wherever that is.                                             *)
CopyWild ==
  /\ pc = "copy" /\ cbuf # <<>> /\ max = 0
  /\ pc' = "wild" /\ outside' = TRUE
  /\ UNCHANGED <<peer, ctl, call, got, env>>

CopyNothing ==
  /\ pc = "copy" /\ cbuf = <<>>
  /\ pc' = "check"
  /\ UNCHANGED <<peer, ctl, call, got, outside, env>>

(* Mutant: a full buffer is returned as it is. *)
CheckKeeps ==
  /\ pc = "check"
  /\ IF max = 1 THEN Return(buf, retval) /\ UNCHANGED cleft
     ELSE /\ cleft' = IF cbuf = <<>> THEN FTPLIB_BUFSIZ ELSE cleft
          /\ IF eof THEN Return(buf, IF retval = 0 THEN -1 ELSE retval)
             ELSE pc' = "read" /\ UNCHANGED <<buf, retval, got>>
  /\ UNCHANGED <<peer, cbuf, alive, max, eof, outside, env>>

(* Between memccpy and the next read: a full buffer is emptied, an empty   *)
(* one of the connection is filled from its beginning, and at the end of   *)
(* the stream the call ends.                                               *)
Check ==
  /\ pc = "check"
  /\ IF max = 1 THEN Return(<<>>, retval) /\ UNCHANGED cleft
     ELSE /\ cleft' = IF cbuf = <<>> THEN FTPLIB_BUFSIZ ELSE cleft
          /\ IF eof THEN Return(buf, IF retval = 0 THEN -1 ELSE retval)
             ELSE pc' = "read" /\ UNCHANGED <<buf, retval, got>>
  /\ UNCHANGED <<peer, cbuf, alive, max, eof, outside, env>>

(* Mutant: the end of the stream is not noticed. *)
ReadOn(x) ==
  /\ pc = "read" /\ x <= cleft /\ x <= Len(net)
  /\ x = 0 => net = <<>> \/ cleft = 0
  /\ net' = Past(net, x)
  /\ cbuf' = cbuf \o SubSeq(net, 1, x)
  /\ cleft' = cleft - x
  /\ eof' = eof
  /\ pc' = "copy"
  /\ UNCHANGED <<sent, alive, buf, max, retval, got, outside, env>>

(* net_read: some bytes, or none at the end of the stream. *)
Read(x) ==
  /\ pc = "read" /\ x <= cleft /\ x <= Len(net)
  /\ x = 0 => net = <<>> \/ cleft = 0
  /\ net' = Past(net, x)
  /\ cbuf' = cbuf \o SubSeq(net, 1, x)
  /\ cleft' = cleft - x
  /\ eof' = (x = 0)
  /\ pc' = "copy"
  /\ UNCHANGED <<sent, alive, buf, max, retval, got, outside, env>>

(* Of a reply the caller's buffer is ctl->response, where socket_wait and   *)
(* readline put a message of their own when they fail: no byte of the peer.*)
Message == <<Byte(0, "c")>>
Failure(value) == \E text \in {buf, Message} : Return(text, value)

(* socket_wait gives up: what has come, or in its place the message, is    *)
(* returned as if it were a line.                                          *)
Timeout ==
  /\ pc = "read" /\ "late" \in env
  /\ alive' = FALSE /\ Failure(retval)
  /\ UNCHANGED <<peer, cbuf, cleft, max, eof, outside, env>>

ReadError ==
  /\ pc = "read" /\ "error" \in env
  /\ alive' = FALSE /\ Failure(-1)
  /\ UNCHANGED <<peer, cbuf, cleft, max, eof, outside, env>>

Next == \/ Call \/ Copy \/ CopyWild \/ CopyNothing \/ Check
        \/ \E x \in 0..FTPLIB_BUFSIZ : Read(x)
        \/ Timeout \/ ReadError

Spec == Init /\ [][Next]_vars /\ WF_vars(Next)

-----------------------------------------------------------------------------
Bare(line) == Len(line) = 1 /\ line[1].is = "lf"

(* What a caller should see of a line: all of it but the carriage return. *)
Text(line) ==
  IF \E k \in DOMAIN line : line[k].is = "cr"
    THEN [k \in 1..Len(line) - 1 |-> IF line[k].is = "cr" THEN line[k + 1] ELSE line[k]]
    ELSE line

(* All lines are shorter than the buffer (one without "\n" by a byte more), *)
(* and none is "\n" alone.                                                 *)
Fit == \A line \in Range(sent) :
         /\ Len(line) < MaxLine - (IF Last(line).is = "lf" THEN 0 ELSE 1)
         /\ ~Bare(line)

(* Of lines shorter than the caller's buffer the calls return one after    *)
(* the other, however the bytes were split on their way, each whole, with  *)
(* its length and "\n" at its end, and -1 after the last; and no byte is   *)
(* ever written beside the buffer (ftplib.c 136-192).                      *)
LinesArrive ==
  Fit =>
    /\ ~outside
    /\ env = {} =>
         \A k \in DOMAIN got :
           IF k <= Len(sent)
             THEN got[k] = [text |-> Text(sent[k]), retval |-> Len(Text(sent[k]))]
             ELSE got[k].retval = -1

EndOf(text, line) == \E p \in 0..Len(line) : text = Past(line, p)

(* Of a line that does not fit no caller ever sees the beginning: what a   *)
(* call returns is empty or is the end of one line, as long as nothing was *)
(* written beside the buffer and no wait or read failed.                   *)
NoBeginnings ==
  ~outside /\ env = {} =>
    \A k \in DOMAIN got :
      got[k].text # <<>> => \E i \in DOMAIN sent : EndOf(got[k].text, Text(sent[i]))

(* A caller that goes on calling comes to the end of the stream, with      *)
(* every line of it read.                                                  *)
AllRead ==
  Fit /\ env = {} ~> Len(got) > Len(sent) /\ Last(got).retval = -1

-----------------------------------------------------------------------------
(* A line has its "\n" at its end, and a carriage return only before it.    *)
IsLine(line) ==
  /\ line \in Seq(Bytes) /\ line # <<>>
  /\ \A k \in 1..Len(line) :
       /\ line[k].is = "lf" => k = Len(line)
       /\ line[k].is = "cr" => k + 1 = Len(line) /\ line[k + 1].is = "lf"

IsStream(lines) ==
  /\ lines \in Seq(Seq(Bytes)) /\ \A i \in 1..Len(lines) : IsLine(lines[i])
  /\ \A i \in 1..Len(lines) - 1 : Last(lines[i]).is = "lf"

TypeOK ==
  /\ IsStream(sent)
  /\ net \in Seq(Bytes) /\ cbuf \in Seq(Bytes) /\ buf \in Seq(Bytes)
  /\ cleft \in Nat /\ max \in Nat /\ retval \in Nat \cup {-1}
  /\ pc \in {"idle", "copy", "check", "read", "wild"}
  /\ pc # "idle" => retval \in Nat
  /\ eof \in BOOLEAN /\ alive \in BOOLEAN /\ outside \in BOOLEAN
  /\ got \in Seq([text : Seq(Bytes), retval : Nat \cup {-1}])

(* The caller's buffer has no end of a line yet, and room for a 0; that of  *)
(* the connection is empty before it is filled.                            *)
Buffers ==
  /\ pc \in {"copy", "check", "read"} =>
       /\ LF(buf) = {} /\ Len(buf) < MaxLine
       /\ max = MaxLine - Len(buf) /\ retval = Len(buf)
       /\ eof => cbuf = <<>> /\ net = <<>>
  /\ pc = "check" => cbuf = <<>> \/ max = 1
  /\ pc = "read" => cbuf = <<>> /\ cleft = FTPLIB_BUFSIZ /\ max > 1

(* The bytes of a stream behind the first p of its line i. *)
Rest(lines, i, p) == Past(lines[i], p) \o Behind(lines)[i]

(* What has not been returned, nor dropped. *)
Left == (IF pc = "idle" THEN <<>> ELSE buf) \o (cbuf \o net)

(* That is the rest of a line and all behind it; of lines that fit, the     *)
(* whole of the next one.                                                  *)
Position ==
  \/ \E i \in 1..Len(sent) :
       \E p \in 0..Len(sent[i]) - 1 :
         /\ Left = Rest(sent, i, p)
         /\ Fit => p = 0 /\ Len(got) = i - 1
  \/ /\ Left = <<>>
     /\ Fit => \/ Len(got) = Len(sent)
               \/ pc = "idle" /\ got # <<>> /\ Last(got).retval = -1

(* The inductive invariant: as long as the connection lives and nothing is  *)
(* written beside the buffer, every byte is still where it belongs.        *)
InPieces ==
  /\ TypeOK
  /\ ~alive => pc = "idle" /\ env # {}
  /\ ~outside => pc # "wild"
  /\ alive /\ ~outside => Buffers /\ Position
  /\ NoBeginnings
=============================================================================
