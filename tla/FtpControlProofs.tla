-------------------------- MODULE FtpControlProofs ---------------------------
(***************************************************************************)
(* Theorems about the control connection for any number of commands, of    *)
(* unread lines and of lines in a reply.                                   *)
(***************************************************************************)
EXTENDS FtpControl, SequenceTheorems, TLAPS

LEMMA AwaitedType == TypeOK => Awaited \in Reply /\ Unasked \in Reply
  BY NAssumption DEF TypeOK, Awaited, Unasked, Reply, Stages

LEMMA NextCmd == ASSUME cmd \in 0..N PROVE (cmd % N) + 1 \in 1..N
<1>1. cmd % N \in 0..(N - 1)
  BY NAssumption
<1>2. QED BY <1>1, NAssumption

(* A line is taken off the channel, or put behind it. *)
LEMMA TailLines ==
  ASSUME chan \in Seq(Line), chan # <<>>
  PROVE  /\ Head(chan) = chan[1] /\ Head(chan) \in Line
         /\ Tail(chan) \in Seq(Line) /\ Len(Tail(chan)) = Len(chan) - 1
         /\ Len(chan) \in Nat /\ Len(chan) >= 1
         /\ \A i \in 1..Len(Tail(chan)) : Tail(chan)[i] = chan[i + 1]
  BY HeadTailProperties

LEMMA AppendLine ==
  ASSUME chan \in Seq(Line), NEW l \in Line
  PROVE  /\ Append(chan, l) \in Seq(Line)
         /\ Len(Append(chan, l)) = Len(chan) + 1 /\ Len(chan) \in Nat
         /\ \A i \in 1..Len(chan) : Append(chan, l)[i] = chan[i]
         /\ Append(chan, l)[Len(chan) + 1] = l
  BY AppendProperties

LEMMA FinalType ==
  ASSUME NEW re \in Reply
  PROVE  /\ [re EXCEPT !.stage = "final"] \in Reply
         /\ [re EXCEPT !.stage = "final"].stage = "final"
         /\ [re EXCEPT !.stage = "final"] # Unasked
  BY DEF Reply, Stages, Unasked

(* A reply that is announced is a final one. *)
LEMMA FinalAnnounced ==
  ASSUME chan \in Seq(Line), NEW j \in 1..Len(chan), NEW re,
         Announces(chan[j], re)
  PROVE  re.stage = "final"
<1>1. chan[j] \in Line
  OBVIOUS
<1>2. chan[j].re \in Reply
  BY <1>1 DEF Line
<1>3. QED BY <1>2, FinalType DEF Announces

(* The replies that are owed when the server has finished the first one. *)
LEMMA OwedNext ==
  ASSUME owed \in Seq(Owed), owed # <<>>, NEW code,
         NEW more,
         more = IF Head(owed).re.stage = "prelim" /\ code = "ok"
                  THEN <<[re |-> [Head(owed).re EXCEPT !.stage = "final"],
                          said |-> 0]>>
                  ELSE <<>>
  PROVE  /\ more \in Seq(Owed) /\ Len(more) \in {0, 1}
         /\ more \o Tail(owed) \in Seq(Owed)
         /\ Len(more \o Tail(owed)) <= Len(owed)
<1>1. Head(owed) \in Owed /\ Tail(owed) \in Seq(Owed)
      /\ Len(Tail(owed)) = Len(owed) - 1 /\ Len(owed) \in Nat
  BY HeadTailProperties
<1>2. Head(owed).re \in Reply /\ 0 \in 0..MoreLines
  BY <1>1 DEF Owed, MoreLines
<1>3. [Head(owed).re EXCEPT !.stage = "final"] \in Reply
  BY <1>2, FinalType
<1>4. [re |-> [Head(owed).re EXCEPT !.stage = "final"], said |-> 0] \in Owed
  BY <1>2, <1>3 DEF Owed
<1>5. more \in Seq(Owed) /\ Len(more) \in {0, 1}
  BY <1>4
<1>6. QED BY <1>1, <1>5, ConcatProperties

(* What readresp returns. *)
LEMMA ReturnType ==
  ASSUME TypeOK, NEW by \in Reply, NEW ok \in BOOLEAN, Return(by, ok)
  PROVE  /\ verdict' \in [re : Reply, by : Reply, ok : BOOLEAN]
         /\ pc' \in {"idle", "xfer"}
         /\ ~ok => pc' = "idle"
  BY AwaitedType DEF Return

-----------------------------------------------------------------------------
(* Type correctness. *)
LEMMA TypeInit == Init => TypeOK
<1> SUFFICES ASSUME Init PROVE TypeOK
  OBVIOUS
<1>1. Unasked \in Reply /\ 0 \in 0..N
  BY NAssumption DEF Unasked, Reply, Stages
<1>2. <<>> \in Seq(Line) /\ <<>> \in Seq(Owed) /\ Len(<<>>) = 0
  OBVIOUS
<1>3. verdict \in [re : Reply, by : Reply, ok : BOOLEAN]
  BY <1>1 DEF Init
<1>4. alive \in BOOLEAN /\ (pc \in {"first", "xfer"} => alive) /\ (reset => closed)
      /\ closed \in BOOLEAN /\ reset \in BOOLEAN
  BY DEF Init
<1>5. chan \in Seq(Line) /\ owed \in Seq(Owed) 
  BY <1>2 DEF Init
<1>6. Len(chan) <= MaxChan /\ Len(owed) <= MaxChan
  BY <1>2, ChanAssumption DEF Init
<1>7. QED
  BY <1>1, <1>3, <1>4, <1>5, <1>6 DEF Init, TypeOK, Stages

LEMMA TypeNext == TypeOK /\ [Next]_vars => TypeOK'
<1> SUFFICES ASSUME TypeOK, [Next]_vars PROVE TypeOK'
  OBVIOUS
<1>0. Awaited \in Reply /\ Unasked \in Reply
  BY AwaitedType
<1>1. CASE SendCmd
  <2>1. cmd' \in 0..N /\ stage' \in Stages
    BY <1>1, NextCmd, NAssumption DEF SendCmd, TypeOK, Stages
  <2>2. Awaited' \in Reply
    BY <2>1 DEF Awaited, Reply
  <2>3. [re |-> Awaited', said |-> 0] \in Owed
    BY <2>2 DEF Owed, MoreLines
  <2>4. owed' \in Seq(Owed) /\ Len(owed') <= MaxChan
    BY <1>1, <2>3, ChanAssumption DEF SendCmd, TypeOK
  <2>5. QED BY <1>1, <2>1, <2>4 DEF SendCmd, TypeOK
<1>2. CASE SendFails
  BY <1>2 DEF SendFails, server, TypeOK
<1>3. CASE FtpClose
  BY <1>3 DEF FtpClose, server, TypeOK, Stages
<1>4. CASE ReadFirst \/ ReadMore
  <2>1. chan' = Tail(chan) /\ chan # <<>>
        /\ UNCHANGED <<alive, cmd, stage, owed, closed, reset>> /\ alive
    BY <1>4 DEF ReadFirst, ReadMore, TypeOK
  <2>2. Tail(chan) \in Seq(Line) /\ Len(Tail(chan)) <= MaxChan
        /\ Head(chan).re \in Reply
    BY <2>1, TailLines, ChanAssumption DEF TypeOK, Line
  <2>3. \/ pc' \in {"first", "more"} /\ UNCHANGED verdict
        \/ \E ok \in BOOLEAN : Return(Head(chan).re, ok)
    BY <1>4 DEF ReadFirst, ReadMore
  <2>4. verdict' \in [re : Reply, by : Reply, ok : BOOLEAN]
        /\ pc' \in {"idle", "xfer", "first", "more"}
    BY <2>2, <2>3, ReturnType DEF TypeOK
  <2>5. chan' \in Seq(Line) /\ Len(chan') <= MaxChan
    BY <2>1, <2>2
  <2>6. QED BY <2>1, <2>4, <2>5 DEF TypeOK
<1>5. CASE Timeout
  <2>1. /\ verdict' \in [re : Reply, by : Reply, ok : BOOLEAN]
        /\ pc' \in {"idle", "more"}
    BY <1>0, <1>5, ReturnType DEF Timeout, TypeOK
  <2>2. QED BY <1>5, <2>1 DEF Timeout, server, TypeOK
<1>6. CASE ReadEof
  BY <1>0, <1>6 DEF ReadEof, Return, server, TypeOK
<1>7. CASE Reconnect
  <2>1. chan' \in Seq(Line) /\ owed' \in Seq(Owed)
        /\ Len(chan') <= MaxChan /\ Len(owed') <= MaxChan
    BY <1>7, ChanAssumption DEF Reconnect
  <2>2. QED BY <1>7, <2>1 DEF Reconnect, TypeOK
<1>8. CASE ServerReply
  <2>1. PICK code \in Codes :
          LET re == Head(owed).re
              more == IF re.stage = "prelim" /\ code = "ok"
                     THEN <<[re |-> [re EXCEPT !.stage = "final"], said |-> 0]>>
                     ELSE <<>>
          IN /\ owed' = more \o Tail(owed)
             /\ \/ /\ Len(chan) < MaxChan
                   /\ chan' = Append(chan, [re |-> re, kind |-> "last", code |-> code])
                \/ /\ Len(chan) + 1 < MaxChan
                   /\ \E any \in Codes :
                        chan' = chan \o <<[re |-> re, kind |-> "cut", code |-> code],
                                          [re |-> re, kind |-> "last", code |-> any]>>
    BY <1>8 DEF ServerReply
  <2>2. owed \in Seq(Owed) /\ owed # <<>> /\ Head(owed).re \in Reply
    <3>1. owed \in Seq(Owed) /\ owed # <<>>
      BY <1>8 DEF ServerReply, TypeOK
    <3>2. Head(owed) \in Owed
      BY <3>1, HeadTailProperties
    <3>3. QED BY <3>1, <3>2 DEF Owed
  <2>3. owed' \in Seq(Owed) /\ Len(owed') <= Len(owed)
    BY <2>1, <2>2, OwedNext
  <2>4. /\ chan \in Seq(Line) /\ Len(chan) \in Nat
        /\ \A c \in Codes :
             /\ [re |-> Head(owed).re, kind |-> "last", code |-> c] \in Line
             /\ [re |-> Head(owed).re, kind |-> "cut", code |-> c] \in Line
    BY <2>2 DEF TypeOK, Line
  <2>5. \A s \in Seq(Line) : chan \o s \in Seq(Line)
                             /\ Len(chan \o s) = Len(chan) + Len(s)
    BY <2>4, ConcatProperties
  <2>6. chan' \in Seq(Line) /\ Len(chan') <= MaxChan
    <3>1. CASE Len(chan) < MaxChan /\
               chan' = Append(chan, [re |-> Head(owed).re, kind |-> "last",
                                     code |-> code])
      <4>1. [re |-> Head(owed).re, kind |-> "last", code |-> code] \in Line
        BY <2>4
      <4>2. chan' \in Seq(Line) /\ Len(chan') = Len(chan) + 1
        BY <2>4, <3>1, <4>1, AppendLine
      <4>3. QED BY <2>4, <3>1, <4>2, ChanAssumption
    <3>2. ASSUME NEW any \in Codes, Len(chan) + 1 < MaxChan,
                 chan' = chan \o
                   <<[re |-> Head(owed).re, kind |-> "cut", code |-> code],
                     [re |-> Head(owed).re, kind |-> "last", code |-> any]>>
          PROVE  chan' \in Seq(Line) /\ Len(chan') <= MaxChan
      <4> DEFINE s == <<[re |-> Head(owed).re, kind |-> "cut", code |-> code],
                        [re |-> Head(owed).re, kind |-> "last", code |-> any]>>
      <4>0. s[1] \in Line /\ s[2] \in Line
        BY <2>4
      <4>1. s \in Seq(Line) /\ Len(s) = 2
        BY <4>0
      <4>2. Len(chan') = Len(chan) + 2 /\ chan' \in Seq(Line)
        BY <3>2, <4>1, <2>5
      <4>3. QED BY <2>4, <3>2, <4>2, ChanAssumption
    <3>3. QED BY <2>1, <3>1, <3>2
  <2>7. Len(owed') <= MaxChan
    BY <2>2, <2>3, ChanAssumption DEF TypeOK
  <2>8. QED BY <1>8, <2>3, <2>6, <2>7 DEF ServerReply, client, TypeOK
<1>9. CASE ServerMore
  <2>1. owed # <<>> /\ owed \in Seq(Owed) /\ owed[1] \in Owed
        /\ Head(owed) = owed[1]
    BY <1>9 DEF ServerMore, TypeOK
  <2>2. owed[1].re \in Reply /\ owed[1].said + 1 \in 0..MoreLines
    BY <1>9, <2>1 DEF ServerMore, Owed, MoreLines
  <2>3. [owed[1] EXCEPT !.said = @ + 1] \in Owed
    BY <2>1, <2>2 DEF Owed
  <2>4. owed' \in Seq(Owed) /\ Len(owed') = Len(owed)
    BY <1>9, <2>1, <2>3 DEF ServerMore
  <2>5. [re |-> owed[1].re, kind |-> "more", code |-> "ok"] \in Line
    BY <2>2 DEF Line, Codes
  <2>6. chan' \in Seq(Line) /\ Len(chan') <= MaxChan
    BY <1>9, <2>1, <2>5, AppendLine, ChanAssumption DEF ServerMore, TypeOK
  <2>7. QED BY <1>9, <2>4, <2>6 DEF ServerMore, client, TypeOK
<1>10. CASE ServerClose
  <2>1. [re |-> Unasked, kind |-> "last", code |-> "no"] \in Line
    BY <1>0 DEF Line, Codes
  <2>2. chan' \in Seq(Line) /\ Len(chan') <= MaxChan
    BY <1>10, <2>1, AppendLine, ChanAssumption DEF ServerClose, TypeOK
  <2>3. owed' \in Seq(Owed) /\ Len(owed') <= MaxChan
    BY <1>10, ChanAssumption DEF ServerClose
  <2>4. QED BY <1>10, <2>2, <2>3 DEF ServerClose, client, TypeOK
<1>11. CASE Spin \/ UNCHANGED vars
  BY <1>11 DEF Spin, vars, client, server, TypeOK
<1>12. QED
  BY <1>1, <1>2, <1>3, <1>4, <1>5, <1>6, <1>7, <1>8, <1>9, <1>10, <1>11
  DEF Next, Client, Server

(* Every variable keeps its type; a command is not sent, and a transfer not *)
(* begun, on a session that is given up.                                    *)
THEOREM TypeCorrect == Spec => []TypeOK
<1>1. QED BY TypeInit, TypeNext, PTL DEF Spec

-----------------------------------------------------------------------------
(* What is in flight stays in order. *)

(* What the invariant says of a line that is a 421. *)
LEMMA UnaskedLine ==
  ASSUME Order, NEW i \in 1..Len(chan)
  PROVE  /\ chan[i].kind # "cut"
         /\ chan[i].re = Unasked =>
              /\ i = Len(chan) /\ closed
              /\ chan[i].kind = "last" /\ chan[i].code = "no"
  BY DEF Order

(* Between two commands nothing is expected, so that nothing can be due. *)
LEMMA IdleOrder ==
  ASSUME TypeOK, Order, pc = "idle"
  PROVE  owed = <<>> /\ \A i \in 1..Len(chan) : chan[i].re = Unasked
<1>1. Len(chan) \in Nat
  BY DEF TypeOK
<1>2. ASSUME NEW i \in 1..Len(chan) PROVE chan[i].re = Unasked
  <2>1. chan[1].re = Unasked
    BY <1>1, <1>2 DEF Order, Due
  <2>2. Len(chan) = 1
    <3>1. 1 \in 1..Len(chan)
      BY <1>1, <1>2
    <3>2. QED BY <3>1, <2>1, UnaskedLine
  <2>3. QED BY <1>2, <2>1, <2>2
<1>3. CASE owed # <<>>
  <2>1. PICK j \in 1..Len(chan) : Announces(chan[j], owed[1].re)
    BY <1>3 DEF Order, Due
  <2>2. chan[j].re = Unasked
    BY <1>2, <2>1
  <2>3. QED BY <2>1, <2>2 DEF Announces, Unasked
<1>4. QED BY <1>2, <1>3

(* Nothing is in flight. *)
LEMMA EmptyOrder == chan = <<>> /\ owed = <<>> => Order
  BY DEF Order

(* The first line is read, and what it announced, or what was due anyhow,  *)
(* is due after that.                                                      *)
LEMMA TailOrder ==
  ASSUME TypeOK, Order, chan # <<>>, chan' = Tail(chan),
         UNCHANGED <<owed, closed>>,
         \A i \in 2..Len(chan) : chan[i].re # Unasked =>
           \/ pc' # "idle" /\ chan[i].re = Expected'
           \/ \E j \in 1..(i - 2) : Announces(chan'[j], chan[i].re),
         owed # <<>> =>
           \/ pc' # "idle" /\ owed[1].re = Expected'
           \/ \E j \in 1..(Len(chan) - 1) : Announces(chan'[j], owed[1].re)
  PROVE  Order'
<1> DEFINE n == Len(chan')
<1>0. Len(chan) \in Nat /\ n \in Nat /\ Len(chan) = n + 1
  BY TailLines DEF TypeOK
<1>1. /\ Len(chan) \in Nat /\ Len(chan) >= 1 /\ Len(chan') = Len(chan) - 1
      /\ \A i \in 1..Len(chan') : chan'[i] = chan[i + 1]
  BY TailLines DEF TypeOK
<1>2. ASSUME NEW i \in 1..Len(chan')
      PROVE  /\ chan'[i].kind # "cut"
             /\ chan'[i].re = Unasked =>
                  /\ i = Len(chan') /\ closed'
                  /\ chan'[i].kind = "last" /\ chan'[i].code = "no"
             /\ chan'[i].re # Unasked => Due(chan[i].re, i - 1)'
             /\ chan'[i].kind = "last" =>
                  /\ \A j \in (i + 1)..Len(chan') :
                       chan'[j].re = Unasked \/ Announces(chan'[i], chan'[j].re)
                  /\ owed' # <<>> => Announces(chan'[i], owed'[1].re)
  <2>1. i + 1 \in 2..Len(chan) /\ i + 1 \in 1..Len(chan) /\ chan'[i] = chan[i + 1]
        /\ (i + 1) - 2 = i - 1
    BY <1>1
  <2>2. /\ chan'[i].kind # "cut"
        /\ chan'[i].re = Unasked =>
             /\ i = Len(chan') /\ closed'
             /\ chan'[i].kind = "last" /\ chan'[i].code = "no"
    <3>1. /\ chan[i + 1].kind # "cut"
          /\ chan[i + 1].re = Unasked =>
               /\ i + 1 = Len(chan) /\ closed
               /\ chan[i + 1].kind = "last" /\ chan[i + 1].code = "no"
      BY <2>1, UnaskedLine
    <3>2. i + 1 = Len(chan) => i = n
      <4> HIDE DEF n
      <4>1. QED BY <1>0
    <3>3. QED BY <2>1, <3>1, <3>2
  <2>3. chan'[i].re # Unasked => Due(chan[i].re, i - 1)'
    BY <2>1 DEF Due
  <2>4. ASSUME chan'[i].kind = "last", NEW j \in (i + 1)..Len(chan')
        PROVE  chan'[j].re = Unasked \/ Announces(chan'[i], chan'[j].re)
    <3>1. chan'[j] = chan[j + 1] /\ j + 1 \in (i + 2)..Len(chan)
      BY <1>1
    <3>2. QED BY <2>1, <2>4, <3>1 DEF Order
  <2>5. chan'[i].kind = "last" /\ owed' # <<>> => Announces(chan'[i], owed'[1].re)
    BY <2>1 DEF Order
  <2>6. QED BY <2>2, <2>3, <2>4, <2>5
<1>3. owed' # <<>> => ~closed' /\ Len(owed') = 1 /\ Due(owed[1].re, Len(chan))'
  BY <1>1 DEF Order, Due
<1>4. QED BY <1>2, <1>3 DEF Order

(* readresp reads a line: it is one of the reply that is awaited, or the   *)
(* 421 behind which nothing comes.                                         *)
LEMMA ReadOrder ==
  ASSUME TypeOK, Order, ReadFirst \/ ReadMore
  PROVE  Order' /\ (verdict'.ok => verdict'.by = verdict'.re \/ UNCHANGED verdict)
<1> DEFINE l == chan[1]
<1>1. /\ chan # <<>> /\ chan' = Tail(chan) /\ Head(chan) = l
      /\ pc \in {"first", "more"}
      /\ UNCHANGED <<cmd, stage, owed, closed>>
      /\ Len(chan) \in Nat /\ Len(chan) >= 1
      /\ \A i \in 1..Len(chan') : chan'[i] = chan[i + 1]
      /\ Len(chan') = Len(chan) - 1
  BY TailLines DEF ReadFirst, ReadMore, TypeOK
<1>2. 1 \in 1..Len(chan) /\ l.kind # "cut" /\ l \in Line
  <2>1. Len(chan) \in Nat /\ Len(chan) >= 1 /\ l \in Line
    BY <1>1 DEF TypeOK
  <2>2. 1 \in 1..Len(chan)
    BY <2>1
  <2>3. QED BY <2>1, <2>2, UnaskedLine
<1>3. /\ Expected = Awaited /\ Awaited' = Awaited
      /\ pc' = "more" => Expected' = Awaited
      /\ pc' = "xfer" => Expected' = [cmd |-> cmd, stage |-> "final"]
  BY <1>1 DEF Expected, Awaited
<1>4. CASE l.re = Unasked
  <2>1. Len(chan) = 1 /\ closed /\ l.kind = "last" /\ l.code = "no"
    BY <1>2, <1>4, UnaskedLine
  <2>2. chan' = <<>>
    BY <1>1, <2>1 DEF TypeOK
  <2>3. owed' = <<>>
    BY <1>1, <2>1 DEF Order
  <2>4. ~verdict'.ok
    <3>1. Return(l.re, FALSE)
      BY <1>1, <2>1 DEF ReadFirst, ReadMore
    <3>2. QED BY <3>1 DEF Return
  <2>5. Order'
    BY <2>2, <2>3 DEF Order
  <2>6. QED BY <2>4, <2>5
<1>5. CASE l.re # Unasked
  <2>1. l.re = Awaited
    <3>1. Due(chan[1].re, 1 - 1) /\ 1 - 1 = 0
      BY <1>2, <1>5 DEF Order
    <3>2. Due(l.re, 0)
      BY <3>1
    <3>3. l.re = Expected
      BY <3>2 DEF Due
    <3>4. QED BY <1>3, <3>3
  <2>2. CASE l.kind = "more"
    <3>1. pc' = "more" /\ UNCHANGED verdict
      BY <1>1, <2>2 DEF ReadFirst, ReadMore
    <3>2. \A re : ~Announces(l, re)
      BY <2>2 DEF Announces
    <3>3. ASSUME NEW re, NEW k \in 1..Len(chan), Due(re, k)
          PROVE  \/ re = Expected'
                 \/ \E j \in 1..(k - 1) : Announces(chan'[j], re)
      <4>1. CASE re = Expected
        BY <1>3, <3>1, <4>1
      <4>2. ASSUME NEW j \in 1..k, Announces(chan[j], re)
            PROVE  \E m \in 1..(k - 1) : Announces(chan'[m], re)
        <5>1. j # 1
          BY <3>2, <4>2
        <5>2. j - 1 \in 1..(k - 1) /\ j - 1 \in 1..Len(chan') /\ (j - 1) + 1 = j
          BY <1>1, <3>3, <4>2, <5>1
        <5>3. chan'[j - 1] = chan[j]
          BY <1>1, <5>2
        <5>4. QED BY <4>2, <5>2, <5>3
      <4>3. QED BY <3>3, <4>1, <4>2 DEF Due
    <3>4. \A i \in 2..Len(chan) : chan[i].re # Unasked =>
             \/ pc' # "idle" /\ chan[i].re = Expected'
             \/ \E j \in 1..(i - 2) : Announces(chan'[j], chan[i].re)
      <4> SUFFICES ASSUME NEW i \in 2..Len(chan), chan[i].re # Unasked
                   PROVE  \/ pc' # "idle" /\ chan[i].re = Expected'
                          \/ \E j \in 1..(i - 2) : Announces(chan'[j], chan[i].re)
        OBVIOUS
      <4>1. i \in 1..Len(chan) /\ i - 1 \in 1..Len(chan) /\ (i - 1) - 1 = i - 2
        BY <1>1
      <4>2. Due(chan[i].re, i - 1)
        BY <4>1 DEF Order
      <4>3. QED BY <3>1, <3>3, <4>1, <4>2
    <3>5. owed # <<>> =>
             \/ pc' # "idle" /\ owed[1].re = Expected'
             \/ \E j \in 1..(Len(chan) - 1) : Announces(chan'[j], owed[1].re)
      <4>1. Len(chan) \in 1..Len(chan)
        BY <1>1
      <4>2. owed # <<>> => Due(owed[1].re, Len(chan))
        BY DEF Order
      <4>3. QED BY <3>1, <3>3, <4>1, <4>2
    <3>6. Order'
      BY <1>1, <3>4, <3>5, TailOrder
    <3>7. QED BY <3>1, <3>6
  <2>3. CASE l.kind = "last"
    <3>1. /\ Return(l.re, l.code = "ok")
      BY <1>1, <2>3 DEF ReadFirst, ReadMore
    <3>2. verdict'.by = verdict'.re
      BY <2>1, <3>1 DEF Return
    <3>3. \A re : Announces(l, re) => pc' # "idle" /\ re = Expected'
      <4> SUFFICES ASSUME NEW re, Announces(l, re)
                   PROVE  pc' # "idle" /\ re = Expected'
        OBVIOUS
      <4>1. l.code = "ok" /\ stage = "prelim" /\ re = [Awaited EXCEPT !.stage = "final"]
        BY <2>1 DEF Announces, Awaited
      <4>2. pc' = "xfer"
        BY <3>1, <4>1 DEF Return
      <4>3. re = [cmd |-> cmd, stage |-> "final"]
        BY <4>1 DEF Awaited
      <4>4. QED BY <1>3, <4>2, <4>3
    <3>4. /\ \A i \in 2..Len(chan) : chan[i].re # Unasked => Announces(l, chan[i].re)
          /\ owed # <<>> => Announces(l, owed[1].re)
      BY <1>2, <2>3 DEF Order
    <3>5. Order'
      BY <1>1, <3>3, <3>4, TailOrder
    <3>6. QED BY <3>2, <3>5
  <2>4. QED BY <1>2, <2>2, <2>3 DEF Line
<1>6. QED BY <1>4, <1>5

(* The server sends a line that is due, or a 421 before it closes. *)
LEMMA AppendOrder ==
  ASSUME TypeOK, Order, NEW l \in Line, chan' = Append(chan, l), l.kind # "cut",
         UNCHANGED <<pc, cmd, stage>>, ~closed,
         l.re = Unasked => closed' /\ l.kind = "last" /\ l.code = "no",
         l.re # Unasked => Due(l.re, Len(chan)),
         \A i \in 1..Len(chan) : chan[i].kind = "last" =>
           /\ l.re = Unasked \/ Announces(chan[i], l.re)
           /\ owed' # <<>> => Announces(chan[i], owed'[1].re),
         l.kind = "last" /\ owed' # <<>> => Announces(l, owed'[1].re),
         owed' # <<>> =>
           /\ ~closed' /\ Len(owed') = 1
           /\ Due(owed'[1].re, Len(chan)) \/ Announces(l, owed'[1].re)
  PROVE  Order'
<1> DEFINE n == Len(chan)
           m == Len(chan')
           DueNext(re, k) == \/ pc' # "idle" /\ re = Expected'
                             \/ \E j \in 1..k : Announces(chan'[j], re)
<1>0. n \in Nat /\ m = n + 1 /\ m \in Nat
  BY AppendLine DEF TypeOK
<1>1. (\A i \in 1..n : chan'[i] = chan[i]) /\ chan'[n + 1] = l
  BY AppendLine DEF TypeOK
<1>2. Expected' = Expected /\ pc' = pc
  BY DEF Expected, Awaited
<1>3. ASSUME NEW re, NEW k \in 0..n, Due(re, k) PROVE DueNext(re, k)
  BY <1>0, <1>1, <1>2, <1>3 DEF Due
<1> HIDE DEF n, m
<1>4. ASSUME NEW i \in 1..n
      PROVE  /\ chan'[i].kind # "cut" /\ chan'[i].re # Unasked
             /\ DueNext(chan'[i].re, i - 1)
             /\ chan'[i].kind = "last" =>
                  /\ \A j \in (i + 1)..m :
                       chan'[j].re = Unasked \/ Announces(chan'[i], chan'[j].re)
                  /\ owed' # <<>> => Announces(chan'[i], owed'[1].re)
  <2>0. i - 1 \in 0..n
    BY <1>0
  <2>1. chan'[i] = chan[i]
    BY <1>1
  <2>2. chan[i].kind # "cut" /\ chan[i].re # Unasked
    BY UnaskedLine DEF n
  <2>3. Due(chan[i].re, i - 1)
    BY <2>2 DEF Order, n
  <2>4. ASSUME chan[i].kind = "last", NEW j \in (i + 1)..m
        PROVE  chan'[j].re = Unasked \/ Announces(chan[i], chan'[j].re)
    <3>1. CASE j = n + 1
      BY <1>1, <2>4, <3>1 DEF n
    <3>2. CASE j # n + 1
      <4>1. j \in (i + 1)..n /\ j \in 1..n
        BY <1>0, <3>2
      <4>2. chan'[j] = chan[j]
        BY <1>1, <4>1
      <4>3. QED BY <2>4, <4>1, <4>2 DEF Order, n
    <3>3. QED BY <3>1, <3>2
  <2>5. chan[i].kind = "last" /\ owed' # <<>> => Announces(chan[i], owed'[1].re)
    BY DEF n
  <2>6. DueNext(chan'[i].re, i - 1)
    BY <1>3, <2>0, <2>1, <2>3
  <2>7. QED BY <2>1, <2>2, <2>4, <2>5, <2>6
<1>5. l.re # Unasked => DueNext(l.re, n)
  <2>1. n \in 0..n
    BY <1>0
  <2>2. QED BY <1>3, <2>1 DEF n
<1>6. owed' # <<>> => DueNext(owed'[1].re, m)
  <2> SUFFICES ASSUME owed' # <<>> PROVE DueNext(owed'[1].re, m)
    OBVIOUS
  <2>0. n + 1 \in 1..m /\ \A j \in 1..n : j \in 1..m
    BY <1>0
  <2>1. CASE Due(owed'[1].re, n)
    BY <1>1, <1>2, <2>0, <2>1 DEF Due
  <2>2. CASE Announces(l, owed'[1].re)
    BY <1>1, <2>0, <2>2 DEF Due
  <2>3. QED BY <2>1, <2>2 DEF n
<1>7. ASSUME NEW i \in 1..m
      PROVE  /\ chan'[i].kind # "cut"
             /\ chan'[i].re = Unasked =>
                  /\ i = m /\ closed'
                  /\ chan'[i].kind = "last" /\ chan'[i].code = "no"
             /\ chan'[i].re # Unasked => DueNext(chan'[i].re, i - 1)
             /\ chan'[i].kind = "last" =>
                  /\ \A j \in (i + 1)..m :
                       chan'[j].re = Unasked \/ Announces(chan'[i], chan'[j].re)
                  /\ owed' # <<>> => Announces(chan'[i], owed'[1].re)
  <2>1. CASE i \in 1..n
    BY <1>4, <2>1
  <2>2. CASE i = n + 1
    <3>1. i = m /\ i - 1 = n /\ (i + 1)..m = {}
      BY <1>0, <2>2
    <3>2. chan'[i] = l
      BY <1>1, <2>2
    <3>3. QED BY <1>5, <3>1, <3>2
  <2>3. i \in 1..n \/ i = n + 1
    BY <1>0
  <2>4. QED BY <2>1, <2>2, <2>3
<1>8. QED BY <1>0, <1>6, <1>7 DEF Order, Due, m

(* The thread goes on without reading. *)
LEMMA SameOrder ==
  ASSUME Order, UNCHANGED <<chan, owed, closed>>,
         pc # "idle" => pc' # "idle" /\ Expected' = Expected
  PROVE  Order'
<1> DEFINE DueNext(re, k) == \/ pc' # "idle" /\ re = Expected'
                             \/ \E j \in 1..k : Announces(chan'[j], re)
<1>1. ASSUME NEW re, NEW k, Due(re, k) PROVE DueNext(re, k)
  BY <1>1 DEF Due
<1>2. \A i \in 1..Len(chan) :
        chan[i].re # Unasked => DueNext(chan[i].re, i - 1)
  BY <1>1 DEF Order
<1>3. owed # <<>> => DueNext(owed[1].re, Len(chan))
  BY <1>1 DEF Order
<1>4. QED BY <1>2, <1>3 DEF Order, Due

(* A command goes out on a session where nothing is in flight. *)
LEMMA SendOrder ==
  ASSUME TypeOK, Order, SendCmd PROVE Order'
<1>1. /\ owed = <<>> /\ \A i \in 1..Len(chan) : chan[i].re = Unasked
      /\ Len(chan) \in Nat
  BY IdleOrder DEF SendCmd, TypeOK
<1>2. /\ chan' = chan /\ closed' = closed /\ pc' = "first"
      /\ owed' = IF closed THEN owed
                           ELSE Append(owed, [re |-> Awaited', said |-> 0])
  BY DEF SendCmd
<1>3. owed' # <<>> => /\ ~closed' /\ Len(owed') = 1
                      /\ owed'[1].re = Awaited'
  BY <1>1, <1>2
<1>4. owed' # <<>> => ~closed' /\ Len(owed') = 1 /\ Due(owed[1].re, Len(chan))'
  BY <1>2, <1>3 DEF Due, Expected
<1>5. ASSUME NEW i \in 1..Len(chan)
      PROVE  /\ chan[i].kind # "cut" /\ i = Len(chan) /\ closed
             /\ chan[i].kind = "last" /\ chan[i].code = "no"
  BY <1>1, UnaskedLine
<1>6. ASSUME NEW i \in 1..Len(chan) PROVE owed' = <<>>
  BY <1>2, <1>1, <1>5
<1>7. QED BY <1>1, <1>2, <1>4, <1>5, <1>6 DEF Order

(* The reply that is owed, seen in one way by both sides. *)
LEMMA OwedReply ==
  ASSUME TypeOK, Order, owed # <<>>, pc # "idle" => cmd # 0
  PROVE  /\ Head(owed) = owed[1] /\ Head(owed).re \in Reply
         /\ Tail(owed) = <<>> /\ ~closed /\ Head(owed).re # Unasked
         /\ Due(Head(owed).re, Len(chan))
<1>1. owed \in Seq(Owed) /\ Len(owed) = 1 /\ ~closed
      /\ Due(owed[1].re, Len(chan))
  BY DEF TypeOK, Order
<1>2. Head(owed) = owed[1] /\ owed[1] \in Owed /\ Tail(owed) = <<>>
  <2>1. Head(owed) = owed[1] /\ Head(owed) \in Owed
        /\ Tail(owed) \in Seq(Owed) /\ Len(Tail(owed)) = Len(owed) - 1
    BY <1>1, HeadTailProperties
  <2>2. Len(Tail(owed)) = 0
    BY <1>1, <2>1
  <2>3. Tail(owed) = <<>>
    BY <2>1, <2>2, EmptySeq
  <2>4. QED BY <2>1, <2>3
<1>3. owed[1].re # Unasked
  <2>1. pc # "idle" => Expected # Unasked
    BY DEF Expected, Awaited, Unasked
  <2>2. (\E j \in 1..Len(chan) : Announces(chan[j], owed[1].re))
          => owed[1].re.stage = "final"
    <3>1. ASSUME NEW j \in 1..Len(chan), Announces(chan[j], owed[1].re)
          PROVE  owed[1].re.stage = "final"
      BY <3>1, FinalAnnounced DEF TypeOK
    <3>2. QED BY <3>1
  <2>3. Unasked.stage # "final"
    BY DEF Unasked
  <2>4. QED BY <1>1, <2>1, <2>2, <2>3 DEF Due
<1>4. QED BY <1>1, <1>2, <1>3 DEF Owed

LEMMA ReplyOrder ==
  ASSUME TypeOK, Order, pc # "idle" => cmd # 0, "long" \notin env, ServerReply
  PROVE  Order'
<1> DEFINE re == Head(owed).re
<1>1. PICK code \in Codes :
        /\ owed' = (IF re.stage = "prelim" /\ code = "ok"
                      THEN <<[re |-> [re EXCEPT !.stage = "final"], said |-> 0]>>
                      ELSE <<>>) \o Tail(owed)
        /\ chan' = Append(chan, [re |-> re, kind |-> "last", code |-> code])
  BY DEF ServerReply
<1> DEFINE l == [re |-> re, kind |-> "last", code |-> code]
<1>2. /\ re = owed[1].re /\ re \in Reply /\ Tail(owed) = <<>> /\ re # Unasked
      /\ Due(re, Len(chan)) /\ owed # <<>> /\ ~closed
      /\ UNCHANGED <<pc, cmd, stage, closed>>
  BY OwedReply DEF ServerReply, client
<1>3. l \in Line /\ l.kind = "last" /\ l.re = re /\ l.code = code
  BY <1>2 DEF Line
<1>4. CASE re.stage = "prelim" /\ code = "ok"
  <2>1. owed' = <<[re |-> [re EXCEPT !.stage = "final"], said |-> 0]>>
    <3> DEFINE o == [re |-> [re EXCEPT !.stage = "final"], said |-> 0]
    <3>1. <<o>> \in Seq({o})
      OBVIOUS
    <3>2. <<o>> \o <<>> = <<o>>
      BY <3>1, ConcatEmptySeq
    <3>3. QED BY <1>1, <1>2, <1>4, <3>2
  <2>2. Len(owed') = 1 /\ owed'[1].re = [re EXCEPT !.stage = "final"]
    BY <2>1
  <2>3. Announces(l, owed'[1].re)
    BY <1>3, <1>4, <2>2 DEF Announces
  <2>4. \A i \in 1..Len(chan) : chan[i].kind # "last"
    <3> SUFFICES ASSUME NEW i \in 1..Len(chan), chan[i].kind = "last" PROVE FALSE
      OBVIOUS
    <3>1. Announces(chan[i], re)
      BY <1>2 DEF Order
    <3>2. re.stage = "final"
      BY <3>1, FinalAnnounced DEF TypeOK
    <3>3. QED BY <1>4, <3>2
  <2>5. QED BY <1>1, <1>2, <1>3, <2>2, <2>3, <2>4, AppendOrder
<1>5. CASE ~(re.stage = "prelim" /\ code = "ok")
  <2>1. owed' = <<>>
    BY <1>1, <1>2, <1>5
  <2>2. \A i \in 1..Len(chan) : chan[i].kind = "last" => Announces(chan[i], re)
    BY <1>2 DEF Order
  <2>3. QED BY <1>1, <1>2, <1>3, <2>1, <2>2, AppendOrder
<1>6. QED BY <1>4, <1>5

LEMMA MoreOrder ==
  ASSUME TypeOK, Order, pc # "idle" => cmd # 0, ServerMore
  PROVE  Order'
<1> DEFINE re == Head(owed).re
           l == [re |-> re, kind |-> "more", code |-> "ok"]
<1>1. /\ re = owed[1].re /\ re \in Reply /\ re # Unasked /\ Len(owed) = 1
      /\ Due(re, Len(chan)) /\ owed # <<>> /\ ~closed
      /\ UNCHANGED <<pc, cmd, stage, closed>> /\ chan' = Append(chan, l)
  BY OwedReply DEF ServerMore, client, Order
<1>2. l \in Line /\ l.kind = "more" /\ l.re = re
  BY <1>1 DEF Line, Codes
<1>3. Len(owed') = 1 /\ owed'[1].re = re
  <2>1. owed \in Seq(Owed) /\ owed[1] \in Owed
    BY <1>1 DEF TypeOK
  <2>2. owed' = [owed EXCEPT ![1] = [owed[1] EXCEPT !.said = @ + 1]]
    BY DEF ServerMore
  <2>3. owed'[1] = [owed[1] EXCEPT !.said = @ + 1] /\ Len(owed') = 1
    BY <1>1, <2>1, <2>2
  <2>4. QED BY <1>1, <2>1, <2>3 DEF Owed
<1>4. \A i \in 1..Len(chan) : chan[i].kind = "last" => Announces(chan[i], re)
  BY <1>1 DEF Order
<1>5. QED BY <1>1, <1>2, <1>3, <1>4, AppendOrder

LEMMA CloseOrder ==
  ASSUME TypeOK, Order, ServerClose PROVE Order'
<1> DEFINE l == [re |-> Unasked, kind |-> "last", code |-> "no"]
<1>1. ~closed /\ closed' /\ owed' = <<>> /\ UNCHANGED <<pc, cmd, stage>>
  BY DEF ServerClose, client
<1>2. l \in Line
  BY AwaitedType DEF Line, Codes
<1>3. CASE chan' = Append(chan, l)
  BY <1>1, <1>2, <1>3, AppendOrder
<1>4. CASE UNCHANGED chan
  <2> DEFINE DueNext(re, k) == \/ pc' # "idle" /\ re = Expected'
                               \/ \E j \in 1..k : Announces(chan'[j], re)
  <2>1. ASSUME NEW re, NEW k, Due(re, k) PROVE DueNext(re, k)
    BY <1>1, <1>4, <2>1 DEF Due, Expected, Awaited
  <2>2. \A i \in 1..Len(chan) :
          chan[i].re # Unasked => DueNext(chan[i].re, i - 1)
    BY <2>1 DEF Order
  <2>3. QED BY <1>1, <1>4, <2>2 DEF Order, Due
<1>5. QED BY <1>3, <1>4 DEF ServerClose

LEMMA OrderNext ==
  ASSUME InStep, "long" \notin env, alive', [Next]_vars PROVE Order'
<1>1. CASE ~alive
  <2>1. Reconnect
    BY <1>1 DEF Next, Client, Server, SendCmd, SendFails, FtpClose, ReadFirst,
         ReadMore, Timeout, Spin, ReadEof, ServerReply, ServerMore,
         ServerClose, client, vars, InStep, TypeOK
  <2>2. chan' = <<>> /\ owed' = <<>>
    BY <2>1 DEF Reconnect
  <2>3. QED BY <2>2 DEF Order
<1>2. CASE alive
  <2>0. TypeOK /\ Order /\ (pc # "idle" => cmd # 0)
    BY <1>2 DEF InStep
  <2>1. CASE SendCmd
    BY <2>0, <2>1, SendOrder
  <2>2. CASE FtpClose
    BY <2>0, <2>2, SameOrder DEF FtpClose, Expected, Awaited, server
  <2>3. CASE ReadFirst \/ ReadMore
    BY <2>0, <2>3, ReadOrder
  <2>4. CASE ReadEof
    <3>1. chan' = <<>> /\ owed' = <<>>
      BY <2>0, <2>4 DEF ReadEof, Order, server
    <3>2. QED BY <3>1 DEF Order
  <2>5. CASE ServerReply
    BY <2>0, <2>5, ReplyOrder
  <2>6. CASE ServerMore
    BY <2>0, <2>6, MoreOrder
  <2>7. CASE ServerClose
    BY <2>0, <2>7, CloseOrder
  <2>8. CASE Spin \/ UNCHANGED vars
    BY <2>0, <2>8, SameOrder DEF Spin, vars, client, server, Expected, Awaited
  <2>9. ~(SendFails \/ Timeout \/ Reconnect)
    BY <1>2 DEF SendFails, Timeout, Reconnect
  <2>10. QED
    BY <2>1, <2>2, <2>3, <2>4, <2>5, <2>6, <2>7, <2>8, <2>9
    DEF Next, Client, Server
<1>3. QED BY <1>1, <1>2

LEMMA EnvStays == [Next]_vars => env' = env
  BY DEF Next, Client, Server, vars

(* Commands are numbered from 1. *)
LEMMA CmdNext ==
  ASSUME TypeOK, pc # "idle" => cmd # 0, [Next]_vars
  PROVE  pc' # "idle" => cmd' # 0
<1>1. CASE SendCmd
  <2>1. cmd' \in 1..N
    BY <1>1, NextCmd DEF SendCmd, TypeOK
  <2>2. QED BY <2>1
<1>2. QED
  BY <1>1
  DEF Next, Client, Server, SendFails, FtpClose, ReadFirst, ReadMore, Timeout,
      Spin, ReadEof, Reconnect, ServerReply, ServerMore, ServerClose, client,
      vars

(* A session that is alive is in step with its server, whatever was timed   *)
(* out, refused, or closed: what readresp will read next is what it waits   *)
(* for, and a session on which it was not is given up.                      *)
THEOREM AlwaysInStep == Spec => []InStep
<1>1. Init => InStep
  <2> SUFFICES ASSUME Init PROVE InStep
    OBVIOUS
  <2>1. chan = <<>> /\ owed = <<>> /\ pc = "idle"
    BY DEF Init
  <2>2. QED BY <2>1, TypeInit, EmptyOrder DEF InStep
<1>2. TypeOK /\ Order /\ pc = "idle" =>
        owed = <<>> /\ \A i \in 1..Len(chan) : chan[i].re = Unasked
  BY IdleOrder
<1>3. (TypeOK /\ Order /\ pc = "idle" =>
        owed = <<>> /\ \A i \in 1..Len(chan) : chan[i].re = Unasked)'
  BY <1>2, PTL
<1>4. InStep /\ [Next]_vars => InStep'
  <2> SUFFICES ASSUME InStep, [Next]_vars PROVE InStep'
    OBVIOUS
  <2>1. TypeOK' /\ (pc' # "idle" => cmd' # 0)
    BY TypeNext, CmdNext DEF InStep
  <2>2. alive' /\ "long" \notin env' => Order'
    BY OrderNext, EnvStays
  <2>3. QED BY <1>3, <2>1, <2>2 DEF InStep
<1>5. QED BY <1>1, <1>4, PTL DEF Spec

(* A reply that FtpSendCmd or FtpClose accepts is the reply of its own      *)
(* command.                                                                 *)
THEOREM RepliesMatch == Spec => []OwnReply
<1>1. Init => OwnReply
  BY DEF Init, OwnReply
<1>2. InStep /\ OwnReply /\ [Next]_vars => OwnReply'
  <2> SUFFICES ASSUME InStep, OwnReply, [Next]_vars, "long" \notin env,
                      verdict'.ok
               PROVE  verdict'.by = verdict'.re
    BY EnvStays DEF OwnReply
  <2>1. CASE UNCHANGED verdict
    BY <2>1 DEF OwnReply
  <2>2. CASE ReadFirst \/ ReadMore
    <3>1. TypeOK /\ Order
      BY <2>2 DEF InStep, ReadFirst, ReadMore, TypeOK
    <3>2. verdict'.by = verdict'.re \/ UNCHANGED verdict
      BY <2>2, <3>1, ReadOrder
    <3>3. QED BY <2>1, <3>2
  <2>3. CASE Timeout \/ ReadEof
    <3>1. Return(Unasked, FALSE) \/ verdict' = verdict
      BY <2>3 DEF Timeout, ReadEof
    <3>2. ~Return(Unasked, FALSE)
      BY DEF Return
    <3>3. QED BY <2>1, <3>1, <3>2
  <2>4. QED
    BY <2>1, <2>2, <2>3
    DEF Next, Client, Server, SendCmd, SendFails, FtpClose, Spin, Reconnect,
        ServerReply, ServerMore, ServerClose, client, vars
<1>3. QED BY <1>1, <1>2, AlwaysInStep, PTL DEF Spec
=============================================================================
