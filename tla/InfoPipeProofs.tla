--------------------------- MODULE InfoPipeProofs ---------------------------
(***************************************************************************)
(* Theorems about the message pipe, for any number of threads, messages    *)
(* and windows and any size of the pipe and of a read.                     *)
(***************************************************************************)
EXTENDS InfoPipe, SequenceTheorems, WellFoundedInduction, TLAPS

USE PipeAssumption

Status == {"none", "idle", "read", "close", "exit", "gone", "dead"}

(* A set of numbers has a smallest one. *)
LEMMA SmallestNumber ==
  ASSUME NEW T \in SUBSET Nat, T # {}
  PROVE  \E x \in T : \A y \in T : x <= y
<1> DEFINE R == OpToRel(<, Nat)
<1>1. IsWellFoundedOn(R, Nat)
  BY NatLessThanWellFounded
<1>2. \A x, y \in Nat : y < x => <<y, x>> \in R
  BY DEF OpToRel
<1> HIDE DEF R
<1>3. PICK x \in T : \A y \in T : ~(<<y, x>> \in R)
  BY <1>1, WFMin
<1>4. ASSUME NEW y \in T PROVE x <= y
  <2>1. ~(y < x)
    BY <1>2, <1>3
  <2>2. QED BY <2>1
<1>5. QED BY <1>4

LEMMA UnitType ==
  ASSUME NEW u \in Units
  PROVE  /\ u.msg \in Nat /\ u.msg >= 1 /\ u.kind \in Kinds
         /\ u.kind \in {"head", "text"} /\ u = Unit(u.msg, u.kind)
<1>1. u.msg \in 1..MaxMsgs /\ u.kind \in Kinds /\ u = Unit(u.msg, u.kind)
  BY DEF Units, Unit
<1>2. QED BY <1>1 DEF Kinds

LEMMA BeforeTransitive ==
  ASSUME NEW u \in Units, NEW v \in Units, NEW w \in Units,
         Before(u, v), Before(v, w)
  PROVE  Before(u, w)
BY UnitType DEF Before

(* The order of the parts of two sequences that are put together. *)
LEMMA SortedConcat ==
  ASSUME NEW a \in Seq(Units), NEW b \in Seq(Units)
  PROVE  Sorted(a \o b) <=> Sorted(a) /\ Sorted(b) /\ Precede(a, b)
<1> DEFINE s == a \o b
<1>1. /\ Len(a) \in Nat /\ Len(b) \in Nat /\ Len(s) = Len(a) + Len(b)
      /\ DOMAIN a = 1..Len(a) /\ DOMAIN b = 1..Len(b) /\ DOMAIN s = 1..Len(s)
  BY ConcatProperties, LenProperties
<1>2. /\ \A i \in DOMAIN a : i \in DOMAIN s /\ s[i] = a[i]
      /\ \A i \in DOMAIN b : Len(a) + i \in DOMAIN s /\ s[Len(a) + i] = b[i]
      /\ \A i \in DOMAIN s : \/ i \in DOMAIN a
                             \/ \E j \in DOMAIN b : i = Len(a) + j
  <2>1. \A i \in 1..Len(a) + Len(b) :
          s[i] = IF i <= Len(a) THEN a[i] ELSE b[i - Len(a)]
    BY ConcatProperties
  <2>2. \A i \in DOMAIN a : i \in DOMAIN s /\ s[i] = a[i]
    BY <1>1, <2>1
  <2>3. ASSUME NEW i \in DOMAIN b
        PROVE  Len(a) + i \in DOMAIN s /\ s[Len(a) + i] = b[i]
    <3>1. /\ Len(a) + i \in 1..Len(a) + Len(b) /\ ~(Len(a) + i <= Len(a))
          /\ Len(a) + i - Len(a) = i
      BY <1>1
    <3>2. QED BY <1>1, <2>1, <3>1
  <2>4. ASSUME NEW i \in DOMAIN s, i \notin DOMAIN a
        PROVE  \E j \in DOMAIN b : i = Len(a) + j
    <3>1. i - Len(a) \in DOMAIN b /\ i = Len(a) + (i - Len(a))
      BY <1>1, <2>4
    <3>2. QED BY <3>1
  <2>5. QED BY <2>2, <2>3, <2>4
<1> HIDE DEF s
<1>3. ASSUME Sorted(s) PROVE Sorted(a) /\ Sorted(b) /\ Precede(a, b)
  <2>1. Sorted(a)
    BY <1>2, <1>3 DEF Sorted
  <2>2. ASSUME NEW i \in DOMAIN b, NEW j \in DOMAIN b, i < j
        PROVE  Before(b[i], b[j])
    <3>1. Len(a) + i < Len(a) + j
      BY <1>1, <2>2
    <3>2. QED BY <1>2, <1>3, <3>1 DEF Sorted
  <2>3. ASSUME NEW i \in DOMAIN a, NEW j \in DOMAIN b
        PROVE  Before(a[i], b[j])
    <3>1. i < Len(a) + j
      BY <1>1
    <3>2. QED BY <1>2, <1>3, <3>1 DEF Sorted
  <2>4. QED BY <2>1, <2>2, <2>3 DEF Sorted, Precede
<1>4. ASSUME Sorted(a), Sorted(b), Precede(a, b),
             NEW i \in DOMAIN s, NEW j \in DOMAIN s, i < j
      PROVE  Before(s[i], s[j])
  <2>1. CASE i \in DOMAIN a /\ j \in DOMAIN a
    BY <1>2, <1>4, <2>1 DEF Sorted
  <2>2. CASE i \in DOMAIN a /\ j \notin DOMAIN a
    BY <1>2, <1>4, <2>2 DEF Precede
  <2>3. CASE i \notin DOMAIN a
    <3>1. PICK k \in DOMAIN b : i = Len(a) + k
      BY <1>2, <2>3
    <3>2. j \notin DOMAIN a
      BY <1>1, <1>4, <2>3
    <3>3. PICK m \in DOMAIN b : j = Len(a) + m
      BY <1>2, <3>2
    <3>4. k < m
      BY <1>1, <1>4, <3>1, <3>3
    <3>5. QED BY <1>2, <1>4, <3>1, <3>3, <3>4 DEF Sorted
  <2>4. QED BY <2>1, <2>2, <2>3
<1>5. QED BY <1>3, <1>4 DEF s, Sorted

(* What holds of all parts of two sequences holds of all when they are put  *)
(* together: they are not later than m.                                    *)
UpTo(units, m) == \A k \in DOMAIN units : units[k].msg <= m

LEMMA UpToConcat ==
  ASSUME NEW a \in Seq(Units), NEW b \in Seq(Units), NEW m
  PROVE  UpTo(a \o b, m) <=> UpTo(a, m) /\ UpTo(b, m)
<1> DEFINE s == a \o b
<1>1. Range(s) = Range(a) \cup Range(b)
  BY RangeConcatenation
<1>2. QED BY <1>1 DEF UpTo, Range

LEMMA PrecedeConcat ==
  ASSUME NEW c \in Seq(Units), NEW a \in Seq(Units), NEW b \in Seq(Units)
  PROVE  Precede(c, a \o b) <=> Precede(c, a) /\ Precede(c, b)
<1> DEFINE s == a \o b
<1>1. Range(s) = Range(a) \cup Range(b)
  BY RangeConcatenation
<1>2. QED BY <1>1 DEF Precede, Range

LEMMA UpToPrecede ==
  ASSUME NEW a \in Seq(Units), NEW b \in Seq(Units), NEW m \in Int,
         UpTo(a, m - 1), \A k \in DOMAIN b : b[k].msg = m
  PROVE  Precede(a, b)
<1> SUFFICES ASSUME NEW i \in DOMAIN a, NEW k \in DOMAIN b
             PROVE  a[i].msg < b[k].msg
  BY DEF Precede, Before
<1>1. a[i] \in Units
  BY LenProperties
<1>2. a[i].msg \in Nat /\ a[i].msg <= m - 1 /\ b[k].msg = m
  BY <1>1, UnitType DEF UpTo
<1>3. QED BY <1>2

(* The head of one sequence is put behind another. *)
LEMMA MoveHead ==
  ASSUME NEW S, NEW s \in Seq(S), NEW l \in Seq(S), l # <<>>
  PROVE  /\ Append(s, Head(l)) \in Seq(S) /\ Tail(l) \in Seq(S)
         /\ Append(s, Head(l)) \o Tail(l) = s \o l
<1>1. /\ Len(s) \in Nat /\ Len(l) \in Nat /\ Len(l) >= 1 /\ Head(l) = l[1]
      /\ Head(l) \in S /\ Tail(l) \in Seq(S) /\ Len(Tail(l)) = Len(l) - 1
      /\ \A i \in 1..Len(Tail(l)) : Tail(l)[i] = l[i + 1]
  BY HeadTailProperties, EmptySeq
<1> DEFINE a == Append(s, Head(l))
<1>2. /\ a \in Seq(S) /\ Len(a) = Len(s) + 1 /\ a[Len(s) + 1] = l[1]
      /\ \A i \in 1..Len(s) : a[i] = s[i]
  BY <1>1, AppendProperties
<1> HIDE DEF a
<1>3. /\ a \o Tail(l) \in Seq(S) /\ s \o l \in Seq(S)
      /\ Len(a \o Tail(l)) = Len(s \o l) /\ Len(s \o l) = Len(s) + Len(l)
  <2>1. s \o l \in Seq(S) /\ Len(s \o l) = Len(s) + Len(l)
    BY ConcatProperties
  <2>2. a \o Tail(l) \in Seq(S) /\ Len(a \o Tail(l)) = Len(a) + Len(Tail(l))
    BY <1>1, <1>2, ConcatProperties
  <2>3. Len(a) + Len(Tail(l)) = Len(s) + Len(l)
    BY <1>1, <1>2
  <2>4. QED BY <2>1, <2>2, <2>3
<1>4. ASSUME NEW i \in 1..Len(s \o l) PROVE (a \o Tail(l))[i] = (s \o l)[i]
  <2>1. /\ (a \o Tail(l))[i] = IF i <= Len(a) THEN a[i] ELSE Tail(l)[i - Len(a)]
        /\ (s \o l)[i] = IF i <= Len(s) THEN s[i] ELSE l[i - Len(s)]
    <3>1. i \in 1..Len(a) + Len(Tail(l)) /\ i \in 1..Len(s) + Len(l)
      BY <1>1, <1>2, <1>3
    <3>2. QED BY <1>1, <1>2, <3>1, ConcatProperties
  <2>2. CASE i <= Len(s)
    BY <1>1, <1>2, <2>1, <2>2
  <2>3. CASE i = Len(s) + 1
    BY <1>1, <1>2, <2>1, <2>3
  <2>4. CASE i > Len(s) + 1
    <3>1. /\ ~(i <= Len(a)) /\ ~(i <= Len(s)) /\ i - Len(a) \in 1..Len(Tail(l))
          /\ (i - Len(a)) + 1 = i - Len(s)
      BY <1>1, <1>2, <1>3, <2>4
    <3>2. QED BY <1>1, <2>1, <3>1
  <2>5. QED BY <1>1, <1>3, <2>2, <2>3, <2>4
<1>5. QED BY <1>1, <1>2, <1>3, <1>4, SeqEqual DEF a

(* A sequence is cut into what comes first and what is left. *)
LEMMA Cut ==
  ASSUME NEW S, NEW s \in Seq(S), NEW n \in 0..Len(s)
  PROVE  /\ SubSeq(s, 1, n) \in Seq(S) /\ SubSeq(s, n + 1, Len(s)) \in Seq(S)
         /\ Len(SubSeq(s, 1, n)) = n
         /\ Len(SubSeq(s, n + 1, Len(s))) = Len(s) - n
         /\ \A i \in 1..n : SubSeq(s, 1, n)[i] = s[i]
         /\ SubSeq(s, 1, n) \o SubSeq(s, n + 1, Len(s)) = s
<1>1. Len(s) \in Nat
  OBVIOUS
<1>2. SubSeq(s, 1, n) \o SubSeq(s, n + 1, Len(s)) = SubSeq(s, 1, Len(s))
  <2>1. 1 \in 1..Len(s) + 1 /\ n \in 1 - 1..Len(s) /\ Len(s) \in n..Len(s)
    BY <1>1
  <2>2. QED BY <2>1, ConcatAdjacentSubSeq
<1>3. SubSeq(s, 1, Len(s)) = s
  BY SubSeqFull
<1>4. /\ SubSeq(s, 1, n) \in Seq(S) /\ Len(SubSeq(s, 1, n)) = n
      /\ \A i \in 1..n : SubSeq(s, 1, n)[i] = s[i]
  <2>1. \A i \in 1..n : s[i] \in S
    BY <1>1
  <2>2. n \in Int /\ 1 \in Int /\ (IF 1 <= n THEN n - 1 + 1 ELSE 0) = n
        /\ n - 1 + 1 = n /\ \A i \in 1..n : 1 + i - 1 = i
    BY <1>1
  <2>3. QED BY <2>1, <2>2, SubSeqProperties
<1>5. /\ SubSeq(s, n + 1, Len(s)) \in Seq(S)
      /\ Len(SubSeq(s, n + 1, Len(s))) = Len(s) - n
  <2>1. \A i \in n + 1..Len(s) : s[i] \in S
    BY <1>1
  <2>2. n + 1 \in Int /\ Len(s) \in Int
        /\ (IF n + 1 <= Len(s) THEN Len(s) - (n + 1) + 1 ELSE 0) = Len(s) - n
    BY <1>1
  <2>3. QED BY <2>1, <2>2, SubSeqProperties
<1>6. QED BY <1>2, <1>3, <1>4, <1>5

(* The parts of one message. *)
LEMMA MessageParts ==
  ASSUME NEW m \in 1..MaxMsgs
  PROVE  /\ Message(m) \in Seq(Units)
         /\ Len(Message(m)) = 2
         /\ Sorted(Message(m))
         /\ \A k \in DOMAIN Message(m) : Message(m)[k].msg = m
<1>1. Unit(m, "head") \in Units /\ Unit(m, "text") \in Units
  BY DEF Unit, Units, Kinds
<1>2. \A k \in 1..2 : Message(m)[k].msg = m
  BY DEF Message, Unit
<1>3. Before(Unit(m, "head"), Unit(m, "text"))
  BY DEF Before, Unit
<1>4. QED BY <1>1, <1>2, <1>3 DEF Message, Sorted

-----------------------------------------------------------------------------
(* Types, and who writes and who reads. *)
Base == TypeOK /\ OneWriter /\ OneReader

(* What the thread that is inside set_message has written and has still to  *)
(* write is one message.                                                   *)
LEMMA Writing ==
  ASSUME Base, NEW t \in inside
  PROVE  /\ inside = {t} /\ sent \in 1..MaxMsgs
         /\ wbuf \o left[t] = Message(sent)
<1>1. t \in Threads /\ left[t] \in Seq(Units) /\ wbuf \in Seq(Units)
      /\ sent \in 0..MaxMsgs
  BY DEF Base, TypeOK
<1>2. inside = {t} /\ wbuf \o left[t] = Message(sent)
  BY DEF Base, OneWriter
<1>3. sent # 0
  <2>1. wbuf \o left[t] \in Seq(Units)
    BY <1>1, ConcatProperties
  <2>2. Message(sent)[1].msg = sent /\ 1 \in 1..Len(Message(sent))
    BY DEF Message, Unit
  <2>3. Message(sent)[1] \in Units
    BY <1>2, <2>1, <2>2
  <2>4. QED BY <2>2, <2>3, UnitType
<1>4. QED BY <1>1, <1>2, <1>3

(* What the window's buffer and the pipe hold. *)
LEMMA UnreadType ==
  ASSUME TypeOK
  PROVE  /\ Unread \in Seq(Units)
         /\ \A p \in Pids : rbuf[p] \in Seq(Units) /\ copy[p] \in Seq(Units)
         /\ 0 \notin Pids
<1>1. 0 \notin Pids
  BY DEF Pids
<1>2. \A p \in Pids : rbuf[p] \in Seq(Units) /\ copy[p] \in Seq(Units)
  BY DEF TypeOK
<1>3. CASE guiPid = 0
  BY <1>1, <1>2, <1>3 DEF Unread, TypeOK
<1>4. CASE guiPid # 0
  <2>1. rbuf[guiPid] \in Seq(Units) /\ pipe \in Seq(Units)
    BY <1>2, <1>4 DEF TypeOK
  <2>2. rbuf[guiPid] \o pipe \in Seq(Units)
    BY <2>1, ConcatProperties
  <2>3. QED BY <1>1, <1>2, <1>4, <2>2 DEF Unread
<1>5. QED BY <1>3, <1>4

LEMMA BaseInit == Init => Base
<1> SUFFICES ASSUME Init PROVE Base
  OBVIOUS
<1>1. <<>> \in Seq(Units) /\ Len(<<>>) = 0 /\ <<>> \in Seq(Seq(Units))
  OBVIOUS
<1>2. 0 \in 0..MaxMsgs /\ 0 <= MaxPipe
  OBVIOUS
<1>3. guiPid \in Pids \cup {0} /\ gui \in [Pids -> Status]
  BY DEF Init, Status
<1>4. TypeOK
  BY <1>1, <1>2, <1>3 DEF Init, TypeOK, Status
<1>5. OneWriter
  BY DEF Init, OneWriter
<1>6. OneReader
  BY DEF Init, OneReader
<1>7. QED BY <1>4, <1>5, <1>6 DEF Base

(* write() keeps the type of the pipe. *)
LEMMA WriteType ==
  ASSUME TypeOK, NEW units \in Seq(Units), Write(units)
  PROVE  pipe' \in Seq(Units) /\ Len(pipe') <= MaxPipe
<1>1. /\ pipe \o units \in Seq(Units)
      /\ Len(pipe \o units) = Len(pipe) + Len(units)
  BY ConcatProperties DEF TypeOK
<1>2. CASE Fits(units)
  BY <1>1, <1>2 DEF Write, Fits
<1>3. CASE ~Fits(units)
  BY <1>3 DEF Write, TypeOK
<1>4. QED BY <1>2, <1>3

LEMMA SetMessageBase ==
  ASSUME Base, NEW t \in Threads, SetMessage(t) PROVE Base'
<1>1. inside = {} /\ inside' = {t} /\ sent < MaxMsgs /\ sent' = sent + 1
      /\ UNCHANGED <<wbuf, pipe, guiPid, gui, copy, rbuf, shown>>
  BY DEF SetMessage, LockFree
<1>2. sent' \in 1..MaxMsgs
  BY <1>1 DEF Base, TypeOK
<1>3. left' = [left EXCEPT ![t] = Message(sent')]
  BY <1>1 DEF SetMessage
<1>4. Message(sent') \in Seq(Units)
  BY <1>2, MessageParts
<1>5. /\ left' \in [Threads -> Seq(Units)] /\ left'[t] = Message(sent')
      /\ \A u \in Threads \ inside' : left'[u] = <<>>
  BY <1>1, <1>3, <1>4 DEF Base, TypeOK
<1>6. wbuf = <<>>
  BY <1>1 DEF Base, OneWriter
<1>7. wbuf' \o left'[t] = Message(sent')
  BY <1>1, <1>4, <1>5, <1>6, ConcatEmptySeq
<1>8. TypeOK'
  BY <1>1, <1>2, <1>5 DEF Base, TypeOK
<1>9. OneWriter'
  BY <1>1, <1>3, <1>7 DEF OneWriter
<1>10. OneReader'
  BY <1>1 DEF Base, OneReader
<1>11. QED BY <1>8, <1>9, <1>10 DEF Base

LEMMA PrintfBase ==
  ASSUME Base, NEW t \in Threads, Printf(t) PROVE Base'
<1>1. /\ left[t] # <<>> /\ wbuf' = Append(wbuf, Head(left[t]))
      /\ left' = [left EXCEPT ![t] = Tail(left[t])]
      /\ UNCHANGED <<inside, sent, pipe, guiPid, gui, copy, rbuf, shown>>
  BY DEF Printf
<1>2. t \in inside /\ left[t] \in Seq(Units) /\ wbuf \in Seq(Units)
  BY <1>1 DEF Base, TypeOK
<1>3. /\ wbuf' \in Seq(Units) /\ left'[t] \in Seq(Units)
      /\ left' \in [Threads -> Seq(Units)]
      /\ wbuf' \o left'[t] = wbuf \o left[t]
  <2>1. /\ wbuf' \in Seq(Units) /\ Tail(left[t]) \in Seq(Units)
        /\ wbuf' \o Tail(left[t]) = wbuf \o left[t]
    BY <1>1, <1>2, MoveHead
  <2>2. left' \in [Threads -> Seq(Units)] /\ left'[t] = Tail(left[t])
    BY <1>1, <2>1 DEF Base, TypeOK
  <2>3. QED BY <2>1, <2>2
<1>4. inside = {t} /\ sent \in 1..MaxMsgs
  BY <1>2, Writing
<1>5. Len(wbuf') <= 2
  <2>1. wbuf \o left[t] = Message(sent)
    BY <1>2, Writing
  <2>2. Len(wbuf') + Len(left'[t]) = Len(wbuf' \o left'[t])
    BY <1>3, ConcatProperties
  <2>3. Len(wbuf') + Len(left'[t]) = 2
    BY <1>3, <1>4, <2>1, <2>2, MessageParts
  <2>4. QED BY <1>3, <2>3
<1>6. \A u \in Threads \ inside' : left'[u] = <<>>
  BY <1>1, <1>2 DEF Base, TypeOK
<1>7. TypeOK'
  BY <1>1, <1>3, <1>5, <1>6 DEF Base, TypeOK
<1>8. OneWriter'
  BY <1>1, <1>2, <1>3, <1>4 DEF Base, OneWriter
<1>9. OneReader'
  BY <1>1 DEF Base, OneReader
<1>10. QED BY <1>7, <1>8, <1>9 DEF Base

LEMMA FlushBase ==
  ASSUME Base, NEW t \in Threads, Flush(t) PROVE Base'
<1>1. /\ t \in inside /\ left[t] = <<>> /\ wbuf' = <<>>
      /\ inside' = inside \ {t} /\ Write(wbuf)
      /\ UNCHANGED <<left, sent, guiPid, gui, copy, rbuf, shown>>
  BY DEF Flush
<1>2. inside' = {}
  BY <1>1, Writing
<1>3. pipe' \in Seq(Units) /\ Len(pipe') <= MaxPipe
  BY <1>1, WriteType DEF Base, TypeOK
<1>4. \A u \in Threads \ inside' : left'[u] = <<>>
  BY <1>1, <1>2 DEF Base, TypeOK
<1>5. wbuf' \in Seq(Units) /\ Len(wbuf') <= 2
  BY <1>1
<1>6. TypeOK'
  BY <1>1, <1>2, <1>3, <1>4, <1>5 DEF Base, TypeOK
<1>7. OneWriter'
  BY <1>1, <1>2 DEF OneWriter
<1>8. OneReader'
  BY <1>1 DEF Base, OneReader
<1>9. QED BY <1>6, <1>7, <1>8 DEF Base

(* The windows leave the threads alone. *)
LEMMA MainStays ==
  ASSUME Base, UNCHANGED main,
         guiPid' \in Pids \cup {0}, gui' \in [Pids -> Status],
         pipe' \in Seq(Units), Len(pipe') <= MaxPipe,
         copy' \in [Pids -> Seq(Units)], rbuf' \in [Pids -> Seq(Units)],
         shown' \in Seq(Seq(Units)), OneReader'
  PROVE  Base'
<1>1. TypeOK'
  BY DEF Base, TypeOK, main, Status
<1>2. OneWriter'
  BY DEF Base, OneWriter, main
<1>3. QED BY <1>1, <1>2 DEF Base

LEMMA ReopenBase ==
  ASSUME Base, NEW p \in Pids, Reopen(p) PROVE Base'
<1>1. /\ guiPid = 0 /\ guiPid' = p /\ gui[p] = "none"
      /\ gui' = [gui EXCEPT ![p] = "idle"] /\ copy' = [copy EXCEPT ![p] = wbuf]
      /\ UNCHANGED <<main, pipe, rbuf, shown>>
  BY DEF Reopen
<1>2. /\ gui \in [Pids -> Status] /\ copy \in [Pids -> Seq(Units)]
      /\ wbuf \in Seq(Units) /\ 0 \notin Pids
  BY UnreadType DEF Base, TypeOK, Status
<1>3. gui' \in [Pids -> Status] /\ copy' \in [Pids -> Seq(Units)]
  BY <1>1, <1>2 DEF Status
<1>4. OneReader'
  <2> SUFFICES ASSUME NEW q \in Pids
               PROVE  /\ gui'[q] \in {"idle", "read", "close", "dead"} => guiPid' = q
                      /\ rbuf'[q] # <<>> => gui'[q] \in {"read", "dead"}
                      /\ gui'[q] = "none" => copy'[q] = <<>>
    BY DEF OneReader
  <2>1. CASE q = p
    BY <1>1, <1>2, <2>1 DEF Base, OneReader
  <2>2. CASE q # p
    BY <1>1, <1>2, <2>2 DEF Base, OneReader
  <2>3. QED BY <2>1, <2>2
<1>5. QED BY <1>1, <1>3, <1>4, MainStays DEF Base, TypeOK

(* A step of a window that was known to main, as to types. *)
LEMMA WindowBase ==
  ASSUME Base, NEW p \in Pids, NEW state \in Status \ {"none"}, Becomes(p, state),
         UNCHANGED <<main, copy>>, gui[p] # "none",
         pipe' \in Seq(Units), Len(pipe') <= MaxPipe,
         NEW units \in Seq(Units), rbuf' = [rbuf EXCEPT ![p] = units],
         shown' \in Seq(Seq(Units)),
         units # <<>> => state \in {"read", "dead"},
         \/ guiPid' = guiPid /\ (state \in {"exit", "gone"} \/ guiPid = p)
         \/ guiPid = p /\ guiPid' = 0 /\ state \in {"exit", "gone"}
  PROVE  Base'
<1>1. gui \in [Pids -> Status] /\ rbuf \in [Pids -> Seq(Units)] /\ 0 \notin Pids
  BY UnreadType DEF Base, TypeOK, Status
<1>2. gui' = [gui EXCEPT ![p] = state]
  BY DEF Becomes
<1>3. /\ gui' \in [Pids -> Status] /\ rbuf' \in [Pids -> Seq(Units)]
      /\ gui'[p] = state /\ rbuf'[p] = units
      /\ \A q \in Pids \ {p} : gui'[q] = gui[q] /\ rbuf'[q] = rbuf[q]
  BY <1>1, <1>2
<1>4. OneReader'
  <2> SUFFICES ASSUME NEW q \in Pids
               PROVE  /\ gui'[q] \in {"idle", "read", "close", "dead"} => guiPid' = q
                      /\ rbuf'[q] # <<>> => gui'[q] \in {"read", "dead"}
                      /\ gui'[q] = "none" => copy'[q] = <<>>
    BY DEF OneReader
  <2>1. CASE q = p
    BY <1>3, <2>1
  <2>2. CASE q # p
    BY <1>1, <1>3, <2>2 DEF Base, OneReader
  <2>3. QED BY <2>1, <2>2
<1>5. guiPid' \in Pids \cup {0}
  BY DEF Base, TypeOK
<1>6. QED BY <1>3, <1>4, <1>5, MainStays DEF Base, TypeOK

(* Steps of a window that move nothing. *)
LEMMA QuietStep ==
  ASSUME Base, NEW p \in Pids, Update(p) \/ Return(p) \/ ClickBackend(p)
  PROVE  Base' /\ Unread' = Unread /\ shown' = shown
<1>1. /\ UNCHANGED <<main, copy>> /\ UNCHANGED <<pipe, guiPid, rbuf, shown>>
      /\ gui[p] \in {"idle", "read"} /\ guiPid = p
  BY DEF Update, Return, ClickBackend, Base, OneReader
<1>2. PICK state \in {"read", "idle", "close"} :
        Becomes(p, state) /\ (state = "read" \/ rbuf[p] = <<>>)
  BY DEF Update, Return, ClickBackend, Base, OneReader
<1>3. rbuf \in [Pids -> Seq(Units)]
  BY DEF Base, TypeOK
<1>4. rbuf[p] \in Seq(Units) /\ rbuf' = [rbuf EXCEPT ![p] = rbuf[p]]
  BY <1>1, <1>3
<1>5. /\ pipe' \in Seq(Units) /\ Len(pipe') <= MaxPipe
      /\ shown' \in Seq(Seq(Units))
  BY <1>1 DEF Base, TypeOK
<1>6. state \in Status \ {"none"} /\ gui[p] # "none"
      /\ (rbuf[p] # <<>> => state \in {"read", "dead"})
  BY <1>1, <1>2 DEF Status
<1>7. Base'
  BY <1>1, <1>2, <1>4, <1>5, <1>6, WindowBase
<1>8. QED BY <1>1, <1>7 DEF Unread

(* The end of a window: a copy of writeFp that is empty is not written. *)
LEMMA ReportStep ==
  ASSUME Base, NEW p \in Pids, Report(p)
  PROVE  Base' /\ Unread' = Unread /\ shown' = shown
<1>1. /\ gui[p] = "close" /\ Becomes(p, "exit") /\ guiPid' = 0
      /\ UNCHANGED <<main, pipe, copy, rbuf, shown>>
  BY DEF Report
<1>2. guiPid = p /\ rbuf[p] = <<>>
  BY <1>1 DEF Base, OneReader
<1>3. rbuf \in [Pids -> Seq(Units)]
  BY DEF Base, TypeOK
<1>4. rbuf[p] \in Seq(Units) /\ rbuf' = [rbuf EXCEPT ![p] = rbuf[p]]
  BY <1>1, <1>3
<1>5. /\ pipe' \in Seq(Units) /\ Len(pipe') <= MaxPipe
      /\ shown' \in Seq(Seq(Units))
  BY <1>1 DEF Base, TypeOK
<1>6. Base'
  BY <1>1, <1>2, <1>4, <1>5, WindowBase DEF Status
<1>7. <<>> \o pipe = pipe
  BY ConcatEmptySeq DEF Base, TypeOK
<1>8. QED BY <1>1, <1>2, <1>6, <1>7, UnreadType DEF Unread, Base

LEMMA ExitStep ==
  ASSUME Base, NEW p \in Pids, Exit(p)
  PROVE  Base' /\ (copy[p] = <<>> => Unread' = Unread) /\ shown' = shown
<1>1. /\ gui[p] = "exit" /\ Becomes(p, "gone") /\ Write(copy[p])
      /\ UNCHANGED <<main, guiPid, copy, rbuf, shown>>
  BY DEF Exit
<1>2. rbuf[p] = <<>>
  BY <1>1 DEF Base, OneReader
<1>3. rbuf \in [Pids -> Seq(Units)] /\ copy[p] \in Seq(Units)
  BY DEF Base, TypeOK
<1>4. rbuf[p] \in Seq(Units) /\ rbuf' = [rbuf EXCEPT ![p] = rbuf[p]]
  BY <1>1, <1>3
<1>5. /\ pipe' \in Seq(Units) /\ Len(pipe') <= MaxPipe
      /\ shown' \in Seq(Seq(Units))
  BY <1>1, <1>3, WriteType DEF Base, TypeOK
<1>6. Base'
  BY <1>1, <1>2, <1>4, <1>5, WindowBase DEF Status
<1>7. copy[p] = <<>> => pipe' = pipe
  <2>1. pipe \o <<>> = pipe
    BY ConcatEmptySeq DEF Base, TypeOK
  <2>2. QED BY <1>1, <2>1 DEF Write
<1>8. QED BY <1>1, <1>6, <1>7 DEF Unread

(* A new window finds in the pipe what the last one has not read. *)
LEMMA ReopenStep ==
  ASSUME Base, NEW p \in Pids, Reopen(p)
  PROVE  Unread' = Unread /\ shown' = shown
<1>1. /\ guiPid = 0 /\ guiPid' = p /\ gui[p] = "none" 
      /\ UNCHANGED <<pipe, rbuf, shown>>
  BY DEF Reopen
<1>2. rbuf[p] = <<>> /\ p # 0
  BY <1>1, UnreadType DEF Base, OneReader
<1>3. <<>> \o pipe = pipe
  BY ConcatEmptySeq DEF Base, TypeOK
<1>4. QED BY <1>1, <1>2, <1>3 DEF Unread

LEMMA FillStep ==
  ASSUME Base, NEW p \in Pids, Fill(p)
  PROVE  Base' /\ Unread' = Unread /\ shown' = shown
<1> DEFINE n == IF Len(pipe) < MaxRead THEN Len(pipe) ELSE MaxRead
           first == SubSeq(pipe, 1, n)
           rest == SubSeq(pipe, n + 1, Len(pipe))
<1>1. /\ gui[p] = "read" /\ rbuf' = [rbuf EXCEPT ![p] = rbuf[p] \o first]
      /\ pipe' = rest
      /\ UNCHANGED <<main, guiPid, gui, copy, shown>>
  BY DEF Fill
<1>2. guiPid = p /\ p # 0
  BY <1>1, UnreadType DEF Base, OneReader
<1>3. /\ rbuf \in [Pids -> Seq(Units)] /\ rbuf[p] \in Seq(Units)
      /\ gui \in [Pids -> Status]
      /\ pipe \in Seq(Units) /\ Len(pipe) \in Nat /\ Len(pipe) <= MaxPipe
  BY DEF Base, TypeOK, Status
<1>4. n \in 0..Len(pipe)
  BY <1>3
<1> HIDE DEF n
<1>5. /\ first \in Seq(Units) /\ rest \in Seq(Units) /\ first \o rest = pipe
      /\ Len(rest) = Len(pipe) - n
  BY <1>3, <1>4, Cut
<1> HIDE DEF first, rest
<1>6. /\ rbuf[p] \o first \in Seq(Units)
      /\ (rbuf[p] \o first) \o rest = rbuf[p] \o pipe
  <2>1. rbuf[p] \o first \in Seq(Units)
    BY <1>3, <1>5, ConcatProperties
  <2>2. rbuf[p] \in Seq(Units) /\ first \in Seq(Units) /\ rest \in Seq(Units)
    BY <1>3, <1>5
  <2>3. (rbuf[p] \o first) \o rest = rbuf[p] \o (first \o rest)
    <3>1. \A a, b, c \in Seq(Units) : (a \o b) \o c = a \o (b \o c)
      BY ConcatAssociative
    <3>2. QED BY <2>2, <3>1
  <2>4. QED BY <1>5, <2>1, <2>3
<1>7. Len(rest) <= MaxPipe
  BY <1>3, <1>4, <1>5
<1>8. Becomes(p, "read")
  BY <1>1, <1>3 DEF Becomes
<1>9. Base'
  <2>1. shown' \in Seq(Seq(Units)) /\ "read" \in Status \ {"none"}
        /\ gui[p] # "none" /\ guiPid' = guiPid
    BY <1>1 DEF Base, TypeOK, Status
  <2>2. UNCHANGED <<main, copy>> /\ pipe' \in Seq(Units) /\ Len(pipe') <= MaxPipe
    BY <1>1, <1>5, <1>7
  <2>3. QED BY <1>1, <1>2, <1>6, <1>8, <2>1, <2>2, WindowBase
<1>10. rbuf'[p] = rbuf[p] \o first
  BY <1>1, <1>3
<1>11. QED BY <1>1, <1>2, <1>6, <1>9, <1>10 DEF Unread

(* fgets takes a line off what is unread. *)
LineTaken(p, n, line, rest) ==
  /\ n \in 1..Len(rbuf[p])
  /\ line = SubSeq(rbuf[p], 1, n) /\ rest = SubSeq(rbuf[p], n + 1, Len(rbuf[p]))
  /\ line \in Seq(Units) /\ rest \in Seq(Units) /\ Len(line) = n
  /\ Unread = line \o Unread' /\ line \o rest = rbuf[p]
  /\ Unread' \in Seq(Units)
  /\ \/ Unread' = <<>> /\ \A i \in 1..n : ~Ends(line[i])
     \/ Ends(line[n]) /\ \A i \in 1..n - 1 : ~Ends(line[i])
  /\ \/ shown' = Append(shown, line) /\ UNCHANGED gui
     \/ ~Whole(line) /\ Becomes(p, "dead") /\ UNCHANGED shown

LEMMA LineEndFirst ==
  ASSUME NEW units \in Seq(Units)
  PROVE  \/ LineEnd(units) = 0 /\ \A i \in 1..Len(units) : ~Ends(units[i])
         \/ /\ LineEnd(units) \in 1..Len(units) /\ Ends(units[LineEnd(units)])
            /\ \A i \in 1..LineEnd(units) - 1 : ~Ends(units[i])
<1> DEFINE I == {i \in 1..Len(units) : Ends(units[i])}
<1>1. LineEnd(units) = IF I # {} THEN Min(I) ELSE 0
  BY DEF LineEnd, SelectInSeq
<1>2. CASE I = {}
  BY <1>1, <1>2
<1>3. CASE I # {}
  <2>1. I \in SUBSET Nat /\ Len(units) \in Nat
    OBVIOUS
  <2>2. \E i \in I : \A j \in I : i <= j
    BY <1>3, <2>1, SmallestNumber
  <2>3. Min(I) \in I /\ \A j \in I : Min(I) <= j
    BY <2>2 DEF Min
  <2>4. \A i \in 1..Min(I) - 1 : i \notin I /\ i \in 1..Len(units)
    BY <2>1, <2>3
  <2>5. QED BY <1>1, <1>3, <2>3, <2>4
<1>4. QED BY <1>2, <1>3

LEMMA GetsStep ==
  ASSUME Base, NEW p \in Pids, Gets(p)
  PROVE  /\ Base' /\ UNCHANGED <<main, copy>> /\ gui[p] = "read"
         /\ \E n \in Nat, line, rest \in Seq(Units) : LineTaken(p, n, line, rest)
<1> DEFINE n == IF LineEnd(rbuf[p]) = 0 THEN Len(rbuf[p]) ELSE LineEnd(rbuf[p])
           line == SubSeq(rbuf[p], 1, n)
           rest == SubSeq(rbuf[p], n + 1, Len(rbuf[p]))
<1>1. /\ gui[p] = "read" /\ rbuf[p] # <<>>
      /\ LineEnd(rbuf[p]) # 0 \/ pipe = <<>>
      /\ rbuf' = [rbuf EXCEPT ![p] = rest]
      /\ \/ shown' = Append(shown, line) /\ UNCHANGED gui
         \/ ~Whole(line) /\ Becomes(p, "dead") /\ UNCHANGED shown
      /\ UNCHANGED <<main, pipe, guiPid, copy>>
  BY DEF Gets, Rest
<1>2. guiPid = p /\ p # 0
  BY <1>1, UnreadType DEF Base, OneReader
<1>3. /\ rbuf \in [Pids -> Seq(Units)] /\ rbuf[p] \in Seq(Units)
      /\ gui \in [Pids -> Status] /\ pipe \in Seq(Units)
      /\ shown \in Seq(Seq(Units)) /\ Len(pipe) <= MaxPipe
  BY DEF Base, TypeOK, Status
<1>4. Len(rbuf[p]) \in Nat \ {0}
  BY <1>1, <1>3, EmptySeq
<1>5. /\ n \in 1..Len(rbuf[p])
      /\ \/ n = Len(rbuf[p]) /\ pipe = <<>> /\ \A i \in 1..n : ~Ends(rbuf[p][i])
         \/ Ends(rbuf[p][n]) /\ \A i \in 1..n - 1 : ~Ends(rbuf[p][i])
  BY <1>1, <1>3, <1>4, LineEndFirst
<1> HIDE DEF n
<1>6. n \in 0..Len(rbuf[p]) /\ n \in Nat /\ n \in 1..n
      /\ \A i \in 1..n - 1 : i \in 1..n
  BY <1>4, <1>5
<1>7. /\ line \in Seq(Units) /\ rest \in Seq(Units) /\ Len(line) = n
      /\ \A i \in 1..n : line[i] = rbuf[p][i]
      /\ line \o rest = rbuf[p]
      /\ line = SubSeq(rbuf[p], 1, n)
      /\ rest = SubSeq(rbuf[p], n + 1, Len(rbuf[p]))
  BY <1>3, <1>6, Cut
<1> HIDE DEF line, rest
<1>8. rbuf'[p] = rest
  BY <1>1, <1>3
<1>9. /\ Unread = rbuf[p] \o pipe /\ Unread' = rest \o pipe
      /\ Unread' \in Seq(Units)
  <2>1. Unread = rbuf[p] \o pipe /\ Unread' = rest \o pipe
    BY <1>1, <1>2, <1>8 DEF Unread
  <2>2. QED BY <1>3, <1>7, <2>1, ConcatProperties
<1>10. Unread = line \o Unread'
  <2>1. line \in Seq(Units) /\ rest \in Seq(Units) /\ pipe \in Seq(Units)
    BY <1>3, <1>7
  <2>2. (line \o rest) \o pipe = line \o (rest \o pipe)
    BY <2>1, ConcatAssociative
  <2>3. QED BY <1>7, <1>9, <2>2
<1>11. LineTaken(p, n, line, rest)
  <2>1. \/ n = Len(rbuf[p]) /\ pipe = <<>> /\ \A i \in 1..n : ~Ends(line[i])
        \/ Ends(line[n]) /\ \A i \in 1..n - 1 : ~Ends(line[i])
    BY <1>5, <1>6, <1>7
  <2>2. n = Len(rbuf[p]) /\ pipe = <<>> => Unread' = <<>>
    <3>1. n = Len(rbuf[p]) => rest = <<>>
      BY <1>4, <1>7, SubSeqEmpty
    <3>2. QED BY <1>9, <3>1
  <2>3. QED BY <1>1, <1>5, <1>7, <1>9, <1>10, <2>1, <2>2 DEF LineTaken
<1>12. shown' \in Seq(Seq(Units))
  <2>1. shown' = Append(shown, line) \/ shown' = shown
    BY <1>1
  <2>2. Append(shown, line) \in Seq(Seq(Units))
    BY <1>3, <1>7
  <2>3. QED BY <1>3, <2>1, <2>2
<1>13. PICK state \in {"read", "dead"} : Becomes(p, state)
  BY <1>1, <1>3 DEF Becomes
<1>14. Base'
  <2>1. state \in Status \ {"none"} /\ gui[p] # "none" /\ guiPid' = guiPid
        /\ state \in {"read", "dead"}
    BY <1>1 DEF Status
  <2>2. UNCHANGED <<main, copy>> /\ pipe' \in Seq(Units) /\ Len(pipe') <= MaxPipe
    BY <1>1, <1>3
  <2>3. QED BY <1>1, <1>2, <1>7, <1>12, <1>13, <2>1, <2>2, WindowBase
<1>15. QED BY <1>1, <1>6, <1>7, <1>11, <1>14

-----------------------------------------------------------------------------
(* The order of what is sent and shown. *)
LEMMA FlushedType ==
  ASSUME Base
  PROVE  Flushed \in Int /\ sent \in Int /\ Flushed <= sent
         /\ (inside # {} => Flushed = sent - 1) /\ (inside = {} => Flushed = sent)
BY DEF Base, TypeOK, Flushed

LEMMA UpToLater ==
  ASSUME NEW a \in Seq(Units), NEW m \in Int, NEW n \in Int, m <= n, UpTo(a, m)
  PROVE  UpTo(a, n)
<1> SUFFICES ASSUME NEW k \in DOMAIN a PROVE a[k].msg <= n
  BY DEF UpTo
<1>1. a[k] \in Units
  BY LenProperties
<1>2. a[k].msg \in Nat /\ a[k].msg <= m
  BY <1>1, UnitType DEF UpTo
<1>3. QED BY <1>2

LEMMA ShownType ==
  ASSUME TypeOK, NEW i \in DOMAIN shown
  PROVE  shown[i] \in Seq(Units)
BY LenProperties DEF TypeOK

LEMMA SameOrder ==
  ASSUME Base, Ordered, Base', Unread' = Unread, shown' = shown, Flushed <= Flushed'
  PROVE  Ordered'
<1>1. Flushed \in Int /\ Flushed' \in Int
  BY FlushedType DEF Flushed, Base, TypeOK
<1>2. UpTo(Unread, Flushed')
  BY <1>1, UnreadType, UpToLater DEF Ordered, UpTo, Base
<1>3. \A i \in DOMAIN shown : UpTo(shown[i], Flushed')
  <2> SUFFICES ASSUME NEW i \in DOMAIN shown PROVE UpTo(shown[i], Flushed')
    OBVIOUS
  <2>1. shown[i] \in Seq(Units)
    BY ShownType DEF Base
  <2>2. UpTo(shown[i], Flushed)
    BY DEF Ordered, UpTo
  <2>3. QED BY <1>1, <2>1, <2>2, UpToLater
<1>4. QED BY <1>2, <1>3 DEF Ordered, UpTo

(* A message goes into the pipe whole, behind all that were sent before. *)
LEMMA FlushOrder ==
  ASSUME Base, Ordered, Base', NEW t \in Threads, Flush(t)
  PROVE  Ordered'
<1>1. /\ t \in inside /\ left[t] = <<>> /\ Write(wbuf)
      /\ inside' = inside \ {t} /\ UNCHANGED <<sent, guiPid, rbuf, shown>>
  BY DEF Flush
<1>2. inside = {t} /\ sent \in 1..MaxMsgs
  BY <1>1, Writing
<1>3. Flushed = sent - 1 /\ Flushed' = sent
  BY <1>1, <1>2 DEF Flushed
<1>4. Flushed <= Flushed' /\ Flushed \in Int /\ Flushed' \in Int
  BY <1>2, <1>3
<1>5. CASE pipe' = pipe
  <2>1. Unread' = Unread /\ shown' = shown
    BY <1>1, <1>5 DEF Unread
  <2>2. QED BY <1>4, <2>1, SameOrder
<1>6. CASE pipe' = pipe \o wbuf
  <2>1. wbuf \in Seq(Units) /\ pipe \in Seq(Units) /\ Unread \in Seq(Units)
    BY UnreadType DEF Base, TypeOK
  <2>2. wbuf \o left[t] = Message(sent)
    BY <1>1, Writing
  <2>3. wbuf = Message(sent)
    BY <1>1, <2>1, <2>2, ConcatEmptySeq
  <2>4. Sorted(wbuf) /\ \A k \in DOMAIN wbuf : wbuf[k].msg = sent
    BY <1>2, <2>3, MessageParts
  <2>5. Unread' = Unread \o wbuf
    <3>1. CASE guiPid = 0
      BY <1>1, <1>6, <3>1 DEF Unread
    <3>2. CASE guiPid # 0
      <4>1. rbuf[guiPid] \in Seq(Units)
        BY <3>2 DEF Base, TypeOK
      <4> DEFINE r == rbuf[guiPid]
      <4>2. \A a, b, c \in Seq(Units) : (a \o b) \o c = a \o (b \o c)
        BY ConcatAssociative
      <4>3. (r \o pipe) \o wbuf = r \o (pipe \o wbuf)
        BY <2>1, <4>1, <4>2
      <4>4. QED BY <1>1, <1>6, <3>2, <4>3 DEF Unread
    <3>3. QED BY <3>1, <3>2
  <2>6. ASSUME NEW a \in Seq(Units), UpTo(a, Flushed)
        PROVE  UpTo(a, Flushed') /\ Precede(a, wbuf)
    BY <1>2, <1>3, <1>4, <2>1, <2>4, <2>6, UpToLater, UpToPrecede
  <2>7. UpTo(Unread, Flushed)
    BY DEF Ordered, UpTo
  <2>8. Sorted(Unread')
    BY <2>1, <2>4, <2>5, <2>6, <2>7, SortedConcat DEF Ordered
  <2>9. UpTo(Unread', Flushed')
    <3>1. UpTo(wbuf, sent)
      BY <1>2, <2>4 DEF UpTo
    <3>2. QED BY <1>3, <2>1, <2>5, <2>6, <2>7, <3>1, UpToConcat
  <2>10. ASSUME NEW i \in DOMAIN shown
         PROVE  UpTo(shown[i], Flushed') /\ Precede(shown[i], Unread')
    <3>1. shown[i] \in Seq(Units)
      BY ShownType DEF Base
    <3>2. UpTo(shown[i], Flushed) /\ Precede(shown[i], Unread)
      BY DEF Ordered, UpTo
    <3>3. UpTo(shown[i], Flushed') /\ Precede(shown[i], wbuf)
      BY <2>6, <3>1, <3>2
    <3>4. QED BY <2>1, <2>5, <3>1, <3>2, <3>3, PrecedeConcat
  <2>11. QED BY <1>1, <2>8, <2>9, <2>10 DEF Ordered, UpTo
<1>7. QED BY <1>1, <1>5, <1>6 DEF Write

(* The window takes the first line off what is unread. *)
LEMMA GetsOrder ==
  ASSUME Base, Ordered, Base', NEW p \in Pids, Gets(p)
  PROVE  Ordered'
<1>1. Flushed' = Flushed
  BY GetsStep DEF Flushed, main
<1>2. PICK n \in Nat, line, rest \in Seq(Units) : LineTaken(p, n, line, rest)
  BY GetsStep
<1>3. /\ line \in Seq(Units) /\ Unread' \in Seq(Units) /\ line # <<>>
      /\ Unread = line \o Unread'
  <2>1. /\ line \in Seq(Units) /\ Unread' \in Seq(Units)
        /\ Unread = line \o Unread' /\ Len(line) = n /\ n \in 1..Len(rbuf[p])
    BY <1>2 DEF LineTaken
  <2>2. line # <<>>
    BY <2>1
  <2>3. QED BY <2>1, <2>2
<1>4. Sorted(line \o Unread') /\ UpTo(line \o Unread', Flushed)
  BY <1>3 DEF Ordered, UpTo
<1>5. /\ Sorted(Unread') /\ Precede(line, Unread')
      /\ UpTo(Unread', Flushed) /\ UpTo(line, Flushed)
  <2>1. Sorted(Unread') /\ Precede(line, Unread')
    BY <1>3, <1>4, SortedConcat
  <2>2. UpTo(Unread', Flushed) /\ UpTo(line, Flushed)
    BY <1>3, <1>4, UpToConcat
  <2>3. QED BY <2>1, <2>2
<1>6. ASSUME NEW i \in DOMAIN shown
      PROVE  Precede(shown[i], line) /\ Precede(shown[i], Unread')
  <2>1. shown[i] \in Seq(Units) /\ Precede(shown[i], line \o Unread')
    BY <1>3, ShownType DEF Ordered, Base
  <2>2. QED BY <1>3, <2>1, PrecedeConcat
<1>7. CASE shown' = shown
  BY <1>1, <1>5, <1>6, <1>7 DEF Ordered, UpTo
<1>8. CASE shown' = Append(shown, line)
  <2>1. shown \in Seq(Seq(Units)) /\ Len(shown) \in Nat
        /\ DOMAIN shown = 1..Len(shown)
    BY LenProperties DEF Base, TypeOK
  <2>2. /\ shown' \in Seq(Seq(Units)) /\ Len(shown') = Len(shown) + 1
        /\ shown'[Len(shown) + 1] = line
        /\ \A i \in 1..Len(shown) : shown'[i] = shown[i]
    BY <1>3, <1>8, <2>1, AppendProperties
  <2>3. DOMAIN shown' = 1..Len(shown')
    BY <2>2, LenProperties
  <2>4. ASSUME NEW i \in DOMAIN shown'
        PROVE  \/ i \in DOMAIN shown /\ shown'[i] = shown[i]
               \/ i = Len(shown) + 1 /\ shown'[i] = line
    <3>1. i \in 1..Len(shown) \/ i = Len(shown) + 1
      BY <2>1, <2>2, <2>3
    <3>2. QED BY <2>1, <2>2, <3>1
  <2>5. ASSUME NEW i \in DOMAIN shown'
        PROVE  /\ shown'[i] # <<>> /\ UpTo(shown'[i], Flushed)
               /\ Precede(shown'[i], Unread')
    BY <1>3, <1>5, <1>6, <2>4 DEF Ordered, UpTo
  <2>6. ASSUME NEW i \in DOMAIN shown', NEW j \in DOMAIN shown', i < j
        PROVE  Precede(shown'[i], shown'[j])
    <3>1. i \in DOMAIN shown /\ shown'[i] = shown[i]
      BY <2>1, <2>2, <2>3, <2>6
    <3>2. QED BY <1>6, <2>4, <2>6, <3>1 DEF Ordered
  <2>7. QED BY <1>1, <1>5, <2>5, <2>6 DEF Ordered, UpTo
<1>9. QED BY <1>2, <1>7, <1>8 DEF LineTaken

LEMMA NoCopiesBefore ==
  ASSUME Base, [Next]_vars, NoCopies' PROVE NoCopies
<1> SUFFICES ASSUME NEW q \in Pids PROVE copy[q] = <<>>
  BY DEF NoCopies
<1>1. copy'[q] = <<>>
  BY DEF NoCopies
<1>2. CASE copy' = copy
  BY <1>1, <1>2
<1>3. CASE \E p \in Pids : Reopen(p)
  <2>1. PICK p \in Pids : gui[p] = "none" /\ copy' = [copy EXCEPT ![p] = wbuf]
    BY <1>3 DEF Reopen
  <2>2. copy[p] = <<>>
    BY <2>1 DEF Base, OneReader
  <2>3. QED BY <1>1, <2>1, <2>2 DEF Base, TypeOK
<1>4. QED
  BY <1>2, <1>3
  DEF Next, Section, SetMessage, Printf, Flush, Window, Reader, Update, Fill,
      Gets, Return, ClickBackend, Report, Exit, vars

LEMMA OrderInit == Init => Ordered
<1> SUFFICES ASSUME Init PROVE Ordered
  OBVIOUS
<1>1. \A p \in Pids : rbuf[p] = <<>>
  BY DEF Init
<1>2. guiPid \in Pids \cup {0} /\ pipe = <<>> /\ shown = <<>>
  BY DEF Init
<1>3. Unread = <<>>
  BY <1>1, <1>2 DEF Unread
<1>4. QED BY <1>2, <1>3 DEF Ordered, Sorted

(* Every step but three moves nothing. *)
LEMMA StepKinds ==
  ASSUME Base, NoCopies, [Next]_vars
  PROVE  /\ Base'
         /\ \/ /\ UNCHANGED <<Unread, shown>> /\ Flushed <= Flushed'
               /\ \A p \in Pids : gui'[p] = "dead" => gui[p] = "dead"
            \/ \E t \in Threads : Flush(t)
            \/ \E p \in Pids : Gets(p)
<1>0. Flushed \in Int /\ Flushed <= Flushed
  BY FlushedType
<1>1. ASSUME NEW t \in Threads, SetMessage(t)
      PROVE  /\ Base' /\ UNCHANGED <<Unread, shown>> /\ Flushed <= Flushed'
             /\ \A p \in Pids : gui'[p] = "dead" => gui[p] = "dead"
  <2>1. inside = {} /\ inside' = {t} /\ sent' = sent + 1 /\ sent \in Int
    BY <1>1 DEF SetMessage, LockFree, Base, TypeOK
  <2>2. Flushed' = Flushed
    BY <2>1 DEF Flushed
  <2>3. QED BY <1>0, <1>1, <2>2, SetMessageBase DEF SetMessage, Unread
<1>2. ASSUME NEW t \in Threads, Printf(t)
      PROVE  /\ Base' /\ UNCHANGED <<Unread, shown>> /\ Flushed <= Flushed'
             /\ \A p \in Pids : gui'[p] = "dead" => gui[p] = "dead"
  BY <1>0, <1>2, PrintfBase DEF Printf, Unread, Flushed
<1>3. ASSUME NEW p \in Pids, Update(p) \/ Return(p) \/ ClickBackend(p)
             \/ Report(p) \/ Exit(p) \/ Fill(p) \/ Reopen(p)
      PROVE  /\ Base' /\ UNCHANGED <<Unread, shown>> /\ Flushed <= Flushed'
             /\ \A q \in Pids : gui'[q] = "dead" => gui[q] = "dead"
  <2>1. Base' /\ Unread' = Unread /\ shown' = shown
    BY <1>3, QuietStep, ReportStep, ExitStep, FillStep, ReopenStep, ReopenBase
    DEF NoCopies
  <2>2. UNCHANGED main
    BY <1>3 DEF Update, Return, ClickBackend, Report, Exit, Fill, Reopen
  <2>3. Flushed' = Flushed
    BY <2>2 DEF Flushed, main
  <2>4. \/ gui' = gui
        \/ \E state \in {"idle", "read", "close", "exit", "gone"} :
              gui' = [gui EXCEPT ![p] = state]
    BY <1>3 DEF Update, Return, ClickBackend, Report, Exit, Fill, Reopen, Becomes
  <2>5. \A q \in Pids : gui'[q] = "dead" => gui[q] = "dead"
    BY <2>4 DEF Base, TypeOK
  <2>6. QED BY <1>0, <2>1, <2>2, <2>3, <2>5
<1>4. ASSUME UNCHANGED vars
      PROVE  /\ Base' /\ UNCHANGED <<Unread, shown>> /\ Flushed <= Flushed'
             /\ \A p \in Pids : gui'[p] = "dead" => gui[p] = "dead"
  BY <1>0, <1>4
  DEF vars, main, Base, TypeOK, OneWriter, OneReader, Unread, Flushed
<1>5. ASSUME NEW t \in Threads, Flush(t) PROVE Base'
  BY <1>5, FlushBase
<1>6. ASSUME NEW p \in Pids, Gets(p) PROVE Base'
  BY <1>6, GetsStep
<1>7. QED
  BY <1>1, <1>2, <1>3, <1>4, <1>5, <1>6 DEF Next, Section, Window, Reader

LEMMA BaseNext == ASSUME Base, [Next]_vars PROVE Base'
<1>1. ASSUME NEW p \in Pids, Window(p) PROVE Base'
  BY <1>1, QuietStep, ReportStep, ExitStep, FillStep, GetsStep
  DEF Window, Reader
<1>2. ASSUME NEW t \in Threads, Section(t) PROVE Base'
  BY <1>2, SetMessageBase, PrintfBase, FlushBase DEF Section
<1>3. ASSUME UNCHANGED vars PROVE Base'
  BY <1>3 DEF vars, main, Base, TypeOK, OneWriter, OneReader
<1>4. QED BY <1>1, <1>2, <1>3, ReopenBase DEF Next

(* Types, one writer, one reader, and, unless a window was forked in the    *)
(* middle of a set_message, the order of everything that was sent.         *)
THEOREM SentInOrder == Spec => []InOrder
<1>1. Init => InOrder
  BY BaseInit, OrderInit DEF InOrder, Base
<1>2. InOrder /\ [Next]_vars => InOrder'
  <2> SUFFICES ASSUME InOrder, [Next]_vars PROVE InOrder'
    OBVIOUS
  <2>1. Base
    BY DEF InOrder, Base
  <2>2. Base'
    BY <2>1, BaseNext
  <2>3. ASSUME NoCopies' PROVE Ordered'
    <3>1. NoCopies /\ Ordered
      BY <2>1, <2>3, NoCopiesBefore DEF InOrder
    <3>2. QED
      BY <2>1, <2>2, <3>1, StepKinds, SameOrder, FlushOrder, GetsOrder
  <2>4. QED BY <2>2, <2>3 DEF InOrder, Base
<1>3. QED BY <1>1, <1>2, PTL DEF Spec

-----------------------------------------------------------------------------
(* Lines that are whole. *)
LEMMA FlushPairs ==
  ASSUME Base, Paired(Unread), NEW t \in Threads, Flush(t)
  PROVE  Paired(Unread)'
<1>1. /\ t \in inside /\ left[t] = <<>> /\ Write(wbuf)
      /\ UNCHANGED <<sent, guiPid, rbuf>>
  BY DEF Flush
<1>2. /\ wbuf \in Seq(Units) /\ pipe \in Seq(Units) /\ Unread \in Seq(Units)
      /\ sent \in 1..MaxMsgs
  BY <1>1, UnreadType, Writing DEF Base, TypeOK
<1>3. CASE pipe' = pipe
  BY <1>1, <1>3 DEF Unread
<1>4. CASE pipe' = pipe \o wbuf
  <2>1. wbuf \o left[t] = Message(sent)
    BY <1>1, Writing
  <2>2. wbuf = <<Unit(sent, "head"), Unit(sent, "text")>>
    BY <1>1, <1>2, <2>1, ConcatEmptySeq DEF Message
  <2>3. Unread' = Unread \o wbuf
    <3>1. CASE guiPid = 0
      BY <1>1, <1>4, <3>1 DEF Unread
    <3>2. CASE guiPid # 0
      <4>1. rbuf[guiPid] \in Seq(Units)
        BY <3>2 DEF Base, TypeOK
      <4>2. \A a, b, c \in Seq(Units) : (a \o b) \o c = a \o (b \o c)
        BY ConcatAssociative
      <4>3. (rbuf[guiPid] \o pipe) \o wbuf = rbuf[guiPid] \o (pipe \o wbuf)
        BY <1>2, <4>1, <4>2
      <4>4. QED BY <1>1, <1>4, <3>2, <4>3 DEF Unread
    <3>3. QED BY <3>1, <3>2
  <2> DEFINE u == Unread
             v == u \o wbuf
             m == Len(u)
  <2>4. /\ m \in Nat /\ Len(wbuf) = 2 /\ Len(v) = m + 2
        /\ \A k \in 1..m : v[k] = u[k]
        /\ v[m + 1] = Unit(sent, "head") /\ v[m + 2] = Unit(sent, "text")
    <3>1. m \in Nat /\ Len(wbuf) = 2 /\ Len(v) = m + Len(wbuf)
      BY <1>2, <2>2, ConcatProperties
    <3>2. \A k \in 1..m + 2 : v[k] = IF k <= m THEN u[k] ELSE wbuf[k - m]
      BY <1>2, <3>1, ConcatProperties
    <3>3. /\ m + 1 \in 1..m + 2 /\ ~(m + 1 <= m) /\ (m + 1) - m = 1
          /\ m + 2 \in 1..m + 2 /\ ~(m + 2 <= m) /\ (m + 2) - m = 2
          /\ \A k \in 1..m : k \in 1..m + 2 /\ k <= m
      BY <3>1
    <3>4. v[m + 1] = wbuf[1] /\ v[m + 2] = wbuf[2]
      BY <3>2, <3>3
    <3>5. QED BY <2>2, <3>1, <3>2, <3>3, <3>4
  <2>5. /\ DOMAIN u = 1..m /\ DOMAIN v = 1..m + 2
    BY <1>2, <2>4, LenProperties, ConcatProperties
  <2>6. \A k \in 1..m : IF u[k].kind = "head"
                          THEN k < m /\ u[k + 1] = Unit(u[k].msg, "text")
                          ELSE k > 1 /\ u[k - 1] = Unit(u[k].msg, "head")
    BY <2>5 DEF Paired
  <2> HIDE DEF m, u
  <2> HIDE DEF v
  <2>7. ASSUME NEW k \in 1..m + 2
        PROVE  IF v[k].kind = "head"
                 THEN k < m + 2 /\ v[k + 1] = Unit(v[k].msg, "text")
                 ELSE k > 1 /\ v[k - 1] = Unit(v[k].msg, "head")
    <3>1. CASE k \in 1..m /\ v[k].kind = "head"
      <4>1. k < m /\ u[k + 1] = Unit(u[k].msg, "text")
        BY <2>4, <2>6, <3>1
      <4>2. k + 1 \in 1..m /\ k < m + 2
        BY <2>4, <3>1, <4>1
      <4>3. QED BY <2>4, <3>1, <4>1, <4>2
    <3>2. CASE k \in 1..m /\ v[k].kind # "head"
      <4>1. k > 1 /\ u[k - 1] = Unit(u[k].msg, "head")
        BY <2>4, <2>6, <3>2
      <4>2. k - 1 \in 1..m
        BY <2>4, <3>2, <4>1
      <4>3. QED BY <2>4, <3>2, <4>1, <4>2
    <3>3. CASE k = m + 1
      <4>1. k < m + 2 /\ k + 1 = m + 2
        BY <2>4, <3>3
      <4>2. QED BY <2>4, <3>3, <4>1 DEF Unit
    <3>4. CASE k = m + 2
      <4>1. k > 1 /\ k - 1 = m + 1
        BY <2>4, <3>4
      <4>2. QED BY <2>4, <3>4, <4>1 DEF Unit
    <3>5. k \in 1..m \/ k = m + 1 \/ k = m + 2
      BY <2>4
    <3>6. QED BY <3>1, <3>2, <3>3, <3>4, <3>5
  <2>8. Unread' = v /\ Len(v) = m + 2
    BY <2>3, <2>4 DEF v, u
  <2>9. QED BY <2>5, <2>7, <2>8 DEF Paired
<1>5. QED BY <1>1, <1>3, <1>4 DEF Write

(* The first line of what is unread is a message, and is not cut. *)
LEMMA GetsPairs ==
  ASSUME Base, Paired(Unread), NEW p \in Pids, NEW n \in Nat, NEW line, NEW rest,
         LineTaken(p, n, line, rest)
  PROVE  Whole(line) /\ Paired(Unread')
<1> DEFINE s == Unread
           r == Unread'
<1>1. /\ line \in Seq(Units) /\ Len(line) = n /\ s = line \o r /\ n >= 1
      /\ r \in Seq(Units) /\ n \in Nat
  BY DEF LineTaken
<1>2. /\ Len(s) = n + Len(r) /\ Len(r) \in Nat /\ Len(s) \in Nat
      /\ \A k \in 1..n : s[k] = line[k]
      /\ \A k \in 1..Len(r) : s[n + k] = r[k]
  <2>1. Len(s) = n + Len(r) /\ Len(r) \in Nat /\ Len(s) \in Nat
    <3>1. Len(r) \in Nat /\ Len(line) = n /\ n \in Nat
      BY <1>1
    <3>2. Len(line \o r) = Len(line) + Len(r)
      BY <1>1, ConcatProperties
    <3>3. Len(s) = n + Len(r)
      BY <1>1, <3>1, <3>2
    <3>4. QED BY <3>1, <3>3
  <2>2. \A k \in 1..n + Len(r) : s[k] = IF k <= n THEN line[k] ELSE r[k - n]
    BY <1>1, ConcatProperties
  <2>3. \A k \in 1..n : s[k] = line[k]
    BY <1>1, <2>1, <2>2
  <2>4. ASSUME NEW k \in 1..Len(r) PROVE s[n + k] = r[k]
    <3>1. n + k \in 1..n + Len(r) /\ ~(n + k <= n) /\ (n + k) - n = k
      BY <1>1, <2>1
    <3>2. QED BY <2>2, <3>1
  <2>5. QED BY <2>1, <2>3, <2>4
<1>3. \A k \in 1..Len(s) : IF s[k].kind = "head"
                             THEN k < Len(s) /\ s[k + 1] = Unit(s[k].msg, "text")
                             ELSE k > 1 /\ s[k - 1] = Unit(s[k].msg, "head")
  BY <1>1, UnreadType, LenProperties DEF Paired, Base
<1>4. \/ r = <<>> /\ \A i \in 1..n : ~Ends(line[i])
      \/ Ends(line[n]) /\ \A i \in 1..n - 1 : ~Ends(line[i])
  BY DEF LineTaken
<1> HIDE DEF s, r
<1>5. /\ 1 \in 1..Len(s) /\ 1 \in 1..n
      /\ s[1].kind = "head" /\ 1 < Len(s) /\ s[2] = Unit(s[1].msg, "text")
  <2>1. 1 \in 1..Len(s) /\ 1 \in 1..n
    BY <1>1, <1>2
  <2>2. s[1].kind = "head" /\ 1 < Len(s) /\ s[1 + 1] = Unit(s[1].msg, "text")
    BY <1>3, <2>1
  <2>3. QED BY <2>1, <2>2
<1>6. n = 2
  <2>1. n # 1
    <3> SUFFICES ASSUME n = 1 PROVE FALSE
      OBVIOUS
    <3>1. ~Ends(line[1])
      BY <1>2, <1>5 DEF Ends
    <3>2. r = <<>>
      BY <1>4, <3>1
    <3>3. Len(s) = 1
      BY <1>2, <3>2
    <3>4. QED BY <1>5, <3>3
  <2>2. ASSUME n > 2 PROVE FALSE
    <3>1. 2 \in 1..n /\ 2 \in 1..n - 1
      BY <1>1, <2>2
    <3>2. line[2] = Unit(s[1].msg, "text")
      BY <1>2, <1>5, <3>1
    <3>3. Ends(line[2])
      BY <3>2 DEF Ends, Unit
    <3>4. QED BY <1>4, <3>1, <3>3
  <2>3. QED BY <1>1, <2>1, <2>2
<1>7. Whole(line)
  <2>1. line[1] = s[1] /\ line[2] = s[2]
    BY <1>2, <1>6
  <2>2. QED BY <1>1, <1>5, <1>6, <2>1, UnitType DEF Whole, Message
<1>8. ASSUME NEW k \in 1..Len(r)
      PROVE  IF r[k].kind = "head"
               THEN k < Len(r) /\ r[k + 1] = Unit(r[k].msg, "text")
               ELSE k > 1 /\ r[k - 1] = Unit(r[k].msg, "head")
  <2>1. s[2 + k] = r[k] /\ 2 + k \in 1..Len(s)
    BY <1>2, <1>6
  <2>2. CASE r[k].kind = "head"
    <3>1. 2 + k < Len(s) /\ s[(2 + k) + 1] = Unit(r[k].msg, "text")
      BY <1>3, <2>1, <2>2
    <3>2. k < Len(r) /\ k + 1 \in 1..Len(r) /\ (2 + k) + 1 = 2 + (k + 1)
      BY <1>2, <1>6, <3>1
    <3>3. s[2 + (k + 1)] = r[k + 1]
      BY <1>2, <1>6, <3>2
    <3>4. QED BY <2>2, <3>1, <3>2, <3>3
  <2>3. CASE r[k].kind # "head"
    <3>1. s[(2 + k) - 1] = Unit(r[k].msg, "head")
      BY <1>3, <2>1, <2>3
    <3>2. k # 1
      BY <1>5, <3>1 DEF Unit
    <3>3. k > 1 /\ k - 1 \in 1..Len(r) /\ (2 + k) - 1 = 2 + (k - 1)
      BY <1>2, <3>2
    <3>4. s[2 + (k - 1)] = r[k - 1]
      BY <1>2, <1>6, <3>3
    <3>5. QED BY <2>3, <3>1, <3>3, <3>4
  <2>4. QED BY <2>2, <2>3
<1>9. DOMAIN r = 1..Len(r)
  BY <1>1, LenProperties
<1>10. Paired(r)
  BY <1>8, <1>9 DEF Paired
<1>11. QED BY <1>7, <1>10 DEF r

(* Every line that a window shows is one message of one thread, and none    *)
(* ends the window, however threads, reads and windows interleave.         *)
THEOREM ShownWhole == Spec => []LinesWhole
<1>1. Init => LinesWhole
  <2> SUFFICES ASSUME Init PROVE LinesWhole
    OBVIOUS
  <2>1. shown = <<>> /\ pipe = <<>> /\ guiPid \in Pids \cup {0}
        /\ \A p \in Pids : rbuf[p] = <<>> /\ gui[p] # "dead"
    BY DEF Init
  <2>2. Unread = <<>>
    BY <2>1 DEF Unread
  <2>3. QED BY <2>1, <2>2 DEF LinesWhole, Paired
<1>2. InOrder /\ LinesWhole /\ [Next]_vars => LinesWhole'
  <2> SUFFICES ASSUME InOrder, LinesWhole, [Next]_vars, NoCopies'
               PROVE  /\ Paired(Unread)'
                      /\ \A i \in DOMAIN shown' : Whole(shown'[i])
                      /\ \A p \in Pids : gui'[p] # "dead"
    BY DEF LinesWhole
  <2>1. /\ Base /\ NoCopies /\ Paired(Unread)
        /\ \A i \in DOMAIN shown : Whole(shown[i])
        /\ \A p \in Pids : gui[p] # "dead"
    BY NoCopiesBefore DEF InOrder, Base, LinesWhole
  <2>2. CASE /\ UNCHANGED <<Unread, shown>>
             /\ \A p \in Pids : gui'[p] = "dead" => gui[p] = "dead"
    BY <2>1, <2>2 DEF Paired
  <2>3. ASSUME NEW t \in Threads, Flush(t)
        PROVE  /\ Paired(Unread)'
               /\ \A i \in DOMAIN shown' : Whole(shown'[i])
               /\ \A p \in Pids : gui'[p] # "dead"
    BY <2>1, <2>3, FlushPairs DEF Flush
  <2>4. ASSUME NEW q \in Pids, Gets(q)
        PROVE  /\ Paired(Unread)'
               /\ \A i \in DOMAIN shown' : Whole(shown'[i])
               /\ \A p \in Pids : gui'[p] # "dead"
    <3>1. PICK n \in Nat, line, rest \in Seq(Units) : LineTaken(q, n, line, rest)
      BY <2>1, <2>4, GetsStep
    <3>2. Whole(line) /\ Paired(Unread)'
      BY <2>1, <3>1, GetsPairs
    <3>3. shown' = Append(shown, line) /\ gui' = gui /\ line \in Seq(Units)
      BY <3>1, <3>2 DEF LineTaken
    <3>4. shown \in Seq(Seq(Units))
      BY <2>1 DEF Base, TypeOK
    <3>5. ASSUME NEW i \in DOMAIN shown' PROVE Whole(shown'[i])
      <4> DEFINE m == Len(shown)
      <4>1. /\ m \in Nat /\ DOMAIN shown = 1..m /\ DOMAIN shown' = 1..m + 1
            /\ shown'[m + 1] = line /\ \A k \in 1..m : shown'[k] = shown[k]
        BY <3>3, <3>4
      <4> HIDE DEF m
      <4>2. i \in 1..m \/ i = m + 1
        BY <4>1
      <4>3. QED BY <2>1, <3>2, <4>1, <4>2
    <3>6. QED BY <2>1, <3>2, <3>3, <3>5
  <2>5. QED BY <2>1, <2>2, <2>3, <2>4, StepKinds
<1>3. QED BY <1>1, <1>2, SentInOrder, PTL DEF Spec
=============================================================================
