--------------------------- MODULE GetFileProofs ----------------------------
(***************************************************************************)
(* Theorems about get_file for every set of versions and names, every size *)
(* of file and every number of faults.                                     *)
(***************************************************************************)
EXTENDS GetFileProps, SequenceTheorems, TLAPS

(* What write() at an offset within the file, or at its end, leaves there. *)
LEMMA PutSeq ==
  ASSUME NEW S, NEW s \in Seq(S), NEW i \in Nat, NEW b \in S
  PROVE  Put(s, i, b) \in Seq(S)
  BY DEF Put

LEMMA PutPrefix ==
  ASSUME NEW v \in Versions, NEW s \in Seq(Versions \X Nat), NEW i \in Nat,
         Starts(s, v), i <= Len(s), i < Size[v]
  PROVE  /\ Starts(Put(s, i, <<v, i + 1>>), v)
         /\ i + 1 <= Len(Put(s, i, <<v, i + 1>>))
         /\ Len(s) <= Len(Put(s, i, <<v, i + 1>>))
         /\ \A k \in 1..Len(s) : Put(s, i, <<v, i + 1>>)[k] = s[k]
<1> USE SizeAssumption
<1>1. CASE i < Len(s)
  BY <1>1 DEF Put, Starts
<1>2. CASE i = Len(s)
  BY <1>2 DEF Put, Starts
<1>3. i < Len(s) \/ i = Len(s)
  OBVIOUS
<1>4. QED BY <1>1, <1>2, <1>3

(* A step without a fault, or with one, keeps to the budget. *)
LEMMA FaultType ==
  ASSUME faults \in 0..MaxFaults, Fault \/ UNCHANGED faults
  PROVE  faults' \in 0..MaxFaults
  BY FaultsAssumption DEF Fault

(* Leaving the loop over ftab keeps the thread's types. *)
LEMMA BreakType ==
  ASSUME NEW s \in BOOLEAN, Break(s)
  PROVE  /\ pc' \in {"poll", "spin"} /\ alive' = s /\ todo' = {} /\ src' = NoFile
         /\ listed' \in [Names -> Nat] /\ rpos' \in Nat /\ off' \in Nat
  BY DEF Break, CloseFiles

LEMMA CommandFailsType ==
  ASSUME alive \in BOOLEAN, faults \in 0..MaxFaults, CommandFails
  PROVE  /\ \E s \in BOOLEAN : Break(s)
         /\ Fault \/ UNCHANGED faults
  BY DEF CommandFails

LEMMA RemoveRemoteType ==
  ASSUME remote \in [Names -> Entries], bak \in [Names -> Entries],
         NEW n \in Names, RemoveRemote(n)
  PROVE  remote' \in [Names -> Entries] /\ bak' \in [Names -> Entries]
  BY DEF RemoveRemote, Entries

-----------------------------------------------------------------------------
(* Type correctness. *)
LEMMA TypeInit == Init => TypeOK
<1> SUFFICES ASSUME Init PROVE TypeOK
  OBVIOUS
<1>1. faults \in 0..MaxFaults
  BY FaultsAssumption DEF Init
<1>2. tmp \in [Names -> Seq(Versions \X Nat)]
      /\ local \in [Names -> Seq(Versions \X Nat)]
  BY DEF Init
<1>3. QED BY <1>1, <1>2 DEF Init, TypeOK, Entries

(* A step that ends in Break, whatever else it does to server and disk. *)
LEMMA TypeAfterBreak ==
  ASSUME TypeOK, NEW s \in BOOLEAN, Break(s), Fault \/ UNCHANGED faults,
         remote' \in [Names -> Entries], bak' \in [Names -> Entries],
         late' \in [Names -> Nat], tmp' \in [Names -> Seq(Versions \X Nat)],
         UNCHANGED <<len, published, local, delivered>>
  PROVE  TypeOK'
<1>1. faults' \in 0..MaxFaults
  BY FaultType DEF TypeOK
<1>2. QED BY <1>1, BreakType DEF TypeOK, Entries

LEMMA TypeNext == TypeOK /\ [Next]_vars => TypeOK'
<1> SUFFICES ASSUME TypeOK, [Next]_vars PROVE TypeOK'
  OBVIOUS
<1>0. /\ pc \in {"xfer", "verify", "remove"} => Cur \in Names
      /\ Fault \/ UNCHANGED faults => faults' \in 0..MaxFaults
      /\ \A n \in Names : Len(tmp[n]) \in Nat
  BY NameOfAssumption, FaultType DEF TypeOK, Cur
<1>1. CASE Session \/ SessionFails \/ Spin
  BY <1>0, <1>1 DEF Session, SessionFails, Spin, TypeOK, Entries, server, disk, thread
<1>2. CASE Scan
  <2>1. todo' \subseteq Names
    BY <1>2 DEF Scan, Present
  <2>2. listed' \in [Names -> Nat]
    BY <1>2, <2>1 DEF Scan, Present, TypeOK, Entries
  <2>3. alive' \in BOOLEAN /\ faults' \in 0..MaxFaults
    BY <1>2, <1>0 DEF Scan, TypeOK
  <2>4. QED
    BY <1>2, <2>1, <2>2, <2>3 DEF Scan, TypeOK, Entries, server, disk
<1>3. CASE ScanFails
  BY <1>3, TypeAfterBreak DEF ScanFails, TypeOK, server, disk
<1>4. CASE EndPass
  BY <1>4, TypeAfterBreak DEF EndPass, TypeOK, server, disk
<1>5. ASSUME NEW n \in Names, Retr(n) PROVE TypeOK'
  <2>1. \A p \in ResumePoints(n) : p \in Nat
    BY <1>0 DEF ResumePoints
  <2>2. src' \in Versions /\ rpos' \in Nat /\ off' \in Nat
    BY <1>5, <2>1 DEF Retr, OpenTmp, AccessGranted, TypeOK, Entries
  <2>3. QED
    BY <1>5, <2>2 DEF Retr, OpenTmp, TypeOK, Entries, server, disk
<1>6. ASSUME NEW n \in Names, RetrFails(n) PROVE TypeOK'
  <2>1. (\E s \in BOOLEAN : Break(s)) /\ (Fault \/ UNCHANGED faults)
    BY <1>6, CommandFailsType DEF RetrFails, TypeOK
  <2>2. QED
    BY <1>6, <2>1, TypeAfterBreak DEF RetrFails, TypeOK, server, disk
<1>7. CASE ReadBlock
  <2>1. src \in Versions /\ Cur \in Names
    BY <1>7, <1>0 DEF ReadBlock, TypeOK
  <2>2. <<src, rpos + 1>> \in Versions \X Nat /\ tmp[Cur] \in Seq(Versions \X Nat)
    BY <2>1 DEF TypeOK
  <2>3. Put(tmp[Cur], off, <<src, rpos + 1>>) \in Seq(Versions \X Nat)
    BY <2>1, <2>2, PutSeq DEF TypeOK
  <2>4. tmp' \in [Names -> Seq(Versions \X Nat)]
    BY <1>7, <2>1, <2>3 DEF ReadBlock, TypeOK
  <2>5. rpos' \in Nat /\ off' \in Nat
    BY <1>7 DEF ReadBlock, TypeOK
  <2>6. QED
    BY <1>7, <2>4, <2>5 DEF ReadBlock, TypeOK, Entries, server
<1>8. CASE ShortWrite
  BY <1>8 DEF ShortWrite, TypeOK, Entries, server, disk
<1>9. CASE Eof
  <2>1. alive' \in BOOLEAN /\ faults' \in 0..MaxFaults
    BY <1>9, <1>0 DEF Eof, TypeOK
  <2>2. QED
    BY <1>9, <2>1 DEF Eof, TypeOK, Entries, server, disk
<1>10. CASE EarlyEof
  BY <1>10, <1>0 DEF EarlyEof, TypeOK, Entries, server, disk
<1>11. CASE ReadError
  BY <1>11, TypeAfterBreak DEF ReadError, TypeOK, server, disk
<1>12. CASE VerifyOk
  BY <1>12, <1>0 DEF VerifyOk, Install, TypeOK, Entries, server
<1>13. CASE VerifyFails
  <2>1. tmp' \in [Names -> Seq(Versions \X Nat)]
    BY <1>13, <1>0 DEF VerifyFails, Discard, TypeOK
  <2>2. alive \in BOOLEAN /\ Break(alive) /\ (Fault \/ UNCHANGED faults)
    BY <1>13 DEF VerifyFails, TypeOK
  <2>3. QED
    BY <1>13, <2>1, <2>2, TypeAfterBreak DEF VerifyFails, TypeOK, server
<1>14. CASE RemoveOk
  BY <1>14, <1>0, RemoveRemoteType
  DEF RemoveOk, CloseFiles, TypeOK, Entries, disk
<1>15. CASE RemoveReplyLost
  BY <1>15, <1>0, RemoveRemoteType, TypeAfterBreak
  DEF RemoveReplyLost, TypeOK, disk
<1>16. CASE RemoveLate
  <2>1. late' \in [Names -> Nat]
    BY <1>16, <1>0 DEF RemoveLate, TypeOK
  <2>2. QED
    BY <1>16, <2>1, TypeAfterBreak DEF RemoveLate, TypeOK, disk
<1>17. CASE RemoveFails
  <2>1. (\E s \in BOOLEAN : Break(s)) /\ (Fault \/ UNCHANGED faults)
    BY <1>17, CommandFailsType DEF RemoveFails, TypeOK
  <2>2. QED
    BY <1>17, <2>1, TypeAfterBreak DEF RemoveFails, TypeOK, server, disk
<1>18. ASSUME NEW n \in Names, LateRemove(n) PROVE TypeOK'
  <2>1. late' \in [Names -> Nat]
    BY <1>18 DEF LateRemove, TypeOK
  <2>2. remote' \in [Names -> Entries] /\ bak' \in [Names -> Entries]
    BY <1>18, RemoveRemoteType DEF LateRemove, TypeOK
  <2>3. QED
    BY <1>18, <2>1, <2>2 DEF LateRemove, TypeOK, Entries, disk, thread
<1>19. CASE Crash
  BY <1>19, TypeAfterBreak DEF Crash, TypeOK, server, disk
<1>20. ASSUME NEW v \in Versions, Publish(v) PROVE TypeOK'
  <2>1. len' \in [Versions -> Nat]
    <3>1. PICK k \in 0..Size[v] : len' = [len EXCEPT ![v] = k]
      <4>1. Size[v] \in 0..Size[v]
        BY SizeAssumption
      <4>2. (IF "grow" \in env THEN 0..Size[v] ELSE {Size[v]})
              \subseteq 0..Size[v]
        BY <4>1
      <4>3. QED BY <1>20, <4>2, Zenon DEF Publish
    <3>2. k \in Nat
      BY SizeAssumption
    <3>3. QED BY <3>1, <3>2 DEF TypeOK
  <2>2. remote' \in [Names -> Entries]
    BY <1>20, NameOfAssumption DEF Publish, TypeOK, Entries
  <2>3. QED
    BY <1>20, <2>1, <2>2 DEF Publish, TypeOK, Entries, disk, thread
<1>21. ASSUME NEW v \in Versions, Grow(v) PROVE TypeOK'
  <2>1. len' \in [Versions -> Nat]
    BY <1>21 DEF Grow, TypeOK
  <2>2. QED
    BY <1>21, <2>1 DEF Grow, TypeOK, Entries, disk, thread
<1>22. CASE UNCHANGED vars
  BY <1>22 DEF vars, server, disk, thread, TypeOK, Entries
<1>23. QED
  BY <1>1, <1>2, <1>3, <1>4, <1>5, <1>6, <1>7, <1>8, <1>9, <1>10, <1>11,
     <1>12, <1>13, <1>14, <1>15, <1>16, <1>17, <1>18, <1>19, <1>20, <1>21,
     <1>22 DEF Next, Thread, Surroundings

(* Every variable keeps its type. *)
THEOREM TypeCorrect == Spec => []TypeOK
<1>1. QED BY TypeInit, TypeNext, PTL DEF Spec

-----------------------------------------------------------------------------
(* The strengthened invariant is inductive where Orderly holds. *)
LEMMA StartsEmpty == ASSUME NEW v \in Versions PROVE Starts(<<>>, v)
  BY SizeAssumption DEF Starts

LEMMA StartsWhole ==
  ASSUME NEW v \in Versions, NEW s \in Seq(Versions \X Nat),
         Starts(s, v), Len(s) = Size[v], len[v] = Size[v]
  PROVE  s = Content(v)
<1>1. Content(v) \in Seq(Versions \X Nat) /\ Len(Content(v)) = Size[v]
  BY SizeAssumption DEF Content
<1>2. \A i \in 1..Len(s) : s[i] = Content(v)[i]
  BY DEF Starts, Content
<1>3. QED BY <1>1, <1>2, SeqEqual

(* The environment is what it is. *)
LEMMA UniqueStays == [Next]_vars => (UniqueNames' <=> UniqueNames)
  BY DEF Next, Thread, Surroundings, vars, UniqueNames

LEMMA OrderlyStays == [Next]_vars => (Orderly' <=> Orderly)
  BY DEF Next, Thread, Surroundings, vars, Orderly, UniqueNames

(* A name is published once, unless the environment says otherwise. *)
LEMMA NamesInit == Init => NamesInv
  BY DEF Init, NamesInv

LEMMA NamesNext == NamesInv /\ [Next]_vars => NamesInv'
<1> SUFFICES ASSUME NamesInv, [Next]_vars, UniqueNames'
             PROVE  \A v, w \in published' : NameOf[v] = NameOf[w] => v = w
  BY DEF NamesInv
<1>1. UniqueNames
  BY UniqueStays
<1>2. CASE UNCHANGED published
  BY <1>1, <1>2 DEF NamesInv
<1>3. ASSUME NEW x \in Versions, Publish(x)
      PROVE  \A v, w \in published' : NameOf[v] = NameOf[w] => v = w
  <2>1. published' = published \cup {x}
        /\ \A w \in published : NameOf[w] # NameOf[x]
    BY <1>1, <1>3 DEF Publish, UniqueNames
  <2>2. QED BY <1>1, <2>1 DEF NamesInv
<1>4. QED
  BY <1>2, <1>3
  DEF Next, Thread, Surroundings, Session, SessionFails, Spin, Scan, ScanFails, EndPass, Retr,
      RetrFails, ReadBlock, ShortWrite, Eof, EarlyEof, ReadError, VerifyOk,
      VerifyFails, RemoveOk, RemoveReplyLost, RemoveLate, RemoveFails,
      LateRemove, Crash, Grow, vars, server

LEMMA InvInit == Init => IInv
<1> SUFFICES ASSUME Init PROVE IInv
  OBVIOUS
<1>1. ServerInv
  BY DEF Init, ServerInv
<1>2. TmpInv /\ WholeFile
  BY DEF Init, TmpInv, WholeFile
<1>3. ListInv /\ XferInv /\ NoLoss
  BY DEF Init, ListInv, XferInv, NoLoss
<1>4. LateInv
  BY DEF Init, LateInv
<1>5. QED BY <1>1, <1>2, <1>3, <1>4, TypeInit DEF IInv

(* The parts about server and disk do not mention the thread. *)
LEMMA ServerDiskFrame ==
  ASSUME IInv, NamesInv, UniqueNames' <=> UniqueNames,
         UNCHANGED <<server, disk>>
  PROVE  ServerInv' /\ TmpInv' /\ LateInv' /\ NoLoss' /\ WholeFile'
<1> USE DEF IInv, server, disk
<1>1. ServerInv' /\ LateInv' /\ NoLoss'
  BY DEF ServerInv, LateInv, NoLoss
<1>2. TmpInv' /\ WholeFile'
  BY DEF TmpInv, WholeFile, Starts, Content
<1>3. QED BY <1>1, <1>2

(* Nothing is known, or claimed, of a thread that has left the loop. *)
LEMMA BreakFrame ==
  ASSUME NEW s, Break(s)
  PROVE  ListInv' /\ XferInv'
  BY DEF Break, ListInv, XferInv

LEMMA BreakStep ==
  ASSUME IInv, TypeOK', NamesInv, UniqueNames' <=> UniqueNames,
          NEW s, Break(s), UNCHANGED <<server, disk>>
  PROVE  IInv'
  BY ServerDiskFrame, BreakFrame DEF IInv

LEMMA SessionStep == ASSUME IInv, TypeOK', NamesInv, UniqueNames' <=> UniqueNames,
          Session \/ SessionFails \/ Spin PROVE IInv'
<1>1. ListInv' /\ XferInv'
  BY DEF Session, SessionFails, Spin, IInv, ListInv, XferInv, server, disk, thread
<1>2. QED BY <1>1, ServerDiskFrame DEF IInv, Session, SessionFails, Spin

LEMMA ScanStep == ASSUME IInv, TypeOK', NamesInv, UniqueNames' <=> UniqueNames,
          Scan PROVE IInv'
<1>1. todo' \subseteq Present
  BY DEF Scan
<1>2. ListInv'
  <2> SUFFICES ASSUME NEW n \in todo'
               PROVE  \E v \in published : /\ NameOf[v] = n
                                           /\ listed'[n] = Size[v]
                                           /\ remote[n] = v \/ UniqueNames
    BY DEF Scan, ListInv, server
  <2>1. n \in Names /\ remote[n] # NoFile
    BY <1>1 DEF Present
  <2>2. remote[n] \in published /\ NameOf[remote[n]] = n
    BY <2>1 DEF IInv, ServerInv
  <2>3. listed'[n] = len[remote[n]]
    BY <2>1 DEF Scan
  <2>4. QED BY <2>2, <2>3 DEF IInv, ServerInv
<1>3. XferInv'
  BY DEF Scan, XferInv
<1>4. QED BY <1>2, <1>3, ServerDiskFrame DEF IInv, Scan

LEMMA RetrStep == ASSUME IInv, TypeOK', NamesInv, UniqueNames' <=> UniqueNames,
          NEW n \in Names, Retr(n) PROVE IInv'
<1> DEFINE v == remote[n]
<1>1. v \in published /\ v \in Versions /\ NameOf[v] = n
  BY DEF Retr, AccessGranted, IInv, ServerInv, TypeOK
<1>2. /\ UNCHANGED <<server, disk, listed>>
      /\ src' = v /\ Cur' = n /\ todo' = todo \ {n} /\ pc' = "xfer"
  BY <1>1 DEF Retr, OpenTmp, Cur, server, disk
<1>3. ListInv'
  BY <1>2 DEF IInv, ListInv, server
<1>4. XferInv'
  <2>1. listed[n] = Size[v]
    <3>1. PICK w \in published : /\ NameOf[w] = n /\ listed[n] = Size[w]
                                 /\ remote[n] = w \/ UniqueNames
      BY DEF Retr, IInv, ListInv
    <3>2. w = v
      BY <1>1, <3>1 DEF NamesInv, IInv, TypeOK
    <3>3. QED BY <3>1, <3>2
  <2>2. Starts(tmp[n], v)
    <3>1. CASE tmp[n] = <<>>
      BY <3>1, <1>1, StartsEmpty
    <3>2. CASE tmp[n] # <<>>
      <4>1. PICK w \in published : /\ NameOf[w] = n /\ Starts(tmp[n], w)
                                   /\ remote[n] = w \/ UniqueNames
        BY <3>2 DEF IInv, TmpInv
      <4>2. w = v
        BY <1>1, <4>1 DEF NamesInv, IInv, TypeOK
      <4>3. QED BY <4>1, <4>2
    <3>3. QED BY <3>1, <3>2
  <2>3. off' = rpos' /\ rpos' <= Len(tmp[n])
    <3>1. Len(tmp[n]) \in Nat
      BY DEF IInv, TypeOK
    <3>2. \A p \in ResumePoints(n) : p <= Len(tmp[n])
      BY <3>1 DEF ResumePoints
    <3>3. QED BY <3>2 DEF Retr, OpenTmp
  <2>4. remote' = remote /\ tmp' = tmp /\ published' = published /\ listed' = listed
    BY <1>2 DEF server, disk
  <2>5. Starts(tmp'[n], v)
    BY <2>2, <2>4
  <2>6. QED BY <1>1, <1>2, <2>1, <2>3, <2>4, <2>5 DEF XferInv, Starts
<1>5. QED BY <1>2, <1>3, <1>4, ServerDiskFrame DEF IInv

LEMMA ReadBlockStep == ASSUME IInv, TypeOK', NamesInv, UniqueNames' <=> UniqueNames,
          ReadBlock PROVE IInv'
<1> DEFINE t == Put(tmp[Cur], off, <<src, rpos + 1>>)
<1>1. /\ src \in Versions /\ src \in published /\ Cur \in Names
      /\ off = rpos /\ rpos \in Nat /\ rpos <= Len(tmp[Cur])
      /\ Starts(tmp[Cur], src) /\ tmp[Cur] \in Seq(Versions \X Nat)
  BY NameOfAssumption DEF ReadBlock, IInv, TypeOK, XferInv, Cur
<1>2. rpos < Size[src]
  BY <1>1 DEF ReadBlock, IInv, ServerInv
<1>3. Starts(t, src) /\ rpos + 1 <= Len(t)
  BY <1>1, <1>2, PutPrefix
<1>4. /\ tmp' = [tmp EXCEPT ![Cur] = t] /\ rpos' = rpos + 1 /\ off' = off + 1
      /\ tmp'[Cur] = t /\ Cur' = Cur
      /\ UNCHANGED <<server, local, delivered, pc, todo, listed, src>>
  BY <1>1 DEF ReadBlock, IInv, TypeOK, Cur
<1>5. ServerInv' /\ LateInv' /\ NoLoss' /\ ListInv'
  BY <1>4 DEF IInv, ServerInv, LateInv, NoLoss, ListInv, server
<1>6. WholeFile'
  BY <1>4 DEF IInv, WholeFile, Content, server
<1>7. TmpInv'
  <2> SUFFICES ASSUME NEW n \in Names, tmp'[n] # <<>>
               PROVE  \E v \in published : /\ NameOf[v] = n
                                           /\ Starts(tmp'[n], v)
                                           /\ remote[n] = v \/ UniqueNames
    BY <1>4 DEF TmpInv, Starts, server
  <2>1. CASE n = Cur
    <3>1. remote[Cur] = src \/ UniqueNames
      BY DEF ReadBlock, IInv, XferInv
    <3>2. NameOf[src] = n /\ Starts(tmp'[n], src)
      BY <2>1, <1>3, <1>4 DEF Cur
    <3>3. QED BY <1>1, <2>1, <3>1, <3>2
  <2>2. CASE n # Cur
    <3>1. tmp'[n] = tmp[n]
      BY <2>2, <1>4 DEF IInv, TypeOK
    <3>2. QED BY <3>1 DEF IInv, TmpInv
  <2>3. QED BY <2>1, <2>2
<1>8. XferInv'
  <2>1. rpos' <= Len(tmp'[Cur]) /\ off' = rpos' /\ Starts(tmp'[Cur], src)
    BY <1>1, <1>3, <1>4
  <2>2. pc' = "xfer"
    BY <1>4 DEF ReadBlock
  <2>3. QED BY <1>4, <2>1, <2>2 DEF ReadBlock, IInv, XferInv, Starts, server
<1>9. QED BY <1>5, <1>6, <1>7, <1>8 DEF IInv

(* The transfer ends, in the code's view, and nothing is touched. *)
LEMMA EofStep == ASSUME IInv, TypeOK', NamesInv, UniqueNames' <=> UniqueNames,
          Eof \/ EarlyEof PROVE IInv'
<1>1. /\ UNCHANGED <<server, disk, todo, listed, src>>
      /\ pc = "xfer" /\ pc' = "verify"
  BY DEF Eof, EarlyEof
<1>2. ListInv'
  BY <1>1 DEF IInv, ListInv, server
<1>3. XferInv'
  BY <1>1 DEF IInv, XferInv, Starts, Cur, server, disk
<1>4. QED BY <1>1, <1>2, <1>3, ServerDiskFrame DEF IInv

LEMMA VerifyOkStep == ASSUME IInv, TypeOK', NamesInv, UniqueNames' <=> UniqueNames,
          VerifyOk PROVE IInv'
<1>1. /\ src \in Versions /\ src \in published /\ Cur \in Names
      /\ Starts(tmp[Cur], src) /\ tmp[Cur] \in Seq(Versions \X Nat)
      /\ listed[Cur] = Size[src] /\ len[src] = Size[src]
      /\ NameOf[src] = Cur
  BY NameOfAssumption DEF VerifyOk, IInv, TypeOK, XferInv, ServerInv, Cur
<1>2. tmp[Cur] = Content(src)
  BY <1>1, StartsWhole DEF VerifyOk, SizeMatches
<1>3. /\ delivered' = delivered \cup {src}
      /\ local' = [local EXCEPT ![Cur] = tmp[Cur]]
      /\ tmp' = [tmp EXCEPT ![Cur] = <<>>]
      /\ tmp'[Cur] = <<>>
      /\ Cur' = Cur /\ pc' = "remove"
      /\ UNCHANGED <<server, todo, listed, src>>
  BY <1>1, <1>2 DEF VerifyOk, Install, IInv, TypeOK, Cur
<1>4. ServerInv' /\ NoLoss' /\ ListInv' /\ LateInv'
  BY <1>1, <1>3 DEF IInv, ServerInv, NoLoss, ListInv, LateInv, server
<1>5. TmpInv'
  <2> SUFFICES ASSUME NEW n \in Names, tmp'[n] # <<>>
               PROVE  \E v \in published : /\ NameOf[v] = n
                                           /\ Starts(tmp'[n], v)
                                           /\ remote[n] = v \/ UniqueNames
    BY <1>3 DEF TmpInv, Starts, server
  <2>1. tmp'[n] = tmp[n]
    BY <1>3 DEF IInv, TypeOK
  <2>2. QED BY <2>1 DEF IInv, TmpInv
<1>6. WholeFile'
  <2> SUFFICES ASSUME NEW n \in Names, local'[n] # <<>>
               PROVE  \E v \in published : NameOf[v] = n /\ local'[n] = Content(v)
    BY <1>3 DEF WholeFile, Content, server
  <2>1. CASE n = Cur
    BY <2>1, <1>1, <1>2, <1>3 DEF IInv, TypeOK
  <2>2. CASE n # Cur
    BY <2>2, <1>3 DEF IInv, TypeOK, WholeFile
  <2>3. QED BY <2>1, <2>2
<1>7. XferInv'
  <2>1. Starts(tmp'[Cur], src)
    BY <1>1, <1>3, StartsEmpty
  <2>2. remote[Cur] = src \/ (UniqueNames /\ src \in delivered)
    BY DEF VerifyOk, IInv, XferInv
  <2>3. Cur \notin todo
    BY DEF VerifyOk, IInv, XferInv
  <2>4. QED BY <1>1, <1>3, <2>1, <2>2, <2>3 DEF XferInv, Starts, server
<1>8. QED BY <1>4, <1>5, <1>6, <1>7 DEF IInv

LEMMA VerifyFailsStep == ASSUME IInv, TypeOK', NamesInv, UniqueNames' <=> UniqueNames,
          VerifyFails PROVE IInv'
<1>1. /\ tmp' = [tmp EXCEPT ![Cur] = <<>>]
      /\ UNCHANGED <<server, local, delivered>>
      /\ Break(alive)
  BY DEF VerifyFails, Discard
<1>2. ListInv' /\ XferInv'
  BY <1>1, BreakFrame
<1>3. ServerInv' /\ NoLoss' /\ LateInv'
  BY <1>1 DEF IInv, ServerInv, NoLoss, LateInv, server
<1>4. WholeFile'
  BY <1>1 DEF IInv, WholeFile, Content, server
<1>5. TmpInv'
  <2> SUFFICES ASSUME NEW n \in Names, tmp'[n] # <<>>
               PROVE  \E v \in published : /\ NameOf[v] = n
                                           /\ Starts(tmp'[n], v)
                                           /\ remote[n] = v \/ UniqueNames
    BY <1>1 DEF TmpInv, Starts, server
  <2>1. tmp'[n] = tmp[n]
    BY <1>1 DEF IInv, TypeOK
  <2>2. QED BY <2>1 DEF IInv, TmpInv
<1>6. QED BY <1>2, <1>3, <1>4, <1>5 DEF IInv

-----------------------------------------------------------------------------
(* The server runs a removal of n, where all that n can hold is delivered. *)
LEMMA RemoveServer ==
  ASSUME IInv, NamesInv, UniqueNames' <=> UniqueNames,
         NEW n \in Names, RemoveRemote(n),
         UNCHANGED <<len, published, disk>>,
         remote[n] \in delivered,
         tmp[n] = <<>> \/ UniqueNames
  PROVE  ServerInv' /\ TmpInv' /\ NoLoss' /\ WholeFile'
<1>1. /\ remote' = [remote EXCEPT ![n] = NoFile]
      /\ UNCHANGED <<len, published, tmp, local, delivered>>
  BY DEF RemoveRemote, disk
<1>2. \A m \in Names : remote'[m] = IF m = n THEN NoFile ELSE remote[m]
  BY <1>1 DEF IInv, TypeOK
<1>3. ServerInv'
  BY <1>1, <1>2 DEF IInv, ServerInv
<1>4. NoLoss'
  <2> SUFFICES ASSUME NEW v \in published, v \notin delivered
               PROVE  remote'[NameOf[v]] = v
    BY <1>1 DEF NoLoss
  <2>1. v \in Versions /\ NameOf[v] \in Names
    BY NameOfAssumption DEF IInv, TypeOK
  <2>2. remote[NameOf[v]] = v
    BY DEF IInv, NoLoss
  <2>3. QED BY <2>1, <2>2, <1>2
<1>5. WholeFile'
  BY <1>1 DEF IInv, WholeFile, Content
<1>6. TmpInv'
  <2> SUFFICES ASSUME NEW m \in Names, tmp[m] # <<>>
               PROVE  \E v \in published : /\ NameOf[v] = m
                                           /\ Starts(tmp[m], v)
                                           /\ remote'[m] = v \/ UniqueNames
    BY <1>1 DEF TmpInv, Starts
  <2>1. PICK v \in published : /\ NameOf[v] = m
                               /\ Starts(tmp[m], v)
                               /\ remote[m] = v \/ UniqueNames
    BY DEF IInv, TmpInv
  <2>2. remote'[m] = v \/ UniqueNames
    BY <2>1, <1>2
  <2>3. QED BY <2>1, <2>2
<1>7. QED BY <1>3, <1>4, <1>5, <1>6

(* What the thread knows of the file it is about to remove. *)
LEMMA RemoveKnows ==
  ASSUME IInv, NamesInv, pc = "remove"
  PROVE  /\ Cur \in Names /\ NameOf[src] = Cur /\ src \in Versions
         /\ src \in delivered /\ tmp[Cur] = <<>>
         /\ remote[Cur] # NoFile => remote[Cur] = src
<1>1. /\ Cur \in Names /\ NameOf[src] = Cur /\ src \in Versions
      /\ src \in published /\ src \in delivered /\ tmp[Cur] = <<>>
  BY NameOfAssumption DEF IInv, TypeOK, XferInv, Cur
<1>2. ASSUME remote[Cur] # NoFile, UniqueNames PROVE remote[Cur] = src
  <2>1. remote[Cur] \in published /\ NameOf[remote[Cur]] = Cur
    BY <1>1, <1>2 DEF IInv, ServerInv
  <2>2. QED BY <1>1, <1>2, <2>1 DEF NamesInv
<1>3. QED BY <1>1, <1>2 DEF IInv, XferInv

LEMMA RemoveOkStep == ASSUME IInv, TypeOK', NamesInv, UniqueNames' <=> UniqueNames,
          RemoveOk PROVE IInv'
<1>1. /\ RemoveRemote(Cur) /\ UNCHANGED <<len, published, late, disk>>
      /\ Cur \in Names /\ remote[Cur] \in delivered /\ tmp[Cur] = <<>>
      /\ UNCHANGED <<todo, listed>> /\ pc' = "loop"
  BY RemoveKnows DEF RemoveOk
<1>2. ServerInv' /\ TmpInv' /\ NoLoss' /\ WholeFile'
  BY <1>1, RemoveServer
<1>3. LateInv'
  BY <1>1 DEF IInv, LateInv, disk
<1>4. XferInv'
  BY <1>1 DEF XferInv
<1>5. ListInv'
  <2>1. Cur \notin todo
    BY DEF RemoveOk, IInv, XferInv
  <2>2. \A n \in todo : remote'[n] = remote[n]
    BY <1>1, <2>1 DEF RemoveRemote, IInv, TypeOK
  <2>3. QED BY <1>1, <2>2 DEF IInv, ListInv
<1>6. QED BY <1>2, <1>3, <1>4, <1>5 DEF IInv

LEMMA RemoveReplyLostStep ==
  ASSUME IInv, TypeOK', NamesInv, UniqueNames' <=> UniqueNames,
          RemoveReplyLost PROVE IInv'
<1>1. /\ RemoveRemote(Cur) /\ UNCHANGED <<len, published, late, disk>>
      /\ Cur \in Names /\ remote[Cur] \in delivered /\ tmp[Cur] = <<>>
      /\ Break(FALSE)
  BY RemoveKnows DEF RemoveReplyLost
<1>2. ServerInv' /\ TmpInv' /\ NoLoss' /\ WholeFile'
  BY <1>1, RemoveServer
<1>3. LateInv'
  BY <1>1 DEF IInv, LateInv, disk
<1>4. ListInv' /\ XferInv'
  BY <1>1, BreakFrame
<1>5. QED BY <1>2, <1>3, <1>4 DEF IInv

LEMMA RemoveLateStep ==
  ASSUME Orderly, IInv, TypeOK', NamesInv, UniqueNames' <=> UniqueNames,
          RemoveLate PROVE IInv'
<1>1. /\ late' = [late EXCEPT ![Cur] = @ + 1] /\ Break(FALSE)
      /\ UNCHANGED <<remote, bak, len, published, tmp, local, delivered>>
      /\ Cur \in Names /\ NameOf[src] = Cur /\ src \in delivered
  BY RemoveKnows DEF RemoveLate, disk
<1>2. ServerInv' /\ NoLoss'
  BY <1>1 DEF IInv, ServerInv, NoLoss
<1>3. TmpInv' /\ WholeFile'
  BY <1>1 DEF IInv, TmpInv, WholeFile, Starts, Content
<1>4. LateInv'
  <2> SUFFICES ASSUME NEW n \in Names, late'[n] > 0
               PROVE  UniqueNames /\ \E v \in delivered : NameOf[v] = n
    BY <1>1 DEF LateInv
  <2>1. CASE n = Cur
    BY <2>1, <1>1 DEF Orderly, RemoveLate
  <2>2. CASE n # Cur
    <3>1. late'[n] = late[n]
      BY <2>2, <1>1 DEF IInv, TypeOK
    <3>2. QED BY <3>1 DEF IInv, LateInv
  <2>3. QED BY <2>1, <2>2
<1>5. ListInv' /\ XferInv'
  BY <1>1, BreakFrame
<1>6. QED BY <1>2, <1>3, <1>4, <1>5 DEF IInv

LEMMA LateRemoveStep ==
  ASSUME IInv, TypeOK', NamesInv, UniqueNames' <=> UniqueNames,
          NEW n \in Names, LateRemove(n) PROVE IInv'
<1>1. /\ late' = [late EXCEPT ![n] = @ - 1] /\ late[n] > 0
      /\ UNCHANGED <<len, published, disk, pc, todo, listed, src, rpos, off>>
  BY DEF LateRemove, thread
<1>2. UniqueNames
  BY <1>1 DEF IInv, LateInv
<1>3. PICK d \in delivered : NameOf[d] = n
  BY <1>1 DEF IInv, LateInv
<1>4. \A v \in published : NameOf[v] = n => v = d
  BY <1>2, <1>3 DEF NamesInv, IInv, ServerInv
<1>5. \A m \in Names : m # n => remote'[m] = remote[m]
  BY DEF LateRemove, RemoveRemote, IInv, TypeOK
<1>6. ServerInv' /\ TmpInv' /\ NoLoss' /\ WholeFile'
  <2>1. CASE remote[n] = NoFile
    <3>1. UNCHANGED <<remote, len, published, tmp, local, delivered>>
      BY <2>1 DEF LateRemove, disk
    <3>2. ServerInv' /\ NoLoss'
      BY <3>1 DEF IInv, ServerInv, NoLoss
    <3>3. QED BY <3>1, <3>2 DEF IInv, TmpInv, WholeFile, Starts, Content
  <2>2. CASE remote[n] # NoFile
    <3>1. remote[n] \in delivered
      BY <2>2, <1>3, <1>4 DEF IInv, TypeOK, ServerInv
    <3>2. RemoveRemote(n)
      BY <2>2 DEF LateRemove
    <3>3. QED BY <1>1, <1>2, <3>1, <3>2, RemoveServer
  <2>3. QED BY <2>1, <2>2
<1>7. LateInv'
  <2> SUFFICES ASSUME NEW m \in Names, late'[m] > 0
               PROVE  late[m] > 0
    BY <1>1 DEF LateInv, IInv, disk
  <2>1. QED BY <1>1 DEF IInv, TypeOK
<1>8. ListInv'
  BY <1>1, <1>2 DEF IInv, ListInv
<1>9. XferInv'
  <2> SUFFICES ASSUME pc \in {"xfer", "verify", "remove"}
               PROVE  remote'[Cur] = src \/ (UniqueNames /\ src \in delivered)
    BY <1>1 DEF XferInv, IInv, Starts, Cur, disk
  <2>1. /\ src \in Versions /\ Cur \in Names /\ NameOf[src] = Cur
        /\ src \in published
    BY NameOfAssumption DEF IInv, TypeOK, XferInv, Cur
  <2>2. CASE Cur = n
    BY <1>2, <1>3, <1>4, <2>1, <2>2
  <2>3. CASE Cur # n
    BY <1>5, <2>1, <2>3 DEF IInv, XferInv
  <2>4. QED BY <2>2, <2>3
<1>10. QED BY <1>6, <1>7, <1>8, <1>9 DEF IInv

LEMMA PublishStep ==
  ASSUME Orderly, IInv, TypeOK', NamesInv, UniqueNames' <=> UniqueNames,
          NEW v \in Versions, Publish(v) PROVE IInv'
<1> DEFINE m == NameOf[v]
<1>1. /\ v \notin published /\ remote[m] = NoFile /\ m \in Names
      /\ published' = published \cup {v}
      /\ remote' = [remote EXCEPT ![m] = v]
      /\ UNCHANGED <<late, disk, thread>>
  BY NameOfAssumption DEF Publish, Orderly
<1>2. len' = [len EXCEPT ![v] = Size[v]]
  BY DEF Publish, Orderly
<1>3. /\ remote'[m] = v /\ \A n \in Names : n # m => remote'[n] = remote[n]
      /\ \A w \in published : len'[w] = len[w]
      /\ len'[v] = Size[v]
      /\ \A w \in published : w \in Versions /\ w # v /\ w # NoFile
  BY <1>1, <1>2, NoFileAssumption DEF IInv, TypeOK
<1>4. ServerInv'
  BY <1>1, <1>3 DEF IInv, ServerInv, disk
\* what stood under the name of v: nothing, so nothing is known of it
<1>5. \A w \in published, n \in Names :
        remote[n] = w \/ UniqueNames => remote'[n] = w \/ UniqueNames
  BY <1>1, <1>3
<1>6. TmpInv'
  BY <1>1, <1>5 DEF IInv, TmpInv, Starts, disk
<1>7. ListInv'
  <2>1. todo \subseteq Names
    BY DEF IInv, TypeOK
  <2>2. QED BY <1>1, <1>5, <2>1 DEF IInv, ListInv, thread
<1>8. XferInv'
  <2> SUFFICES ASSUME pc \in {"xfer", "verify", "remove"}
               PROVE  remote'[Cur] = src \/ (UniqueNames /\ src \in delivered)
    BY <1>1 DEF XferInv, IInv, Starts, Cur, disk, thread
  <2>1. Cur \in Names /\ src \in published
    BY NameOfAssumption DEF IInv, TypeOK, XferInv, Cur
  <2>2. QED BY <1>1, <1>3, <2>1 DEF IInv, XferInv
<1>9. LateInv'
  BY <1>1 DEF IInv, LateInv, disk
<1>10. NoLoss'
  <2> SUFFICES ASSUME NEW w \in published, w \notin delivered
               PROVE  remote'[NameOf[w]] = w
    BY <1>1, <1>3 DEF NoLoss, disk
  <2>1. remote[NameOf[w]] = w /\ NameOf[w] \in Names
    BY NameOfAssumption, <1>3 DEF IInv, NoLoss
  <2>2. QED BY <2>1, <1>1, <1>3
<1>11. WholeFile'
  <2>1. \A w \in published : [i \in 1..len'[w] |-> <<w, i>>] = Content(w)
    BY <1>3 DEF Content
  <2> SUFFICES ASSUME NEW n \in Names, local[n] # <<>>
               PROVE  \E w \in published \cup {v} :
                        /\ NameOf[w] = n
                        /\ local[n] = [i \in 1..len'[w] |-> <<w, i>>]
    BY <1>1 DEF WholeFile, Content, disk
  <2>2. PICK w \in published : NameOf[w] = n /\ local[n] = Content(w)
    BY DEF IInv, WholeFile
  <2>3. QED BY <2>1, <2>2
<1>12. QED BY <1>4, <1>6, <1>7, <1>8, <1>9, <1>10, <1>11 DEF IInv

LEMMA InvNext ==
  ASSUME Orderly, IInv, NamesInv, [Next]_vars PROVE IInv'
<1>0. TypeOK' /\ (UniqueNames' <=> UniqueNames)
  BY TypeNext, UniqueStays DEF IInv
<1>1. CASE Session \/ SessionFails \/ Spin
  BY <1>0, <1>1, SessionStep
<1>2. CASE Scan
  BY <1>0, <1>2, ScanStep
<1>3. CASE ScanFails \/ EndPass \/ ReadError \/ Crash
  BY <1>0, <1>3, BreakStep DEF ScanFails, EndPass, ReadError, Crash
<1>4. ASSUME NEW n \in Names, Retr(n) PROVE IInv'
  BY <1>0, <1>4, RetrStep
<1>5. ASSUME NEW n \in Names, RetrFails(n) PROVE IInv'
  BY <1>0, <1>5, BreakStep DEF RetrFails, CommandFails
<1>6. CASE ReadBlock \/ Eof \/ EarlyEof
  BY <1>0, <1>6, ReadBlockStep, EofStep
<1>7. CASE ShortWrite
  BY <1>7 DEF ShortWrite, Orderly
<1>8. CASE VerifyOk \/ VerifyFails
  BY <1>0, <1>8, VerifyOkStep, VerifyFailsStep
<1>9. CASE RemoveOk \/ RemoveReplyLost \/ RemoveLate
  BY <1>0, <1>9, RemoveOkStep, RemoveReplyLostStep, RemoveLateStep
<1>10. CASE RemoveFails
  BY <1>0, <1>10, BreakStep DEF RemoveFails, CommandFails
<1>11. ASSUME NEW n \in Names, LateRemove(n) PROVE IInv'
  BY <1>0, <1>11, LateRemoveStep
<1>12. ASSUME NEW v \in Versions, Publish(v) PROVE IInv'
  BY <1>0, <1>12, PublishStep
<1>13. ASSUME NEW v \in Versions, Grow(v) PROVE IInv'
  <2>1. NameOf[v] \in Names /\ v # NoFile
    BY NameOfAssumption, NoFileAssumption
  <2>2. v \in published
    BY <1>13, <2>1 DEF Grow, IInv, ServerInv
  <2>3. len[v] = Size[v] /\ Size[v] \in Nat
    BY <2>2, SizeAssumption DEF IInv, ServerInv
  <2>4. FALSE
    BY <1>13, <2>3 DEF Grow
  <2>5. QED BY <2>4
<1>14. CASE UNCHANGED vars
  <2>1. UNCHANGED <<server, disk, thread>>
    BY <1>14 DEF vars
  <2>2. ListInv' /\ XferInv'
    BY <1>0, <2>1 DEF IInv, ListInv, XferInv, Starts, Cur, server, disk, thread
  <2>3. QED BY <1>0, <2>1, <2>2, ServerDiskFrame DEF IInv
<1>15. QED
  BY <1>1, <1>2, <1>3, <1>4, <1>5, <1>6, <1>7, <1>8, <1>9, <1>10, <1>11,
     <1>12, <1>13, <1>14 DEF Next, Thread, Surroundings

THEOREM Inductive == Spec => []Agreement
<1>1. Init => Agreement
  BY InvInit, NamesInit DEF Agreement
<1>2. Agreement /\ [Next]_vars => Agreement'
  BY InvNext, NamesNext, OrderlyStays DEF Agreement
<1>3. QED BY <1>1, <1>2, PTL DEF Spec

(* No file is taken from the server before its whole content was delivered: *)
(* with any number of faults and of crashes, and with removals that run     *)
(* late where names are not used again.                                     *)
THEOREM NeverLost == Spec => []NothingLost
<1>1. Agreement => NothingLost
  BY DEF Agreement, NothingLost, IInv
<1>2. QED BY Inductive, <1>1, PTL

(* What is in localDir under a name is the whole of one version of it. *)
THEOREM LocalFilesWhole == Spec => []OnlyWhole
<1>1. Agreement => OnlyWhole
  BY DEF Agreement, OnlyWhole, IInv
<1>2. QED BY Inductive, <1>1, PTL

-----------------------------------------------------------------------------
(* Blocks on disk are never changed by a resumed transfer. *)
LEMMA TmpStep ==
  ASSUME IInv, [Next]_vars, NEW n \in Names, ~(pc = "verify" /\ n = Cur)
  PROVE  /\ Len(tmp[n]) <= Len(tmp'[n])
         /\ \A i \in 1..Len(tmp[n]) : tmp'[n][i] = tmp[n][i]
<1>0. Len(tmp[n]) \in Nat
  BY DEF IInv, TypeOK
<1>1. CASE tmp'[n] = tmp[n]
  BY <1>0, <1>1
<1>2. CASE ReadBlock /\ n = Cur
  <2>1. /\ src \in Versions /\ src \in published
        /\ off = rpos /\ rpos \in Nat /\ rpos <= Len(tmp[Cur])
        /\ Starts(tmp[Cur], src) /\ tmp[Cur] \in Seq(Versions \X Nat)
    BY <1>2 DEF ReadBlock, IInv, TypeOK, XferInv
  <2>2. rpos < Size[src]
    BY <1>2, <2>1 DEF ReadBlock, IInv, ServerInv
  <2>3. tmp'[n] = Put(tmp[Cur], rpos, <<src, rpos + 1>>)
    BY <1>2, <2>1 DEF ReadBlock, IInv, TypeOK
  <2>4. QED BY <1>2, <2>1, <2>2, <2>3, PutPrefix
<1>3. CASE ReadBlock /\ n # Cur
  <2>1. tmp'[n] = tmp[n]
    BY <1>3 DEF ReadBlock, IInv, TypeOK
  <2>2. QED BY <1>1, <2>1
<1>4. CASE VerifyOk \/ VerifyFails
  <2>1. tmp'[n] = tmp[n]
    BY <1>4 DEF VerifyOk, Install, VerifyFails, Discard, IInv, TypeOK
  <2>2. QED BY <1>1, <2>1
<1>5. CASE \E m \in Names : Retr(m)
  <2>1. tmp' = tmp
    BY <1>5 DEF Retr, OpenTmp
  <2>2. QED BY <1>1, <2>1
<1>6. CASE UNCHANGED disk
  BY <1>1, <1>6 DEF disk
<1>7. QED
  BY <1>2, <1>3, <1>4, <1>5, <1>6
  DEF Next, Thread, Surroundings, Session, SessionFails, Spin, Scan, ScanFails, EndPass, RetrFails,
      ShortWrite,
      Eof, EarlyEof, ReadError, RemoveOk, RemoveReplyLost, RemoveLate,
      RemoveFails, LateRemove, Crash, Publish, Grow, vars

(* A transfer that resumes, at whatever offset the server agrees to, leaves *)
(* the blocks that an earlier transfer stored as they were.                 *)
THEOREM ResumeKeepsBlocks == Spec => TmpOnlyGrows
<1>1. Agreement /\ [Next]_vars =>
        [Orderly =>
           \A n \in Names :
             \/ pc = "verify" /\ n = Cur
             \/ /\ Len(tmp[n]) <= Len(tmp'[n])
                /\ \A i \in 1..Len(tmp[n]) : tmp'[n][i] = tmp[n][i]]_vars
  BY TmpStep DEF Agreement
<1>2. QED BY Inductive, <1>1, PTL DEF Spec, TmpOnlyGrows

-----------------------------------------------------------------------------
(* Every step of get_file, its server and its producers is a step of the *)
(* abstract delivery, or changes nothing there.                          *)
LEMMA RefineInit == Init => Promise!Init
  BY DEF Init, Waiting, Promise!Init

(* Where nothing is promised, nothing happens. *)
LEMMA RefineIdle ==
  ASSUME ~Orderly, [Next]_vars PROVE UNCHANGED Promise!vars
  BY OrderlyStays DEF Promise!vars

(* Removing from the server what was delivered is retiring it. *)
LEMMA RefineRemove ==
  ASSUME Orderly, Orderly', IInv,
         NEW n \in Names, remote[n] \in delivered, RemoveRemote(n),
         UNCHANGED <<published, delivered>>
  PROVE  Promise!Next
<1>1. PICK v \in Versions : /\ v = remote[n] /\ v \in published
                            /\ NameOf[v] = n /\ v # NoFile
  BY NoFileAssumption DEF IInv, TypeOK, ServerInv
<1>2. \A m \in Names : remote'[m] = IF m = n THEN NoFile ELSE remote[m]
  BY DEF RemoveRemote, IInv, TypeOK
<1>3. Waiting' = Waiting \ {v}
  <2>1. \A w \in published : NameOf[w] \in Names /\ w # NoFile
    BY NameOfAssumption, NoFileAssumption DEF IInv, TypeOK
  <2>2. QED BY <1>1, <1>2, <2>1 DEF Waiting
<1>4. v \in Waiting
  BY <1>1 DEF Waiting
<1>5. Promise!Retire(v)
  BY <1>1, <1>3, <1>4 DEF Promise!Retire
<1>6. QED BY <1>1, <1>5 DEF Promise!Next

LEMMA RefineNext ==
  ASSUME Orderly, Orderly', IInv, NamesInv, [Next]_vars
  PROVE  [Promise!Next]_(Promise!vars)
<1>1. CASE UNCHANGED <<remote, published, delivered>>
  BY <1>1 DEF Promise!vars, Waiting
<1>2. CASE VerifyOk
  <2>1. /\ delivered' \in {delivered, delivered \cup {src}}
        /\ UNCHANGED <<remote, published>>
    BY <1>2 DEF VerifyOk, Install, server
  <2>2. src \in published /\ src \in Versions
        /\ (remote[Cur] = src \/ src \in delivered)
    BY <1>2 DEF VerifyOk, IInv, TypeOK, XferInv
  <2>3. CASE src \in delivered
    BY <2>1, <2>3 DEF Promise!vars, Waiting
  <2>4. CASE src \notin delivered
    <3>1. CASE delivered' = delivered
      BY <2>1, <3>1 DEF Promise!vars, Waiting
    <3>2. CASE delivered' = delivered \cup {src}
      <4>1. Promise!Deliver(src)
        BY <2>1, <2>2, <2>4, <3>2 DEF Promise!Deliver, Waiting, Cur
      <4>2. QED BY <2>2, <4>1 DEF Promise!Next
    <3>3. QED BY <2>1, <3>1, <3>2
  <2>5. QED BY <2>3, <2>4
<1>3. CASE RemoveOk \/ RemoveReplyLost
  <2>1. /\ Cur \in Names /\ remote[Cur] \in delivered /\ RemoveRemote(Cur)
        /\ UNCHANGED <<published, delivered>>
    BY <1>3, RemoveKnows DEF RemoveOk, RemoveReplyLost, disk
  <2>2. QED BY <2>1, RefineRemove
<1>4. ASSUME NEW n \in Names, LateRemove(n)
      PROVE  [Promise!Next]_(Promise!vars)
  <2>1. CASE remote[n] = NoFile
    BY <1>4, <1>1, <2>1 DEF LateRemove, disk
  <2>2. CASE remote[n] # NoFile
    <3>1. UniqueNames /\ \E d \in delivered : NameOf[d] = n
      BY <1>4 DEF LateRemove, IInv, LateInv
    <3>2. remote[n] \in delivered
      BY <2>2, <3>1 DEF NamesInv, IInv, TypeOK, ServerInv
    <3>3. RemoveRemote(n) /\ UNCHANGED <<published, delivered>>
      BY <1>4, <2>2 DEF LateRemove, disk
    <3>4. QED BY <3>2, <3>3, RefineRemove
  <2>3. QED BY <2>1, <2>2
<1>5. ASSUME NEW v \in Versions, Publish(v)
      PROVE  [Promise!Next]_(Promise!vars)
  <2>1. /\ v \notin published /\ remote[NameOf[v]] = NoFile
        /\ NameOf[v] \in Names
        /\ published' = published \cup {v}
        /\ remote' = [remote EXCEPT ![NameOf[v]] = v]
        /\ delivered' = delivered
    BY <1>5, NameOfAssumption DEF Publish, Orderly, disk
  <2>2. Waiting' = Waiting \cup {v}
    <3>1. \A w \in published : NameOf[w] \in Names /\ w # NoFile
      BY NameOfAssumption, NoFileAssumption DEF IInv, TypeOK
    <3>2. QED BY <2>1, <3>1 DEF Waiting, IInv, TypeOK
  <2>3. Promise!Offer(v)
    BY <2>1, <2>2 DEF Promise!Offer
  <2>4. QED BY <2>3 DEF Promise!Next
<1>6. QED
  BY <1>1, <1>2, <1>3, <1>4, <1>5
  DEF Next, Thread, Surroundings, Session, SessionFails, Spin, Scan, ScanFails, EndPass, Retr,
      RetrFails,
      ReadBlock, ShortWrite, Eof, EarlyEof, ReadError, VerifyFails,
      RemoveLate, RemoveFails, Crash, Grow, vars, server, disk, thread

(* In an orderly environment get_file keeps the promise of Delivery. *)
THEOREM Refinement == Spec => Implements
<1>1. Agreement /\ [Next]_vars => [Promise!Next]_(Promise!vars)
  BY RefineNext, RefineIdle, OrderlyStays DEF Agreement
<1>2. QED
  BY RefineInit, Inductive, <1>1, PTL DEF Spec, Implements, Promise!Spec

-----------------------------------------------------------------------------
(***************************************************************************)
(* get_file where its environment is not orderly: files that grow or are   *)
(* replaced, writes that fall short, names that are used again.            *)
(***************************************************************************)

LEMMA EnvStays == [Next]_vars => env' = env
  BY DEF Next, Thread, Surroundings, vars

(* A step without a fault does not break a session that lives. *)
LEMMA CommandFailsDead ==
  ASSUME CommandFails, "fault" \notin env PROVE ~alive
  BY DEF CommandFails, Fault

(* What a removal does to the two directories of the server. *)
LEMMA RemoveRemoteEntries ==
  ASSUME TypeOK, NEW n \in Names, RemoveRemote(n)
  PROVE  \A m \in Names :
           /\ remote'[m] = IF m = n THEN NoFile ELSE remote[m]
           /\ bak'[m] = IF m = n /\ "backup" \in env THEN remote[n] ELSE bak[m]
  BY DEF RemoveRemote, TypeOK

(* A producer changes the entry of one name. *)
LEMMA PublishEntries ==
  ASSUME TypeOK, NEW v \in Versions, Publish(v)
  PROVE  /\ NameOf[v] \in Names /\ v # NoFile /\ v \notin published
         /\ published' = published \cup {v}
         /\ \A m \in Names : remote'[m] = IF m = NameOf[v] THEN v ELSE remote[m]
         /\ UNCHANGED <<bak, late, disk, thread, faults>>
         /\ remote[NameOf[v]] = NoFile \/ "replace" \in env
         /\ \A w \in published : NameOf[w] = NameOf[v] => "reuse" \in env
  BY NameOfAssumption, NoFileAssumption DEF Publish, TypeOK

LEMMA PublishLen ==
  ASSUME TypeOK, NEW v \in Versions, Publish(v)
  PROVE  /\ len'[v] <= Size[v]
         /\ \A w \in Versions \ {v} : len'[w] = len[w]
         /\ "grow" \notin env => len'[v] = Size[v]
<1>1. Size[v] \in Nat /\ Size[v] \in 0..Size[v]
  BY SizeAssumption
<1>2. CASE "grow" \in env
  <2>1. PICK k \in 0..Size[v] : len' = [len EXCEPT ![v] = k]
    BY <1>2 DEF Publish
  <2>2. QED BY <1>1, <1>2, <2>1 DEF TypeOK
<1>3. CASE "grow" \notin env
  <2>1. len' = [len EXCEPT ![v] = Size[v]]
    BY <1>3 DEF Publish
  <2>2. QED BY <1>1, <2>1 DEF TypeOK
<1>4. QED BY <1>2, <1>3

-----------------------------------------------------------------------------
(* In every environment the directory names published versions. *)
LEMMA EntriesInit == Init => EntriesInv
  BY SizeAssumption DEF Init, EntriesInv

LEMMA EntriesRemove ==
  ASSUME TypeOK, EntriesInv, NEW n \in Names, RemoveRemote(n),
         published' = published
  PROVE  \A m \in Names : remote'[m] # NoFile =>
           remote'[m] \in published' /\ NameOf[remote'[m]] = m
  BY RemoveRemoteEntries DEF EntriesInv

LEMMA EntriesNext ==
  ASSUME TypeOK, EntriesInv, [Next]_vars PROVE EntriesInv'
<1>0. /\ env' = env
      /\ pc \in {"xfer", "verify", "remove"} => Cur \in Names
  BY EnvStays, NameOfAssumption DEF TypeOK, Cur
<1>1. CASE /\ UNCHANGED <<server, delivered>>
           /\ pc' \in {"xfer", "verify", "remove"} =>
                pc \in {"xfer", "verify", "remove"} /\ src' = src
  BY <1>0, <1>1 DEF EntriesInv, server
<1>2. ASSUME NEW n \in Names, Retr(n) PROVE EntriesInv'
  BY <1>0, <1>2 DEF Retr, AccessGranted, EntriesInv, server
<1>3. CASE VerifyOk
  BY <1>0, <1>3 DEF VerifyOk, Install, EntriesInv, server
<1>4. CASE RemoveOk \/ RemoveReplyLost
  <2>1. /\ RemoveRemote(Cur) /\ UNCHANGED <<len, published, late, delivered>>
        /\ pc' \in {"loop", "poll", "spin"} /\ Cur \in Names
    BY <1>0, <1>4 DEF RemoveOk, RemoveReplyLost, Break, disk
  <2>2. \A m \in Names : remote'[m] # NoFile =>
           remote'[m] \in published' /\ NameOf[remote'[m]] = m
    BY <2>1, EntriesRemove
  <2>3. QED BY <1>0, <2>1, <2>2 DEF EntriesInv
<1>5. CASE RemoveLate
  <2>1. {"fault", "late"} \subseteq env
    BY <1>5 DEF RemoveLate, Fault
  <2>2. UNCHANGED <<remote, len, published, delivered>> /\ pc' = "poll"
    BY <1>5 DEF RemoveLate, Break, disk
  <2>3. QED BY <1>0, <2>1, <2>2 DEF EntriesInv
<1>6. ASSUME NEW n \in Names, LateRemove(n) PROVE EntriesInv'
  <2>1. /\ late[n] > 0 /\ UNCHANGED <<len, published, delivered, pc, src>>
        /\ RemoveRemote(n) \/ UNCHANGED remote
    BY <1>6 DEF LateRemove, disk, thread
  <2>2. \A m \in Names : remote'[m] # NoFile =>
           remote'[m] \in published' /\ NameOf[remote'[m]] = m
    BY <2>1, EntriesRemove DEF EntriesInv
  <2>3. {"fault", "late"} \subseteq env
    BY <2>1 DEF EntriesInv
  <2>4. QED BY <1>0, <2>1, <2>2, <2>3 DEF EntriesInv
<1>7. ASSUME NEW v \in Versions, Publish(v) PROVE EntriesInv'
  BY <1>0, <1>7, PublishEntries, PublishLen DEF EntriesInv, disk, thread
<1>8. ASSUME NEW v \in Versions, Grow(v) PROVE EntriesInv'
  <2>1. \A w \in Versions : len'[w] <= Size[w]
    <3>1. \A w \in Versions : len'[w] = IF w = v THEN len[v] + 1 ELSE len[w]
      BY <1>8 DEF Grow, TypeOK
    <3>2. len[v] \in Nat /\ Size[v] \in Nat /\ len[v] < Size[v]
      BY <1>8, SizeAssumption DEF Grow, TypeOK
    <3>3. QED BY <3>1, <3>2 DEF EntriesInv
  <2>2. QED BY <1>0, <1>8, <2>1 DEF Grow, EntriesInv, disk, thread
<1>9. CASE (\E s : Break(s)) /\ UNCHANGED <<server, delivered>>
  BY <1>1, <1>9 DEF Break
<1>10. CASE \/ Session \/ SessionFails \/ Scan
            \/ ReadBlock \/ ShortWrite \/ Eof \/ EarlyEof
  BY <1>1, <1>10
  DEF Session, SessionFails, Scan, ReadBlock, ShortWrite, Eof, EarlyEof, disk
<1>11. CASE \/ ScanFails \/ EndPass \/ ReadError \/ VerifyFails \/ RemoveFails \/ Crash
            \/ \E n \in Names : RetrFails(n)
  BY <1>9, <1>11
  DEF ScanFails, EndPass, ReadError, VerifyFails, RemoveFails, Crash, RetrFails,
      CommandFails, disk
<1>12. CASE UNCHANGED vars \/ Spin
  BY <1>1, <1>12 DEF vars, Spin, disk, thread
<1>13. QED
  BY <1>2, <1>3, <1>4, <1>5, <1>6, <1>7, <1>8, <1>10, <1>11, <1>12
  DEF Next, Thread, Surroundings

-----------------------------------------------------------------------------
(* The backup directory. *)
LEMMA BackupInit == Init => BackupKeepsAll
  BY DEF Init, BackupKeepsAll

LEMMA BackupRemove ==
  ASSUME TypeOK, EntriesInv, BackupKeepsAll, env' = env,
         NEW n \in Names, remote[n] # NoFile, RemoveRemote(n),
         published' = published
  PROVE  BackupKeepsAll'
<1> SUFFICES ASSUME "backup" \in env, "replace" \notin env, NEW v \in published
             PROVE  \/ v \in {remote'[NameOf[v]], bak'[NameOf[v]]}
                    \/ \E w \in published \ {v} :
                         NameOf[w] = NameOf[v] /\ bak'[NameOf[v]] = w
  BY DEF BackupKeepsAll
<1>1. NameOf[v] \in Names
  BY NameOfAssumption DEF TypeOK
<1>2. remote[n] \in published /\ NameOf[remote[n]] = n
  BY DEF EntriesInv
<1>3. CASE NameOf[v] = n
  BY <1>1, <1>2, <1>3, RemoveRemoteEntries
<1>4. CASE NameOf[v] # n
  <2>1. remote'[NameOf[v]] = remote[NameOf[v]] /\ bak'[NameOf[v]] = bak[NameOf[v]]
    BY <1>1, <1>4, RemoveRemoteEntries
  <2>2. QED BY <2>1 DEF BackupKeepsAll
<1>5. QED BY <1>3, <1>4

LEMMA BackupNext ==
  ASSUME TypeOK, EntriesInv, BackupKeepsAll, [Next]_vars
  PROVE  BackupKeepsAll'
<1>0. /\ env' = env
      /\ pc \in {"xfer", "verify", "remove"} => Cur \in Names
  BY EnvStays, NameOfAssumption DEF TypeOK, Cur
<1>1. CASE UNCHANGED <<remote, bak, published>>
  BY <1>0, <1>1 DEF BackupKeepsAll
<1>2. CASE RemoveOk \/ RemoveReplyLost
  BY <1>0, <1>2, BackupRemove DEF RemoveOk, RemoveReplyLost
<1>3. ASSUME NEW n \in Names, LateRemove(n) PROVE BackupKeepsAll'
  BY <1>0, <1>1, <1>3, BackupRemove DEF LateRemove
<1>4. ASSUME NEW x \in Versions, Publish(x) PROVE BackupKeepsAll'
  <2> SUFFICES ASSUME "backup" \in env, "replace" \notin env, NEW v \in published'
               PROVE  \/ v \in {remote'[NameOf[v]], bak'[NameOf[v]]}
                      \/ \E w \in published' \ {v} :
                           NameOf[w] = NameOf[v] /\ bak'[NameOf[v]] = w
    BY <1>0 DEF BackupKeepsAll
  <2>1. CASE v = x
    BY <1>4, <2>1, PublishEntries
  <2>2. CASE v \in published
    <3>1. NameOf[v] \in Names /\ v # NoFile
      BY <2>2, NameOfAssumption, NoFileAssumption DEF TypeOK
    <3>2. /\ remote[NameOf[v]] = v => remote'[NameOf[v]] = v
          /\ bak' = bak /\ published \subseteq published'
      BY <1>4, <3>1, PublishEntries
    <3>3. QED BY <2>2, <3>2 DEF BackupKeepsAll
  <2>3. QED BY <1>4, <2>1, <2>2, PublishEntries
<1>5. QED
  BY <1>1, <1>2, <1>3, <1>4
  DEF Next, Thread, Surroundings, Session, SessionFails, Spin, Scan, ScanFails, EndPass, Retr,
      RetrFails, ReadBlock, ShortWrite, Eof, EarlyEof, ReadError, VerifyOk,
      VerifyFails, RemoveLate, RemoveFails, Crash, Grow, vars, server

-----------------------------------------------------------------------------
(* Without faults. *)
LEMMA OnceInit == Init => OnceInv
  BY DEF Init, OnceInv

LEMMA OnceNext ==
  ASSUME TypeOK, EntriesInv, OnceInv, [Next]_vars PROVE OnceInv'
<1> SUFFICES ASSUME "fault" \notin env PROVE OnceInv'
  BY EnvStays DEF OnceInv
<1>0. /\ env' = env /\ ~Fault
      /\ pc # "poll" => alive
      /\ \A v \in delivered : remote[NameOf[v]] = v => pc = "remove" /\ src = v
      /\ pc \in {"xfer", "verify"} => src \notin delivered
      /\ pc \in {"xfer", "verify", "remove"} =>
           Cur \in Names /\ src \in Versions /\ src # NoFile
      /\ \A n \in Names : ~(late[n] > 0)
      /\ \A v \in delivered : NameOf[v] \in Names /\ v # NoFile /\ v \in published
  BY EnvStays, NameOfAssumption, NoFileAssumption
  DEF OnceInv, TypeOK, Cur, Fault, EntriesInv
<1>1. CASE /\ UNCHANGED <<remote, delivered>> /\ pc # "remove"
           /\ pc' \in {"poll", "loop"} /\ (pc' = "loop" => alive')
  BY <1>0, <1>1 DEF OnceInv
<1>2. CASE Session \/ SessionFails \/ Scan \/ ScanFails \/ EndPass
  BY <1>0, <1>1, <1>2
  DEF Session, SessionFails, Scan, ScanFails, EndPass, Break, server, disk
<1>3. ASSUME NEW n \in Names, Retr(n) PROVE OnceInv'
  <2>1. /\ remote[n] \in published /\ NameOf[remote[n]] = n
        /\ pc = "loop" /\ pc' = "xfer" /\ src' = remote[n] /\ alive' /\ alive
        /\ UNCHANGED <<remote, delivered>>
    BY <1>3 DEF Retr, AccessGranted, EntriesInv, server
  <2>2. remote[n] \notin delivered
    BY <1>0, <2>1
  <2>3. QED BY <1>0, <2>1, <2>2 DEF OnceInv
<1>4. CASE \/ VerifyFails
           \/ \E n \in Names : RetrFails(n)
  BY <1>0, <1>1, <1>4
  DEF VerifyFails, RetrFails, CommandFails, Break, server, disk
<1>5. CASE ReadBlock \/ ShortWrite \/ Eof
  <2>1. /\ UNCHANGED <<remote, delivered, alive, src>>
        /\ pc = "xfer" /\ pc' \in {"xfer", "verify"}
    BY <1>0, <1>5 DEF ReadBlock, ShortWrite, Eof, server, disk
  <2>2. QED BY <1>0, <2>1 DEF OnceInv
<1>6. CASE VerifyOk
  <2>1. /\ UNCHANGED <<remote, alive, src>> /\ pc = "verify" /\ pc' = "remove"
        /\ delivered' \subseteq delivered \cup {src}
    BY <1>6 DEF VerifyOk, Install, server
  <2>2. QED BY <1>0, <2>1 DEF OnceInv
<1>7. CASE RemoveOk
  <2>1. /\ RemoveRemote(Cur) /\ alive /\ UNCHANGED <<alive, delivered>>
        /\ pc' = "loop"
    BY <1>7 DEF RemoveOk, disk
  <2>2. pc = "remove"
    BY <1>7 DEF RemoveOk
  <2>3. \A v \in delivered : remote'[NameOf[v]] # v
    BY <1>0, <2>1, <2>2, RemoveRemoteEntries DEF Cur
  <2>4. QED BY <1>0, <2>1, <2>3 DEF OnceInv
<1>8. CASE RemoveFails
  <2>1. /\ pc = "remove" /\ remote[Cur] = NoFile /\ pc' = "poll"
        /\ UNCHANGED <<remote, delivered>>
    BY <1>0, <1>8, CommandFailsDead DEF RemoveFails, Break, server, disk
  <2>2. QED BY <1>0, <2>1 DEF OnceInv, Cur
<1>9. ASSUME NEW x \in Versions, Publish(x) PROVE OnceInv'
  <2>1. UNCHANGED <<delivered, pc, src, alive>>
    BY <1>9, PublishEntries DEF disk, thread
  <2>2. \A v \in delivered : remote'[NameOf[v]] = v => remote[NameOf[v]] = v
    BY <1>0, <1>9, PublishEntries
  <2>3. QED BY <1>0, <2>1, <2>2 DEF OnceInv
<1>10. CASE UNCHANGED vars \/ Spin \/ \E v \in Versions : Grow(v)
  <2>1. UNCHANGED <<remote, delivered, pc, src, alive>>
    BY <1>10 DEF vars, Spin, server, disk, thread, Grow
  <2>2. QED BY <1>0, <2>1 DEF OnceInv
<1>11. ~(EarlyEof \/ ReadError \/ RemoveReplyLost \/ RemoveLate \/ Crash)
       /\ \A n \in Names : ~LateRemove(n)
  BY <1>0 DEF EarlyEof, ReadError, RemoveReplyLost, RemoveLate, Crash, LateRemove
<1>12. QED
  BY <1>2, <1>3, <1>4, <1>5, <1>6, <1>7, <1>8, <1>9, <1>10, <1>11
  DEF Next, Thread, Surroundings

-----------------------------------------------------------------------------
(* A pass that nothing breaks leaves no temporary file behind. *)
LEMMA TmpEmptyNext ==
  ASSUME TypeOK, TmpEmpty, "fault" \notin env, [Next]_vars PROVE TmpEmpty'
<1>0. ~Fault /\ (pc \in {"xfer", "verify", "remove"} => Cur \in Names)
  BY NameOfAssumption DEF Fault, TypeOK, Cur
<1>1. CASE UNCHANGED <<tmp, pc, src>>
  BY <1>1 DEF TmpEmpty, Cur
<1>2. CASE UNCHANGED tmp /\ pc \in {"poll", "loop", "remove", "spin"}
  BY <1>2 DEF TmpEmpty
<1>3. CASE ReadBlock \/ ShortWrite \/ Eof
  <2>1. /\ pc = "xfer" /\ pc' \in {"xfer", "verify"} /\ Cur' = Cur
        /\ \A n \in Names : tmp'[n] = tmp[n] \/ n = Cur
    BY <1>0, <1>3 DEF ReadBlock, ShortWrite, Eof, disk, Cur, TypeOK
  <2>2. QED BY <2>1 DEF TmpEmpty
<1>4. CASE VerifyOk \/ VerifyFails
  <2>1. /\ pc = "verify"
        /\ \A n \in Names : tmp'[n] = IF n = Cur THEN <<>> ELSE tmp[n]
    BY <1>0, <1>4 DEF VerifyOk, VerifyFails, Install, Discard, TypeOK
  <2>2. QED BY <2>1 DEF TmpEmpty
<1>5. CASE \/ Session \/ SessionFails \/ Spin
           \/ Scan \/ ScanFails \/ EndPass \/ RemoveOk \/ RemoveFails
           \/ \E n \in Names : Retr(n) \/ RetrFails(n)
  BY <1>2, <1>5
  DEF Session, SessionFails, Spin, Scan, ScanFails, EndPass, RemoveOk, RemoveFails, Retr,
      RetrFails, OpenTmp, disk
<1>6. CASE \/ UNCHANGED vars
           \/ \E v \in Versions : Publish(v) \/ Grow(v)
           \/ \E n \in Names : LateRemove(n)
  BY <1>1, <1>6 DEF vars, Publish, Grow, LateRemove, disk, thread
<1>7. ~(EarlyEof \/ ReadError \/ RemoveReplyLost \/ RemoveLate \/ Crash)
  BY <1>0 DEF EarlyEof, ReadError, RemoveReplyLost, RemoveLate, Crash
<1>8. QED BY <1>3, <1>4, <1>5, <1>6, <1>7 DEF Next, Thread, Surroundings

-----------------------------------------------------------------------------
(* Where nothing is replaced, or no transfer fails, versions are not mixed. *)
LEMMA UnmixedInit == Init => UnmixedInv /\ NoTornFile
  BY DEF Init, UnmixedInv, ReadInv, TmpEmpty, TmpInv, NoTornFile

(* A step that leaves a temporary file alone, or empties it, and its entry *)
(* in the remote directory unless the name is never used again.            *)
LEMMA TmpFrame ==
  ASSUME TypeOK, TmpInv, env' = env, published \subseteq published',
         \A n \in Names :
           \/ tmp'[n] = <<>>
           \/ /\ tmp'[n] = tmp[n]
              /\ remote'[n] = remote[n] \/ UniqueNames \/ remote[n] = NoFile
  PROVE  TmpInv'
<1> SUFFICES ASSUME NEW n \in Names, tmp'[n] # <<>>
             PROVE  \E v \in published' : /\ NameOf[v] = n
                                          /\ Starts(tmp'[n], v)
                                          /\ remote'[n] = v \/ UniqueNames
  BY DEF TmpInv, Starts, UniqueNames
<1>1. PICK v \in published : /\ NameOf[v] = n
                             /\ Starts(tmp[n], v)
                             /\ remote[n] = v \/ UniqueNames
  BY DEF TmpInv
<1>2. v # NoFile
  BY NoFileAssumption DEF TypeOK
<1>3. QED BY <1>1, <1>2

LEMMA TmpInvNext ==
  ASSUME TypeOK, EntriesInv, Unmixed, "replace" \notin env, TmpInv, ReadInv,
         [Next]_vars
  PROVE  TmpInv'
<1>0. /\ env' = env
      /\ pc \in {"xfer", "verify", "remove"} =>
           Cur \in Names /\ src \in Versions /\ src \in published
  BY EnvStays, NameOfAssumption DEF TypeOK, Cur, EntriesInv
<1>1. CASE UNCHANGED <<remote, published, tmp>>
  BY <1>0, <1>1, TmpFrame
<1>2. CASE ReadBlock
  <2> DEFINE t == Put(tmp[Cur], off, <<src, rpos + 1>>)
  <2>1. /\ off = rpos /\ rpos \in Nat /\ rpos <= Len(tmp[Cur])
        /\ Starts(tmp[Cur], src) /\ tmp[Cur] \in Seq(Versions \X Nat)
        /\ remote[Cur] = src \/ UniqueNames
        /\ Cur \in Names /\ src \in Versions /\ src \in published
    BY <1>0, <1>2 DEF ReadBlock, ReadInv, TypeOK
  <2>2. rpos < Size[src]
    BY <1>0, <1>2, <2>1, SizeAssumption DEF ReadBlock, EntriesInv, TypeOK
  <2>3. Starts(t, src)
    BY <2>1, <2>2, PutPrefix
  <2>4. /\ \A n \in Names : tmp'[n] = IF n = Cur THEN t ELSE tmp[n]
        /\ UNCHANGED <<remote, published>>
    BY <1>2 DEF ReadBlock, TypeOK, server
  <2> SUFFICES ASSUME NEW n \in Names, tmp'[n] # <<>>
               PROVE  \E v \in published : /\ NameOf[v] = n
                                           /\ Starts(tmp'[n], v)
                                           /\ remote[n] = v \/ UniqueNames
    BY <1>0, <2>4 DEF TmpInv, Starts, UniqueNames
  <2>5. CASE n = Cur
    BY <2>1, <2>3, <2>4, <2>5 DEF Cur
  <2>6. CASE n # Cur
    <3>1. tmp'[n] = tmp[n]
      BY <2>4, <2>6
    <3>2. QED BY <3>1 DEF TmpInv
  <2>7. QED BY <2>5, <2>6
<1>3. CASE VerifyOk \/ VerifyFails
  <2>1. /\ \A n \in Names : tmp'[n] = IF n = Cur THEN <<>> ELSE tmp[n]
        /\ UNCHANGED <<remote, published>>
    BY <1>0, <1>3 DEF VerifyOk, VerifyFails, Install, Discard, TypeOK, server
  <2>2. QED BY <1>0, <2>1, TmpFrame
<1>4. CASE RemoveOk \/ RemoveReplyLost
  <2>1. /\ RemoveRemote(Cur) /\ Cur \in Names /\ tmp[Cur] = <<>>
        /\ UNCHANGED <<published, tmp>>
    BY <1>0, <1>4 DEF RemoveOk, RemoveReplyLost, ReadInv, disk
  <2>2. QED BY <1>0, <2>1, TmpFrame, RemoveRemoteEntries
<1>5. ASSUME NEW n \in Names, LateRemove(n) PROVE TmpInv'
  <2>1. UniqueNames
    BY <1>5 DEF LateRemove, EntriesInv, Unmixed, UniqueNames
  <2>2. UNCHANGED <<published, tmp>>
    BY <1>5 DEF LateRemove, disk
  <2>3. QED BY <1>0, <2>1, <2>2, TmpFrame
<1>6. ASSUME NEW x \in Versions, Publish(x) PROVE TmpInv'
  <2>1. /\ published \subseteq published' /\ tmp' = tmp
        /\ \A n \in Names : remote'[n] = remote[n] \/ remote[n] = NoFile
    BY <1>6, PublishEntries DEF disk
  <2>2. QED BY <1>0, <2>1, TmpFrame
<1>7. QED
  BY <1>1, <1>2, <1>3, <1>4, <1>5, <1>6
  DEF Next, Thread, Surroundings, Session, SessionFails, Spin, Scan, ScanFails, EndPass, Retr,
      RetrFails, OpenTmp, ShortWrite, Eof, EarlyEof, ReadError, RemoveLate,
      RemoveFails, Crash, Grow, vars, server, disk

(* The transfer under way; it begins with a temporary file that is empty or *)
(* starts the file that waits.                                              *)
LEMMA ReadInvNext ==
  ASSUME TypeOK, NamesInv, EntriesInv, Unmixed, UnmixedInv, [Next]_vars
  PROVE  ReadInv'
<1>0. /\ env' = env /\ ReadInv
      /\ pc \in {"xfer", "verify", "remove"} =>
           Cur \in Names /\ src \in Versions /\ src # NoFile
      /\ \A n \in Names : Len(tmp[n]) \in Nat
  BY EnvStays, NameOfAssumption, NoFileAssumption DEF TypeOK, Cur, UnmixedInv
<1>1. CASE pc' \in {"poll", "loop", "spin"}
  BY <1>1 DEF ReadInv
<1>2. CASE /\ UNCHANGED <<tmp, src, off, rpos>>
           /\ pc \in {"xfer", "verify", "remove"} =>
                \/ remote'[Cur] = remote[Cur] \/ UniqueNames
                \/ remote[Cur] = NoFile \/ "replace" \in env
           /\ pc' \in {pc, "verify"} /\ (pc' = "verify" => pc \in {"xfer", "verify"})
  BY <1>0, <1>2 DEF ReadInv, Starts, Cur, UniqueNames
<1>3. ASSUME NEW n \in Names, Retr(n) PROVE ReadInv'
  <2> DEFINE v == remote[n]
  <2>1. /\ pc = "loop" /\ src' = v /\ tmp' = tmp /\ remote' = remote
        /\ v \in published /\ v \in Versions /\ NameOf[v] = n
        /\ off' = rpos' /\ rpos' \in ResumePoints(n) /\ pc' = "xfer"
    BY <1>3 DEF Retr, AccessGranted, OpenTmp, EntriesInv, TypeOK, server
  <2>2. Starts(tmp[n], v)
    <3>1. CASE tmp[n] = <<>>
      BY <3>1, <2>1, StartsEmpty
    <3>2. CASE tmp[n] # <<>>
      <4>1. TmpInv
        BY <2>1, <3>2 DEF UnmixedInv, TmpEmpty
      <4>2. PICK w \in published : /\ NameOf[w] = n /\ Starts(tmp[n], w)
                                   /\ remote[n] = w \/ UniqueNames
        BY <3>2, <4>1 DEF TmpInv
      <4>3. w = v
        BY <2>1, <4>2 DEF NamesInv
      <4>4. QED BY <4>2, <4>3
    <3>3. QED BY <3>1, <3>2
  <2>3. rpos' <= Len(tmp[n])
    BY <1>0, <2>1 DEF ResumePoints
  <2>4. Cur' = n /\ Starts(tmp'[n], v)
    BY <2>1, <2>2 DEF Cur
  <2>5. QED BY <2>1, <2>3, <2>4 DEF ReadInv, Starts
<1>4. CASE ReadBlock
  <2> DEFINE t == Put(tmp[Cur], off, <<src, rpos + 1>>)
  <2>1. /\ off = rpos /\ rpos \in Nat /\ rpos <= Len(tmp[Cur])
        /\ Starts(tmp[Cur], src) /\ tmp[Cur] \in Seq(Versions \X Nat)
        /\ remote[Cur] = src \/ UniqueNames \/ "replace" \in env
        /\ Cur \in Names /\ src \in Versions /\ src \in published
    BY <1>0, <1>4 DEF ReadBlock, ReadInv, TypeOK, EntriesInv
  <2>2. rpos < Size[src]
    BY <1>0, <1>4, <2>1, SizeAssumption DEF ReadBlock, EntriesInv, TypeOK
  <2>3. Starts(t, src) /\ rpos + 1 <= Len(t)
    BY <2>1, <2>2, PutPrefix
  <2>4. /\ tmp'[Cur] = t /\ Cur' = Cur /\ rpos' = rpos + 1 /\ off' = off + 1
        /\ pc' = "xfer" /\ UNCHANGED <<remote, src>>
    BY <1>0, <1>4 DEF ReadBlock, TypeOK, server, Cur
  <2>5. Starts(tmp'[Cur], src) /\ rpos' <= Len(tmp'[Cur])
    BY <2>3, <2>4
  <2>6. QED BY <1>0, <2>1, <2>4, <2>5 DEF ReadInv, Starts, UniqueNames
<1>5. CASE VerifyOk
  <2>1. /\ tmp'[Cur] = <<>> /\ Cur' = Cur /\ pc' = "remove" /\ pc = "verify"
        /\ UNCHANGED <<remote, src>>
    BY <1>0, <1>5 DEF VerifyOk, Install, TypeOK, server, Cur
  <2>2. Starts(tmp'[Cur], src)
    BY <1>0, <2>1, StartsEmpty
  <2>3. QED BY <1>0, <2>1, <2>2 DEF ReadInv, Starts, UniqueNames
<1>6. CASE ShortWrite
  BY <1>6 DEF ShortWrite, Unmixed
<1>7. CASE \/ Eof \/ EarlyEof \/ UNCHANGED vars
           \/ \E v \in Versions : Grow(v)
  BY <1>0, <1>2, <1>7
  DEF Eof, EarlyEof, Grow, vars, server, disk, thread
<1>8. ASSUME NEW n \in Names, LateRemove(n) PROVE ReadInv'
  <2>1. UniqueNames
    BY <1>8 DEF LateRemove, EntriesInv, Unmixed, UniqueNames
  <2>2. QED BY <1>2, <1>8, <2>1 DEF LateRemove, disk, thread
<1>9. ASSUME NEW x \in Versions, Publish(x) PROVE ReadInv'
  <2>1. /\ UNCHANGED <<disk, thread>>
        /\ \A n \in Names : remote'[n] = remote[n] \/ remote[n] = NoFile
                                                   \/ "replace" \in env
    BY <1>9, PublishEntries
  <2>2. QED BY <1>0, <1>2, <2>1 DEF disk, thread
<1>10. CASE \/ Session \/ SessionFails \/ Spin
            \/ Scan \/ ScanFails \/ EndPass \/ ReadError \/ VerifyFails
            \/ RemoveOk \/ RemoveReplyLost \/ RemoveLate \/ RemoveFails \/ Crash
            \/ \E n \in Names : RetrFails(n)
  BY <1>1, <1>10
  DEF Session, SessionFails, Spin, thread, Scan, ScanFails, EndPass, ReadError,
      VerifyFails, RemoveOk, RemoveReplyLost,
      RemoveLate, RemoveFails, Crash, RetrFails, CommandFails, Break
<1>11. QED
  BY <1>3, <1>4, <1>5, <1>6, <1>7, <1>8, <1>9, <1>10
  DEF Next, Thread, Surroundings

LEMMA UnmixedNext ==
  ASSUME TypeOK, NamesInv, EntriesInv, UnmixedInv, [Next]_vars
  PROVE  UnmixedInv'
<1> SUFFICES ASSUME Unmixed PROVE UnmixedInv'
  BY EnvStays DEF UnmixedInv, Unmixed
<1>0. env' = env
  BY EnvStays
<1>1. ReadInv'
  BY ReadInvNext
<1>2. CASE "replace" \in env
  <2>1. TmpEmpty'
    BY <1>2, TmpEmptyNext DEF UnmixedInv, Unmixed
  <2>2. QED BY <1>0, <1>1, <1>2, <2>1 DEF UnmixedInv
<1>3. CASE "replace" \notin env
  <2>1. TmpInv'
    BY <1>3, TmpInvNext DEF UnmixedInv
  <2>2. QED BY <1>0, <1>1, <1>3, <2>1 DEF UnmixedInv
<1>4. QED BY <1>2, <1>3

LEMMA NoTornNext ==
  ASSUME TypeOK, EntriesInv, UnmixedInv, NoTornFile, [Next]_vars
  PROVE  NoTornFile'
<1> SUFFICES ASSUME Unmixed, NEW n \in Names, local'[n] # <<>>
             PROVE  \E v \in published' : NameOf[v] = n /\ Starts(local'[n], v)
  BY EnvStays DEF NoTornFile, Unmixed, Starts
<1>0. published \subseteq published'
  BY DEF Next, Thread, Surroundings, Session, SessionFails, Spin, Scan, ScanFails, EndPass, Retr,
         RetrFails, ReadBlock, ShortWrite, Eof, EarlyEof, ReadError, VerifyOk,
         VerifyFails, RemoveOk, RemoveReplyLost, RemoveLate, RemoveFails,
         LateRemove, Crash, Publish, Grow, vars, server
<1>1. CASE local'[n] = local[n]
  <2>1. PICK v \in published : NameOf[v] = n /\ Starts(local[n], v)
    BY <1>1 DEF NoTornFile
  <2>2. QED BY <1>0, <1>1, <2>1
<1>2. CASE VerifyOk
  <2>1. Cur \in Names /\ src \in published /\ Starts(tmp[Cur], src)
    BY <1>2, NameOfAssumption
    DEF VerifyOk, TypeOK, Cur, EntriesInv, UnmixedInv, ReadInv
  <2>2. local'[n] = IF n = Cur THEN tmp[Cur] ELSE local[n]
    BY <1>2, <2>1 DEF VerifyOk, Install, TypeOK
  <2>3. CASE n = Cur
    BY <1>0, <2>1, <2>2, <2>3 DEF Cur
  <2>4. QED BY <1>1, <2>2, <2>3
<1>3. CASE ~VerifyOk
  <2>1. local' = local
    BY <1>3
    DEF Next, Thread, Surroundings, Session, SessionFails, Spin, Scan, ScanFails, EndPass, Retr,
        RetrFails, ReadBlock, ShortWrite, Eof, EarlyEof, ReadError,
        VerifyFails, RemoveOk, RemoveReplyLost, RemoveLate, RemoveFails,
        LateRemove, Crash, Publish, Grow, vars, disk
  <2>2. QED BY <1>1, <2>1
<1>4. QED BY <1>2, <1>3

-----------------------------------------------------------------------------
(* Writes that fall short, and nothing else that goes wrong. *)
LEMMA ShortInit == Init => ShortInv /\ ShortIsCaught
  BY DEF Init, ShortInv, TmpEmpty, ShortIsCaught, NoLoss, WholeFile

LEMMA ShortStepRetr ==
  ASSUME TypeOK, EntriesInv, ShortInv, TmpEmpty', env' = env,
         env \subseteq {"short", "reuse"}, NEW n \in Names, Retr(n)
  PROVE  ShortInv'
<1> DEFINE v == remote[n]
<1>1. /\ pc = "loop" /\ n \in todo /\ src' = v
      /\ todo' = todo \ {n} /\ pc' = "xfer" /\ off' = rpos'
      /\ rpos' \in ResumePoints(n)
      /\ UNCHANGED <<remote, len, published, tmp, listed, delivered>>
  BY DEF Retr, OpenTmp, server
<1>2. tmp[n] = <<>>
  BY <1>1 DEF ShortInv, TmpEmpty
<1>3. rpos' = 0 /\ off' = 0
  BY <1>1, <1>2 DEF ResumePoints
<1>4. /\ v \in Versions /\ NameOf[v] = n /\ listed[n] = Size[v] /\ v # NoFile
      /\ Size[v] \in Nat
  BY <1>1, SizeAssumption DEF ShortInv, EntriesInv, TypeOK
<1>5. Starts(tmp'[n], v) /\ Len(tmp'[n]) = 0 /\ Cur' = n
  BY <1>1, <1>2, <1>4, StartsEmpty DEF Cur
<1>6. QED BY <1>1, <1>3, <1>4, <1>5 DEF ShortInv, Starts

LEMMA ShortStepRead ==
  ASSUME TypeOK, EntriesInv, ShortInv, TmpEmpty', env' = env,
         env \subseteq {"short", "reuse"}, ReadBlock
  PROVE  ShortInv'
<1> DEFINE t == Put(tmp[Cur], off, <<src, rpos + 1>>)
<1>1. /\ pc = "xfer" /\ Cur \in Names /\ src \in Versions /\ src \in published
      /\ off = Len(tmp[Cur]) /\ off <= rpos /\ off \in Nat /\ rpos \in Nat
      /\ off = rpos => Starts(tmp[Cur], src)
      /\ tmp[Cur] \in Seq(Versions \X Nat)
      /\ remote[Cur] = src /\ Cur \notin todo /\ listed[Cur] = Size[src]
  BY NameOfAssumption DEF ReadBlock, ShortInv, TypeOK, Cur, EntriesInv
<1>2. rpos < Size[src] /\ Size[src] \in Nat
  BY <1>1, SizeAssumption DEF ReadBlock, ShortInv
<1>3. Len(t) = off + 1
  BY <1>1 DEF Put
<1>4. off = rpos => Starts(t, src)
  BY <1>1, <1>2, PutPrefix
<1>5. /\ tmp'[Cur] = t /\ Cur' = Cur /\ rpos' = rpos + 1 /\ off' = off + 1
      /\ pc' = "xfer"
      /\ UNCHANGED <<remote, len, published, src, todo, listed, delivered>>
  BY <1>1 DEF ReadBlock, TypeOK, server, Cur
<1>6. Len(tmp'[Cur]) = off + 1 /\ (off = rpos => Starts(tmp'[Cur], src))
  BY <1>3, <1>4, <1>5
<1>7. /\ off' = Len(tmp'[Cur]) /\ off' <= rpos' /\ rpos' <= Size[src]
      /\ off' = rpos' => Starts(tmp'[Cur], src)
  BY <1>1, <1>2, <1>5, <1>6
<1>8. /\ \A v \in published : len[v] = Size[v]
      /\ \A n \in todo : remote[n] # NoFile /\ listed[n] = Size[remote[n]]
  BY DEF ShortInv
<1>9. QED BY <1>1, <1>5, <1>7, <1>8 DEF ShortInv, Starts

LEMMA ShortStepVerify ==
  ASSUME TypeOK, EntriesInv, ShortInv, TmpEmpty', env' = env,
         env \subseteq {"short", "reuse"}, VerifyOk
  PROVE  /\ ShortInv'
         /\ tmp[Cur] = Content(src) /\ src \in published /\ Cur \in Names
<1>1. /\ src \in Versions /\ src \in published /\ Cur \in Names
      /\ off = Len(tmp[Cur]) /\ rpos = Size[src] /\ listed[Cur] = Size[src]
      /\ off = rpos => Starts(tmp[Cur], src)
      /\ remote[Cur] = src /\ Cur \notin todo /\ len[src] = Size[src]
      /\ tmp[Cur] \in Seq(Versions \X Nat)
  BY NameOfAssumption DEF VerifyOk, ShortInv, TypeOK, Cur, EntriesInv
<1>2. Starts(tmp[Cur], src) /\ Len(tmp[Cur]) = Size[src]
  BY <1>1 DEF VerifyOk, SizeMatches
<1>3. tmp[Cur] = Content(src)
  BY <1>1, <1>2, StartsWhole
<1>4. /\ delivered' = delivered \cup {src} /\ pc' = "remove" /\ Cur' = Cur
      /\ UNCHANGED <<remote, len, published, src, todo, listed>>
  BY <1>3 DEF VerifyOk, Install, server, Cur
<1>5. QED BY <1>1, <1>3, <1>4 DEF ShortInv

LEMMA ShortStepPublish ==
  ASSUME TypeOK, EntriesInv, ShortInv, TmpEmpty', env' = env,
         env \subseteq {"short", "reuse"}, NEW x \in Versions, Publish(x)
  PROVE  ShortInv'
<1>1. /\ remote[NameOf[x]] = NoFile /\ x \notin published
      /\ published' = published \cup {x} /\ NameOf[x] \in Names
      /\ \A m \in Names : remote'[m] = IF m = NameOf[x] THEN x ELSE remote[m]
      /\ UNCHANGED <<tmp, todo, listed, src, off, rpos, pc, delivered>>
      /\ Cur' = Cur
  BY PublishEntries DEF disk, thread, Cur
<1>2. len'[x] = Size[x]
  BY PublishLen
<1>3. \A v \in published' : len'[v] = Size[v]
  BY <1>1, <1>2, PublishLen DEF ShortInv, TypeOK
<1>4. \A n \in todo : remote'[n] = remote[n]
  BY <1>1 DEF ShortInv, TypeOK
<1>5. pc \in {"xfer", "verify", "remove"} => remote'[Cur] = src
  BY <1>1, NameOfAssumption, NoFileAssumption DEF ShortInv, TypeOK, Cur
<1>6. QED BY <1>1, <1>3, <1>4, <1>5 DEF ShortInv, Starts

LEMMA ShortNext ==
  ASSUME TypeOK, EntriesInv, ShortInv, [Next]_vars PROVE ShortInv'
<1> SUFFICES ASSUME env \subseteq {"short", "reuse"} PROVE ShortInv'
  BY EnvStays DEF ShortInv
<1>0. /\ env' = env /\ ~Fault /\ TmpEmpty' /\ TmpEmpty
      /\ \A n \in Names : ~(late[n] > 0)
      /\ pc \in {"xfer", "verify", "remove"} => Cur \in Names /\ src \in published
  BY EnvStays, TmpEmptyNext, NameOfAssumption
  DEF Fault, ShortInv, EntriesInv, TypeOK, Cur
<1>1. CASE Session
  <2>1. /\ UNCHANGED <<remote, len, published, todo, listed>>
        /\ pc = "poll" /\ pc' = "poll"
    BY <1>1 DEF Session, server
  <2>2. QED BY <1>0, <2>1 DEF ShortInv
<1>2. CASE Scan
  <2>1. /\ UNCHANGED <<remote, len, published>> /\ pc' = "loop" /\ todo' = Present
        /\ \A n \in todo' : listed'[n] = len[remote[n]]
    BY <1>0, <1>2 DEF Scan, Present, server
  <2>2. QED BY <1>0, <2>1 DEF ShortInv, Present, EntriesInv
<1>3. CASE (\E s : Break(s)) /\ UNCHANGED server
  BY <1>0, <1>3 DEF Break, ShortInv, server
<1>4. CASE \/ EndPass \/ VerifyFails \/ RemoveFails
           \/ \E n \in Names : RetrFails(n)
  BY <1>3, <1>4 DEF EndPass, VerifyFails, RemoveFails, RetrFails, CommandFails
<1>5. ASSUME NEW n \in Names, Retr(n) PROVE ShortInv'
  BY <1>0, <1>5, ShortStepRetr
<1>6. CASE ReadBlock
  BY <1>0, <1>6, ShortStepRead
<1>7. CASE ShortWrite \/ Eof
  <2>1. /\ src \in published /\ src \in Versions /\ len[src] = Size[src]
        /\ rpos \in Nat /\ off \in Nat /\ Size[src] \in Nat /\ rpos <= Size[src]
        /\ pc = "xfer"
    BY <1>0, <1>7, SizeAssumption DEF ShortWrite, Eof, ShortInv, TypeOK
  <2>2. CASE ShortWrite
    <3>1. /\ rpos' = rpos + 1 /\ rpos' <= Size[src] /\ rpos' \in Nat
          /\ pc' = "xfer"
          /\ UNCHANGED <<remote, len, published, tmp, todo, listed, src, off>>
          /\ delivered' = delivered
      BY <2>1, <2>2 DEF ShortWrite, server, disk
    <3>2. QED BY <1>0, <2>1, <3>1 DEF ShortInv, Starts, Cur
  <2>3. CASE Eof
    <3>1. /\ rpos' = rpos /\ rpos = Size[src] /\ pc' = "verify"
          /\ UNCHANGED <<remote, len, published, tmp, todo, listed, src, off>>
          /\ delivered' = delivered
      BY <2>1, <2>3 DEF Eof, server, disk
    <3>2. QED BY <1>0, <2>1, <3>1 DEF ShortInv, Starts, Cur
  <2>4. QED BY <1>7, <2>2, <2>3
<1>8. CASE VerifyOk
  BY <1>0, <1>8, ShortStepVerify
<1>9. CASE RemoveOk
  <2>1. /\ RemoveRemote(Cur) /\ pc' = "loop" /\ pc = "remove"
        /\ UNCHANGED <<len, published, todo, listed>>
    BY <1>9 DEF RemoveOk
  <2>2. \A n \in todo : n \in Names /\ remote'[n] = remote[n]
    BY <1>0, <2>1, RemoveRemoteEntries DEF ShortInv, TypeOK
  <2>3. QED BY <1>0, <2>1, <2>2 DEF ShortInv
<1>10. ASSUME NEW x \in Versions, Publish(x) PROVE ShortInv'
  BY <1>0, <1>10, ShortStepPublish
<1>11. CASE UNCHANGED vars \/ Spin
  BY <1>0, <1>11 DEF vars, Spin, server, disk, thread, ShortInv, Starts, Cur
<1>12. ASSUME NEW v \in Versions, Grow(v) PROVE FALSE
  <2>1. NameOf[v] \in Names /\ v # NoFile
    BY NameOfAssumption, NoFileAssumption
  <2>2. len[v] = Size[v] /\ Size[v] \in Nat
    BY <1>12, <2>1, SizeAssumption DEF Grow, EntriesInv, ShortInv
  <2>3. QED BY <1>12, <2>2 DEF Grow
<1>13. /\ ~(EarlyEof \/ ReadError \/ RemoveReplyLost \/ RemoveLate \/ Crash)
       /\ ~SessionFails /\ ~ScanFails /\ \A n \in Names : ~LateRemove(n)
  BY <1>0 DEF EarlyEof, ReadError, RemoveReplyLost, RemoveLate, Crash,
              LateRemove, SessionFails, ScanFails
<1>14. QED
  BY <1>1, <1>2, <1>4, <1>5, <1>6, <1>7, <1>8, <1>9, <1>10, <1>11, <1>12, <1>13
  DEF Next, Thread, Surroundings

(* Nothing is lost or damaged then. *)
LEMMA CaughtNext ==
  ASSUME TypeOK, EntriesInv, ShortInv, ShortIsCaught, [Next]_vars
  PROVE  ShortIsCaught'
<1> SUFFICES ASSUME env \subseteq {"short", "reuse"} PROVE NoLoss' /\ WholeFile'
  BY EnvStays DEF ShortIsCaught
<1>0. /\ env' = env /\ ~Fault /\ TmpEmpty' /\ NoLoss /\ WholeFile
      /\ \A n \in Names : ~(late[n] > 0)
      /\ \A v \in published : len[v] = Size[v] /\ v # NoFile /\ NameOf[v] \in Names
  BY EnvStays, TmpEmptyNext, NameOfAssumption, NoFileAssumption
  DEF Fault, ShortInv, EntriesInv, TypeOK, ShortIsCaught
<1>1. CASE UNCHANGED <<remote, len, published, local, delivered>>
  BY <1>0, <1>1 DEF NoLoss, WholeFile, Content
<1>2. CASE VerifyOk
  <2>1. /\ tmp[Cur] = Content(src) /\ src \in published /\ Cur \in Names
    BY <1>0, <1>2, ShortStepVerify
  <2>2. /\ \A n \in Names : local'[n] = IF n = Cur THEN Content(src) ELSE local[n]
        /\ delivered' = delivered \cup {src}
        /\ UNCHANGED <<remote, len, published>>
    BY <1>2, <2>1 DEF VerifyOk, Install, TypeOK, server
  <2>3. NoLoss'
    BY <1>0, <2>2 DEF NoLoss
  <2>4. WholeFile'
    <3> SUFFICES ASSUME NEW n \in Names, local'[n] # <<>>
                 PROVE  \E v \in published : NameOf[v] = n /\ local'[n] = Content(v)
      BY <2>2 DEF WholeFile, Content
    <3>1. CASE n = Cur
      BY <2>1, <2>2, <3>1 DEF Cur
    <3>2. CASE n # Cur
      BY <1>0, <2>2, <3>2 DEF WholeFile
    <3>3. QED BY <3>1, <3>2
  <2>5. QED BY <2>3, <2>4
<1>3. CASE RemoveOk
  <2>1. /\ RemoveRemote(Cur) /\ src \in delivered /\ remote[Cur] = src
        /\ UNCHANGED <<len, published, local, delivered>> /\ src \in published
        /\ Cur \in Names
    BY <1>0, <1>3 DEF RemoveOk, ShortInv, disk, EntriesInv, Cur
  <2>2. NoLoss'
    BY <1>0, <2>1, RemoveRemoteEntries DEF NoLoss
  <2>3. WholeFile'
    BY <1>0, <2>1 DEF WholeFile, Content
  <2>4. QED BY <2>2, <2>3
<1>4. ASSUME NEW x \in Versions, Publish(x) PROVE NoLoss' /\ WholeFile'
  <2>1. /\ remote[NameOf[x]] = NoFile /\ x \notin published
        /\ published' = published \cup {x}
        /\ \A m \in Names : remote'[m] = IF m = NameOf[x] THEN x ELSE remote[m]
        /\ NameOf[x] \in Names
        /\ UNCHANGED <<local, delivered>>
    BY <1>4, PublishEntries DEF disk
  <2>2. \A v \in published : len'[v] = len[v]
    BY <1>4, <2>1, PublishLen DEF TypeOK
  <2>3. NoLoss'
    BY <1>0, <2>1 DEF NoLoss
  <2>4. WholeFile'
    <3> SUFFICES ASSUME NEW n \in Names, local'[n] # <<>>
                 PROVE  \E v \in published' : NameOf[v] = n /\ local'[n] = Content(v)'
      BY DEF WholeFile
    <3>1. PICK v \in published : NameOf[v] = n /\ local[n] = Content(v)
      BY <1>0, <2>1 DEF WholeFile
    <3>2. Content(v)' = Content(v)
      BY <2>2 DEF Content
    <3>3. QED BY <2>1, <3>1, <3>2
  <2>5. QED BY <2>3, <2>4
<1>5. ASSUME NEW v \in Versions, Grow(v) PROVE FALSE
  <2>1. NameOf[v] \in Names /\ v # NoFile
    BY NameOfAssumption, NoFileAssumption
  <2>2. len[v] = Size[v] /\ Size[v] \in Nat
    BY <1>5, <2>1, SizeAssumption DEF Grow, EntriesInv, ShortInv
  <2>3. QED BY <1>5, <2>2 DEF Grow
<1>6. /\ ~(EarlyEof \/ ReadError \/ RemoveReplyLost \/ RemoveLate \/ Crash)
      /\ ~ScanFails /\ \A n \in Names : ~LateRemove(n)
  BY <1>0 DEF EarlyEof, ReadError, RemoveReplyLost, RemoveLate, Crash,
              LateRemove, ScanFails
<1>7. QED
  BY <1>1, <1>2, <1>3, <1>4, <1>5, <1>6
  DEF Next, Thread, Surroundings, Session, SessionFails, Spin, Scan, EndPass, Retr, RetrFails,
      ReadBlock, ShortWrite, Eof, VerifyFails, RemoveFails, vars, server, disk

-----------------------------------------------------------------------------
(* Together, and in every environment. *)
THEOREM AllInductive == Spec => []Consistent
<1>1. Init => Consistent
  BY TypeInit, NamesInit, InvInit, EntriesInit, BackupInit, OnceInit,
     UnmixedInit, ShortInit DEF Consistent
<1>2. Consistent /\ [Next]_vars => Consistent'
  <2> SUFFICES ASSUME Consistent, [Next]_vars PROVE Consistent'
    OBVIOUS
  <2>1. TypeOK' /\ NamesInv' /\ EntriesInv' /\ BackupKeepsAll'
    BY TypeNext, NamesNext, EntriesNext, BackupNext DEF Consistent
  <2>2. Orderly' => IInv'
    BY InvNext, OrderlyStays DEF Consistent
  <2>3. OnceInv' /\ UnmixedInv' /\ NoTornFile' /\ ShortInv' /\ ShortIsCaught'
    BY OnceNext, UnmixedNext, NoTornNext, ShortNext, CaughtNext DEF Consistent
  <2>4. QED BY <2>1, <2>2, <2>3 DEF Consistent
<1>3. QED BY <1>1, <1>2, PTL DEF Spec

(* With BAKDIR set every version stays on the server until another of its   *)
(* name takes its place in the backup directory.                            *)
THEOREM BackedUp == Spec => []BackupKeepsAll
<1>1. Consistent => BackupKeepsAll
  BY DEF Consistent
<1>2. QED BY AllInductive, <1>1, PTL

(* A resumed transfer never joins the blocks of two versions, also when     *)
(* files grow, and when they are replaced while no transfer fails.          *)
THEOREM NeverTorn == Spec => []NoTornFile
<1>1. Consistent => NoTornFile
  BY DEF Consistent
<1>2. QED BY AllInductive, <1>1, PTL

(* A block that write() did not take is missed when the transfer ends. *)
THEOREM ShortWritesCaught == Spec => []ShortIsCaught
<1>1. Consistent => ShortIsCaught
  BY DEF Consistent
<1>2. QED BY AllInductive, <1>1, PTL

(* Without faults no version is put into localDir twice. *)
THEOREM AtMostOnce == Spec => ExactlyOnce
<1>1. Consistent /\ [Next]_vars =>
        [pc = "verify" /\ pc' = "remove" /\ "fault" \notin env =>
           src \notin delivered]_vars
  BY DEF Consistent, OnceInv
<1>2. QED BY AllInductive, <1>1, PTL DEF Spec, ExactlyOnce

=============================================================================
