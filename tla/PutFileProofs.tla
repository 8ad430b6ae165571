---------------------------- MODULE PutFileProofs ----------------------------
(***************************************************************************)
(* Theorems about put_file for every set of versions and names, every size *)
(* of file and every number of faults.                                     *)
(***************************************************************************)
EXTENDS PutFileProps, SequenceTheorems, TLAPS

(* A step without a fault, or with one, keeps to the budget. *)
LEMMA FaultType ==
  ASSUME faults \in 0..MaxFaults, Fault \/ UNCHANGED faults
  PROVE  faults' \in 0..MaxFaults
  BY FaultsAssumption DEF Fault

(* Leaving the loop over ftab keeps the thread's types. *)
LEMMA BreakType ==
  ASSUME NEW s \in BOOLEAN, Break(s)
  PROVE  /\ pc' \in {"poll", "spin"} /\ alive' = s /\ todo' = {} /\ src' = NoFile
         /\ listed' \in [Names -> Nat] /\ rpos' = 0 /\ wire' = <<>>
  BY DEF Break, Goes, CloseFiles

LEMMA CommandFailsType ==
  ASSUME alive \in BOOLEAN, CommandFails
  PROVE  /\ \E s \in BOOLEAN : Break(s)
         /\ Fault \/ UNCHANGED faults
  BY DEF CommandFails

LEMMA ContentType ==
  ASSUME NEW v \in Versions, len \in [Versions -> Nat]
  PROVE  /\ Content(v) \in Seq(Blocks) /\ Len(Content(v)) = len[v]
         /\ \A i \in 1..len[v] : Content(v)[i] = <<v, i>>
  BY DEF Content, Blocks

(* What SIZE says, and whether the session lives then. *)
LEMMA FtpSizeType ==
  ASSUME ServerOK, ThreadOK, NEW n \in Names, NEW size \in {SizeOf(n), 0},
         FtpSize(n, size)
  PROVE  /\ size \in Nat /\ alive' \in BOOLEAN
         /\ Fault \/ UNCHANGED faults
         /\ size > 0 => rtmp[n] \in Seq(Blocks) /\ size = Len(rtmp[n])
<1>1. size > 0 \/ size # 0 => rtmp[n] \in Seq(Blocks) /\ size = Len(rtmp[n])
  BY DEF SizeOf, ServerOK
<1>2. size \in Nat
  BY <1>1
<1>3. alive' \in BOOLEAN
  BY DEF FtpSize, ThreadOK
<1>4. Fault \/ UNCHANGED faults
  BY DEF FtpSize
<1>5. QED BY <1>1, <1>2, <1>3, <1>4

(* What is left of a transfer belongs to a file that is there. *)
LEMMA AbandonType ==
  ASSUME ServerOK, NEW n \in Names, NEW at \in Places,
         NEW rest \in Seq(Blocks) \cup {<<NoFile>>}, Abandon(n, at, rest),
         at = "tmp" => rtmp[n] \in Seq(Blocks),
         at = "dest" => remote[n] \in Seq(Blocks)
  PROVE  /\ stray' \in [Names -> Leftovers]
         /\ \A m \in Names : /\ (stray'[m].at = "tmp" => rtmp[m] \in Seq(Blocks))
                             /\ (stray'[m].at = "dest" => remote[m] \in Seq(Blocks))
<1>1. CASE UNCHANGED stray
  BY <1>1 DEF ServerOK
<1>2. CASE stray' = [stray EXCEPT ![n] = [at |-> at, rest |-> rest]]
  <2>1. [at |-> at, rest |-> rest] \in Leftovers
    BY DEF Leftovers
  <2>2. stray' \in [Names -> Leftovers]
    BY <1>2, <2>1 DEF ServerOK
  <2>3. \A m \in Names : stray'[m] = IF m = n THEN [at |-> at, rest |-> rest]
                                              ELSE stray[m]
    BY <1>2 DEF ServerOK
  <2>4. QED BY <2>2, <2>3 DEF ServerOK
<1>3. QED BY <1>1, <1>2 DEF Abandon

(* What the server's directories hold after a rename. *)
LEMMA RenameRemoteType ==
  ASSUME SourceOK, ServerOK, NEW n \in Names, rtmp[n] # NoFile, RenameRemote(n)
  PROVE  /\ rtmp' \in [Names -> Seq(Blocks) \cup {NoFile}]
         /\ remote' \in [Names -> Seq(Blocks) \cup {NoFile}]
         /\ delivered' \subseteq Versions
         /\ \A m \in Names :
              /\ rtmp'[m] = IF m = n THEN NoFile ELSE rtmp[m]
              /\ remote'[m] = IF m = n THEN rtmp[n] ELSE remote[m]
         /\ stray' \in [Names -> Leftovers]
         /\ \A m \in Names : /\ (stray'[m].at = "tmp" => rtmp'[m] \in Seq(Blocks))
                             /\ (stray'[m].at = "dest" => remote'[m] \in Seq(Blocks))
<1>1. \A m \in Names : /\ stray[m] \in Leftovers
                       /\ stray'[m] = IF m = n
                            THEN [stray[n] EXCEPT !.at = Moved(stray[n].at)]
                            ELSE stray[m]
  BY DEF RenameRemote, ServerOK
<1>2. [stray[n] EXCEPT !.at = Moved(stray[n].at)] =
        [at |-> Moved(stray[n].at), rest |-> stray[n].rest]
  BY <1>1 DEF Leftovers
<1>3. stray'[n] = [at |-> Moved(stray[n].at), rest |-> stray[n].rest]
  BY <1>1, <1>2
<1>4. stray' \in [Names -> Leftovers]
  BY <1>1, <1>3 DEF RenameRemote, ServerOK, Leftovers, Moved, Places
<1>5. /\ rtmp' \in [Names -> Seq(Blocks) \cup {NoFile}]
      /\ remote' \in [Names -> Seq(Blocks) \cup {NoFile}]
      /\ delivered' \subseteq Versions
      /\ \A m \in Names :
           /\ rtmp'[m] = IF m = n THEN NoFile ELSE rtmp[m]
           /\ remote'[m] = IF m = n THEN rtmp[n] ELSE remote[m]
  BY DEF RenameRemote, SourceOK, ServerOK
<1>6. \A m \in Names : /\ (stray'[m].at = "tmp" => rtmp'[m] \in Seq(Blocks))
                       /\ (stray'[m].at = "dest" => remote'[m] \in Seq(Blocks))
  <2> TAKE m \in Names
  <2>1. CASE m = n
    BY <1>3, <1>5, <2>1 DEF Moved, ServerOK
  <2>2. CASE m # n
    BY <1>1, <1>5, <2>2 DEF ServerOK
  <2>3. QED BY <2>1, <2>2
<1>7. QED BY <1>4, <1>5, <1>6

(* And after a block is stored. *)
LEMMA AppendToType ==
  ASSUME ServerOK, NEW at \in Places, NEW n \in Names, NEW b \in Blocks,
         AppendTo(at, n, b),
         at = "tmp" => rtmp[n] \in Seq(Blocks),
         at = "dest" => remote[n] \in Seq(Blocks)
  PROVE  /\ rtmp' \in [Names -> Seq(Blocks) \cup {NoFile}]
         /\ remote' \in [Names -> Seq(Blocks) \cup {NoFile}]
         /\ \A m \in Names :
              /\ (rtmp[m] \in Seq(Blocks) => rtmp'[m] \in Seq(Blocks))
              /\ (remote[m] \in Seq(Blocks) => remote'[m] \in Seq(Blocks))
<1>1. CASE at = "tmp"
  <2>1. Append(rtmp[n], b) \in Seq(Blocks)
    BY <1>1, AppendProperties
  <2>2. QED BY <1>1, <2>1 DEF AppendTo, ServerOK
<1>2. CASE at = "dest"
  <2>1. Append(remote[n], b) \in Seq(Blocks)
    BY <1>2, AppendProperties
  <2>2. QED BY <1>2, <2>1 DEF AppendTo, ServerOK
<1>3. CASE at = "none"
  BY <1>3 DEF AppendTo, ServerOK
<1>4. QED BY <1>1, <1>2, <1>3 DEF Places

(* A producer writes no more of a file than there is to it. *)
LEMMA PublishLen ==
  ASSUME NEW v \in Versions, Publish(v), len \in [Versions -> Nat]
  PROVE  /\ len' \in [Versions -> Nat] /\ len'[v] <= Size[v]
         /\ \A w \in Versions \ {v} : len'[w] = len[w]
         /\ "grow" \notin env => len'[v] = Size[v]
<1>1. Size[v] \in Nat /\ Size[v] \in 0..Size[v]
  BY SizeAssumption
<1>2. CASE "grow" \in env
  <2>1. PICK k \in 0..Size[v] : len' = [len EXCEPT ![v] = k]
    BY <1>2 DEF Publish
  <2>2. QED BY <1>1, <1>2, <2>1
<1>3. CASE "grow" \notin env
  <2>1. len' = [len EXCEPT ![v] = Size[v]]
    BY <1>3 DEF Publish
  <2>2. QED BY <1>1, <2>1
<1>4. QED BY <1>2, <1>3

-----------------------------------------------------------------------------
(* Type correctness. *)
LEMMA TypeInit == Init => TypeOK
<1> SUFFICES ASSUME Init PROVE TypeOK
  OBVIOUS
<1>1. faults \in 0..MaxFaults /\ <<>> \in Seq(Blocks)
  BY FaultsAssumption, EmptySeq DEF Init
<1>2. SourceOK /\ ThreadOK
  BY <1>1 DEF Init, SourceOK, ThreadOK, Entries
<1>3. ServerOK
  BY <1>1 DEF Init, ServerOK, Nothing, Leftovers, Places
<1>4. QED BY <1>2, <1>3 DEF TypeOK

(* A step that ends in Break, whatever else it does to the files. *)
LEMMA TypeAfterBreak ==
  ASSUME TypeOK, NEW s \in BOOLEAN, Break(s), Fault \/ UNCHANGED faults,
         ServerOK', UNCHANGED source
  PROVE  TypeOK'
<1>1. faults' \in 0..MaxFaults
  BY FaultType DEF TypeOK, ThreadOK
<1>2. wire' \in Seq(Blocks)
  BY BreakType, EmptySeq
<1>3. ThreadOK'
  BY <1>1, <1>2, BreakType DEF ThreadOK, Entries
<1>4. QED BY <1>3 DEF TypeOK, SourceOK, source, Entries

(* A rename, and nothing else that the server's types are about. *)
LEMMA TypeAfterRename ==
  ASSUME TypeOK, NEW n \in Names, rtmp[n] # NoFile, RenameRemote(n),
         late' \in [Names -> Nat], sink' \in Places
  PROVE  ServerOK'
  BY RenameRemoteType DEF TypeOK, ServerOK

LEMMA TypeNext == SharedInv /\ [Next]_vars => TypeOK'
<1> SUFFICES ASSUME SharedInv, [Next]_vars PROVE TypeOK'
  OBVIOUS
<1>0. /\ TypeOK /\ SourceOK /\ ServerOK /\ ThreadOK
      /\ Busy => src \in Versions /\ Cur \in Names
      /\ Fault \/ UNCHANGED faults => faults' \in 0..MaxFaults
      /\ <<>> \in Seq(Blocks)
      /\ UNCHANGED source => SourceOK'
      /\ UNCHANGED server => ServerOK'
  BY NameOfAssumption, FaultType, EmptySeq
  DEF SharedInv, TypeOK, SourceOK, ServerOK, ThreadOK, Busy, Cur, source, server
<1>1. CASE Session \/ SessionFails \/ Spin
  <2>1. ThreadOK'
    BY <1>0, <1>1 DEF Session, SessionFails, Spin, ThreadOK, server, thread, Cur
  <2>2. QED
    BY <1>0, <1>1, <2>1 DEF Session, SessionFails, Spin, TypeOK
<1>2. CASE Scan
  <2>1. todo' \subseteq Names
    BY <1>2 DEF Scan, Present
  <2>2. listed' \in [Names -> Nat]
    BY <1>0, <1>2, <2>1 DEF Scan, Present, SourceOK, Entries
  <2>3. ThreadOK'
    BY <1>0, <1>2, <2>1, <2>2 DEF Scan, ThreadOK
  <2>4. QED BY <1>0, <1>2, <2>3 DEF Scan, TypeOK
<1>3. CASE EndPass
  BY <1>0, <1>3, TypeAfterBreak DEF EndPass, ThreadOK
<1>4. ASSUME NEW n \in Names, AskSize(n) PROVE TypeOK'
  <2>1. PICK p \in {SizeOf(n), 0} : FtpSize(n, p) /\ rpos' = p
    BY <1>4 DEF AskSize
  <2>2. p \in Nat /\ alive' \in BOOLEAN /\ (Fault \/ UNCHANGED faults)
    BY <1>0, <2>1, FtpSizeType
  <2>3. src' \in Versions /\ pc' \in {"start", "spin"}
    BY <1>0, <1>4
    DEF AskSize, Goes, SharedInv, SourceInv, SourceOK, Entries
  <2>4. ThreadOK'
    BY <1>0, <1>4, <2>1, <2>2, <2>3 DEF AskSize, ThreadOK, Entries
  <2>5. QED BY <1>0, <1>4, <2>4 DEF AskSize, TypeOK
<1>5. CASE Stor
  <2>1. PICK p \in {rpos, 0} : Start(Cur, p)
    BY <1>5 DEF Stor
  <2>2. Cur \in Names /\ src \in Versions /\ rpos \in Nat /\ p \in Nat
    BY <1>0, <1>5, <2>1 DEF Stor, Busy, ThreadOK
  <2>3. /\ rtmp' \in [Names -> Seq(Blocks) \cup {NoFile}]
        /\ \A m \in Names : rtmp[m] \in Seq(Blocks) => rtmp'[m] \in Seq(Blocks)
        /\ rtmp'[Cur] \in Seq(Blocks) /\ rpos' = p
    BY <1>0, <2>1, <2>2 DEF Start, ServerOK
  <2>4. ServerOK'
    BY <1>0, <1>5, <2>3 DEF Stor, ServerOK, Places
  <2>5. ThreadOK'
    BY <1>0, <1>5, <2>2, <2>3 DEF Stor, ThreadOK, Cur
  <2>6. QED BY <1>0, <1>5, <2>4, <2>5 DEF Stor, TypeOK
<1>6. CASE StorFails
  <2>1. /\ (\E s \in BOOLEAN : Break(s)) /\ (Fault \/ UNCHANGED faults)
        /\ Cur \in Names /\ UNCHANGED <<source, remote, late, sink, delivered>>
    BY <1>0, <1>6, CommandFailsType DEF StorFails, ThreadOK, Busy
  <2>2. CASE UNCHANGED rtmp /\ Abandon(Cur, "none", <<NoFile>>)
    <3>1. "none" \in Places
      BY DEF Places
    <3>2. ServerOK'
      BY <1>0, <2>1, <2>2, <3>1, AbandonType DEF ServerOK
    <3>3. QED BY <1>0, <2>1, <3>2, TypeAfterBreak
  <2>3. CASE rtmp' = [rtmp EXCEPT ![Cur] = <<>>] /\ UNCHANGED stray
    <3>1. ServerOK'
      BY <1>0, <2>1, <2>3 DEF ServerOK
    <3>2. QED BY <1>0, <2>1, <3>1, TypeAfterBreak
  <2>4. QED BY <1>6, <2>2, <2>3 DEF StorFails
<1>7. CASE Send
  <2>1. <<src, rpos + 1>> \in Blocks /\ rpos + 1 \in Nat
    BY <1>0, <1>7 DEF Send, Busy, ThreadOK, Blocks
  <2>2. wire' \in Seq(Blocks)
    BY <1>0, <1>7, <2>1, AppendProperties DEF Send, ThreadOK
  <2>3. ThreadOK'
    BY <1>0, <1>7, <2>1, <2>2 DEF Send, ThreadOK, server, Cur
  <2>4. QED BY <1>0, <1>7, <2>3 DEF Send, TypeOK
<1>8. CASE Store
  <2>1. /\ Cur \in Names /\ Head(wire) \in Blocks /\ wire' \in Seq(Blocks)
        /\ sink \in Places /\ AppendTo(sink, Cur, Head(wire))
        /\ sink = "tmp" => rtmp[Cur] \in Seq(Blocks)
        /\ sink = "dest" => remote[Cur] \in Seq(Blocks)
    BY <1>0, <1>8, HeadTailProperties DEF Store, ThreadOK, ServerOK, Busy
  <2>2. /\ rtmp' \in [Names -> Seq(Blocks) \cup {NoFile}]
        /\ remote' \in [Names -> Seq(Blocks) \cup {NoFile}]
        /\ \A m \in Names :
             /\ (rtmp[m] \in Seq(Blocks) => rtmp'[m] \in Seq(Blocks))
             /\ (remote[m] \in Seq(Blocks) => remote'[m] \in Seq(Blocks))
    BY <1>0, <2>1, AppendToType
  <2>3. ServerOK'
    BY <1>0, <1>8, <2>2 DEF Store, ServerOK
  <2>4. ThreadOK'
    BY <1>0, <1>8, <2>1, <2>2 DEF Store, ThreadOK, Cur
  <2>5. QED BY <1>0, <1>8, <2>3, <2>4 DEF Store, TypeOK
<1>9. ASSUME pc = "xfer", Abandon(Cur, sink, wire) \/ UNCHANGED stray,
             UNCHANGED <<rtmp, remote, late, sink, delivered>>
      PROVE  ServerOK'
  <2>1. /\ Cur \in Names /\ sink \in Places /\ wire \in Seq(Blocks)
        /\ sink = "tmp" => rtmp[Cur] \in Seq(Blocks)
        /\ sink = "dest" => remote[Cur] \in Seq(Blocks)
    BY <1>0, <1>9 DEF ThreadOK, ServerOK, Busy
  <2>2. CASE Abandon(Cur, sink, wire)
    BY <1>0, <1>9, <2>1, <2>2, AbandonType DEF ServerOK
  <2>3. CASE UNCHANGED stray
    BY <1>0, <1>9, <2>3 DEF ServerOK
  <2>4. QED BY <1>9, <2>2, <2>3
<1>10. CASE Eof
  <2>1. /\ alive' \in BOOLEAN /\ faults' \in 0..MaxFaults
        /\ pc' \in {"verify", "spin"} /\ UNCHANGED <<todo, listed, src, rpos>>
        /\ wire' = <<>> /\ src \in Versions /\ UNCHANGED source
    BY <1>0, <1>10 DEF Eof, Goes, ThreadOK, Busy
  <2>2. ServerOK'
    BY <1>9, <1>10 DEF Eof
  <2>3. ThreadOK'
    BY <1>0, <2>1 DEF ThreadOK
  <2>4. QED BY <1>0, <2>1, <2>2, <2>3 DEF TypeOK
<1>11. CASE WriteError
  <2>1. ServerOK'
    BY <1>9, <1>11 DEF WriteError
  <2>2. QED BY <1>0, <1>11, <2>1, TypeAfterBreak DEF WriteError
<1>12. ASSUME VerifySize \/ VerifyFails
       PROVE  /\ alive' \in BOOLEAN /\ (Fault \/ UNCHANGED faults)
              /\ UNCHANGED <<source, server>> /\ pc = "verify"
              /\ src \in Versions
  BY <1>0, <1>12, FtpSizeType DEF VerifySize, VerifyFails, Busy
<1>13. CASE VerifySize
  <2>1. ThreadOK'
    BY <1>0, <1>12, <1>13 DEF VerifySize, Goes, ThreadOK
  <2>2. QED BY <1>0, <1>12, <1>13, <2>1 DEF TypeOK
<1>14. CASE VerifyFails
  <2>1. \E s \in BOOLEAN : Break(s)
    BY <1>12, <1>14 DEF VerifyFails
  <2>2. QED BY <1>0, <1>12, <1>14, <2>1, TypeAfterBreak
<1>15. CASE RenameOk
  <2>1. Cur \in Names /\ rtmp[Cur] # NoFile /\ RenameRemote(Cur) /\ src \in Versions
    BY <1>0, <1>15 DEF RenameOk, Renaming, Busy
  <2>2. ServerOK'
    BY <1>0, <1>15, <2>1, TypeAfterRename DEF RenameOk, ServerOK
  <2>3. ThreadOK'
    BY <1>0, <1>15, <2>1 DEF RenameOk, ThreadOK
  <2>4. QED BY <1>0, <1>15, <2>2, <2>3 DEF RenameOk, TypeOK
<1>16. CASE RenameReplyLost
  <2>1. Cur \in Names /\ rtmp[Cur] # NoFile /\ RenameRemote(Cur)
    BY <1>0, <1>16 DEF RenameReplyLost, Renaming, Busy
  <2>2. ServerOK'
    BY <1>0, <1>16, <2>1, TypeAfterRename DEF RenameReplyLost, ServerOK
  <2>3. QED BY <1>0, <1>16, <2>2, TypeAfterBreak DEF RenameReplyLost
<1>17. CASE RenameLate
  <2>1. late' \in [Names -> Nat]
    <3>1. Cur \in Names /\ late' = [late EXCEPT ![Cur] = late[Cur] + 1]
      BY <1>0, <1>17 DEF RenameLate, Renaming, Busy
    <3>2. QED BY <1>0, <3>1 DEF ServerOK
  <2>2. ServerOK'
    BY <1>0, <1>17, <2>1 DEF RenameLate, ServerOK
  <2>3. QED BY <1>0, <1>17, <2>2, TypeAfterBreak DEF RenameLate
<1>18. CASE RenameFails
  <2>1. (\E s \in BOOLEAN : Break(s)) /\ (Fault \/ UNCHANGED faults)
    BY <1>0, <1>18, CommandFailsType DEF RenameFails, ThreadOK
  <2>2. QED BY <1>0, <1>18, <2>1, TypeAfterBreak DEF RenameFails
<1>19. CASE RemoveOk
  <2>1. SourceOK'
    BY <1>0, <1>19 DEF RemoveOk, RemoveLocal, SourceOK, Entries
  <2>2. ThreadOK'
    BY <1>0, <1>19 DEF RemoveOk, CloseFiles, ThreadOK, Entries
  <2>3. QED BY <1>0, <1>19, <2>1, <2>2 DEF RemoveOk, TypeOK
<1>20. CASE RemoveFails
  BY <1>0, <1>20, TypeAfterBreak DEF RemoveFails, ThreadOK
<1>21. ASSUME NEW n \in Names, LateRename(n) PROVE TypeOK'
  <2>1. late' \in [Names -> Nat] /\ UNCHANGED <<source, thread, faults>>
    BY <1>0, <1>21 DEF LateRename, ServerOK
  <2>2. CASE rtmp[n] = NoFile
    <3>1. UNCHANGED <<rtmp, remote, stray, sink, delivered>>
      BY <1>21, <2>2 DEF LateRename
    <3>2. ServerOK' /\ ThreadOK'
      BY <1>0, <2>1, <3>1 DEF ServerOK, ThreadOK, thread, Cur
    <3>3. QED BY <1>0, <2>1, <3>2 DEF TypeOK
  <2>3. CASE rtmp[n] # NoFile
    <3>1. /\ RenameRemote(n)
          /\ sink' = IF pc = "xfer" /\ Cur = n THEN Moved(sink) ELSE sink
      BY <1>21, <2>3 DEF LateRename
    <3>2. ServerOK'
      BY <1>0, <2>1, <2>3, <3>1, TypeAfterRename DEF ServerOK, Moved, Places
    <3>3. \A m \in Names : /\ rtmp'[m] = IF m = n THEN NoFile ELSE rtmp[m]
                           /\ remote'[m] = IF m = n THEN rtmp[n] ELSE remote[m]
      BY <1>0, <2>3, <3>1, RenameRemoteType
    <3>4. /\ pc = "xfer" /\ sink' = "tmp" => rtmp'[Cur] \in Seq(Blocks)
          /\ pc = "xfer" /\ sink' = "dest" => remote'[Cur] \in Seq(Blocks)
      BY <1>0, <2>3, <3>1, <3>3 DEF ThreadOK, ServerOK, Moved, Busy
    <3>5. ThreadOK'
      BY <1>0, <2>1, <3>4 DEF ThreadOK, thread, Cur
    <3>6. QED BY <1>0, <2>1, <3>2, <3>5 DEF TypeOK
  <2>4. QED BY <2>2, <2>3
<1>22. ASSUME NEW n \in Names, LateStore(n) PROVE TypeOK'
  <2>1. /\ stray[n] \in Leftovers
        /\ (stray[n].at = "tmp" => rtmp[n] \in Seq(Blocks))
        /\ (stray[n].at = "dest" => remote[n] \in Seq(Blocks))
        /\ UNCHANGED <<source, late, sink, delivered, thread, faults>>
    BY <1>0, <1>22 DEF LateStore, ServerOK
  <2>2. CASE stray[n].rest = <<NoFile>>
    <3>1. /\ rtmp' = [rtmp EXCEPT ![n] = <<>>] /\ remote' = remote
          /\ stray' = [stray EXCEPT ![n] = [at |-> "tmp", rest |-> <<>>]]
      BY <1>22, <2>2 DEF LateStore
    <3>2. ServerOK'
      BY <1>0, <2>1, <3>1 DEF ServerOK, Leftovers, Places
    <3>3. ThreadOK'
      BY <1>0, <2>1, <3>1 DEF ThreadOK, ServerOK, thread, Cur
    <3>4. QED BY <1>0, <2>1, <3>2, <3>3 DEF TypeOK
  <2>3. CASE stray[n].rest # <<NoFile>>
    <3>1. /\ stray[n].rest # <<>> /\ AppendTo(stray[n].at, n, Head(stray[n].rest))
          /\ stray' = [stray EXCEPT ![n].rest = Tail(stray[n].rest)]
      BY <1>22, <2>3 DEF LateStore
    <3>2. /\ stray[n].at \in Places /\ stray[n].rest \in Seq(Blocks)
          /\ Head(stray[n].rest) \in Blocks /\ Tail(stray[n].rest) \in Seq(Blocks)
      BY <2>1, <2>3, <3>1, HeadTailProperties DEF Leftovers
    <3>3. /\ rtmp' \in [Names -> Seq(Blocks) \cup {NoFile}]
          /\ remote' \in [Names -> Seq(Blocks) \cup {NoFile}]
          /\ \A m \in Names :
               /\ (rtmp[m] \in Seq(Blocks) => rtmp'[m] \in Seq(Blocks))
               /\ (remote[m] \in Seq(Blocks) => remote'[m] \in Seq(Blocks))
      BY <1>0, <2>1, <3>1, <3>2, AppendToType
    <3>4. stray'[n] = [at |-> stray[n].at, rest |-> Tail(stray[n].rest)]
      BY <1>0, <2>1, <3>1 DEF ServerOK, Leftovers
    <3>5. /\ stray' \in [Names -> Leftovers]
          /\ \A m \in Names : stray'[m].at = stray[m].at
      BY <1>0, <3>1, <3>2, <3>4 DEF ServerOK, Leftovers
    <3>6. ServerOK'
      BY <1>0, <2>1, <3>3, <3>5 DEF ServerOK
    <3>7. ThreadOK'
      BY <1>0, <2>1, <3>3 DEF ThreadOK, ServerOK, thread, Cur, Busy
    <3>8. QED BY <1>0, <2>1, <3>6, <3>7 DEF TypeOK
  <2>4. QED BY <2>2, <2>3
<1>23. CASE Crash
  <2>1. CASE pc = "xfer"
    <3>1. ServerOK'
      BY <1>9, <1>23, <2>1 DEF Crash
    <3>2. QED BY <1>0, <1>23, <3>1, TypeAfterBreak DEF Crash
  <2>2. CASE pc # "xfer"
    <3>1. ServerOK'
      BY <1>0, <1>23, <2>2 DEF Crash, server
    <3>2. QED BY <1>0, <1>23, <3>1, TypeAfterBreak DEF Crash
  <2>3. QED BY <2>1, <2>2
<1>24. ASSUME NEW v \in Versions, Publish(v) PROVE TypeOK'
  <2>1. len' \in [Versions -> Nat]
    BY <1>0, <1>24, PublishLen DEF SourceOK
  <2>2. local' \in [Names -> Entries]
    BY <1>0, <1>24, NameOfAssumption DEF Publish, SourceOK, Entries
  <2>3. SourceOK'
    BY <1>0, <1>24, <2>1, <2>2 DEF Publish, SourceOK
  <2>4. ThreadOK'
    BY <1>0, <1>24 DEF Publish, ThreadOK, server, thread, Cur
  <2>5. QED BY <1>0, <1>24, <2>3, <2>4 DEF Publish, TypeOK
<1>25. ASSUME NEW v \in Versions, Grow(v) PROVE TypeOK'
  <2>1. len' \in [Versions -> Nat]
    BY <1>0, <1>25 DEF Grow, SourceOK
  <2>2. SourceOK' /\ ThreadOK'
    BY <1>0, <1>25, <2>1 DEF Grow, SourceOK, ThreadOK, server, thread, Cur
  <2>3. QED BY <1>0, <1>25, <2>2 DEF Grow, TypeOK
<1>26. CASE UNCHANGED vars
  <2>1. ThreadOK'
    BY <1>0, <1>26 DEF vars, server, thread, ThreadOK, Cur
  <2>2. QED BY <1>0, <1>26, <2>1 DEF vars, TypeOK
<1>27. QED
  BY <1>1, <1>2, <1>3, <1>4, <1>5, <1>6, <1>7, <1>8, <1>10, <1>11, <1>13,
     <1>14, <1>15, <1>16, <1>17, <1>18, <1>19, <1>20, <1>21, <1>22, <1>23,
     <1>24, <1>25, <1>26
  DEF Next, Thread, Surroundings

-----------------------------------------------------------------------------
(* What holds in every environment: the local directories. *)
LEMMA EnvStays == [Next]_vars => env' = env
  BY DEF Next, Thread, Surroundings, vars

LEMMA SharedInit == Init => SharedInv
<1> SUFFICES ASSUME Init PROVE SharedInv
  OBVIOUS
<1>1. SourceInv
  BY SizeAssumption DEF Init, SourceInv, Busy
<1>2. LateInv /\ BackupKeepsAll
  BY DEF Init, LateInv, BackupKeepsAll
<1>3. QED BY <1>1, <1>2, TypeInit DEF SharedInv

(* Nothing is known, or claimed, of a thread that has left the loop. *)
LEMMA BreakFrame ==
  ASSUME NEW s, Break(s)
  PROVE  todo' = {} /\ pc' \in {"poll", "spin"} /\ wire' = <<>> /\ ~Busy'
  BY DEF Break, Goes, CloseFiles, Busy

(* What a step that leaves the local directories alone cannot disturb. *)
LEMMA SourceFrame ==
  ASSUME SharedInv, env' = env, UNCHANGED source, todo' \subseteq todo,
         Busy' => Busy /\ src' = src,
         pc' # "xfer" => wire' = <<>>
  PROVE  SourceInv' /\ BackupKeepsAll'
<1>1. SourceInv'
  BY DEF SharedInv, SourceInv, Cur, source
<1>2. BackupKeepsAll'
  BY DEF SharedInv, BackupKeepsAll, source
<1>3. QED BY <1>1, <1>2

LEMMA SourceAfterBreak ==
  ASSUME SharedInv, env' = env, UNCHANGED source, NEW s, Break(s)
  PROVE  SourceInv' /\ BackupKeepsAll'
  BY SourceFrame, BreakFrame

LEMMA SourceAskSize ==
  ASSUME SharedInv, env' = env, NEW n \in Names, AskSize(n)
  PROVE  SourceInv' /\ BackupKeepsAll'
<1>1. /\ UNCHANGED <<source, wire>> /\ pc = "loop" /\ pc' \in {"start", "spin"}
      /\ src' = local[n] /\ todo' = todo \ {n} /\ n \in todo
  BY DEF AskSize, Goes
<1>2. Cur' = n
  BY <1>1 DEF SharedInv, SourceInv, Cur
<1>3. QED
  BY <1>1, <1>2 DEF SharedInv, SourceInv, BackupKeepsAll, source

LEMMA SourceScan ==
  ASSUME SharedInv, env' = env, Scan
  PROVE  SourceInv' /\ BackupKeepsAll'
<1>1. UNCHANGED <<source, wire>> /\ pc' = "loop" /\ todo' = Present /\ pc = "poll"
  BY DEF Scan
<1>2. QED
  BY <1>1 DEF SharedInv, SourceInv, BackupKeepsAll, Busy, Present, source

LEMMA SourceRemoveOk ==
  ASSUME SharedInv, env' = env, RemoveOk
  PROVE  SourceInv' /\ BackupKeepsAll'
<1>1. /\ pc' = "loop" /\ wire' = <<>>
      /\ Cur \in Names /\ Cur \notin todo
      /\ local[Cur] = src /\ src \in published /\ NameOf[src] = Cur
      /\ UNCHANGED <<len, published, todo>>
      /\ \A n \in Names : local'[n] = IF n = Cur THEN NoFile ELSE local[n]
      /\ "backup" \in env =>
           \A n \in Names : lbak'[n] = IF n = Cur THEN src ELSE lbak[n]
  BY NameOfAssumption, NoFileAssumption
  DEF RemoveOk, RemoveLocal, CloseFiles, SharedInv, TypeOK, SourceOK, ThreadOK,
      SourceInv, Busy, Cur
<1>2. SourceInv'
  BY <1>1 DEF SharedInv, TypeOK, SourceOK, ThreadOK, SourceInv, Busy
<1>3. BackupKeepsAll'
  <2> SUFFICES ASSUME "backup" \in env, NEW v \in published
               PROVE  \/ v \in {local'[NameOf[v]], lbak'[NameOf[v]]}
                      \/ \E w \in published \ {v} :
                           NameOf[w] = NameOf[v] /\ lbak'[NameOf[v]] = w
    BY <1>1 DEF BackupKeepsAll
  <2>1. NameOf[v] \in Names
    BY NameOfAssumption DEF SharedInv, TypeOK, SourceOK
  <2>2. CASE NameOf[v] = Cur
    BY <1>1, <2>1, <2>2
  <2>3. CASE NameOf[v] # Cur
    BY <1>1, <2>1, <2>3 DEF SharedInv, BackupKeepsAll
  <2>4. QED BY <2>2, <2>3
<1>4. QED BY <1>2, <1>3

LEMMA SourcePublish ==
  ASSUME SharedInv, env' = env, NEW v \in Versions, Publish(v)
  PROVE  SourceInv' /\ BackupKeepsAll'
<1> DEFINE n == NameOf[v]
<1>1. /\ v \notin published /\ n \in Names /\ local[n] = NoFile /\ v # NoFile
      /\ published' = published \cup {v}
      /\ \A m \in Names : local'[m] = IF m = n THEN v ELSE local[m]
      /\ UNCHANGED <<lbak, thread>> /\ Cur' = Cur
  BY NameOfAssumption, NoFileAssumption
  DEF Publish, thread, Cur, SharedInv, TypeOK, SourceOK
<1>2. /\ len'[v] <= Size[v] /\ \A w \in Versions \ {v} : len'[w] = len[w]
  BY PublishLen DEF SharedInv, TypeOK, SourceOK
<1>3. Busy => Cur \in Names /\ local[Cur] = src /\ src # NoFile
  BY NameOfAssumption, NoFileAssumption
  DEF SharedInv, TypeOK, ThreadOK, SourceInv, Busy, Cur
<1>4. Busy => local'[Cur] = src
  BY <1>1, <1>3
<1>5. SourceInv'
  BY <1>1, <1>2, <1>4
  DEF SharedInv, SourceInv, TypeOK, SourceOK, ThreadOK, Busy, thread
<1>6. BackupKeepsAll'
  <2> SUFFICES ASSUME "backup" \in env, NEW w \in published \cup {v}
               PROVE  \/ w \in {local'[NameOf[w]], lbak[NameOf[w]]}
                      \/ \E x \in (published \cup {v}) \ {w} :
                           NameOf[x] = NameOf[w] /\ lbak[NameOf[w]] = x
    BY <1>1 DEF BackupKeepsAll
  <2>1. CASE w = v
    BY <1>1, <2>1
  <2>2. CASE w \in published
    <3>1. w # NoFile /\ NameOf[w] \in Names
      BY <2>2, NameOfAssumption, NoFileAssumption DEF SharedInv, TypeOK, SourceOK
    <3>2. CASE w = local[NameOf[w]]
      BY <1>1, <3>1, <3>2
    <3>3. CASE w = lbak[NameOf[w]]
      BY <3>3
    <3>4. CASE \E x \in published \ {w} :
                 NameOf[x] = NameOf[w] /\ lbak[NameOf[w]] = x
      BY <3>4
    <3>5. QED BY <2>2, <3>2, <3>3, <3>4 DEF SharedInv, BackupKeepsAll
  <2>3. QED BY <2>1, <2>2
<1>7. QED BY <1>5, <1>6

LEMMA SourceGrow ==
  ASSUME SharedInv, env' = env, NEW v \in Versions, Grow(v)
  PROVE  SourceInv' /\ BackupKeepsAll'
<1>1. UNCHANGED <<local, lbak, published, thread>> /\ Cur' = Cur
  BY DEF Grow, thread, Cur
<1>2. \A w \in Versions : len'[w] <= Size[w]
  <2>1. len \in [Versions -> Nat] /\ \A w \in Versions : len[w] <= Size[w]
    BY DEF SharedInv, TypeOK, SourceOK, SourceInv
  <2>2. len[v] + 1 <= Size[v] /\ len' = [len EXCEPT ![v] = len[v] + 1]
    BY <2>1, SizeAssumption DEF Grow
  <2>3. QED BY <2>1, <2>2
<1>3. SourceInv'
  BY <1>1, <1>2 DEF SharedInv, SourceInv, Busy, thread
<1>4. BackupKeepsAll'
  BY <1>1 DEF SharedInv, BackupKeepsAll
<1>5. QED BY <1>3, <1>4

LEMMA SourceNext ==
  ASSUME SharedInv, [Next]_vars PROVE SourceInv' /\ BackupKeepsAll'
<1>0. env' = env /\ (pc # "xfer" => wire = <<>>)
  BY EnvStays DEF SharedInv, SourceInv
<1>1. CASE Session \/ SessionFails \/ Spin
  BY <1>0, <1>1, SourceFrame DEF Session, SessionFails, Spin, Busy, thread
<1>2. CASE Scan
  BY <1>0, <1>2, SourceScan
<1>3. CASE EndPass \/ WriteError \/ RenameReplyLost \/ RenameLate \/ RemoveFails \/ Crash
  BY <1>0, <1>3, SourceAfterBreak
  DEF EndPass, WriteError, RenameReplyLost, RenameLate, RemoveFails, Crash
<1>4. CASE StorFails \/ RenameFails \/ VerifyFails
  BY <1>0, <1>4, SourceAfterBreak
  DEF StorFails, RenameFails, VerifyFails, CommandFails
<1>5. ASSUME NEW n \in Names, AskSize(n) PROVE SourceInv' /\ BackupKeepsAll'
  BY <1>0, <1>5, SourceAskSize
<1>6. CASE Stor \/ Send \/ Store \/ Eof
  <2>1. /\ UNCHANGED <<source, todo, src>> /\ Busy
        /\ pc' # "xfer" => wire' = <<>>
    BY <1>6 DEF Stor, Send, Store, Eof, Goes, Busy, server
  <2>2. QED BY <1>0, <2>1, SourceFrame
<1>7. CASE VerifySize \/ RenameOk
  <2>1. UNCHANGED <<source, todo, src, wire>> /\ Busy /\ pc # "xfer"
    BY <1>7 DEF VerifySize, RenameOk, Renaming, Busy
  <2>2. QED BY <1>0, <2>1, SourceFrame
<1>8. CASE RemoveOk
  BY <1>0, <1>8, SourceRemoveOk
<1>9. ASSUME NEW n \in Names, LateRename(n) \/ LateStore(n)
      PROVE  SourceInv' /\ BackupKeepsAll'
  BY <1>0, <1>9, SourceFrame DEF LateRename, LateStore, Busy, thread
<1>10. ASSUME NEW v \in Versions, Publish(v) \/ Grow(v)
       PROVE  SourceInv' /\ BackupKeepsAll'
  BY <1>0, <1>10, SourcePublish, SourceGrow
<1>11. CASE UNCHANGED vars
  BY <1>0, <1>11, SourceFrame DEF vars, thread, Busy
<1>12. QED
  BY <1>1, <1>2, <1>3, <1>4, <1>5, <1>6, <1>7, <1>8, <1>9, <1>10, <1>11
  DEF Next, Thread, Surroundings

(* Where nothing races, nothing is left of an abandoned session but RNTOs. *)
LEMMA RenameKeepsStray ==
  ASSUME SharedInv, Tidy, NEW n \in Names, RenameRemote(n)
  PROVE  stray' = stray
<1>1. stray = [m \in Names |-> Nothing]
  BY DEF SharedInv, LateInv
<1>2. stray[n] = Nothing /\ stray' = [stray EXCEPT ![n] = [stray[n] EXCEPT !.at = Moved(stray[n].at)]]
  BY <1>1 DEF RenameRemote
<1>3. [Nothing EXCEPT !.at = Moved(Nothing.at)] = Nothing
  BY DEF Nothing, Moved
<1>4. QED BY <1>1, <1>2, <1>3

LEMMA LateNext ==
  ASSUME SharedInv, [Next]_vars PROVE LateInv'
<1>0. env' = env /\ (Tidy' <=> Tidy) /\ (Busy => Cur \in Names)
  BY EnvStays, NameOfAssumption
  DEF Tidy, SharedInv, TypeOK, ThreadOK, Busy, Cur
<1>1. "late" \notin env => late' = late
  <2>1. ASSUME NEW n \in Names, LateRename(n), "late" \notin env PROVE FALSE
    BY <2>1 DEF LateRename, SharedInv, LateInv, TypeOK, ServerOK
  <2>2. QED
    BY <2>1
    DEF Next, Thread, Surroundings, Session, SessionFails, Scan, EndPass, AskSize,
        Stor, StorFails, Send, Store, Eof, WriteError, VerifySize, VerifyFails,
        RenameOk, RenameReplyLost, RenameLate, RenameFails, RemoveOk, RemoveFails,
        Spin, LateStore, Crash, Publish, Grow, vars, server
<1>2. Tidy => stray' = stray
  <2> SUFFICES ASSUME Tidy PROVE stray' = stray
    OBVIOUS
  <2>1. CASE RenameOk \/ RenameReplyLost
    BY <1>0, <2>1, RenameKeepsStray
    DEF RenameOk, RenameReplyLost, Renaming, Busy
  <2>2. ASSUME NEW n \in Names, LateRename(n) PROVE stray' = stray
    BY <2>2, RenameKeepsStray DEF LateRename
  <2>3. ASSUME NEW n \in Names, LateStore(n) PROVE stray' = stray
    <3>1. stray[n].rest = <<>>
      BY DEF SharedInv, LateInv, Nothing
    <3>2. <<>> # <<NoFile>>
      OBVIOUS
    <3>3. QED BY <2>3, <3>1, <3>2 DEF LateStore
  <2>4. QED
    BY <2>1, <2>2, <2>3
    DEF Next, Thread, Surroundings, Session, SessionFails, Scan, EndPass, AskSize,
        Stor, StorFails, Send, Store, Eof, WriteError, VerifySize, VerifyFails,
        RenameLate, RenameFails, RemoveOk, RemoveFails, Spin, Crash, Publish, Grow,
        Abandon, Tidy, vars, server
<1>3. QED BY <1>0, <1>1, <1>2 DEF SharedInv, LateInv

LEMMA SharedNext == SharedInv /\ [Next]_vars => SharedInv'
  BY TypeNext, SourceNext, LateNext DEF SharedInv

-----------------------------------------------------------------------------
(* Where nothing races, the blocks of a file stay together. *)
BlocksInv == /\ SourceOK /\ ServerOK /\ ThreadOK
             /\ SourceInv /\ LateInv
             /\ Tidy
             /\ TmpInv /\ XferInv /\ NoTornFile

LEMMA Parts ==
  ASSUME SharedInv, Tidy, TidyInv PROVE BlocksInv
  BY DEF SharedInv, TypeOK, TidyInv, BlocksInv

LEMMA TidyStays == [Next]_vars => (Tidy' <=> Tidy)
  BY EnvStays DEF Tidy

LEMMA EmptyIsFile == <<>> # NoFile
<1>1. <<>> \in Seq(Versions \X Nat)
  BY EmptySeq
<1>2. QED BY <1>1, NoFileAssumption

LEMMA StartsEmpty == ASSUME NEW v \in Versions PROVE Starts(<<>>, v)
  BY SizeAssumption DEF Starts

LEMMA TidyInit == Init => TidyInv
  BY DEF Init, TidyInv, TmpInv, XferInv, NoTornFile

(* What a step cannot disturb that leaves both sides alone. *)
LEMMA ServerFrame ==
  ASSUME BlocksInv, env' = env, UNCHANGED <<source, rtmp, remote>>
  PROVE  TmpInv' /\ NoTornFile'
<1>1. TmpInv'
  BY DEF BlocksInv, TmpInv, Starts, source
<1>2. NoTornFile'
  BY DEF BlocksInv, NoTornFile, Starts, source
<1>3. QED BY <1>1, <1>2

LEMMA TidyAfterBreak ==
  ASSUME BlocksInv, env' = env, NEW s, Break(s), UNCHANGED <<source, rtmp, remote>>
  PROVE  TidyInv'
<1>1. XferInv'
  BY BreakFrame DEF XferInv
<1>2. QED BY <1>1, ServerFrame DEF TidyInv

(* A thread that has asked for no SIZE and transfers nothing. *)
LEMMA TidyElsewhere ==
  ASSUME BlocksInv, env' = env, UNCHANGED <<source, rtmp, remote>>,
         pc' \notin {"start", "xfer", "remove"}
  PROVE  TidyInv'
  BY ServerFrame DEF TidyInv, XferInv

LEMMA AskSizeStep ==
  ASSUME BlocksInv, env' = env, NEW n \in Names, AskSize(n) PROVE TidyInv'
<1>1. PICK p \in {SizeOf(n), 0} : FtpSize(n, p) /\ rpos' = p
  BY DEF AskSize
<1>2. p > 0 => rtmp[n] # NoFile /\ p = Len(rtmp[n])
  BY <1>1 DEF SizeOf
<1>3. /\ UNCHANGED <<source, rtmp, remote>> /\ pc' \in {"start", "spin"}
      /\ Cur' = n
  BY DEF AskSize, Goes, BlocksInv, SourceInv, server, Cur
<1>4. XferInv'
  BY <1>1, <1>2, <1>3 DEF XferInv
<1>5. QED BY <1>3, <1>4, ServerFrame DEF TidyInv

(* APPE is sent only when what it adds to is what SIZE told of, and STOR     *)
(* starts with an empty file.                                               *)
LEMMA StorStep ==
  ASSUME BlocksInv, env' = env, Stor PROVE TidyInv'
<1>1. PICK p \in {rpos, 0} : Start(Cur, p)
  BY DEF Stor
<1>2. /\ pc = "start" /\ src \in Versions /\ Cur \in Names /\ Cur' = Cur
      /\ local[Cur] = src /\ src # NoFile
      /\ pc' = "xfer" /\ sink' = "tmp" /\ src' = src
      /\ wire' = <<>> /\ rpos' = p /\ rpos \in Nat /\ p \in Nat
      /\ UNCHANGED <<source, remote>>
  BY <1>1, NameOfAssumption, NoFileAssumption
  DEF Stor, Start, BlocksInv, ThreadOK, SourceInv, Busy, Cur
<1>3. /\ \A m \in Names : m # Cur => rtmp'[m] = rtmp[m]
      /\ Starts(rtmp'[Cur], src) /\ p = Len(rtmp'[Cur]) /\ rtmp'[Cur] # NoFile
  <2>1. CASE p > 0
    <3>1. rtmp[Cur] # NoFile /\ p = Len(rtmp[Cur])
      BY <1>1, <1>2, <2>1 DEF BlocksInv, XferInv
    <3>2. rtmp' = rtmp
      BY <1>1, <2>1, <3>1 DEF Start
    <3>3. QED BY <1>2, <3>1, <3>2 DEF BlocksInv, TmpInv
  <2>2. CASE p = 0
    <3>1. rtmp' = [rtmp EXCEPT ![Cur] = <<>>] /\ <<>> # NoFile
      BY <1>1, <2>2, EmptyIsFile DEF Start
    <3>2. QED BY <1>2, <2>2, <3>1, StartsEmpty DEF BlocksInv, ServerOK
  <2>3. QED BY <1>2, <2>1, <2>2
<1>4. TmpInv'
  BY <1>2, <1>3 DEF BlocksInv, TmpInv, source, Starts
<1>5. XferInv'
  <2>1. Target' = rtmp'[Cur] /\ Len(wire') = 0
    BY <1>2 DEF Target
  <2>2. QED
    BY <1>2, <1>3, <2>1 DEF XferInv, Starts
<1>6. NoTornFile'
  BY <1>2 DEF BlocksInv, NoTornFile, source, Starts
<1>7. QED BY <1>4, <1>5, <1>6 DEF TidyInv

LEMMA StorFailsStep ==
  ASSUME BlocksInv, env' = env, StorFails PROVE TidyInv'
<1>1. (\E s : Break(s)) /\ UNCHANGED <<source, remote>>
  BY DEF StorFails, CommandFails
<1>2. /\ rtmp' \in {rtmp, [rtmp EXCEPT ![Cur] = <<>>]}
      /\ Cur \in Names /\ local[Cur] \in Versions /\ local[Cur] # NoFile
  BY NoFileAssumption, NameOfAssumption
  DEF StorFails, BlocksInv, SourceInv, ThreadOK, Busy, Cur
<1>3. TmpInv'
  BY <1>1, <1>2, StartsEmpty DEF BlocksInv, ServerOK, TmpInv, source, Starts
<1>4. NoTornFile'
  BY <1>1 DEF BlocksInv, NoTornFile, source, Starts
<1>5. XferInv'
  BY <1>1, BreakFrame DEF XferInv
<1>6. QED BY <1>3, <1>4, <1>5 DEF TidyInv

LEMMA SendStep ==
  ASSUME BlocksInv, env' = env, Send PROVE TidyInv'
<1>1. /\ pc = "xfer" /\ pc' = pc /\ rpos < len[src] /\ src \in Versions
      /\ wire' = Append(wire, <<src, rpos + 1>>) /\ rpos' = rpos + 1
      /\ UNCHANGED <<source, server, todo, src>>
      /\ wire \in Seq(Blocks) /\ rpos \in Nat /\ <<src, rpos + 1>> \in Blocks
      /\ len[src] \in Nat /\ Size[src] \in Nat /\ len[src] <= Size[src]
  BY SizeAssumption DEF Send, BlocksInv, SourceOK, ThreadOK, SourceInv, Blocks
<1>2. /\ Len(wire') = Len(wire) + 1 /\ Len(wire) \in Nat
      /\ wire'[Len(wire) + 1] = <<src, rpos + 1>>
      /\ \A i \in 1..Len(wire) : wire'[i] = wire[i]
  BY <1>1, AppendProperties
<1>3. Target' = Target /\ Cur' = Cur /\ Len(Target) \in Nat
  BY <1>1 DEF Target, Cur, server, BlocksInv, ThreadOK, XferInv
<1>4. /\ Len(Target) + Len(wire) = rpos
      /\ \A i \in 1..Len(wire) : wire[i] = <<src, Len(Target) + i>>
  BY <1>1 DEF BlocksInv, XferInv
<1>5. \A i \in 1..Len(wire') : wire'[i] = <<src, Len(Target) + i>>
  <2> TAKE i \in 1..Len(wire')
  <2>1. CASE i = Len(wire) + 1
    BY <1>2, <1>3, <1>4, <2>1
  <2>2. CASE i \in 1..Len(wire)
    BY <1>2, <1>4, <2>2
  <2>3. QED BY <1>2, <2>1, <2>2
<1>6. XferInv'
  <2>1. /\ sink' = sink /\ sink \in {"tmp", "dest"} /\ pc' = "xfer" /\ src' = src
        /\ \A i \in 1..Len(Target) : Target[i] = <<src, i>>
        /\ sink = "dest" => rtmp'[Cur] = NoFile /\ "late" \in env
    BY <1>1 DEF BlocksInv, XferInv, server
  <2>2. Len(Target) + Len(wire') = rpos' /\ rpos' <= Size[src]
    BY <1>1, <1>2, <1>3, <1>4
  <2>3. QED BY <1>3, <1>5, <2>1, <2>2 DEF XferInv
<1>7. QED BY <1>1, <1>6, ServerFrame DEF TidyInv, server

LEMMA StoreStep ==
  ASSUME BlocksInv, env' = env, Store PROVE TidyInv'
<1>1. /\ pc = "xfer" /\ src \in Versions /\ Cur \in Names /\ wire # <<>>
      /\ wire' = Tail(wire) /\ rpos \in Nat /\ Size[src] \in Nat
      /\ UNCHANGED <<source, late, sink, todo, pc, src, rpos>> /\ Cur' = Cur
      /\ sink \in {"tmp", "dest"}
      /\ local[Cur] = src /\ src \in published /\ NameOf[src] = Cur /\ src # NoFile
  BY SizeAssumption, NameOfAssumption, NoFileAssumption
  DEF Store, BlocksInv, SourceOK, ServerOK, ThreadOK, XferInv, SourceInv, Busy, Cur
<1>2. /\ Len(wire) \in Nat /\ Len(wire) > 0
      /\ Head(wire) = wire[1] /\ Head(wire) \in Blocks
      /\ Len(wire') = Len(wire) - 1
      /\ \A i \in 1..Len(wire') : wire'[i] = wire[i + 1]
  BY <1>1, EmptySeq, HeadTailProperties DEF BlocksInv, ThreadOK
<1>3. /\ Target \in Seq(Blocks) /\ Len(Target) \in Nat
      /\ Target' = Append(Target, Head(wire))
      /\ \A n \in Names : n # Cur => rtmp'[n] = rtmp[n] /\ remote'[n] = remote[n]
      /\ rtmp'[Cur] = IF sink = "tmp" THEN Target' ELSE rtmp[Cur]
      /\ remote'[Cur] = IF sink = "dest" THEN Target' ELSE remote[Cur]
  <2>1. CASE sink = "tmp"
    BY <1>1, <2>1 DEF Store, AppendTo, BlocksInv, ServerOK, ThreadOK, Target
  <2>2. CASE sink = "dest"
    BY <1>1, <2>2 DEF Store, AppendTo, BlocksInv, ServerOK, ThreadOK, Target
  <2>3. QED BY <1>1, <2>1, <2>2
<1>4. /\ Len(Target') = Len(Target) + 1
      /\ Target'[Len(Target) + 1] = Head(wire)
      /\ \A i \in 1..Len(Target) : Target'[i] = Target[i]
  BY <1>2, <1>3, AppendProperties
<1>5. /\ Len(Target) + Len(wire) = rpos /\ rpos <= Size[src]
      /\ \A i \in 1..Len(Target) : Target[i] = <<src, i>>
      /\ \A i \in 1..Len(wire) : wire[i] = <<src, Len(Target) + i>>
      /\ sink = "dest" => rtmp[Cur] = NoFile /\ "late" \in env
  BY <1>1 DEF BlocksInv, XferInv
<1>6. /\ Len(Target') + Len(wire') = rpos
      /\ \A i \in 1..Len(Target') : Target'[i] = <<src, i>>
      /\ \A i \in 1..Len(wire') : wire'[i] = <<src, Len(Target') + i>>
  <2>1. \A i \in 1..Len(Target') : Target'[i] = <<src, i>>
    BY <1>2, <1>3, <1>4, <1>5
  <2>2. ASSUME NEW i \in 1..Len(wire')
        PROVE  wire'[i] = <<src, Len(Target') + i>>
    <3>1. i + 1 \in 1..Len(wire) /\ Len(Target) + (i + 1) = Len(Target') + i
      BY <1>2, <1>3, <1>4, <2>2
    <3>2. QED BY <1>2, <1>5, <3>1
  <2>3. QED BY <1>2, <1>3, <1>4, <1>5, <2>1, <2>2
<1>7. Starts(Target', src)
  BY <1>1, <1>2, <1>3, <1>4, <1>5, <1>6 DEF Starts
<1>8. XferInv'
  <2>1. sink' = "dest" => rtmp'[Cur'] = NoFile /\ "late" \in env'
    BY <1>1, <1>3, <1>5
  <2>2. pc' = "xfer" /\ src' = src /\ rpos' = rpos /\ sink' = sink
    BY <1>1
  <2>3. QED BY <1>1, <1>5, <1>6, <2>1, <2>2 DEF XferInv
<1>9. TmpInv'
  <2> SUFFICES ASSUME NEW n \in Names, rtmp'[n] # NoFile
               PROVE  local[n] # NoFile /\ Starts(rtmp'[n], local[n])
    BY <1>1 DEF TmpInv, Starts, source
  <2>1. CASE n = Cur /\ sink = "tmp"
    BY <1>1, <1>3, <1>7, <2>1
  <2>2. CASE rtmp'[n] = rtmp[n]
    BY <2>2 DEF BlocksInv, TmpInv
  <2>3. QED BY <1>3, <2>1, <2>2
<1>10. NoTornFile'
  <2> SUFFICES ASSUME NEW n \in Names, remote'[n] # NoFile
               PROVE  \E v \in published : NameOf[v] = n /\ Starts(remote'[n], v)
    BY <1>1 DEF BlocksInv, NoTornFile, Starts, source
  <2>1. CASE n = Cur /\ sink = "dest"
    BY <1>1, <1>3, <1>7, <2>1
  <2>2. CASE remote'[n] = remote[n]
    BY <2>2 DEF BlocksInv, NoTornFile
  <2>3. QED BY <1>3, <2>1, <2>2
<1>11. QED BY <1>8, <1>9, <1>10 DEF TidyInv

(* .name starts the version that waits: so does name, once it is renamed. *)
LEMMA RenameRemoteStep ==
  ASSUME BlocksInv, env' = env, UNCHANGED source, NEW n \in Names,
         rtmp[n] # NoFile, RenameRemote(n)
  PROVE  TmpInv' /\ NoTornFile'
<1>1. \A m \in Names : /\ rtmp'[m] = IF m = n THEN NoFile ELSE rtmp[m]
                       /\ remote'[m] = IF m = n THEN rtmp[n] ELSE remote[m]
  BY RenameRemoteType DEF BlocksInv
<1>2. local[n] \in published /\ NameOf[local[n]] = n /\ Starts(rtmp[n], local[n])
  BY DEF BlocksInv, TmpInv, SourceInv
<1>3. TmpInv'
  BY <1>1 DEF BlocksInv, TmpInv, source, Starts
<1>4. NoTornFile'
  BY <1>1, <1>2 DEF BlocksInv, NoTornFile, source, Starts
<1>5. QED BY <1>3, <1>4

LEMMA RenameOkStep ==
  ASSUME BlocksInv, env' = env, RenameOk PROVE TidyInv'
<1>1. /\ Cur \in Names /\ rtmp[Cur] # NoFile /\ RenameRemote(Cur)
      /\ UNCHANGED <<source, src>> /\ pc' = "remove" /\ Cur' = Cur
  BY NameOfAssumption DEF RenameOk, Renaming, BlocksInv, ThreadOK, Cur
<1>2. rtmp'[Cur] = NoFile
  BY <1>1, RenameRemoteType DEF BlocksInv
<1>3. XferInv'
  BY <1>1, <1>2 DEF XferInv
<1>4. QED BY <1>1, <1>3, RenameRemoteStep DEF TidyInv

LEMMA RenameReplyLostStep ==
  ASSUME BlocksInv, env' = env, RenameReplyLost PROVE TidyInv'
<1>1. /\ Cur \in Names /\ rtmp[Cur] # NoFile /\ RenameRemote(Cur)
      /\ UNCHANGED source /\ Break(FALSE)
  BY NameOfAssumption DEF RenameReplyLost, Renaming, BlocksInv, ThreadOK, Cur
<1>2. XferInv'
  BY <1>1, BreakFrame DEF XferInv
<1>3. QED BY <1>1, <1>2, RenameRemoteStep DEF TidyInv

LEMMA RemoveOkStep ==
  ASSUME BlocksInv, env' = env, RemoveOk PROVE TidyInv'
<1>1. /\ pc = "remove" /\ pc' = "loop" /\ Cur \in Names /\ rtmp[Cur] = NoFile
      /\ UNCHANGED <<len, published, server>>
      /\ \A n \in Names : local'[n] = IF n = Cur THEN NoFile ELSE local[n]
  BY NameOfAssumption
  DEF RemoveOk, RemoveLocal, BlocksInv, SourceOK, ThreadOK, XferInv, Cur
<1>2. TmpInv'
  BY <1>1 DEF BlocksInv, TmpInv, Starts, server
<1>3. XferInv'
  BY <1>1 DEF XferInv
<1>4. NoTornFile'
  BY <1>1 DEF BlocksInv, NoTornFile, Starts, server
<1>5. QED BY <1>2, <1>3, <1>4 DEF TidyInv

(* A late RNTO moves a file from under the transfer that stores into it:   *)
(* the transfer goes on under the new name.  None comes between the SIZE   *)
(* and the APPE that goes by it.                                           *)
LEMMA LateRenameStep ==
  ASSUME BlocksInv, env' = env, NEW n \in Names, LateRename(n) PROVE TidyInv'
<1>1. /\ late[n] > 0 /\ UNCHANGED <<source, thread>> /\ Cur' = Cur
      /\ ~(pc = "start" /\ Cur = n /\ rpos > 0)
  BY DEF LateRename, thread, Cur, BlocksInv, Tidy
<1>2. "late" \in env
  BY <1>1 DEF BlocksInv, LateInv, ServerOK
<1>3. CASE rtmp[n] = NoFile
  <2>1. UNCHANGED <<rtmp, remote, sink>>
    BY <1>3 DEF LateRename
  <2>2. XferInv'
    BY <1>1, <2>1 DEF BlocksInv, XferInv, Target, source, thread
  <2>3. QED BY <1>1, <2>1, <2>2, ServerFrame DEF TidyInv
<1>4. CASE rtmp[n] # NoFile
  <2>1. RenameRemote(n) /\ sink' = IF pc = "xfer" /\ Cur = n THEN Moved(sink) ELSE sink
    BY <1>4 DEF LateRename
  <2>2. TmpInv' /\ NoTornFile'
    BY <1>1, <1>4, <2>1, RenameRemoteStep
  <2>3. \A m \in Names : /\ rtmp'[m] = IF m = n THEN NoFile ELSE rtmp[m]
                         /\ remote'[m] = IF m = n THEN rtmp[n] ELSE remote[m]
    BY <1>4, <2>1, RenameRemoteType DEF BlocksInv
  <2>4. Busy => Cur \in Names
    BY NameOfAssumption DEF BlocksInv, ThreadOK, Busy, Cur
  <2>5. pc = "xfer" => /\ Target' = Target /\ sink' \in {"tmp", "dest"}
                       /\ sink' = "dest" => rtmp'[Cur] = NoFile
    BY <1>1, <1>4, <2>1, <2>3, <2>4
    DEF Target, BlocksInv, XferInv, Moved, Busy
  <2>6. pc = "remove" => rtmp'[Cur] = NoFile
    BY <2>3, <2>4 DEF BlocksInv, XferInv, Busy
  <2>7. pc = "start" /\ rpos > 0 => rtmp'[Cur] = rtmp[Cur]
    BY <1>1, <2>3, <2>4 DEF Busy
  <2>8. XferInv'
    BY <1>1, <1>2, <2>5, <2>6, <2>7 DEF BlocksInv, XferInv, source, thread
  <2>9. QED BY <2>2, <2>8 DEF TidyInv
<1>5. QED BY <1>3, <1>4

LEMMA PublishStep ==
  ASSUME BlocksInv, env' = env, NEW v \in Versions, Publish(v) PROVE TidyInv'
<1> DEFINE n == NameOf[v]
<1>1. /\ n \in Names /\ local[n] = NoFile /\ v # NoFile
      /\ published' = published \cup {v}
      /\ \A m \in Names : local'[m] = IF m = n THEN v ELSE local[m]
      /\ UNCHANGED <<server, thread>> /\ Cur' = Cur
  BY NameOfAssumption, NoFileAssumption
  DEF Publish, thread, Cur, BlocksInv, SourceOK
<1>2. TmpInv'
  BY <1>1 DEF BlocksInv, TmpInv, Starts, server
<1>3. XferInv'
  BY <1>1 DEF BlocksInv, XferInv, Target, server, thread
<1>4. NoTornFile'
  BY <1>1 DEF BlocksInv, NoTornFile, Starts, server
<1>5. QED BY <1>2, <1>3, <1>4 DEF TidyInv

LEMMA GrowStep ==
  ASSUME BlocksInv, env' = env, NEW v \in Versions, Grow(v) PROVE TidyInv'
<1>1. UNCHANGED <<local, lbak, published, server, thread>> /\ Cur' = Cur
  BY DEF Grow, thread, Cur
<1>2. TmpInv' /\ NoTornFile'
  BY <1>1 DEF BlocksInv, TmpInv, NoTornFile, Starts, server
<1>3. XferInv'
  BY <1>1 DEF BlocksInv, XferInv, Target, server, thread
<1>4. QED BY <1>2, <1>3 DEF TidyInv

LEMMA TidyNext ==
  ASSUME BlocksInv, [Next]_vars PROVE TidyInv'
<1>0. env' = env
  BY EnvStays
<1>1. CASE Session \/ SessionFails \/ Spin \/ Scan
  BY <1>0, <1>1, TidyElsewhere
  DEF Session, SessionFails, Spin, Scan, server, thread
<1>2. CASE EndPass \/ WriteError \/ RenameLate \/ RemoveFails \/ Crash
  BY <1>0, <1>2, TidyAfterBreak
  DEF EndPass, WriteError, RenameLate, RemoveFails, Crash, server
<1>3. CASE VerifyFails \/ RenameFails
  BY <1>0, <1>3, TidyAfterBreak DEF VerifyFails, RenameFails, CommandFails, server
<1>4. CASE Eof \/ VerifySize
  BY <1>0, <1>4, TidyElsewhere DEF Eof, VerifySize, Goes, server
<1>5. ASSUME NEW n \in Names, AskSize(n) \/ LateRename(n) PROVE TidyInv'
  BY <1>0, <1>5, AskSizeStep, LateRenameStep
<1>6. CASE Stor \/ StorFails \/ Send \/ Store
  BY <1>0, <1>6, StorStep, StorFailsStep, SendStep, StoreStep
<1>7. CASE RenameOk \/ RenameReplyLost \/ RemoveOk
  BY <1>0, <1>7, RenameOkStep, RenameReplyLostStep, RemoveOkStep
<1>8. ASSUME NEW n \in Names, LateStore(n) PROVE TidyInv'
  <2>1. stray[n].rest = <<>> /\ <<>> # <<NoFile>>
    BY DEF BlocksInv, LateInv, Nothing
  <2>2. QED BY <1>8, <2>1 DEF LateStore
<1>9. ASSUME NEW v \in Versions, Publish(v) \/ Grow(v) PROVE TidyInv'
  BY <1>0, <1>9, PublishStep, GrowStep
<1>10. CASE UNCHANGED vars
  <2>1. UNCHANGED <<source, server, thread>> /\ Cur' = Cur
    BY <1>10 DEF vars, thread, Cur
  <2>2. XferInv'
    BY <1>0, <2>1 DEF BlocksInv, XferInv, Target, source, server, thread
  <2>3. QED BY <1>0, <2>1, <2>2, ServerFrame DEF TidyInv, server
<1>11. QED
  BY <1>1, <1>2, <1>3, <1>4, <1>5, <1>6, <1>7, <1>8, <1>9, <1>10
  DEF Next, Thread, Surroundings

-----------------------------------------------------------------------------
(* Where files are listed whole, they are sent whole. *)
LEMMA OrderlyStays == [Next]_vars => (Orderly' <=> Orderly)
  BY EnvStays DEF Orderly

LEMMA OrderlyTidy == Orderly => Tidy
  BY DEF Orderly, Tidy

LEMMA WholeInit == Init => WholeInv
  BY DEF Init, WholeInv, SizeInv, SentInv, WholeFile

(* What a step cannot disturb that leaves the local directories and        *)
(* REMOTEDIR alone.                                                        *)
LEMMA WholeFrame ==
  ASSUME Orderly, env' = env, WholeInv, UNCHANGED <<source, remote, delivered>>
  PROVE  /\ WholeFile'
         /\ \A v \in published' : len'[v] = Size[v]
         /\ \A v \in published' : local'[NameOf[v]] = v \/ v \in delivered'
<1>1. WholeFile'
  BY DEF WholeInv, WholeFile, Whole, Content, Orderly, source
<1>2. QED BY <1>1 DEF WholeInv, SizeInv, SentInv, source

LEMMA WholeAfterBreak ==
  ASSUME Orderly, env' = env, WholeInv, NEW s, Break(s),
         UNCHANGED <<source, remote, delivered>>
  PROVE  WholeInv'
  BY WholeFrame, BreakFrame DEF WholeInv, SizeInv, SentInv

LEMMA WholeScan ==
  ASSUME Orderly, env' = env, BlocksInv, WholeInv, Scan PROVE WholeInv'
<1>1. /\ UNCHANGED <<source, remote, delivered>> /\ pc' = "loop"
      /\ todo' \subseteq Present
      /\ \A n \in todo' : listed'[n] = len[local[n]]
  BY DEF Scan, server, Present
<1>2. \A n \in todo' : listed'[n] = Size[local'[n]]
  BY <1>1 DEF BlocksInv, SourceInv, WholeInv, SizeInv, Present, source
<1>3. QED BY <1>1, <1>2, WholeFrame DEF WholeInv, SizeInv, SentInv

(* A step that goes on with the same file and leaves TMPDIR and REMOTEDIR    *)
(* alone.                                                                   *)
LEMMA WholeSame ==
  ASSUME Orderly, env' = env, WholeInv,
         UNCHANGED <<source, remote, delivered, todo, listed, src>>,
         pc' \in {"start", "xfer", "verify"} => pc \in {"start", "xfer", "verify"},
         pc' \notin {"rename", "remove"}
  PROVE  WholeInv'
<1>1. Cur' = Cur
  BY DEF Cur
<1>2. QED BY <1>1, WholeFrame DEF WholeInv, SizeInv, SentInv, source

LEMMA WholeAskSize ==
  ASSUME Orderly, env' = env, BlocksInv, WholeInv, NEW n \in Names, AskSize(n)
  PROVE  WholeInv'
<1>1. /\ UNCHANGED <<source, remote, delivered, listed>> /\ pc' \in {"start", "spin"}
      /\ todo' = todo \ {n} /\ n \in todo /\ src' = local[n] /\ Cur' = n
  BY DEF AskSize, Goes, BlocksInv, SourceInv, Cur, server
<1>2. QED
  BY <1>1, WholeFrame DEF WholeInv, SizeInv, SentInv, source

LEMMA WholeStore ==
  ASSUME Orderly, env' = env, BlocksInv, WholeInv, Store PROVE WholeInv'
<1>1. /\ pc = "xfer" /\ src \in Versions /\ Cur \in Names /\ local[Cur] # NoFile
      /\ UNCHANGED <<source, delivered, todo, listed, pc, src>> /\ Cur' = Cur
      /\ sink = "dest" => "late" \in env
      /\ sink \in {"tmp", "dest"}
      /\ \A n \in Names : n # Cur \/ sink = "tmp" => remote'[n] = remote[n]
  BY NameOfAssumption, NoFileAssumption
  DEF Store, AppendTo, BlocksInv, ServerOK, ThreadOK, XferInv, SourceInv, Busy, Cur
<1>2. WholeFile'
  <2> SUFFICES ASSUME NEW n \in Names, remote'[n] # NoFile,
                      "late" \notin env \/ local[n] = NoFile
               PROVE  Whole(n, remote'[n])
    BY <1>1 DEF WholeFile, Whole, Content, Orderly, source
  <2>1. remote'[n] = remote[n]
    BY <1>1
  <2>2. QED BY <2>1 DEF WholeInv, WholeFile
<1>3. QED
  BY <1>1, <1>2 DEF WholeInv, SizeInv, SentInv, source

(* A size that is right means that the whole file is there. *)
LEMMA SizeMeansWhole ==
  ASSUME BlocksInv, WholeInv, pc = "verify", rtmp[Cur] # NoFile,
         NEW size \in {SizeOf(Cur), 0}, SizeMatches(size)
  PROVE  rtmp[Cur] = Content(src)
<1>1. /\ src \in Versions /\ Cur \in Names /\ local[Cur] = src /\ src # NoFile
      /\ rtmp[Cur] \in Seq(Blocks) /\ Starts(rtmp[Cur], src)
  BY NameOfAssumption, NoFileAssumption DEF BlocksInv, ServerOK, ThreadOK, SourceInv, TmpInv, Busy, Cur
<1>2. src \in published /\ NameOf[src] = Cur
  BY <1>1 DEF BlocksInv, SourceInv
<1>3. len[src] = Size[src] /\ listed[Cur] = Size[src] /\ Size[src] \in Nat
  BY <1>2, SizeAssumption DEF WholeInv, SizeInv, BlocksInv, SourceOK
<1>4. Len(rtmp[Cur]) = Size[src]
  BY <1>1, <1>3 DEF SizeMatches, SizeOf, Starts
<1>5. Content(src) \in Seq(Blocks) /\ Len(Content(src)) = Len(rtmp[Cur])
      /\ \A i \in 1..Len(rtmp[Cur]) : rtmp[Cur][i] = Content(src)[i]
  <2>1. len \in [Versions -> Nat]
    BY DEF BlocksInv, SourceOK
  <2>2. /\ Content(src) \in Seq(Blocks) /\ Len(Content(src)) = len[src]
        /\ \A i \in 1..len[src] : Content(src)[i] = <<src, i>>
    BY <1>1, <2>1, ContentType
  <2>3. QED BY <1>1, <1>3, <1>4, <2>2 DEF Starts
<1>6. rtmp[Cur] = Content(src)
  BY <1>1, <1>5, SeqEqual
<1>7. QED BY <1>6

LEMMA WholeVerifySize ==
  ASSUME Orderly, env' = env, BlocksInv, WholeInv, VerifySize PROVE WholeInv'
<1>1. /\ pc = "verify" /\ pc' \in {"rename", "spin"} /\ Cur' = Cur
      /\ UNCHANGED <<source, server, todo, listed, src>>
  BY DEF VerifySize, Goes, Cur
<1>2. rtmp[Cur] \in {NoFile, Content(src)}
  BY <1>1, SizeMeansWhole DEF VerifySize
<1>3. SentInv'
  BY <1>1, <1>2, WholeFrame DEF SentInv, Content, source, server
<1>4. QED
  BY <1>1, <1>3, WholeFrame DEF WholeInv, SizeInv, source, server

LEMMA WholeRename ==
  ASSUME Orderly, env' = env, BlocksInv, WholeInv, Renaming, RenameRemote(Cur),
         UNCHANGED source
  PROVE  /\ WholeFile' /\ src \in delivered'
         /\ Whole(Cur, remote'[Cur])
         /\ \A v \in published : len[v] = Size[v]
         /\ \A v \in published : local[NameOf[v]] = v \/ v \in delivered'
<1>1. /\ Cur \in Names /\ src \in published /\ NameOf[src] = Cur
      /\ rtmp[Cur] # NoFile /\ rtmp[Cur] = Content(src)
  BY NameOfAssumption, NoFileAssumption
  DEF Renaming, BlocksInv, ThreadOK, SourceInv, Busy, WholeInv, SentInv, Cur
<1>2. \A m \in Names : remote'[m] = IF m = Cur THEN rtmp[Cur] ELSE remote[m]
  BY <1>1, RenameRemoteType DEF BlocksInv
<1>3. delivered \subseteq delivered' /\ src \in delivered'
  BY <1>1 DEF RenameRemote
<1>4. Whole(Cur, remote'[Cur])
  BY <1>1, <1>2 DEF Whole
<1>5. WholeFile'
  <2> SUFFICES ASSUME NEW n \in Names, remote'[n] # NoFile,
                      "late" \notin env \/ local[n] = NoFile
               PROVE  Whole(n, remote'[n])
    BY DEF WholeFile, Whole, Content, Orderly, source
  <2>1. CASE n = Cur
    BY <1>4, <2>1
  <2>2. CASE n # Cur
    BY <1>2, <2>2 DEF WholeInv, WholeFile
  <2>3. QED BY <2>1, <2>2
<1>6. QED BY <1>3, <1>4, <1>5 DEF WholeInv, SizeInv, SentInv

LEMMA WholeRenameOk ==
  ASSUME Orderly, env' = env, BlocksInv, WholeInv, RenameOk PROVE WholeInv'
<1>1. /\ pc' = "remove" /\ UNCHANGED <<source, todo, listed, src>> /\ Cur' = Cur
      /\ Renaming /\ RenameRemote(Cur)
  BY DEF RenameOk, Cur
<1>2. /\ WholeFile' /\ src \in delivered' /\ Whole(Cur, remote'[Cur])
      /\ \A v \in published : len[v] = Size[v]
      /\ \A v \in published : local[NameOf[v]] = v \/ v \in delivered'
  BY <1>1, WholeRename
<1>3. Whole(Cur, remote[Cur])'
  BY <1>1, <1>2 DEF Whole, Content, source
<1>4. SizeInv'
  BY <1>1, <1>2 DEF WholeInv, SizeInv, source
<1>5. SentInv'
  BY <1>1, <1>2, <1>3 DEF SentInv, source
<1>6. QED BY <1>2, <1>4, <1>5 DEF WholeInv

LEMMA WholeRenameReplyLost ==
  ASSUME Orderly, env' = env, BlocksInv, WholeInv, RenameReplyLost
  PROVE  WholeInv'
<1>1. /\ Break(FALSE) /\ UNCHANGED source
      /\ Renaming /\ RenameRemote(Cur)
  BY DEF RenameReplyLost
<1>2. QED
  BY <1>1, WholeRename, BreakFrame DEF WholeInv, SizeInv, SentInv, source

LEMMA WholeRemoveOk ==
  ASSUME Orderly, env' = env, BlocksInv, WholeInv, RemoveOk PROVE WholeInv'
<1>1. /\ pc = "remove" /\ pc' = "loop"
      /\ Cur \in Names /\ Cur \notin todo /\ local[Cur] = src /\ NameOf[src] = Cur
      /\ UNCHANGED <<len, published, remote, delivered, todo, listed>>
      /\ \A n \in Names : local'[n] = IF n = Cur THEN NoFile ELSE local[n]
  BY NameOfAssumption, NoFileAssumption
  DEF RemoveOk, RemoveLocal, BlocksInv, SourceOK, ThreadOK, SourceInv, Busy, Cur, server
<1>2. src \in delivered /\ Whole(Cur, remote[Cur])
  BY <1>1 DEF WholeInv, SentInv
<1>3. WholeFile'
  <2> SUFFICES ASSUME NEW n \in Names, remote[n] # NoFile,
                      "late" \notin env \/ local'[n] = NoFile
               PROVE  Whole(n, remote[n])
    BY <1>1 DEF WholeFile, Whole, Content, Orderly
  <2>1. QED BY <1>1, <1>2 DEF WholeInv, WholeFile
<1>4. SizeInv'
  BY <1>1 DEF WholeInv, SizeInv, BlocksInv, ThreadOK
<1>5. SentInv'
  <2>1. \A v \in published : NameOf[v] \in Names
    BY NameOfAssumption DEF BlocksInv, SourceOK
  <2>2. QED BY <1>1, <1>2, <2>1 DEF WholeInv, SentInv
<1>6. QED BY <1>3, <1>4, <1>5 DEF WholeInv

(* A late RNTO may put part of a file under its name, whose source is then *)
(* still there.                                                            *)
LEMMA WholeLateRename ==
  ASSUME Orderly, env' = env, BlocksInv, WholeInv, NEW n \in Names, LateRename(n)
  PROVE  WholeInv'
<1>1. /\ UNCHANGED <<source, pc, todo, listed, src>> /\ Cur' = Cur
      /\ late[n] > 0
  BY DEF LateRename, thread, Cur
<1>2. "late" \in env
  BY <1>1 DEF BlocksInv, LateInv, ServerOK
<1>3. CASE rtmp[n] = NoFile
  BY <1>1, <1>3, WholeFrame DEF LateRename, WholeInv, SizeInv, SentInv, source,
     Whole, Content
<1>4. CASE rtmp[n] # NoFile
  <2>1. RenameRemote(n) /\ local[n] # NoFile
    BY <1>4 DEF LateRename, BlocksInv, TmpInv
  <2>2. /\ \A m \in Names : m # n => remote'[m] = remote[m]
        /\ delivered \subseteq delivered'
    BY <1>4, <2>1, RenameRemoteType DEF BlocksInv, RenameRemote
  <2>3. WholeFile'
    BY <1>1, <1>2, <2>1, <2>2
    DEF WholeInv, WholeFile, Whole, Content, Orderly, source
  <2>4. pc = "remove" => Cur \in Names /\ Cur # n
    BY <1>4, NameOfAssumption DEF BlocksInv, ThreadOK, XferInv, Cur
  <2>5. pc = "rename" => rtmp'[Cur] \in {NoFile, Content(src)}
    BY <1>4, <2>1, NameOfAssumption, RenameRemoteType
    DEF BlocksInv, ThreadOK, WholeInv, SentInv, Cur
  <2>6. SentInv'
    BY <1>1, <2>2, <2>4, <2>5 DEF WholeInv, SentInv, Whole, Content, source
  <2>7. SizeInv'
    BY <1>1 DEF WholeInv, SizeInv, source
  <2>8. QED BY <2>3, <2>6, <2>7 DEF WholeInv
<1>5. QED BY <1>3, <1>4

LEMMA WholePublish ==
  ASSUME Orderly, env' = env, BlocksInv, WholeInv, NEW v \in Versions, Publish(v)
  PROVE  WholeInv'
<1> DEFINE n == NameOf[v]
<1>1. /\ v \notin published /\ n \in Names /\ local[n] = NoFile
      /\ published' = published \cup {v}
      /\ \A m \in Names : local'[m] = IF m = n THEN v ELSE local[m]
      /\ UNCHANGED <<server, thread>> /\ Cur' = Cur
  BY NameOfAssumption DEF Publish, thread, Cur, BlocksInv, SourceOK
<1>2. /\ len'[v] = Size[v] /\ \A w \in published : len'[w] = len[w]
  BY <1>1, PublishLen DEF BlocksInv, SourceOK, Orderly
<1>3. \A w \in published : Content(w)' = Content(w) /\ NameOf[w] \in Names
  BY <1>2, NameOfAssumption DEF Content, BlocksInv, SourceOK
<1>4. \A m, s : Whole(m, s) => \E w \in published' :
                  NameOf[w] = m /\ s = Content(w)'
  BY <1>1, <1>3 DEF Whole
<1>5. WholeFile'
  <2> SUFFICES ASSUME NEW m \in Names, remote[m] # NoFile,
                      "late" \notin env \/ local'[m] = NoFile
               PROVE  \E w \in published' : NameOf[w] = m /\ remote[m] = Content(w)'
    BY <1>1 DEF WholeFile, Whole, Orderly, server
  <2>1. local'[m] = NoFile => local[m] = NoFile
    BY <1>1
  <2>2. Whole(m, remote[m])
    BY <2>1 DEF WholeInv, WholeFile
  <2>3. QED BY <1>4, <2>2
<1>6. SizeInv'
  <2>1. \A m \in todo : m \in Names /\ m # n
    BY <1>1 DEF BlocksInv, ThreadOK, SourceInv
  <2>2. QED BY <1>1, <1>2, <2>1 DEF WholeInv, SizeInv, thread
<1>7. SentInv'
  <2>1. \A w \in published' : local'[NameOf[w]] = w \/ w \in delivered'
    <3> SUFFICES ASSUME NEW w \in published'
                 PROVE  local'[NameOf[w]] = w \/ w \in delivered
      BY <1>1 DEF server
    <3>1. CASE w = v
      BY <1>1, <3>1
    <3>2. CASE w \in published
      <4>1. w # NoFile
        BY <3>2, NoFileAssumption DEF BlocksInv, SourceOK
      <4>2. QED BY <1>1, <1>3, <3>2, <4>1 DEF WholeInv, SentInv
    <3>3. QED BY <1>1, <3>1, <3>2
  <2>2. pc = "remove" => Whole(Cur, remote[Cur])'
    BY <1>1, <1>4 DEF WholeInv, SentInv, Whole, server
  <2>3. pc = "rename" => src \in published
    BY NameOfAssumption, NoFileAssumption
    DEF BlocksInv, ThreadOK, SourceInv, Busy, Cur
  <2>4. pc = "rename" => (rtmp[Cur] \in {NoFile, Content(src)})'
    BY <1>1, <1>3, <2>3 DEF WholeInv, SentInv, thread, server
  <2>5. QED BY <1>1, <2>1, <2>2, <2>4 DEF WholeInv, SentInv, thread, server
<1>8. QED BY <1>5, <1>6, <1>7 DEF WholeInv

LEMMA WholeNext ==
  ASSUME Orderly, BlocksInv, WholeInv, [Next]_vars PROVE WholeInv'
<1>0. env' = env
  BY EnvStays
<1>1. CASE Session \/ SessionFails \/ Spin
  BY <1>0, <1>1, WholeSame DEF Session, SessionFails, Spin, server, thread
<1>2. CASE Scan
  BY <1>0, <1>2, WholeScan
<1>3. CASE EndPass \/ WriteError \/ RenameLate \/ RemoveFails \/ Crash
  BY <1>0, <1>3, WholeAfterBreak
  DEF EndPass, WriteError, RenameLate, RemoveFails, Crash, server
<1>4. CASE StorFails \/ VerifyFails \/ RenameFails
  BY <1>0, <1>4, WholeAfterBreak
  DEF StorFails, VerifyFails, RenameFails, CommandFails, server
<1>5. ASSUME NEW n \in Names, AskSize(n) \/ LateRename(n) PROVE WholeInv'
  BY <1>0, <1>5, WholeAskSize, WholeLateRename
<1>6. ASSUME NEW n \in Names, LateStore(n) PROVE WholeInv'
  <2>1. stray[n].rest = <<>> /\ <<>> # <<NoFile>>
    BY DEF BlocksInv, LateInv, Nothing
  <2>2. QED BY <1>6, <2>1 DEF LateStore
<1>7. CASE Stor \/ Send \/ Eof
  BY <1>0, <1>7, WholeSame DEF Stor, Send, Eof, Goes, server
<1>8. CASE Store
  BY <1>0, <1>8, WholeStore
<1>9. CASE VerifySize \/ RenameOk \/ RenameReplyLost
  BY <1>0, <1>9, WholeVerifySize, WholeRenameOk, WholeRenameReplyLost
<1>10. CASE RemoveOk
  BY <1>0, <1>10, WholeRemoveOk
<1>11. ASSUME NEW v \in Versions, Publish(v) PROVE WholeInv'
  BY <1>0, <1>11, WholePublish
<1>12. ASSUME NEW v \in Versions, Grow(v) PROVE WholeInv'
  <2>1. NameOf[v] \in Names /\ v # NoFile
    BY NameOfAssumption, NoFileAssumption
  <2>2. v \in published
    BY <1>12, <2>1 DEF Grow, BlocksInv, SourceInv
  <2>3. len[v] = Size[v] /\ Size[v] \in Nat
    BY <2>2, SizeAssumption DEF WholeInv, SizeInv
  <2>4. QED BY <1>12, <2>3 DEF Grow
<1>13. CASE UNCHANGED vars
  <2>1. UNCHANGED <<rtmp, remote, delivered, pc, todo, listed, src, len>> /\ Cur' = Cur
    BY <1>13 DEF vars, thread, server, source, Cur
  <2>2. QED
    BY <1>0, <1>13, <2>1, WholeFrame
    DEF vars, source, WholeInv, SizeInv, SentInv, Whole, Content
<1>14. QED
  BY <1>1, <1>2, <1>3, <1>4, <1>5, <1>6, <1>7, <1>8, <1>9, <1>10, <1>11,
     <1>12, <1>13 DEF Next, Thread, Surroundings

-----------------------------------------------------------------------------
(* The inductive invariant holds in every environment; its part about the   *)
(* blocks of a file where nothing of an abandoned session comes between a    *)
(* SIZE and the APPE that goes by it, or into a file that is stored; and its *)
(* part about whole files in the orderly ones of these.                     *)
THEOREM Inductive == Spec => []Agreement
<1>1. Init => Agreement
  BY SharedInit, TidyInit, WholeInit DEF Agreement
<1>2. Agreement /\ [Next]_vars => Agreement'
  BY SharedNext, Parts, TidyNext, TidyStays, WholeNext, OrderlyStays, OrderlyTidy
  DEF Agreement
<1>3. QED BY <1>1, <1>2, PTL DEF Spec

(* The variables keep their types; in particular a file that is stored into, *)
(* by this session or for an abandoned one, is there as long as a directory  *)
(* names it, whatever is renamed meanwhile.                                 *)
THEOREM TypeCorrect == Spec => []TypeOK
<1>1. Agreement => TypeOK
  BY DEF Agreement, SharedInv
<1>2. QED BY Inductive, <1>1, PTL

(* A file in REMOTEDIR is the beginning of one version published under its   *)
(* name: resuming by SIZE, and renames that run late into a transfer, never *)
(* mix two.  Late RNTOs between a SIZE and its APPE, STORs and data of       *)
(* abandoned sessions are excepted: with them it is not so.                 *)
THEOREM NeverTorn == Spec => []NoTornFile
<1>1. Agreement => NoTornFile
  BY DEF Agreement, TidyInv, NoTornFile
<1>2. QED BY Inductive, <1>1, PTL

(* Where files are listed whole, REMOTEDIR holds whole versions; with late *)
(* renames, but for those between a SIZE and its APPE, whenever their      *)
(* source is gone.                                                         *)
THEOREM RemoteFilesWhole == Spec => []WholeFile
<1>1. Agreement => WholeFile
  BY DEF Agreement, WholeInv, WholeFile
<1>2. QED BY Inductive, <1>1, PTL

(* With BAKDIR set, a version that has left localDir is in the backup       *)
(* directory until another of its name replaces it there.                   *)
THEOREM BackedUp == Spec => []BackupKeepsAll
<1>1. Agreement => BackupKeepsAll
  BY DEF Agreement, SharedInv
<1>2. QED BY Inductive, <1>1, PTL

-----------------------------------------------------------------------------
(* Every step of put_file, its server and its producers is a step of the *)
(* abstract delivery, or changes nothing there.                          *)
LEMMA RefineInit == Init => Promise!Init
  BY DEF Init, Waiting, Promise!Init

(* Where nothing is promised, nothing happens. *)
LEMMA RefineIdle ==
  ASSUME ~Orderly, [Next]_vars PROVE UNCHANGED Promise!vars
  BY OrderlyStays DEF Promise!vars

(* A rename on the server delivers the version that waits under the name,  *)
(* or one that was delivered before.                                       *)
LEMMA RefineRename ==
  ASSUME Orderly, Orderly', BlocksInv, WholeInv, UNCHANGED source,
         NEW n \in Names, rtmp[n] # NoFile, RenameRemote(n)
  PROVE  [Promise!Next]_(Promise!vars)
<1> DEFINE w == local[n]
<1>1. /\ w \in published /\ w \in Versions /\ NameOf[w] = n
      /\ Waiting' = Waiting /\ published' = published
  BY DEF BlocksInv, SourceOK, TmpInv, SourceInv, Waiting, source
<1>2. \A v \in published : NameOf[v] = n => v = w \/ v \in delivered
  BY DEF WholeInv, SentInv
<1>3. delivered' \in {delivered, delivered \cup {w}}
  BY <1>2 DEF RenameRemote
<1>4. CASE delivered' = delivered
  BY <1>1, <1>4 DEF Promise!vars
<1>5. CASE delivered' = delivered \cup {w}
  <2>1. Promise!Deliver(w)
    BY <1>1, <1>5 DEF Promise!Deliver, Waiting
  <2>2. QED BY <1>1, <2>1 DEF Promise!Next
<1>6. QED BY <1>3, <1>4, <1>5

LEMMA RefineNext ==
  ASSUME Orderly, Orderly', BlocksInv, WholeInv, [Next]_vars
  PROVE  [Promise!Next]_(Promise!vars)
<1>1. CASE UNCHANGED <<local, published, delivered>>
  BY <1>1 DEF Promise!vars, Waiting
<1>2. CASE RenameOk \/ RenameReplyLost
  <2>1. /\ Cur \in Names /\ rtmp[Cur] # NoFile /\ RenameRemote(Cur)
        /\ UNCHANGED source
    BY <1>2, NameOfAssumption
    DEF RenameOk, RenameReplyLost, Renaming, BlocksInv, ThreadOK, Cur
  <2>2. QED BY <2>1, RefineRename
<1>3. ASSUME NEW n \in Names, LateRename(n)
      PROVE  [Promise!Next]_(Promise!vars)
  <2>1. CASE rtmp[n] = NoFile
    BY <1>1, <1>3, <2>1 DEF LateRename, source
  <2>2. CASE rtmp[n] # NoFile
    BY <1>3, <2>2, RefineRename DEF LateRename
  <2>3. QED BY <2>1, <2>2
<1>4. CASE RemoveOk
  <2>1. /\ pc = "remove" /\ src \in Versions /\ Cur \in Names
        /\ local[Cur] = src /\ src # NoFile
        /\ src \in published /\ src \in delivered
        /\ local' = [local EXCEPT ![Cur] = NoFile]
        /\ UNCHANGED <<published, delivered>>
    BY <1>4, NameOfAssumption, NoFileAssumption
    DEF RemoveOk, RemoveLocal, server, BlocksInv, ThreadOK, SourceInv, Busy,
        WholeInv, SentInv, Cur
  <2>2. \A m \in Names : local'[m] = IF m = Cur THEN NoFile ELSE local[m]
    BY <2>1 DEF BlocksInv, SourceOK
  <2>3. \A v \in published : NameOf[v] \in Names /\ v # NoFile
    BY NameOfAssumption, NoFileAssumption DEF BlocksInv, SourceOK
  <2>4. Waiting' = Waiting \ {src} /\ src \in Waiting
    BY <2>1, <2>2, <2>3 DEF Waiting, Cur
  <2>5. Promise!Retire(src)
    BY <2>1, <2>4 DEF Promise!Retire
  <2>6. QED BY <2>1, <2>5 DEF Promise!Next
<1>5. ASSUME NEW v \in Versions, Publish(v)
      PROVE  [Promise!Next]_(Promise!vars)
  <2>1. /\ v \notin published /\ local[NameOf[v]] = NoFile
        /\ NameOf[v] \in Names
        /\ published' = published \cup {v}
        /\ local' = [local EXCEPT ![NameOf[v]] = v]
        /\ delivered' = delivered
    BY <1>5, NameOfAssumption DEF Publish, server
  <2>2. \A w \in published : NameOf[w] \in Names /\ w # NoFile
    BY NameOfAssumption, NoFileAssumption DEF BlocksInv, SourceOK
  <2>3. Waiting' = Waiting \cup {v}
    BY <2>1, <2>2 DEF Waiting, BlocksInv, SourceOK
  <2>4. Promise!Offer(v)
    BY <2>1, <2>3 DEF Promise!Offer
  <2>5. QED BY <2>4 DEF Promise!Next
<1>6. QED
  BY <1>1, <1>2, <1>3, <1>4, <1>5
  DEF Next, Thread, Surroundings, Session, SessionFails, Scan, EndPass, AskSize,
      Stor, StorFails, Send, Store, Eof, WriteError, VerifySize, VerifyFails,
      RenameLate, RenameFails, RemoveFails, Spin, LateStore, Crash, Grow,
      vars, source, server, thread

(* In an orderly environment put_file keeps the promise of Delivery. *)
THEOREM Refinement == Spec => Implements
<1>1. Agreement /\ [Next]_vars => [Promise!Next]_(Promise!vars)
  BY RefineNext, RefineIdle, OrderlyStays, OrderlyTidy, Parts DEF Agreement
<1>2. QED
  BY RefineInit, Inductive, <1>1, PTL DEF Spec, Implements, Promise!Spec
=============================================================================
