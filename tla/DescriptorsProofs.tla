------------------------- MODULE DescriptorsProofs --------------------------
(***************************************************************************)
(* Theorems about Descriptors, for any number of threads and descriptors.  *)
(* They are about orderly environments: in PORT mode, or where a connection *)
(* attempt of myconnect fails, what they say is false.                      *)
(***************************************************************************)
EXTENDS Descriptors, TLAPS

(* Which descriptors a thread has at each point. *)
Holds(t) ==
  /\ pc[t] \notin {"again", "zero"}
  /\ pc[t] = "down" => ctl[t] = None
  /\ data[t] # None => pc[t] \in {"port", "retr", "open", "xfer", "close"}
  /\ file[t] # None => pc[t] = "xfer"

IInv == TypeOK /\ \A t \in Threads : Owns(t) /\ Holds(t)

(* A step of thread t leaves the descriptors of another thread alone. *)
Elsewhere(t) ==
  \A u \in Threads \ {t} : /\ pc'[u] = pc[u] /\ ctl'[u] = ctl[u]
                           /\ data'[u] = data[u] /\ file'[u] = file[u]

(* It changes no entry of the table that another thread owns. *)
OwnEntries(t) ==
  \A f \in Fds : \/ table'[f] = table[f]
                 \/ table[f] = Free
                 \/ table[f] \in {t} \X Kinds

USE DEF Fds, None, Kinds, Free, Std, Objects

-----------------------------------------------------------------------------
LEMMA NoneIsNoFd == None \notin Fds
  BY MaxFdAssumption

(* A descriptor that the kernel gives is one that was free. *)
LEMMA LowestIsFree == \A f \in Lowest : f \in Fds /\ table[f] = Free
  BY DEF Lowest, FreeFds

(* What a thread owns is neither free nor owned by another. *)
LEMMA NotElsewhere ==
  ASSUME NEW t, NEW u, t # u, NEW k \in Kinds
  PROVE  <<u, k>> # Free /\ <<u, k>> \notin {t} \X Kinds
<1>1. k # ""
  OBVIOUS
<1> QED BY <1>1

(* The handles of a thread stay its own when an entry of the table changes *)
(* that was free, or that another thread owns.                             *)
LEMMA OthersKeep ==
  ASSUME NEW t \in Threads, NEW u \in Threads \ {t}, Owns(u),
         Elsewhere(t),
         OwnEntries(t),
         TypeOK
  PROVE  Owns(u)'
<1>1. /\ pc'[u] = pc[u] /\ ctl'[u] = ctl[u]
      /\ data'[u] = data[u] /\ file'[u] = file[u]
  BY DEF Elsewhere
<1>2. ASSUME NEW f \in Fds, NEW k \in Kinds, table[f] = <<u, k>>
      PROVE  table'[f] = table[f]
  BY <1>2, NotElsewhere DEF OwnEntries
<1>3. ctl[u] \in Fds \cup {None} /\ data[u] \in Fds \cup {None}
        /\ file[u] \in Fds \cup {None}
  BY DEF TypeOK
<1>4. ctl[u] # None /\ pc[u] # "again" => table'[ctl[u]] = <<u, "ctl">>
  BY <1>2, <1>3 DEF Owns
<1>5. data[u] # None => table'[data[u]] \in {<<u, "listen">>, <<u, "data">>}
  <2> SUFFICES ASSUME data[u] # None
               PROVE  table'[data[u]] \in {<<u, "listen">>, <<u, "data">>}
    OBVIOUS
  <2>1. data[u] \in Fds
    BY <1>3
  <2>2. CASE table[data[u]] = <<u, "listen">>
    BY <1>2, <2>1, <2>2
  <2>3. CASE table[data[u]] = <<u, "data">>
    BY <1>2, <2>1, <2>3
  <2> QED BY <2>2, <2>3 DEF Owns
<1>6. file[u] # None => table'[file[u]] = <<u, "file">>
  BY <1>2, <1>3 DEF Owns
<1> QED BY <1>1, <1>4, <1>5, <1>6 DEF Owns

(* Closing a descriptor of t's own, and making one. *)
LEMMA CloseOwn ==
  ASSUME TypeOK, NEW t \in Threads, NEW h \in Fds \cup {None},
         h # None => table[h] \in {t} \X Kinds,
         table' = Closed(h)
  PROVE  /\ table' \in [Fds -> Objects \cup {Free, Std}]
         /\ OwnEntries(t)
         /\ \A f \in Fds \ {h} : table'[f] = table[f]
  BY DEF TypeOK, Closed, OwnEntries

LEMMA MakeOwn ==
  ASSUME TypeOK, NEW t \in Threads, NEW h \in Lowest, NEW k \in Kinds,
         table' = Made(h, <<t, k>>)
  PROVE  /\ h \in Fds /\ h # None /\ table[h] = Free
         /\ table' \in [Fds -> Objects \cup {Free, Std}]
         /\ OwnEntries(t)
         /\ table'[h] = <<t, k>>
         /\ \A f \in Fds \ {h} : table'[f] = table[f]
<1>1. h \in Fds /\ table[h] = Free
  BY LowestIsFree
<1>2. /\ table' \in [Fds -> Objects \cup {Free, Std}]
      /\ table'[h] = <<t, k>>
      /\ \A f \in Fds \ {h} : table'[f] = table[f]
  BY <1>1 DEF TypeOK, Made
<1>3. h # None
  BY <1>1, NoneIsNoFd
<1> QED BY <1>1, <1>2, <1>3 DEF OwnEntries

(* The descriptors of one thread are different ones, and not free. *)
LEMMA Apart ==
  ASSUME TypeOK, NEW t \in Threads, Owns(t), pc[t] # "again"
  PROVE  /\ ctl[t] # None => /\ ctl[t] # data[t] /\ ctl[t] # file[t]
                             /\ table[ctl[t]] \in {t} \X Kinds
                             /\ table[ctl[t]] # Free
         /\ data[t] # None => /\ data[t] # file[t]
                              /\ table[data[t]] \in {t} \X Kinds
                              /\ table[data[t]] # Free
         /\ file[t] # None => /\ table[file[t]] \in {t} \X Kinds
                              /\ table[file[t]] # Free
<1>1. \A j, k \in Kinds : j # k => <<t, j>> # <<t, k>>
  OBVIOUS
<1>2. \A k \in Kinds : <<t, k>> # Free /\ <<t, k>> \in {t} \X Kinds
  OBVIOUS
<1>3. /\ <<t, "ctl">> # <<t, "file">> /\ <<t, "data">> # <<t, "file">>
      /\ <<t, "listen">> # <<t, "file">> /\ <<t, "ctl">> # <<t, "data">>
      /\ <<t, "ctl">> # <<t, "listen">>
  BY <1>1
<1> QED BY <1>2, <1>3 DEF Owns

(* So a step keeps the invariant when it does for the thread that takes it. *)
LEMMA Frame ==
  ASSUME NEW t \in Threads, IInv, TypeOK', Elsewhere(t), OwnEntries(t),
         Owns(t)', Holds(t)'
  PROVE  IInv'
<1> SUFFICES ASSUME NEW u \in Threads \ {t} PROVE Owns(u)' /\ Holds(u)'
  BY DEF IInv
<1>1. Owns(u)'
  BY OthersKeep DEF IInv
<1>2. Holds(u)'
  BY DEF IInv, Holds, Elsewhere
<1> QED BY <1>1, <1>2

-----------------------------------------------------------------------------
LEMMA InitHolds == Init => IInv
<1> SUFFICES ASSUME Init PROVE IInv
  OBVIOUS
<1>1. TypeOK
  BY MaxFdAssumption DEF Init, TypeOK
<1>2. \A t \in Threads : Owns(t) /\ Holds(t)
  BY DEF Init, Owns, Holds
<1> QED BY <1>1, <1>2 DEF IInv

LEMMA StepKeeps ==
  ASSUME Orderly, IInv, NEW t \in Threads, Step(t)
  PROVE  IInv'
<1> USE DEF Go
<1>0. TypeOK /\ Owns(t) /\ Holds(t)
  BY DEF IInv
<1>a. /\ ctl[t] # None => /\ ctl[t] # data[t] /\ ctl[t] # file[t]
                          /\ table[ctl[t]] \in {t} \X Kinds
                          /\ table[ctl[t]] # Free
      /\ data[t] # None => /\ data[t] # file[t]
                           /\ table[data[t]] \in {t} \X Kinds
                           /\ table[data[t]] # Free
      /\ file[t] # None => /\ table[file[t]] \in {t} \X Kinds
                           /\ table[file[t]] # Free
  BY <1>0, Apart DEF Holds
<1>1. CASE Socket(t)
  <2>1. CASE UNCHANGED vars
    BY <1>0, <2>1 DEF vars, IInv, TypeOK, Owns, Holds
  <2>2. ASSUME NEW f \in Lowest, ctl' = [ctl EXCEPT ![t] = f],
               table' = Made(f, <<t, "ctl">>)
        PROVE  IInv'
    <3>1. /\ f \in Fds /\ f # None /\ table[f] = Free
          /\ table' \in [Fds -> Objects \cup {Free, Std}]
          /\ OwnEntries(t)
          /\ table'[f] = <<t, "ctl">>
          /\ \A g \in Fds \ {f} : table'[g] = table[g]
      BY <1>0, <2>2, MakeOwn
    <3>2. TypeOK' /\ Elsewhere(t) /\ Holds(t)'
      BY <1>0, <1>1, <2>2, <3>1 DEF Socket, TypeOK, Elsewhere, Holds, vars
    <3>3. Owns(t)'
      BY <1>0, <1>a, <1>1, <2>2, <3>1 DEF Socket, TypeOK, Holds, Owns, vars
    <3> QED BY <3>1, <3>2, <3>3, Frame
  <2> QED BY <1>1, <2>1, <2>2 DEF Socket
<1>2. CASE Connected(t)
  <2>1. TypeOK' /\ Elsewhere(t) /\ Holds(t)'
    BY <1>0, <1>2 DEF Connected, TypeOK, Elsewhere, Holds
  <2>2. OwnEntries(t) /\ Owns(t)'
    BY <1>0, <1>2 DEF Connected, TypeOK, OwnEntries, Holds, Owns
  <2> QED BY <2>1, <2>2, Frame
<1>3. CASE ConnectFails(t)
  <2>1. TypeOK' /\ Elsewhere(t) /\ Holds(t)'
    BY <1>0, <1>3 DEF ConnectFails, TypeOK, Elsewhere, Holds, Orderly
  <2>2. OwnEntries(t) /\ Owns(t)'
    BY <1>0, <1>3 DEF ConnectFails, TypeOK, OwnEntries, Holds, Owns, Orderly
  <2> QED BY <2>1, <2>2, Frame
<1>4. CASE CloseAgain(t)
  <2>1. TypeOK' /\ Elsewhere(t) /\ Holds(t)'
    BY <1>0, <1>4 DEF CloseAgain, TypeOK, Elsewhere, Holds
  <2>2. OwnEntries(t) /\ Owns(t)'
    BY <1>0, <1>4 DEF CloseAgain, TypeOK, OwnEntries, Holds, Owns
  <2> QED BY <2>1, <2>2, Frame
<1>5. CASE LoggedIn(t)
  <2>1. TypeOK' /\ Elsewhere(t) /\ Holds(t)'
    BY <1>0, <1>5 DEF LoggedIn, TypeOK, Elsewhere, Holds
  <2>2. OwnEntries(t) /\ Owns(t)'
    BY <1>0, <1>5 DEF LoggedIn, TypeOK, OwnEntries, Holds, Owns
  <2> QED BY <2>1, <2>2, Frame
<1>6. CASE LoginFails(t)
  <2>1. TypeOK' /\ Elsewhere(t) /\ Holds(t)'
    BY <1>0, <1>6 DEF LoginFails, TypeOK, Elsewhere, Holds, Orderly, Quit, Closed
  <2>2. table' = Closed(ctl[t]) /\ ctl[t] \in Fds \cup {None}
    BY <1>0, <1>6 DEF LoginFails, TypeOK, Quit
  <2>3. /\ OwnEntries(t)
        /\ \A f \in Fds \ {ctl[t]} : table'[f] = table[f]
    BY <1>0, <1>a, <2>2, CloseOwn
  <2>4. Owns(t)'
    BY <1>0, <1>a, <1>6, <2>3 DEF LoginFails, TypeOK, Holds, Owns, Orderly, Quit
  <2> QED BY <2>1, <2>3, <2>4, Frame
<1>7. CASE Drop(t)
  <2>1. TypeOK' /\ Elsewhere(t) /\ Holds(t)'
    BY <1>0, <1>7 DEF Drop, TypeOK, Elsewhere, Holds
  <2>2. OwnEntries(t)
    <3>1. \A f \in Fds \ {ctl[t]} : table'[f] = table[f]
      BY <1>0, <1>7 DEF Drop, TypeOK
    <3>2. ctl[t] \in Fds => table[ctl[t]] \in {t} \X Kinds
      BY <1>a, NoneIsNoFd
    <3> QED BY <3>1, <3>2 DEF OwnEntries
  <2>3. Owns(t)'
    BY <1>0, <1>7 DEF Drop, TypeOK, Holds, Owns
  <2> QED BY <2>1, <2>2, <2>3, Frame
<1>8. CASE DataSocket(t)
  <2>1. CASE UNCHANGED vars
    BY <1>0, <2>1 DEF vars, IInv, TypeOK, Owns, Holds
  <2>2. ASSUME NEW f \in Lowest, data' = [data EXCEPT ![t] = f],
               table' = Made(f, <<t, "data">>),
               Go(t, "idle", "port"), UNCHANGED <<ctl, file>>
        PROVE  IInv'
    <3>1. /\ f \in Fds /\ f # None /\ table[f] = Free
          /\ table' \in [Fds -> Objects \cup {Free, Std}]
          /\ OwnEntries(t)
          /\ table'[f] = <<t, "data">>
          /\ \A g \in Fds \ {f} : table'[g] = table[g]
      BY <1>0, <2>2, MakeOwn
    <3>2. TypeOK' /\ Elsewhere(t) /\ Holds(t)'
      BY <1>0, <2>2, <3>1 DEF TypeOK, Elsewhere, Holds
    <3>3. pc[t] = "idle" /\ pc'[t] = "port"
      BY <1>0, <2>2 DEF TypeOK
    <3>4. ctl' = ctl /\ file' = file /\ file[t] = None /\ data'[t] = f
      BY <1>0, <2>2, <3>3 DEF TypeOK, Holds
    <3>5. ctl[t] # None => table'[ctl[t]] = <<t, "ctl">>
      BY <1>0, <1>a, <3>1, <3>3 DEF TypeOK, Owns
    <3>6. Owns(t)'
      BY <3>1, <3>3, <3>4, <3>5 DEF Owns
    <3> QED BY <3>1, <3>2, <3>6, Frame
  <2> QED BY <1>8, <2>1, <2>2 DEF DataSocket, Orderly
<1>9. CASE PortOpened(t)
  <2>1. TypeOK' /\ Elsewhere(t) /\ Holds(t)'
    BY <1>0, <1>9 DEF PortOpened, TypeOK, Elsewhere, Holds
  <2>2. OwnEntries(t) /\ Owns(t)'
    BY <1>0, <1>9 DEF PortOpened, TypeOK, OwnEntries, Holds, Owns
  <2> QED BY <2>1, <2>2, Frame
<1>10. CASE PortFails(t)
  <2>1. TypeOK' /\ Elsewhere(t) /\ Holds(t)'
    BY <1>0, <1>10 DEF PortFails, TypeOK, Elsewhere, Holds, Orderly, Closed
  <2>2. table' = Closed(data[t]) /\ data[t] \in Fds \cup {None}
    BY <1>0, <1>10 DEF PortFails, TypeOK
  <2>3. /\ OwnEntries(t)
        /\ \A f \in Fds \ {data[t]} : table'[f] = table[f]
    BY <1>0, <1>a, <2>2, CloseOwn
  <2>4. Owns(t)'
    BY <1>0, <1>a, <1>10, <2>3 DEF PortFails, TypeOK, Holds, Owns, Orderly
  <2> QED BY <2>1, <2>3, <2>4, Frame
<1>11. CASE Access(t)
  <2>1. TypeOK' /\ Elsewhere(t) /\ Holds(t)'
    BY <1>0, <1>11 DEF Access, TypeOK, Elsewhere, Holds, Orderly
  <2>2. OwnEntries(t) /\ Owns(t)'
    BY <1>0, <1>11 DEF Access, TypeOK, OwnEntries, Holds, Owns, Orderly
  <2> QED BY <2>1, <2>2, Frame
<1>12. CASE AccessFails(t)
  <2>1. TypeOK' /\ Elsewhere(t) /\ Holds(t)'
    BY <1>0, <1>12 DEF AccessFails, TypeOK, Elsewhere, Holds, Orderly, Closed
  <2>2. table' = Closed(data[t]) /\ data[t] \in Fds \cup {None}
    BY <1>0, <1>12 DEF AccessFails, TypeOK
  <2>3. /\ OwnEntries(t)
        /\ \A f \in Fds \ {data[t]} : table'[f] = table[f]
    BY <1>0, <1>a, <2>2, CloseOwn
  <2>4. Owns(t)'
    BY <1>0, <1>a, <1>12, <2>3 DEF AccessFails, TypeOK, Holds, Owns, Orderly
  <2> QED BY <2>1, <2>3, <2>4, Frame
<1>13. CASE AcceptFails(t)
  <2>1. TypeOK' /\ Elsewhere(t) /\ Holds(t)'
    BY <1>0, <1>13 DEF AcceptFails, TypeOK, Elsewhere, Holds, Orderly
  <2>2. OwnEntries(t) /\ Owns(t)'
    BY <1>0, <1>13 DEF AcceptFails, TypeOK, OwnEntries, Holds, Owns, Orderly
  <2> QED BY <2>1, <2>2, Frame
<1>14. CASE CloseZero(t)
  <2>1. TypeOK' /\ Elsewhere(t) /\ Holds(t)'
    BY <1>0, <1>14 DEF CloseZero, TypeOK, Elsewhere, Holds
  <2>2. OwnEntries(t) /\ Owns(t)'
    BY <1>0, <1>14 DEF CloseZero, TypeOK, OwnEntries, Holds, Owns
  <2> QED BY <2>1, <2>2, Frame
<1>15. CASE OpenFile(t)
  <2>1. CASE UNCHANGED <<table, file>>
    <3>1. TypeOK' /\ Elsewhere(t) /\ Holds(t)'
      BY <1>0, <1>15, <2>1 DEF OpenFile, TypeOK, Elsewhere, Holds
    <3>2. OwnEntries(t) /\ Owns(t)'
      BY <1>0, <1>15, <2>1 DEF OpenFile, TypeOK, OwnEntries, Holds, Owns
    <3> QED BY <3>1, <3>2, Frame
  <2>2. ASSUME NEW f \in Lowest, file' = [file EXCEPT ![t] = f],
               table' = Made(f, <<t, "file">>)
        PROVE  IInv'
    <3>1. /\ f \in Fds /\ f # None /\ table[f] = Free
          /\ table' \in [Fds -> Objects \cup {Free, Std}]
          /\ OwnEntries(t)
          /\ table'[f] = <<t, "file">>
          /\ \A g \in Fds \ {f} : table'[g] = table[g]
      BY <1>0, <2>2, MakeOwn
    <3>2. TypeOK' /\ Elsewhere(t) /\ Holds(t)'
      BY <1>0, <1>15, <2>2, <3>1 DEF OpenFile, TypeOK, Elsewhere, Holds, vars
    <3>3. Owns(t)'
      BY <1>0, <1>a, <1>15, <2>2, <3>1 DEF OpenFile, TypeOK, Holds, Owns, vars
    <3> QED BY <3>1, <3>2, <3>3, Frame
  <2> QED BY <1>15, <2>1, <2>2 DEF OpenFile
<1>16. CASE CloseFile(t)
  <2>1. TypeOK' /\ Elsewhere(t) /\ Holds(t)'
    BY <1>0, <1>16 DEF CloseFile, TypeOK, Elsewhere, Holds, Orderly, Closed
  <2>2. table' = Closed(file[t]) /\ file[t] \in Fds \cup {None}
    BY <1>0, <1>16 DEF CloseFile, TypeOK
  <2>3. /\ OwnEntries(t)
        /\ \A f \in Fds \ {file[t]} : table'[f] = table[f]
    BY <1>0, <1>a, <2>2, CloseOwn
  <2>4. Owns(t)'
    BY <1>0, <1>a, <1>16, <2>3 DEF CloseFile, TypeOK, Holds, Owns, Orderly
  <2> QED BY <2>1, <2>3, <2>4, Frame
<1>17. CASE CloseData(t)
  <2>1. TypeOK' /\ Elsewhere(t) /\ Holds(t)'
    BY <1>0, <1>17 DEF CloseData, TypeOK, Elsewhere, Holds, Orderly, Closed
  <2>2. table' = Closed(data[t]) /\ data[t] \in Fds \cup {None}
    BY <1>0, <1>17 DEF CloseData, TypeOK
  <2>3. /\ OwnEntries(t)
        /\ \A f \in Fds \ {data[t]} : table'[f] = table[f]
    BY <1>0, <1>a, <2>2, CloseOwn
  <2>4. Owns(t)'
    BY <1>0, <1>a, <1>17, <2>3 DEF CloseData, TypeOK, Holds, Owns, Orderly
  <2> QED BY <2>1, <2>3, <2>4, Frame
<1>18. CASE PathTooLong(t)
  <2>1. TypeOK' /\ Elsewhere(t) /\ Holds(t)'
    BY <1>0, <1>18 DEF PathTooLong, TypeOK, Elsewhere, Holds
  <2>2. \A f \in Fds \ {data[t]} : table'[f] = table[f]
    BY <1>0, <1>18 DEF PathTooLong, TypeOK
  <2>3. OwnEntries(t)
    <3>1. data[t] \in Fds => table[data[t]] \in {t} \X Kinds
      BY <1>a, NoneIsNoFd
    <3> QED BY <2>2, <3>1 DEF OwnEntries
  <2>4. Owns(t)'
    BY <1>0, <1>a, <1>18, <2>2 DEF PathTooLong, TypeOK, Holds, Owns
  <2> QED BY <2>1, <2>3, <2>4, Frame
<1> QED BY <1>1, <1>2, <1>3, <1>4, <1>5, <1>6, <1>7, <1>8, <1>9, <1>10, <1>11,
        <1>12, <1>13, <1>14, <1>15, <1>16, <1>17, <1>18
   DEF Step

-----------------------------------------------------------------------------
(* What a step of t leaves in the table t has a handle for, if it had one  *)
(* before or if the step made it.                                          *)
Accounts(t) ==
  \A f \in Fds :
    \/ table'[f] \in {Free, Std} \cup (Threads \X {"lost", "orphan"})
    \/ /\ table'[f] = table[f]
       /\ f \in {ctl[t], data[t], file[t]} => f \in {ctl'[t], data'[t], file'[t]}
    \/ f \in {ctl'[t], data'[t], file'[t]} /\ table'[f][1] = t

LEMMA AccountKept ==
  ASSUME Accounted, NEW t \in Threads, Elsewhere(t), Accounts(t)
  PROVE  Accounted'
<1> SUFFICES ASSUME NEW f \in Fds, table'[f] \notin {Free, Std} \cup (Threads \X {"lost", "orphan"})
             PROVE  \E u \in Threads : /\ f \in {ctl'[u], data'[u], file'[u]}
                                      /\ table'[f][1] = u
  BY DEF Accounted
<1>1. CASE f \in {ctl'[t], data'[t], file'[t]} /\ table'[f][1] = t
  BY <1>1
<1>2. CASE /\ table'[f] = table[f]
           /\ f \in {ctl[t], data[t], file[t]} =>
                f \in {ctl'[t], data'[t], file'[t]}
  <2>1. PICK u \in Threads : f \in {ctl[u], data[u], file[u]} /\ table[f][1] = u
    BY <1>2 DEF Accounted
  <2>2. f \in {ctl'[u], data'[u], file'[u]}
    BY <1>2, <2>1 DEF Elsewhere
  <2> QED BY <1>2, <2>1, <2>2
<1> QED BY <1>1, <1>2 DEF Accounts

LEMMA StepAccounts ==
  ASSUME Orderly, TypeOK, NEW t \in Threads, Owns(t), Holds(t), Step(t)
  PROVE  Elsewhere(t) /\ Accounts(t)
<1> USE DEF Go
<1>0. TypeOK /\ Owns(t) /\ Holds(t)
  OBVIOUS
<1>1. CASE Socket(t)
  <2>1. CASE UNCHANGED vars
    BY <1>0, <1>1, <2>1 DEF Socket, vars, Elsewhere, Accounts, TypeOK
  <2>2. ASSUME NEW f \in Lowest, ctl' = [ctl EXCEPT ![t] = f],
               table' = Made(f, <<t, "ctl">>),
               Go(t, "down", "connect"), UNCHANGED <<data, file>>
        PROVE  Elsewhere(t) /\ Accounts(t)
    <3>1. /\ table'[f] = <<t, "ctl">> /\ f \in Fds
          /\ \A g \in Fds \ {f} : table'[g] = table[g]
      BY <1>0, <2>2, MakeOwn
    <3>2. table'[f][1] = t
      BY <3>1
    <3>3. Elsewhere(t) /\ ctl'[t] = f /\ ctl[t] = None
      BY <1>0, <2>2 DEF TypeOK, Elsewhere, Holds
    <3>4. f \in {ctl'[t], data'[t], file'[t]}
      BY <3>3
    <3>5. \A g \in Fds : g \in {ctl[t], data[t], file[t]}
                           => g \in {ctl'[t], data'[t], file'[t]}
      BY <2>2, <3>3, NoneIsNoFd
    <3> QED BY <3>1, <3>2, <3>3, <3>4, <3>5 DEF Accounts
  <2> QED BY <1>1, <2>1, <2>2 DEF Socket
<1>2. CASE Connected(t)
  BY <1>0, <1>2 DEF Connected, TypeOK, Holds, Elsewhere, Accounts, Orderly
<1>3. CASE ConnectFails(t)
  BY <1>0, <1>3 DEF ConnectFails, Orderly, Holds
<1>4. CASE CloseAgain(t)
  BY <1>0, <1>4 DEF CloseAgain, Orderly, Holds
<1>5. CASE LoggedIn(t)
  BY <1>0, <1>5 DEF LoggedIn, TypeOK, Holds, Elsewhere, Accounts, Orderly
<1>6. CASE LoginFails(t)
  BY <1>0, <1>6
     DEF LoginFails, TypeOK, Holds, Elsewhere, Accounts, Orderly, Quit, Closed
<1>7. CASE Drop(t)
  <2>1. ctl[t] # None => ctl[t] \in Fds
    BY <1>0 DEF TypeOK
  <2>2. \A f \in Fds \ {ctl[t]} : table'[f] = table[f]
    BY <1>0, <1>7 DEF Drop, TypeOK
  <2>3. ctl[t] # None => table'[ctl[t]] = <<t, "lost">>
    <3> SUFFICES ASSUME ctl[t] # None PROVE table'[ctl[t]] = <<t, "lost">>
      OBVIOUS
    <3>1. pc[t] = "idle"
      BY <1>7 DEF Drop
    <3>2. table[ctl[t]] = <<t, "ctl">>
      BY <1>0, <3>1 DEF Owns
    <3>3. table' = [table EXCEPT ![ctl[t]] = <<t, "lost">>]
      BY <1>7, <3>2 DEF Drop
    <3> QED BY <1>0, <2>1, <3>3 DEF TypeOK
  <2>4. Elsewhere(t) /\ UNCHANGED <<data, file>>
    BY <1>0, <1>7 DEF Drop, TypeOK, Elsewhere
  <2>5. ASSUME NEW f \in Fds, f # ctl[t]
        PROVE  /\ table'[f] = table[f]
               /\ f \in {ctl[t], data[t], file[t]} =>
                    f \in {ctl'[t], data'[t], file'[t]}
    BY <2>2, <2>4, <2>5
  <2>6. <<t, "lost">> \in Threads \X {"lost", "orphan"}
    OBVIOUS
  <2> QED BY <2>3, <2>4, <2>5, <2>6, NoneIsNoFd DEF Accounts
<1>8. CASE DataSocket(t)
  <2>1. CASE UNCHANGED vars
    BY <1>0, <1>8, <2>1 DEF DataSocket, vars, Elsewhere, Accounts, TypeOK
  <2>2. ASSUME NEW f \in Lowest, data' = [data EXCEPT ![t] = f],
               table' = Made(f, <<t, "data">>),
               Go(t, "idle", "port"), UNCHANGED <<ctl, file>>
        PROVE  Elsewhere(t) /\ Accounts(t)
    <3>1. /\ table'[f] = <<t, "data">> /\ f \in Fds
          /\ \A g \in Fds \ {f} : table'[g] = table[g]
      BY <1>0, <2>2, MakeOwn
    <3>2. table'[f][1] = t
      BY <3>1
    <3>3. Elsewhere(t) /\ data'[t] = f /\ data[t] = None
      BY <1>0, <2>2 DEF TypeOK, Elsewhere, Holds
    <3>4. f \in {ctl'[t], data'[t], file'[t]}
      BY <3>3
    <3>5. \A g \in Fds : g \in {ctl[t], data[t], file[t]}
                           => g \in {ctl'[t], data'[t], file'[t]}
      BY <2>2, <3>3, NoneIsNoFd
    <3> QED BY <3>1, <3>2, <3>3, <3>4, <3>5 DEF Accounts
  <2> QED BY <1>8, <2>1, <2>2 DEF DataSocket, Orderly
<1>9. CASE PortOpened(t)
  BY <1>0, <1>9 DEF PortOpened, TypeOK, Holds, Elsewhere, Accounts, Orderly
<1>10. CASE PortFails(t)
  BY <1>0, <1>10 DEF PortFails, TypeOK, Holds, Elsewhere, Accounts, Orderly, Closed
<1>11. CASE Access(t)
  BY <1>0, <1>11 DEF Access, TypeOK, Holds, Elsewhere, Accounts, Orderly
<1>12. CASE AccessFails(t)
  BY <1>0, <1>12
     DEF AccessFails, TypeOK, Holds, Elsewhere, Accounts, Orderly, Closed
<1>13. CASE AcceptFails(t)
  BY <1>0, <1>13 DEF AcceptFails, Orderly, Holds
<1>14. CASE CloseZero(t)
  BY <1>0, <1>14 DEF CloseZero, Orderly, Holds
<1>15. CASE OpenFile(t)
  <2>1. CASE UNCHANGED <<table, file>>
    BY <1>0, <1>15, <2>1 DEF OpenFile, vars, Elsewhere, Accounts, TypeOK
  <2>2. ASSUME NEW f \in Lowest, file' = [file EXCEPT ![t] = f],
               table' = Made(f, <<t, "file">>),
               Go(t, "open", "xfer"), UNCHANGED <<ctl, data>>
        PROVE  Elsewhere(t) /\ Accounts(t)
    <3>1. /\ table'[f] = <<t, "file">> /\ f \in Fds
          /\ \A g \in Fds \ {f} : table'[g] = table[g]
      BY <1>0, <2>2, MakeOwn
    <3>2. table'[f][1] = t
      BY <3>1
    <3>3. Elsewhere(t) /\ file'[t] = f /\ file[t] = None
      BY <1>0, <2>2 DEF TypeOK, Elsewhere, Holds
    <3>4. f \in {ctl'[t], data'[t], file'[t]}
      BY <3>3
    <3>5. \A g \in Fds : g \in {ctl[t], data[t], file[t]}
                           => g \in {ctl'[t], data'[t], file'[t]}
      BY <2>2, <3>3, NoneIsNoFd
    <3> QED BY <3>1, <3>2, <3>3, <3>4, <3>5 DEF Accounts
  <2> QED BY <1>15, <2>1, <2>2 DEF OpenFile
<1>16. CASE CloseFile(t)
  BY <1>0, <1>16 DEF CloseFile, TypeOK, Holds, Elsewhere, Accounts, Orderly, Closed
<1>17. CASE CloseData(t)
  BY <1>0, <1>17 DEF CloseData, TypeOK, Holds, Elsewhere, Accounts, Orderly, Closed
<1>18. CASE PathTooLong(t)
  <2>1. data[t] # None => data[t] \in Fds
    BY <1>0 DEF TypeOK
  <2>2. \A f \in Fds \ {data[t]} : table'[f] = table[f]
    BY <1>0, <1>18 DEF PathTooLong, TypeOK
  <2>3. data[t] # None => table'[data[t]] = <<t, "orphan">>
    <3> SUFFICES ASSUME data[t] # None PROVE table'[data[t]] = <<t, "orphan">>
      OBVIOUS
    <3>1. table[data[t]] \in {t} \X {"listen", "data"}
      BY <1>0 DEF Owns
    <3>2. table' = [table EXCEPT ![data[t]] = <<t, "orphan">>]
      BY <1>18, <3>1 DEF PathTooLong
    <3> QED BY <1>0, <2>1, <3>2 DEF TypeOK
  <2>4. Elsewhere(t) /\ UNCHANGED <<ctl, file>>
    BY <1>0, <1>18 DEF PathTooLong, TypeOK, Elsewhere
  <2>5. ASSUME NEW f \in Fds, f # data[t]
        PROVE  /\ table'[f] = table[f]
               /\ f \in {ctl[t], data[t], file[t]} =>
                    f \in {ctl'[t], data'[t], file'[t]}
    BY <2>2, <2>4, <2>5
  <2>6. <<t, "orphan">> \in Threads \X {"lost", "orphan"}
    OBVIOUS
  <2> QED BY <2>3, <2>4, <2>5, <2>6, NoneIsNoFd DEF Accounts
<1> QED BY <1>1, <1>2, <1>3, <1>4, <1>5, <1>6, <1>7, <1>8, <1>9, <1>10, <1>11,
        <1>12, <1>13, <1>14, <1>15, <1>16, <1>17, <1>18
   DEF Step

-----------------------------------------------------------------------------
(* The environment is what it is. *)
LEMMA OrderlyStays == [Next]_vars => (Orderly' <=> Orderly)
  BY DEF Next, vars, Orderly, PortMode

(* The invariant is inductive. *)
THEOREM Inductive == Spec => [](Orderly => IInv)
<1>1. Orderly /\ IInv /\ [Next]_vars => IInv'
  <2> SUFFICES ASSUME Orderly, IInv, [Next]_vars PROVE IInv'
    OBVIOUS
  <2>1. CASE UNCHANGED vars
    BY <2>1 DEF vars, IInv, TypeOK, Owns, Holds
  <2>2. ASSUME NEW t \in Threads, Step(t) PROVE IInv'
    BY <2>2, StepKeeps
  <2> QED BY <2>1, <2>2 DEF Next, Wild
<1> QED BY <1>1, InitHolds, OrderlyStays, PTL DEF Spec

(* Whatever the interleaving of any number of threads, and however full the *)
(* table: a thread uses only descriptors that it opened itself.             *)
THEOREM OwnOnly == Spec => []OwnDescriptors
<1>1. (Orderly => IInv) => OwnDescriptors
  BY DEF IInv, OwnDescriptors
<1> QED BY <1>1, Inductive, PTL

(* No failure leaves a descriptor behind, but that of a session given up   *)
(* and that of a transfer whose path is too long for a command.            *)
THEOREM AllClosed == Spec => []NothingLost
<1>1. Init => NothingLost
  BY DEF Init, NothingLost, Accounted
<1>2. NothingLost /\ (Orderly => IInv) /\ [Next]_vars => NothingLost'
  <2> SUFFICES ASSUME Orderly, Accounted, IInv, [Next]_vars PROVE Accounted'
    BY OrderlyStays DEF NothingLost
  <2>1. CASE UNCHANGED vars
    BY <2>1 DEF vars, Accounted
  <2>2. ASSUME NEW t \in Threads, Step(t) PROVE Accounted'
    BY <2>2, StepAccounts, AccountKept DEF IInv
  <2> QED BY <2>1, <2>2 DEF Next, Wild
<1> QED BY <1>1, <1>2, Inductive, PTL DEF Spec
=============================================================================
