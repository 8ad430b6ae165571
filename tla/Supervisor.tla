----------------------------- MODULE Supervisor -----------------------------
(***************************************************************************)
(* The main thread of fexp, the window process it forks, and the signals   *)
(* between them (fexp.c 59-267, gtkwin.c 478-540): SIGUSR1 asks for a      *)
(* window, a window that closes sends its parent SIGTERM ("Yes, exit") or  *)
(* SIGUSR2 ("Run as backend", or no window could be made).                 *)
(*                                                                         *)
(* An environment is a set of the following words; each behaviour has one  *)
(* of Environments throughout:                                             *)
(*   "display" DISPLAY is set when fexp is started                         *)
(*   "dies"    the window process may die without a word (the X server     *)
(*             closes its connection, a fault in update_gui)               *)
(*   "nofork"  fork may fail                                               *)
(*   "nothread" pthread_create may fail                                    *)
(*   "file"    /tmp/fexp.display may come and go                           *)
(***************************************************************************)
EXTENDS Integers

CONSTANTS MaxPids,      \* bound on the window processes of a behaviour
          Environments

ASSUME MaxPidsAssumption == MaxPids \in Nat

VARIABLES
  main,     \* where the main thread is
  guiPid,   \* the variable of that name: a process, 0, or -1 (fork failed)
  pending,  \* the blocked signals that wait for sigwait
  gui,      \* each window process: what it is doing
  displayFile,  \* /tmp/fexp.display exists
  env,      \* the environment, which does not change
  stale     \* environ has an entry that CheckDisplay put there: it points
            \* into the stack of a call that has returned

vars == <<main, guiPid, pending, gui, displayFile, stale, env>>

Pids == 1..MaxPids
Signals == {"TERM", "USR1", "USR2"}   \* TERM also stands for INT and QUIT
Ended == {"exit", "abort", "killed"}
Shown == {"init", "open"}             \* a window, or one about to be made

TypeOK ==
  /\ main \in {"start", "forked", "wait"} \cup Ended
  /\ guiPid \in Pids \cup {0, -1}
  /\ pending \subseteq Signals
  /\ gui \in [Pids -> {"none", "gone", "yes", "backend", "failed"} \cup Shown]
  /\ displayFile \in BOOLEAN
  /\ stale \in BOOLEAN
  /\ guiPid \in Pids => gui[guiPid] # "none"

Init ==
  /\ main = "start"
  /\ guiPid = 0
  /\ pending = {}
  /\ gui = [p \in Pids |-> "none"]
  /\ env \in Environments
  /\ displayFile \in BOOLEAN /\ (displayFile => "file" \in env)
  /\ stale = FALSE

-----------------------------------------------------------------------------
(* What CheckDisplay may find.  With the file gone, what getenv finds at a *)
(* stale entry is anybody's guess.                                         *)
CheckDisplay ==
  IF displayFile THEN {TRUE} ELSE IF stale THEN BOOLEAN ELSE {"display" \in env}

(* Mutant: the process is made and its number is not kept. *)
ForkUnnoted ==
  \E p \in Pids : gui[p] = "none" /\ gui' = [gui EXCEPT ![p] = "init"]
                                  /\ UNCHANGED guiPid

(* Mutant: a fork that failed is taken for one that did not. *)
ForkUnchecked == \E p \in Pids : guiPid' = p /\ UNCHANGED gui

(* process_gui, in the parent. *)
Fork ==
  \/ \E p \in Pids : /\ gui[p] = "none"
                     /\ gui' = [gui EXCEPT ![p] = "init"]
                     /\ guiPid' = p
  \/ /\ "nofork" \in env
     /\ guiPid' = -1
     /\ UNCHANGED gui

(* "if (CheckDisplay()) guiPid = process_gui(...)" *)
TryGui ==
  /\ \/ TRUE \in CheckDisplay /\ Fork
     \/ FALSE \in CheckDisplay /\ UNCHANGED <<guiPid, gui>>
     \/ (\A p \in Pids : gui[p] # "none") /\ UNCHANGED <<guiPid, gui>> \* bound
  /\ stale' = (stale \/ displayFile)

(* A signal for the main thread: until SigSet has blocked it, its default  *)
(* action ends the process.                                                *)
Kill(sig) ==
  IF main \in {"start", "forked"}
    THEN main' = "killed" /\ UNCHANGED pending
    ELSE /\ pending' = IF main = "wait" THEN pending \cup {sig} ELSE pending
         /\ UNCHANGED main

-----------------------------------------------------------------------------
(* main, up to process_gui. *)
Start ==
  /\ main = "start"
  /\ TryGui
  /\ main' = "forked"
  /\ UNCHANGED <<pending, displayFile, env>>

(* SigSet, and the threads of the sections. *)
SigSet ==
  /\ main = "forked"
  /\ main' \in {"wait"} \cup (IF "nothread" \in env THEN {"abort"} ELSE {})
  /\ UNCHANGED <<guiPid, pending, gui, displayFile, stale, env>>

(* Mutant: the window is made whether there is one or not. *)
Reopen2 == "USR1" \in pending /\ TryGui

(* case 1 of the loop in main: SIGUSR1, make a window if there is none. *)
Reopen == IF guiPid = 0 THEN TryGui ELSE UNCHANGED <<guiPid, gui, stale>>

(* Mutant: case 2 without "guiPid = 0". *)
ForgetNot == UNCHANGED <<guiPid, gui, stale>>

(* case 2: SIGUSR2, the window process is gone. *)
Forget == guiPid' = 0 /\ UNCHANGED <<gui, stale>>

(* Mutant: the window process is left alone. *)
LeaveGui == UNCHANGED <<guiPid, gui, stale>>

(* default: SIGTERM, the window process is killed. *)
KillGui ==
  /\ gui' = IF guiPid \in Pids THEN [gui EXCEPT ![guiPid] = "gone"] ELSE gui
  /\ UNCHANGED <<guiPid, stale>>

(* One turn of the loop in main; sigwait takes any signal that is pending. *)
SigCatcher(sig) ==
  /\ main = "wait" /\ sig \in pending
  /\ pending' = pending \ {sig}
  /\ main' = IF sig = "TERM" THEN "exit" ELSE main
  /\ CASE sig = "USR1" -> Reopen
       [] sig = "USR2" -> Forget
       [] sig = "TERM" -> KillGui
  /\ UNCHANGED <<displayFile, env>>

-----------------------------------------------------------------------------
(* The window process.  Where its own CheckDisplay finds no display, ret is *)
(* still 0, the value for "Yes, exit".                                      *)
StartGui(p) ==
  /\ gui[p] = "init"
  /\ \/ TRUE \in CheckDisplay
        /\ gui' \in {[gui EXCEPT ![p] = s] : s \in {"open", "failed"}}
     \/ FALSE \in CheckDisplay
        /\ gui' = [gui EXCEPT ![p] = "yes"]
  /\ UNCHANGED <<main, guiPid, pending, displayFile, stale, env>>

(* delete_event's dialog is answered by "Yes" or by "Run as backend". *)
Click(p) ==
  /\ gui[p] = "open"
  /\ gui' \in {[gui EXCEPT ![p] = s] : s \in {"yes", "backend"}}
  /\ UNCHANGED <<main, guiPid, pending, displayFile, stale, env>>

(* Mutant: the test of ret is left out. *)
ReportUSR2(p) == Kill("USR2")

(* kill(getppid(), ...) *)
Report(p) == Kill(IF gui[p] = "yes" THEN "TERM" ELSE "USR2")

GuiExit(p) ==
  /\ gui[p] \in {"yes", "backend", "failed"}
  /\ Report(p)
  /\ gui' = [gui EXCEPT ![p] = "gone"]
  /\ UNCHANGED <<guiPid, displayFile, stale, env>>

GuiDies(p) ==
  /\ "dies" \in env
  /\ gui[p] \notin {"none", "gone"}
  /\ gui' = [gui EXCEPT ![p] = "gone"]
  /\ UNCHANGED <<main, guiPid, pending, displayFile, stale, env>>

(* The user sends a signal. *)
User(sig) ==
  /\ main \notin Ended
  /\ Kill(sig)
  /\ UNCHANGED <<guiPid, gui, displayFile, stale, env>>

(* The user writes /tmp/fexp.display, or removes it. *)
DisplayFile ==
  /\ "file" \in env
  /\ displayFile' = ~displayFile
  /\ UNCHANGED <<main, guiPid, pending, gui, stale, env>>

-----------------------------------------------------------------------------
Main == Start \/ SigSet \/ \E sig \in Signals : SigCatcher(sig)

Gui(p) == StartGui(p) \/ Click(p) \/ GuiExit(p) \/ GuiDies(p)

Next == \/ Main
        \/ \E p \in Pids : Gui(p)
        \/ \E sig \in {"TERM", "USR1"} : User(sig)
        \/ DisplayFile

Spec == Init /\ [][Next]_vars

(* Both processes are scheduled, and no pending signal is overlooked for    *)
(* ever.  Nothing makes the user click.                                     *)
FairSpec == /\ Spec
            /\ WF_vars(Start) /\ WF_vars(SigSet)
            /\ \A sig \in Signals : WF_vars(SigCatcher(sig))
            /\ \A p \in Pids : WF_vars(StartGui(p)) /\ WF_vars(GuiExit(p))

-----------------------------------------------------------------------------
(* A window that is shown, or about to be, is the one main keeps the number *)
(* of: requests to reopen and reports of exit, whatever their order, never  *)
(* make a second one (fexp.c 127-143).                                      *)
Known == \A p \in Pids : gui[p] \in Shown => guiPid = p

(* When main leaves its loop no window stays behind (fexp.c 144-147). *)
NoOrphan == main = "exit" => \A p \in Pids : gui[p] \notin Shown

(* "Yes, exit" ends the program, whenever it is clicked (fexp.c 229-232), *)
(* unless the window process dies before it has reported.                 *)
YesEnds ==
  \A p \in Pids : gui[p] = "yes" /\ "dies" \notin env ~> main \in Ended

(* A window process that is gone is forgotten by main, so that the next    *)
(* SIGUSR1 can make another (fexp.c 138-142); but not one that dies         *)
(* without a report.                                                       *)
ExitNoticed ==
  \A p \in Pids :
    guiPid = p /\ gui[p] = "gone" /\ "dies" \notin env ~> guiPid # p \/ main \in Ended

(* The transfers go on without a window: the report of one that was closed *)
(* to "run as backend" or that could not be made ("backend or fail to      *)
(* create windown", fexp.c 233) does not end the program.                  *)
Survives ==
  [][\A p \in Pids :
       gui[p] \in {"backend", "failed"} /\ gui'[p] = "gone" => main' = main]_vars
=============================================================================
