-------------------------------- MODULE Login --------------------------------
(***************************************************************************)
(* From the configuration file to the server: fexp -password gives a code, *)
(* the user writes it into a section, read_cfg (fexp.c 766-823) copies the *)
(* arrays of parsecfg.c into a record per section, and setup_ftp_env       *)
(* (337-375) logs in with the password decoded.                            *)
(*                                                                         *)
(* What is done, besides what Config says:                                 *)
(*   "login"  a password is typed, and the sections log in                  *)
(***************************************************************************)
EXTENDS Config, Password

CONSTANTS Pass,        \* the parameter that holds the code
          Passwords,   \* what the user types
          Magics,      \* what MagicNum gives, modulo 10000
          Headers      \* the lines that begin the user's sections

ASSUME PassAssumption ==
  /\ Pass \in Params /\ Pass # <<>> /\ Types[Pass] = "string"
  /\ Range(Pass) \cap (Blanks \cup Quotes \cup {"#", "=", "[", Newline}) = {}
ASSUME TypedAssumption ==
  Passwords \subseteq Seq(Char) /\ \A magic \in Magics : magic \in Nat /\ magic < 10000
ASSUME HeadersAssumption ==
  Headers \in Seq(Lines) /\ \A s \in DOMAIN Headers : At(RmFirstSpaces(Headers[s])) = "["

VARIABLES
  typed,    \* history: the passwords whose codes are in the file, in order
  cfg,      \* per section: its name and the code of its password
  sent      \* per section: the password that its last login sent, or Nothing

login == <<typed, cfg, sent>>
allvars == <<cfgvars, login>>

Nothing == [is |-> "nothing"]
Typed(password) == [is |-> "password", password |-> password]

LoginInit == CfgInit /\ typed = <<>> /\ cfg = <<>> /\ sent = <<>>

(* fexp -password, and the user writes the code into a section of its own, *)
(* before fexp is started.                                                 *)
WritePassword(password, magic) ==
  /\ "login" \in usage /\ last \in {"none", "edit"} /\ Call("edit")
  /\ Len(typed) < Len(Headers)
  /\ ~TooLong(password) /\ Fits(password, magic)
  /\ file' = file \o <<Headers[Len(typed) + 1],
                       Equals(Pass, PassCode(password, magic))>>
  /\ typed' = Append(typed, password)
  /\ UNCHANGED <<store, calls, saved, cfg, sent>>

(* Mutant: every section gets the password of the first. *)
ReadFirst ==
  /\ "login" \in usage /\ pc = "idle" /\ last = "parse" /\ result >= 0
  /\ cfg' = [s \in 1..result |->
               [section |-> names[s], password |-> values[1][Pass]]]
  /\ sent' = [s \in 1..result |-> Nothing]
  /\ last' = "read"
  /\ UNCHANGED <<file, store, parser, result, calls, saved, usage, typed>>

(* read_cfg, after cfgParse (where that fails it ends the program). *)
ReadCfg ==
  /\ "login" \in usage /\ pc = "idle" /\ last = "parse" /\ result >= 0
  /\ cfg' = [s \in 1..result |->
               [section |-> names[s], password |-> values[s][Pass]]]
  /\ sent' = [s \in 1..result |-> Nothing]
  /\ last' = "read"
  /\ UNCHANGED <<file, store, parser, result, calls, saved, usage, typed>>

(* setup_ftp_env.  (A section without PASS has no string to decode.) *)
SetupFtpEnv(s) ==
  /\ cfg[s].password # Null
  /\ sent' = [sent EXCEPT ![s] = Typed(PassDecode(cfg[s].password.string))]
  /\ UNCHANGED <<cfgvars, typed, cfg>>

LoginNext ==
  \/ CfgNext /\ UNCHANGED login
  \/ \E password \in Passwords, magic \in Magics : WritePassword(password, magic)
  \/ ReadCfg
  \/ \E s \in DOMAIN cfg : SetupFtpEnv(s)

LoginSpec == LoginInit /\ [][LoginNext]_allvars
=============================================================================
