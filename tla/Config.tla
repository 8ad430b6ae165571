------------------------------- MODULE Config --------------------------------
(***************************************************************************)
(* parsecfg.c, as far as it handles files with sections (CFG_INI): cfgParse *)
(* reads the file of fexp's sections line by line into one array per        *)
(* parameter; its callers may also make sections (cfgAllocForNewSection),   *)
(* store values, write the store to a file (cfgDump) and free it.           *)
(*                                                                         *)
(* A value is a string, a number (CFG_INT; CFG_LONG differs in its bounds), *)
(* a fraction (CFG_FLOAT; CFG_DOUBLE keeps more of it), a truth value or a  *)
(* list of strings.  The unsigned numbers are left out, and of fractions    *)
(* all but digits and a point (blanks, a sign, an exponent; "inf", "nan").  *)
(* So are numbers too large even for a long (they leave errno set, and all  *)
(* numbers read after them are refused).                                    *)
(*                                                                         *)
(* What is done with it, in words:                                         *)
(*   "file"   the user writes the file                                      *)
(*   "again"  the program parses it without freeing what it has             *)
(*   "calls"  the program makes sections, stores values and dumps them      *)
(*   "error"  the file cannot be read to its end                            *)
(***************************************************************************)
EXTENDS Words

CONSTANTS Table,         \* cfg[]: the name and type of each parameter
          IntMax,        \* INT_MAX; it and INT_MIN have one digit here
          DigitsKept,    \* how many digits of a fraction a float has,
          DigitsWritten, \* and how many %f writes
          Files,         \* the files that users write
          Rewrites,      \* and those that they write in their place
          NewNames,      \* the names of sections that the program makes
          NewWords,      \* the values it stores
          MaxSections,   \* bound on the sections it makes
          MaxCalls,      \* bound on the calls it makes
          Usages

ASSUME IntMaxAssumption == IntMax \in 0..8
ASSUME FractionAssumption == DigitsKept \in Nat /\ DigitsWritten \in Nat
ASSUME TableAssumption ==
  Table \in Seq([name : Strings, type : {"string", "int", "float", "bool", "list"}])
ASSUME FilesAssumption == Files \cup Rewrites \subseteq Seq(Lines)
ASSUME CallsAssumption == NewNames \cup NewWords \subseteq Strings

(* The parameters, which are found with strcasecmp. *)
Params == {Fold(Table[i].name) : i \in DOMAIN Table}
Types == [p \in Params |->
            Table[CHOOSE i \in DOMAIN Table : Fold(Table[i].name) = p].type]

VARIABLES
  file,       \* the lines of the configuration file
  unread,     \* those that cfgParse has still to read, or has not read
  names,      \* parsecfg_section_name
  values,     \* the arrays of cfg[]: per section, the value of each parameter
  maximum,    \* parsecfg_maximum_section
  section,    \* in cfgParse: max_cfg + 1
  parameter,  \* in parse_values_between_braces: whose values are read
  pc,         \* "idle", or in cfgParse: "lines" or "braces"
  last,       \* the last call that the program made
  result,     \* what the last cfgParse returned
  calls,      \* how many calls it made
  saved,      \* history: names and values when file was dumped, or NotDumped
  usage       \* what is done, which does not change

store == <<names, values, maximum>>
parser == <<unread, section, parameter, pc>>
history == <<last, calls, saved>>
cfgvars == <<file, store, parser, result, history, usage>>

Null == [is |-> "null"]
Num(n) == [is |-> "int", int |-> n]
Real(whole, fraction) == [is |-> "float", whole |-> whole, fraction |-> fraction]
Text(word) == [is |-> "string", string |-> word]
List(words) == [is |-> "list", list |-> words]

(* The first n digits of a fraction, and zeros where it has less. *)
Places(digits, n) == [i \in 1..n |-> IF i \in DOMAIN digits THEN digits[i] ELSE "0"]

(* What alloc_for_new_section puts into each array. *)
Default == [p \in Params |-> CASE Types[p] = "string" -> Null
                               [] Types[p] = "int"    -> Num(0)
                               [] Types[p] = "float"  -> Real(<<>>, Places(<<>>, DigitsKept))
                               [] Types[p] = "bool"   -> Num(-1)
                               [] Types[p] = "list"   -> List(<<>>)]

Dangling == <<Freed>>         \* a pointer that nothing valid is behind
NotDumped == [dumped |-> FALSE]

CfgInit ==
  /\ usage \in Usages
  /\ file = <<>> /\ unread = <<>>
  /\ names = <<>> /\ values = <<>> /\ maximum = 0
  /\ section = 0 /\ parameter = <<>> /\ pc = "idle"
  /\ last = "none" /\ result = 0 /\ calls = 0 /\ saved = NotDumped

-----------------------------------------------------------------------------
Figures == <<"0", "1", "2", "3", "4", "5", "6", "7", "8", "9",
             "a", "b", "c", "d", "e", "f">>
DigitsOf(base) == {Figures[i] : i \in 1..base}
Digit(c) == (CHOOSE i \in DOMAIN Figures : Figures[i] = c) - 1

(* strtol with base 0: blanks, a sign, and digits whose base is said by      *)
(* "0x" or "0" before them.  An empty word is 0.                            *)
Trimmed(word) == From(word, Before(word, Letters \ (Blanks \cup {Newline})) + 1)
HasSign(word) == At(Trimmed(word)) \in {"+", "-"}
Unsigned(word) == IF HasSign(word) THEN Tail(Trimmed(word)) ELSE Trimmed(word)
HasPrefix(word) == /\ Len(Unsigned(word)) > 2
                   /\ Fold(SubSeq(Unsigned(word), 1, 2)) = <<"0", "x">>
Base(word) == IF HasPrefix(word) THEN 16 ELSE IF At(Unsigned(word)) = "0" THEN 8 ELSE 10
Body(word) == Fold(From(Unsigned(word), IF HasPrefix(word) THEN 3 ELSE 1))

IsNumber(word) ==
  word # <<>> => Body(word) # <<>> /\ Range(Body(word)) \subseteq DigitsOf(Base(word))

Number(word) ==
  LET upTo[i \in 0..Len(Body(word))] ==
        IF i = 0 THEN 0 ELSE Base(word) * upTo[i - 1] + Digit(Body(word)[i])
  IN  (IF At(Trimmed(word)) = "-" THEN -1 ELSE 1) * upTo[Len(Body(word))]

(* strtod, of digits with or without a point. *)
Point(word) == Before(word, {"."})
WholePart(word) == SubSeq(word, 1, Point(word))
Fraction(word) == From(word, Point(word) + 2)
IsReal(word) ==
  Range(WholePart(word) \o Fraction(word)) \subseteq Range(Digits) /\ word # <<".">>
NoZeros(digits) == From(digits, Before(digits, Letters \ {"0"}) + 1)
RealOf(word) == Real(NoZeros(WholePart(word)), Places(Fraction(word), DigitsKept))

True == {<<"t", "r", "u", "e">>, <<"y", "e", "s">>, <<"t">>, <<"y">>, <<"1">>}
False == {<<"f", "a", "l", "s", "e">>, <<"n", "o">>, <<"f">>, <<"n">>, <<"0">>}

(* store_value accepts the word for the parameter. *)
Accepted(p, word) ==
  /\ Fold(p) \in Params
  /\ CASE Types[Fold(p)] = "int" -> IsNumber(word) /\ Number(word) \in -IntMax - 1..IntMax
       [] Types[Fold(p)] = "float" -> IsReal(word)
       [] Types[Fold(p)] = "bool" -> Fold(word) \in True \cup False
       [] OTHER -> TRUE

(* What it makes of the value that was there. *)
Stored(p, old, word) ==
  CASE Types[p] = "string" -> Text(word)
    [] Types[p] = "int"    -> Num(Number(word))
    [] Types[p] = "float"  -> RealOf(word)
    [] Types[p] = "bool"   -> Num(IF Fold(word) \in True THEN 1 ELSE 0)
    [] Types[p] = "list"   -> List(Append(old.list, word))

StoreValue(p, word, s) ==
  values' = [values EXCEPT ![s][Fold(p)] = Stored(Fold(p), @, word)]

(* Mutant: an element that is there already keeps its value. *)
AllocKeeping(n) ==
  values' = IF n < Len(values) THEN SubSeq(values, 1, n + 1)
                               ELSE Append(values, Default)

(* alloc_for_new_section, of the section that n others come before: all     *)
(* arrays grow, or are begun anew by the first.                            *)
AllocForNewSection(n) == values' = Append(SubSeq(values, 1, n), Default)

-----------------------------------------------------------------------------
(* fopen, and the loop of cfgParse begins. *)
Parse ==
  /\ pc = "idle"
  /\ names # <<>> => "again" \in usage
  /\ pc' = "lines"
  /\ unread' = file
  /\ section' = 0
  /\ UNCHANGED <<file, store, parameter, result, history>>

(* Every error ends cfgParse: the number of sections stays what it was. *)
Fail ==
  /\ pc' = "idle" /\ result' = -1 /\ last' = "parse"
  /\ unread' = <<>> /\ parameter' = <<>>
  /\ UNCHANGED <<file, maximum, calls, saved>>

GoOn(where) ==
  /\ pc' = where
  /\ unread' = Tail(unread)
  /\ UNCHANGED <<file, maximum, result, history>>

(* The line that get_single_line_without_first_spaces returns. *)
Line == RmFirstSpaces(Head(unread))
Reading(where) == pc = where /\ unread # <<>> /\ ~Ends(Line)

(* It passes over empty lines and comments. *)
Skip ==
  /\ pc \in {"lines", "braces"} /\ unread # <<>> /\ Ends(Line)
  /\ GoOn(pc)
  /\ UNCHANGED <<names, values, section, parameter>>

(* parse_ini, a line that begins a section. *)
Header ==
  /\ Reading("lines") /\ At(Line) = "["
  /\ LET word == ParseWord(RmFirstSpaces(Tail(Line)), "section")
         others == SubSeq(names, 1, section)
         used == \E i \in DOMAIN others : SameName(others[i], word.word)
         kept == ~word.ok /\ ~word.freed /\ section < Len(names)
     IN  /\ names' = Append(others, IF word.ok THEN word.word
                                  ELSE IF kept THEN names[section + 1]
                                  ELSE Dangling)
         /\ IF word.ok /\ ~used /\ Ends(Tail(word.rest)) THEN GoOn("lines")
                                                         ELSE Fail
  /\ AllocForNewSection(section)
  /\ section' = section + 1
  /\ UNCHANGED parameter

(* parse_ini, "parameter = value". *)
Assign ==
  /\ Reading("lines") /\ At(Line) # "["
  /\ LET name == ParseWord(Line, "parameter")
         value == ParseWord(name.rest, "value")
     IN  /\ ~(section > 0 /\ name.ok /\ At(name.rest) = "{")
         /\ IF section > 0 /\ name.ok /\ value.ok /\ Accepted(name.word, value.word)
              THEN StoreValue(name.word, value.word, section) /\ GoOn("lines")
              ELSE UNCHANGED values /\ Fail
  /\ UNCHANGED <<names, section, parameter>>

(* parse_ini, "parameter = {": its values follow, one a line. *)
Open ==
  /\ Reading("lines") /\ At(Line) # "[" /\ section > 0
  /\ LET name == ParseWord(Line, "parameter")
     IN  /\ name.ok /\ At(name.rest) = "{"
         /\ IF Ends(Tail(name.rest)) THEN parameter' = name.word /\ GoOn("braces")
                                     ELSE Fail
  /\ UNCHANGED <<names, values, section>>

(* parse_values_between_braces *)
Item ==
  /\ Reading("braces") /\ At(Line) # "}"
  /\ LET value == ParseWord(Line, "value")
     IN  IF value.ok /\ Accepted(parameter, value.word)
           THEN /\ StoreValue(parameter, value.word, section)
                /\ GoOn("braces") /\ UNCHANGED parameter
           ELSE UNCHANGED values /\ Fail
  /\ UNCHANGED <<names, section>>

Close ==
  /\ Reading("braces") /\ At(Line) = "}"
  /\ IF Ends(Tail(Line)) THEN GoOn("lines") /\ parameter' = <<>> ELSE Fail
  /\ UNCHANGED <<names, values, section>>

(* dynamic_fgets returns NULL at the end of the file, and also when reading *)
(* fails; cfgParse takes both for the end, which is an error between braces.*)
Eof ==
  /\ pc \in {"lines", "braces"}
  /\ unread # <<>> => "error" \in usage
  /\ \/ /\ pc = "lines" /\ pc' = "idle"
        /\ maximum' = section /\ result' = section /\ last' = "parse"
        /\ UNCHANGED <<file, unread, parameter, calls, saved>>
     \/ pc = "braces" /\ Fail
  /\ UNCHANGED <<names, values, section>>

-----------------------------------------------------------------------------
(* A call by the program, which is not in cfgParse. *)
Call(name) == /\ pc = "idle" /\ last' = name
              /\ UNCHANGED <<parser, result, usage>>

Counted == calls < MaxCalls /\ calls' = calls + 1

(* Every section has a name.  (Where some have none, what is written,       *)
(* copied or freed in their place is no name: no step here.)               *)
AllNamed == maximum <= Len(names) /\ \A s \in 1..maximum : names[s] # Dangling

CfgAllocForNewSection(name) ==
  /\ "calls" \in usage /\ maximum < MaxSections /\ Counted /\ Call("alloc")
  /\ AllNamed
  /\ AllocForNewSection(maximum)
  /\ names' = Append(SubSeq(names, 1, maximum), name)
  /\ maximum' = maximum + 1
  /\ UNCHANGED <<file, saved>>

CfgStoreValue(p, word, s) ==
  /\ "calls" \in usage /\ Counted /\ Call("store")
  /\ s \in DOMAIN values /\ s <= maximum /\ Accepted(p, word)
  /\ StoreValue(p, word, s)
  /\ UNCHANGED <<file, names, maximum, saved>>

Equals(name, word) == name \o <<"\t", "=", " ">> \o word

Decimal(n) == IF n < 0 THEN <<"-", Digits[1 - n]>> ELSE <<Digits[n + 1]>>

(* %f, which cuts a fraction short.  (It also rounds it.) *)
Printed(real) ==
  (IF real.whole = <<>> THEN <<"0">> ELSE real.whole)
  \o <<".">> \o Places(real.fraction, DigitsWritten)

(* What dump_ini writes for a value, a text that ends with a newline each. *)
DumpValue(name, value) ==
  CASE value.is = "null" -> <<>>
    [] value.is = "string" -> <<Equals(name, Quoted(value.string))>>
    [] value.is = "list" ->
         [i \in DOMAIN value.list |-> Equals(name, Quoted(value.list[i]))]
    [] value.is = "int" /\ Types[Fold(name)] = "int" ->
         <<Equals(name, Decimal(value.int))>>
    [] value.is = "float" -> <<Equals(name, Printed(value))>>
    [] value.is = "int" /\ Types[Fold(name)] = "bool" ->
         <<Equals(name, IF value.int # 0 THEN <<"T", "r", "u", "e">>
                                         ELSE <<"F", "a", "l", "s", "e">>)>>

(* A section: its name, its parameters in the order of cfg[], an empty line.*)
DumpSection(s) ==
  LET lines(name) == DumpValue(name, values[s][Fold(name)])
  IN  <<<<"[">> \o Quoted(names[s]) \o <<"]">>>>
      \o FlattenSeq([i \in DOMAIN Table |-> lines(Table[i].name)])
      \o <<<<>>>>

CfgDump ==
  /\ "calls" \in usage /\ last # "dump" /\ Call("dump")
  /\ maximum > 0 /\ AllNamed
  /\ LET texts == FlattenSeq([s \in 1..maximum |-> DumpSection(s)])
     IN  file' = FlattenSeq([i \in DOMAIN texts |-> SplitLines(texts[i])])
  /\ saved' = [dumped |-> TRUE, names |-> SubSeq(names, 1, maximum),
               values |-> SubSeq(values, 1, maximum)]
  /\ UNCHANGED <<store, calls>>

(* Mutant: the number of sections is left as it was. *)
DeallocNames == names' = <<>> /\ UNCHANGED maximum

DeallocForSections == names' = <<>> /\ maximum' = 0

(* cfgFree frees the arrays of all parameters, and the names. *)
CfgFree ==
  /\ usage \cap {"file", "calls"} # {} /\ Call("free")
  /\ names # <<>> /\ AllNamed
  /\ values' = <<>> /\ DeallocForSections
  /\ UNCHANGED <<file, calls, saved>>

(* The user writes the file. *)
WriteFile(f) ==
  /\ "file" \in usage /\ Counted /\ Call("edit")
  /\ file' = f /\ saved' = NotDumped
  /\ UNCHANGED store

-----------------------------------------------------------------------------
CfgParse ==
  /\ Parse \/ Skip \/ Header \/ Assign \/ Open \/ Item \/ Close \/ Eof
  /\ UNCHANGED usage

Calls == \/ \E name \in NewNames : CfgAllocForNewSection(name)
         \/ \E p \in Params, word \in NewWords, s \in 1..MaxSections :
               CfgStoreValue(p, word, s)
         \/ CfgDump
         \/ CfgFree
         \/ \E f \in IF calls = 0 THEN Files ELSE Rewrites : WriteFile(f)

CfgNext == CfgParse \/ Calls
=============================================================================
