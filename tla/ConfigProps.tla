----------------------------- MODULE ConfigProps -----------------------------
(***************************************************************************)
(* What a configuration file means, and the properties of Config and Login.*)
(***************************************************************************)
EXTENDS Login

(* The lines without the blanks before them; some are empty, or comments. *)
Stripped == [i \in DOMAIN file |-> RmFirstSpaces(file[i])]

Name(line) == ParseWord(line, "parameter")
Opens(line) == ~Ends(line) /\ Name(line).ok /\ At(Name(line).rest) = "{"

(* The line whose braces a line stands between, or 0. *)
Around(lines) ==
  LET brace[i \in 1..Len(lines) + 1] ==
        IF i = 1 THEN 0
        ELSE LET before == brace[i - 1]
             IN  CASE before # 0 /\ At(lines[i - 1]) = "}" -> 0
                   [] before # 0 /\ At(lines[i - 1]) # "}" -> before
                   [] before = 0 /\ At(lines[i - 1]) # "["
                        /\ Opens(lines[i - 1]) -> i - 1
                   [] OTHER -> 0
  IN  brace

(* The lines that begin a section, and the section that a line belongs to. *)
Begins(lines) == {i \in DOMAIN lines : At(lines[i]) = "[" /\ Around(lines)[i] = 0}
UpTo(S, i) == {j \in S : j <= i}
SectionOf(lines, i) == Cardinality(UpTo(Begins(lines), i))

(* The parameter that a line gives a value to, and the value. *)
Gives(lines, i, p) ==
  /\ ~Ends(lines[i]) /\ i \notin Begins(lines)
  /\ IF Around(lines)[i] = 0
       THEN ~Opens(lines[i]) /\ SameName(Name(lines[i]).word, p)
       ELSE At(lines[i]) # "}" /\ SameName(Name(lines[Around(lines)[i]]).word, p)
Given(lines, i) ==
  ParseWord(IF Around(lines)[i] = 0 THEN Name(lines[i]).rest ELSE lines[i],
            "value").word

(* The member of a set of numbers that has k of them up to it. *)
Nth(S, k) == CHOOSE i \in S : Cardinality(UpTo(S, i)) = k

(* The first n lines that give a value to a parameter in a section, and    *)
(* these values.                                                           *)
Here(lines, n, s, p) == {i \in 1..n : SectionOf(lines, i) = s /\ Gives(lines, i, p)}
WordsAt(lines, here) == [k \in 1..Cardinality(here) |-> Given(lines, Nth(here, k))]

(* A string, a number and a truth value are what they were last given, a   *)
(* list is all that was given.                                             *)
Meant(lines, n, s, p) ==
  LET words == WordsAt(lines, Here(lines, n, s, p))
  IN  CASE words = <<>> -> Default[p]
        [] words # <<>> /\ Types[p] = "list" -> List(words)
        [] OTHER -> Stored(p, Null, Last(words))

NameOf(line) == ParseWord(RmFirstSpaces(Tail(line)), "section").word

(* The arrays hold what the first n lines say of so many sections. *)
Holds(lines, n, sections) ==
  \A s \in 1..sections :
    /\ names[s] = NameOf(lines[Nth(Begins(lines), s)])
    /\ \A p \in Params : values[s][p] = Meant(lines, n, s, p)

Parsed == pc = "idle" /\ last = "parse" /\ result >= 0

LinesRead == Len(file) - Len(unread)

(* After a cfgParse that returned a number of sections, the arrays hold    *)
(* for that many sections what the lines it has read say between one header *)
(* and the next, whatever the store held before: braces, comments, repeated *)
(* parameters and a header that stands between braces included.  Unless    *)
(* reading failed these are all lines of the file.                         *)
MeansFile ==
  Parsed =>
    /\ unread # <<>> => "error" \in usage
    /\ result = maximum /\ maximum = SectionOf(Stripped, LinesRead)
    /\ Holds(Stripped, LinesRead, maximum)

-----------------------------------------------------------------------------
(* The words that cfgDump writes so that cfgParse reads them again. *)
OneQuote(word) == ~Quotes \subseteq Range(word)
PlainName(word) == /\ OneQuote(word) /\ Newline \notin Range(word)
                   /\ SingleOrDoubleQuote(word) = <<>> => "]" \notin Range(word)
PlainWord(word) == /\ OneQuote(word) /\ Newline \notin Range(word)
                   /\ SingleOrDoubleQuote(word) = <<>> => At(word) # "{"
PlainValue(p, value) ==
  CASE value.is = "string" -> PlainWord(value.string)
    [] value.is = "list" -> \A i \in DOMAIN value.list : PlainWord(value.list[i])
    [] value.is = "float" -> \A i \in DigitsWritten + 1..DigitsKept : value.fraction[i] = "0"
    [] OTHER -> Types[p] = "bool" => value # Default[p]

Plain(store1) ==
  /\ \A s \in DOMAIN store1.names :
       /\ PlainName(store1.names[s])
       /\ \A r \in 1..s - 1 : ~SameName(store1.names[r], store1.names[s])
       /\ \A p \in Params : PlainValue(p, store1.values[s][p])

(* cfgParse reads back exactly what cfgDump has written if no word holds a *)
(* newline or quotes of both kinds, no value that is not quoted begins with *)
(* a brace and no name holds a bracket, the names differ, every truth value *)
(* was set, %f writes all digits of every fraction, and no reading fails;   *)
(* otherwise it fails or reads something else.                             *)
ReadsBack ==
  pc = "idle" /\ last = "parse" /\ saved.dumped /\ "error" \notin usage =>
    (Plain(saved) <=> /\ result = Len(saved.names)
                      /\ SubSeq(names, 1, maximum) = saved.names
                      /\ SubSeq(values, 1, maximum) = saved.values)

(* Whenever no call is running, cfgSectionNumberToName has a name, and the *)
(* arrays have values, for every number below parsecfg_maximum_section,    *)
(* after a parse that failed half-way too; unless a file is parsed without *)
(* a cfgFree first.                                                        *)
NamesThere ==
  pc = "idle" /\ "again" \notin usage =>
    \A s \in 1..maximum :
      s \in DOMAIN names \cap DOMAIN values /\ names[s] # Dangling

-----------------------------------------------------------------------------
(* The password a section logs in with is the one that was typed for it,   *)
(* by way of PassCode, the file, cfgParse, read_cfg and PassDecode, if its *)
(* characters are those of ASCII, nothing else is done to the file and it   *)
(* can be read.                                                            *)
PasswordArrives ==
  usage \cap {"file", "calls", "error"} = {} =>
    \A s \in DOMAIN sent :
      sent[s] # Nothing /\ (\A i \in DOMAIN typed[s] : typed[s][i] > 0)
        => sent[s] = Typed(typed[s])
-----------------------------------------------------------------------------
(* The values that a parameter may have. *)
ValueOf(type) ==
  CASE type = "string" -> {Null} \cup [is : {"string"}, string : Strings]
    [] type = "int"    -> [is : {"int"}, int : -IntMax - 1..IntMax]
    [] type = "float"  -> [is : {"float"}, whole : Strings, fraction : Strings]
    [] type = "bool"   -> [is : {"int"}, int : -1..1]
    [] type = "list"   -> [is : {"list"}, list : Seq(Strings)]

Value == UNION {ValueOf(type) : type \in {"string", "int", "float", "bool", "list"}}
Settings == {v \in [Params -> Value] : \A p \in Params : v[p] \in ValueOf(Types[p])}

CfgTypeOK ==
  /\ file \in Seq(Strings) /\ unread \in Seq(Strings)
  /\ names \in Seq(Strings \cup {Dangling})
  /\ values \in Seq(Settings) /\ Len(values) = Len(names)
  /\ maximum \in Nat /\ section \in Nat /\ parameter \in Strings
  /\ pc \in {"idle", "lines", "braces"}
  /\ last \in {"none", "parse", "alloc", "store", "dump", "free", "edit", "read"}
  /\ result \in Nat \cup {-1} /\ calls \in Nat
  /\ saved \in {NotDumped} \cup
               [dumped : {TRUE}, names : Seq(Strings), values : Seq(Settings)]
  /\ typed \in Seq(Seq(Char))
  /\ cfg \in Seq([section : Strings, password : ValueOf("string")])
  /\ DOMAIN sent = DOMAIN cfg

(* Between two calls every section has its name, unless a file was parsed  *)
(* with the sections of another still there; while one is parsed, those    *)
(* that it has begun.                                                      *)
Named ==
  /\ pc = "idle" /\ ("again" \notin usage \/ Parsed) => AllNamed
  /\ Parsed => result = maximum
  /\ pc # "idle" => /\ section <= Len(names)
                    /\ \A s \in 1..section : names[s] # Dangling
                    /\ "again" \notin usage => maximum = 0
                    /\ pc = "braces" => section > 0

(* While cfgParse reads, the arrays hold what the lines before say; and    *)
(* where braces are open it has their parameter.                           *)
ReadSoFar ==
  pc # "idle" =>
    LET lines == Stripped
        brace == Around(lines)[LinesRead + 1]
    IN  /\ LinesRead >= 0 /\ \A i \in DOMAIN unread : unread[i] = file[LinesRead + i]
        /\ pc = "braces" <=> brace # 0
        /\ pc = "braces" => parameter = Name(lines[brace]).word
        /\ section = SectionOf(lines, LinesRead)
        /\ Holds(lines, LinesRead, section)

(* Where the codes are on their way: in the file, in the arrays for what   *)
(* cfgParse has read of it, and in the records of the sections.            *)
Codes(s) == {PassCode(typed[s], magic) : magic \in {m \in Magics : Fits(typed[s], m)}}

CodesWritten ==
  /\ Len(typed) <= Len(Headers) /\ Len(file) = 2 * Len(typed)
  /\ \A s \in DOMAIN typed : /\ file[2 * s - 1] = Headers[s]
                              /\ \E code \in Codes(s) : file[2 * s] = Equals(Pass, code)

CodeStored(s) == s \in DOMAIN typed /\ \E code \in Codes(s) : values[s][Pass] = Text(code)

CodesRead ==
  pc # "idle" =>
    /\ pc = "lines" /\ LinesRead \in {2 * section - 1, 2 * section}
    /\ LinesRead >= 0 /\ \A i \in DOMAIN unread : unread[i] = file[LinesRead + i]
    /\ \A s \in 1..section : 2 * s <= LinesRead => CodeStored(s)

CodesKept ==
  /\ Parsed => \A s \in 1..maximum : CodeStored(s)
  /\ \A s \in DOMAIN cfg : /\ s \in DOMAIN typed
                            /\ \E code \in Codes(s) : cfg[s].password = Text(code)

CodesThere == usage \cap {"file", "calls", "error"} = {} => CodesWritten /\ CodesRead /\ CodesKept
=============================================================================
