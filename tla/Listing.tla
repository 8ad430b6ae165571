------------------------------ MODULE Listing ------------------------------
(***************************************************************************)
(* ftp_dscan (fexp.c 830-861): the lines of a remote directory, as "ls -l" *)
(* prints them, become the table of the files that get_file fetches, one   *)
(* line at a time through list_parse_unix (dscan.c 119-356).               *)
(*                                                                         *)
(* A line is its first field, its other fields up to the name, and the     *)
(* name.  A field is a month, a number, the number of a device with its    *)
(* comma, or another word; the clock time or the year is a word.           *)
(*                                                                         *)
(* Words of an environment:                                                *)
(*   "nogroup" the server leaves the group out                             *)
(*   "spaces"  groups have names of two words                              *)
(*   "device"  the directory has devices                                   *)
(*   "long"    there are names of 32 characters and more                   *)
(*   "all"     FILEMATCH lets every name through                           *)
(*   "cut"     the connection may close or fall silent in the middle       *)
(***************************************************************************)
EXTENDS Integers, SequencesExt

CONSTANTS Sizes,          \* the sizes of files
          MaxEntries,     \* bound on the directory
          Environments

ASSUME SizesAssumption == Sizes \subseteq Nat

VARIABLES
  directory,  \* what the server has, in the order of the listing
  lines,      \* the lines that FtpRead has still to return
  f_tab,      \* the table
  state,      \* of the loop: "scan", "done" or "crash"
  env

vars == <<directory, lines, f_tab, state, env>>

(* The names: of files that FILEMATCH lets through, of others, hidden ones, *)
(* and what is left of a name when its line breaks off.                    *)
Names == {"match", "other", ".hidden", "longmatch"}
Pieces == {"piece", ""}
Garbled == "longmatch and what lies behind it"

Modes == {"-", "d", "c"}    \* the others are treated like "-" or like "c"
NoSize == -1                            \* fs_size, not initialized
Entry == [mode : Modes, name : Names, size : Sizes]
File == [name : Names \cup Pieces \cup {Garbled}, size : Nat \cup {NoSize}]

Field == [is : {"number", "major", "month", "word"}, val : Nat]
Number(n) == [is |-> "number", val |-> n]
Text(kind) == [is |-> kind, val |-> 0]

NoName == "no name"
Line == [first : {"mode", "total", "message", "part"}, mode : Modes,
         fields : Seq(Field), name : Names \cup Pieces \cup {NoName}]

(* What the server may have. *)
MayBe(e) == /\ e.mode = "c" => "device" \in env
            /\ e.name = "longmatch" => "long" \in env

(* What the server prints for an entry. *)
Ls(e) ==
  LET group == IF "nogroup" \in env THEN <<>>
               ELSE IF "spaces" \in env THEN <<Text("word"), Text("word")>>
               ELSE <<Text("word")>>
      size == IF e.mode = "c" THEN <<Text("major"), Number(e.size)>>
                              ELSE <<Number(e.size)>>
  IN  [first |-> "mode", mode |-> e.mode, name |-> e.name,
       fields |-> <<Number(1), Text("word")>> \o group \o size
                    \o <<Text("month"), Number(1), Text("word")>>]

(* A line that is no entry, or not even the mode of one. *)
Noise(first) ==
  [first |-> first, mode |-> "-", fields |-> <<>>, name |-> NoName]

TypeOK ==
  /\ directory \in Seq(Entry)
  /\ lines \in Seq(Line)
  /\ f_tab \in Seq(File)
  /\ state \in {"scan", "done", "crash"}
  /\ \/ Len(f_tab) + Len(lines) <= Len(directory)
     \/ /\ f_tab = <<>> /\ Len(lines) = Len(directory) + 1
        /\ Head(lines).first # "mode"

Init ==
  /\ env \in Environments
  /\ directory \in UNION {[1..n -> {e \in Entry : MayBe(e)}] : n \in 0..MaxEntries}
  /\ \E first \in {"total", "message"} :
        lines = <<Noise(first)>>
                \o [i \in DOMAIN directory |-> Ls(directory[i])]
  /\ f_tab = <<>> /\ state = "scan"

-----------------------------------------------------------------------------
(* What list_parse_unix makes of a line: a file, NULL, or the end of the   *)
(* program.                                                                *)
Null == [is |-> "null"]
Crash == [is |-> "crash"]
Found(name, size) == [is |-> "file", name |-> name, size |-> size]

IsMonth(line, i) == line.fields[i].is = "month"

(* Mutant: the group is always there. *)
GroupThere(line) == FALSE

(* The fourth field is a month: then the third was the size. *)
NoGroup(line) == IsMonth(line, 4)

Device(line) == line.mode = "c"

(* The position of the month.  A device has two numbers, the major one     *)
(* with a comma, which is in the third field when there is no group.       *)
MonthAt(line) ==
  IF Device(line)
    THEN IF line.fields[3].is = "major" THEN 5 ELSE 6
    ELSE IF NoGroup(line) THEN 4 ELSE 5

(* sscanf leaves ul as it is where the field is no number; the size of a    *)
(* device is never set.                                                    *)
SizeIn(line) ==
  LET field == line.fields[IF NoGroup(line) THEN 3 ELSE 4]
  IN  IF Device(line) \/ field.is # "number" THEN NoSize ELSE field.val

(* "the rest is the filename": 32 bytes of it, with no 0 behind them where  *)
(* it is longer.                                                           *)
NameIn(line) == IF line.name = "longmatch" THEN Garbled ELSE line.name

(* fnmatch(patt, name) = 0 *)
Matches(name) == "all" \in env \/ name \in {"match", "longmatch", Garbled}

(* ffilter: directories, hidden files, and what FILEMATCH does not match.   *)
Ffilter(mode, name) == mode = "d" \/ name = ".hidden" \/ ~Matches(name)

NameThere(line) == line.name # NoName

(* A field that is not there is a null pointer, and is used as a string.    *)
Has(line, n) == Len(line.fields) >= n

ListParse(line) ==
  IF line.first # "mode" THEN Null                    \* EPERM, EINVAL, "total"
  ELSE IF ~Has(line, 4) \/ ~Has(line, MonthAt(line)) THEN Crash
  ELSE IF ~IsMonth(line, MonthAt(line)) THEN Null     \* EINVAL
  ELSE IF ~Has(line, MonthAt(line) + 2) \/ ~NameThere(line) THEN Crash
  ELSE IF Ffilter(line.mode, NameIn(line)) THEN Null
  ELSE Found(NameIn(line), SizeIn(line))

-----------------------------------------------------------------------------
(* One turn of ftp_dscan's loop. *)
ScanLine ==
  /\ state = "scan" /\ lines # <<>>
  /\ LET ft == ListParse(Head(lines))
     IN  /\ f_tab' = IF ft.is = "file"
                       THEN Append(f_tab, [name |-> ft.name, size |-> ft.size])
                       ELSE f_tab
         /\ state' = IF ft.is = "crash" THEN "crash" ELSE "scan"
  /\ lines' = Tail(lines)
  /\ UNCHANGED <<directory, env>>

(* FtpRead returns 0 or -1, and nobody asks which. *)
ScanEnd ==
  /\ state = "scan" /\ lines = <<>>
  /\ state' = "done"
  /\ UNCHANGED <<directory, lines, f_tab, env>>

(* The lines that are left after a break in the next one: its first part,   *)
(* less the last character, which ftp_dscan takes for the newline.         *)
Parts(line) ==
  {Noise("part")} \cup
  {[line EXCEPT !.fields = SubSeq(@, 1, n), !.name = NoName]
     : n \in 0..Len(line.fields)} \cup
  {[line EXCEPT !.name = name]
     : name \in {"", line.name} \cup {p \in Pieces : line.name # ".hidden"}}

Cut ==
  /\ "cut" \in env /\ state = "scan" /\ lines # <<>>
  /\ Head(lines).first = "mode" /\ Head(lines).name \in Names
  /\ lines' \in {<<part>> : part \in Parts(Head(lines))} \cup {<<>>}
  /\ UNCHANGED <<directory, f_tab, state, env>>

Next == ScanLine \/ ScanEnd \/ Cut

Spec == Init /\ [][Next]_vars

-----------------------------------------------------------------------------
(* The files that get_file is to fetch. *)
Wanted(e) == e.mode # "d" /\ e.name # ".hidden" /\ Matches(e.name)

(* The table has, of the first n entries of the directory, the files that   *)
(* are wanted, in the order of the listing, with their sizes, and no other. *)
HasFirst(table, n) ==
  \E at \in [DOMAIN table -> 1..n] :
    /\ \A i, j \in DOMAIN table : i < j => at[i] < at[j]
    /\ \A e \in 1..n : Wanted(directory[e]) <=> \E i \in DOMAIN table : at[i] = e
    /\ \A i \in DOMAIN table : /\ table[i].name = directory[at[i]].name
                               /\ table[i].size = directory[at[i]].size

(* What FtpRead has still to return when n entries have been read: their    *)
(* rest, and before the first one the line that is no entry.               *)
Unbroken(n) ==
  /\ \/ Len(lines) = Len(directory) - n
     \/ n = 0 /\ Len(lines) = Len(directory) + 1 /\ Head(lines).first # "mode"
  /\ \A k \in 1..Len(directory) - n :
       lines[Len(lines) - Len(directory) + n + k] = Ls(directory[n + k])
  /\ state # "crash"

Broken(n) ==
  /\ "cut" \in env
  /\ lines # <<>> => /\ n < Len(directory)
                     /\ lines \in {<<p>> : p \in Parts(Ls(directory[n + 1]))}

(* The name of the next entry broke off, and is taken for that of a file. *)
Broke(n) ==
  /\ "cut" \in env /\ lines = <<>> /\ f_tab # <<>> /\ n < Len(directory)
  /\ directory[n + 1].mode # "d"
  /\ Last(f_tab).name \in Pieces
  /\ Last(f_tab).size = directory[n + 1].size

(* Whatever the server says around the files, with and without groups: the  *)
(* table has the files of the lines that were read, all that are wanted,   *)
(* and nothing else; and if the listing breaks off, at most one file more, *)
(* whose name broke off (fexp.c 845-857).                                   *)
Listed ==
  /\ TypeOK
  /\ \A e \in Range(directory) : MayBe(e)
  /\ state = "done" => lines = <<>>
  /\ env \subseteq {"nogroup", "cut", "all"} =>
       \E n \in 0..Len(directory) :
         \/ HasFirst(f_tab, n) /\ (Unbroken(n) \/ Broken(n))
         \/ HasFirst(Front(f_tab), n) /\ Broke(n)
=============================================================================
