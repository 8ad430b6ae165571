-------------------------------- MODULE Words --------------------------------
(***************************************************************************)
(* The words of a configuration file: parse_word of parsecfg.c (520-599)   *)
(* and the quoting of cfgDump.  A line is a sequence of characters, a      *)
(* character a string of length one, and a pointer into a line what is     *)
(* left of the line from there on.                                         *)
(***************************************************************************)
EXTENDS Integers, SequencesExt

Blanks == {" ", "\t"}
Quotes == {"\"", "'"}
Newline == "\n"
Zero == "end of string"
Freed == "freed"                          \* what memory that is freed holds

Digits == <<"0", "1", "2", "3", "4", "5", "6", "7", "8", "9">>
Upper == <<"A", "B", "C", "D", "E", "F", "G", "H", "I", "J", "K", "L", "M",
           "N", "O", "P", "Q", "R", "S", "T", "U", "V", "W", "X", "Y", "Z">>
Lower == <<"a", "b", "c", "d", "e", "f", "g", "h", "i", "j", "k", "l", "m",
           "n", "o", "p", "q", "r", "s", "t", "u", "v", "w", "x", "y", "z">>
Marks == Blanks \cup Quotes \cup {"#", "=", "[", "]", "{", "}"}

CONSTANT Letters                          \* what a line is made of

ASSUME LettersAssumption ==
  /\ Marks \cup {Newline, "-", "+", "."} \cup Range(Upper) \cup Range(Lower)
       \cup Range(Digits) \subseteq Letters
  /\ {Zero, Freed} \cap Letters = {}

Strings == Seq(Letters)
Lines == Seq(Letters \ {Newline})

(* The character that ptr points to. *)
At(ptr) == IF ptr = <<>> THEN Zero ELSE Head(ptr)
From(ptr, i) == SubSeq(ptr, i, Len(ptr))

(* How many characters come before the first one of a set. *)
Before(ptr, stop) ==
  Min({i \in 1..Len(ptr) : ptr[i] \in stop} \cup {Len(ptr) + 1}) - 1

RmFirstSpaces(ptr) ==
  From(ptr, Min({i \in 1..Len(ptr) : ptr[i] \notin Blanks} \cup {Len(ptr) + 1}))

(* Nothing, or a comment, is left of the line. *)
Ends(ptr) == At(RmFirstSpaces(ptr)) \in {Zero, "#"}

(* strcasecmp(a, b) = 0 *)
ToLower == [c \in Range(Upper) |-> Lower[CHOOSE k \in DOMAIN Upper : Upper[k] = c]]
Fold(word) == [i \in DOMAIN word |-> IF word[i] \in DOMAIN ToLower THEN ToLower[word[i]]
                                                                 ELSE word[i]]
SameName(a, b) == Fold(a) = Fold(b)

-----------------------------------------------------------------------------
(* What ends a word that is not quoted, besides the end of the line. *)
Stops(type) == Blanks \cup {"#"} \cup (CASE type = "parameter" -> {"="}
                                         [] type = "section" -> {"]"}
                                         [] type = "value" -> {})

(* Where it fails the pointer to the word is left alone, or to memory that  *)
(* is freed.                                                               *)
Failed(freed) == [ok |-> FALSE, freed |-> freed]
Word(word, rest) == [ok |-> TRUE, word |-> word, rest |-> rest]

(* A word, in quotes of one kind or the other or up to a character that     *)
(* ends it, and what follows: "=" after a parameter, which is skipped, "]"  *)
(* after a section, nothing after a value.                                  *)
ParseWord(ptr, type) ==
  LET quoted == At(ptr) \in Quotes
      body == IF quoted THEN Tail(ptr) ELSE ptr
      len == Before(body, IF quoted THEN {Head(ptr)} ELSE Stops(type))
      word == SubSeq(body, 1, len)
      rest == RmFirstSpaces(From(body, len + (IF quoted THEN 2 ELSE 1)))
  IN  IF quoted /\ len = Len(body) THEN Failed(FALSE)
      ELSE CASE type = "parameter" /\ At(rest) = "=" ->
                  Word(word, RmFirstSpaces(Tail(rest)))
             [] type = "section" /\ At(rest) = "]" -> Word(word, rest)
             [] type = "value" /\ Ends(rest) -> Word(word, rest)
             [] OTHER -> Failed(TRUE)

(* Mutant: blanks need no quotes. *)
QuoteNoBlanks(str) ==
  IF "\"" \in Range(str) THEN <<"'">>
  ELSE IF Range(str) \cap {"'", "#"} # {} THEN <<"\"">>
  ELSE <<>>

(* single_or_double_quote: which quotes cfgDump puts around a string. *)
SingleOrDoubleQuote(str) ==
  IF "\"" \in Range(str) THEN <<"'">>
  ELSE IF Range(str) \cap ({"'", "#"} \cup Blanks) # {} THEN <<"\"">>
  ELSE <<>>

Quoted(str) == LET c == SingleOrDoubleQuote(str) IN c \o str \o c

-----------------------------------------------------------------------------
(* The lines of a text: each newline ends one and begins another. *)
SplitLines(text) ==
  LET split[i \in 0..Len(text)] ==
        IF i = 0 THEN <<<<>>>>
        ELSE IF text[i] = Newline THEN Append(split[i - 1], <<>>)
        ELSE [split[i - 1] EXCEPT ![Len(split[i - 1])] = Append(@, text[i])]
  IN  split[Len(text)]
=============================================================================
