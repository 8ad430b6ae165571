------------------------------ MODULE MCConfig -------------------------------
(***************************************************************************)
(* Files of a header and up to three lines, and the words of the calls.    *)
(***************************************************************************)
EXTENDS ConfigProps

MCLetters == Marks \cup {Newline, "-", "+", "."} \cup Range(Upper) \cup Range(Lower) \cup Range(Digits)

Chars(s) == [i \in 1..Len(s) |-> SubSeq(s, i, i)]
Texts(lines) == [i \in DOMAIN lines |-> Chars(lines[i])]

MCTable == << [name |-> Chars("P"), type |-> "string"],
              [name |-> Chars("n"), type |-> "int"],
              [name |-> Chars("f"), type |-> "float"],
              [name |-> Chars("b"), type |-> "bool"],
              [name |-> Chars("l"), type |-> "list"] >>

MCLines == {"[A]", " [ 'b c' ] # d", "p = 1 # 2", "P=\"x # y\"", "n = -0X9",
            "f = .25", "b = Yes", "l = {", "l = w", "}"}
MCFiles == {Texts(<<"[a]">> \o body) :
              body \in UNION {[1..k -> MCLines] : k \in 0..3}}
           \cup {Texts(<<"p = 1", "[a]">>), <<>>,
                    Texts(<<"[a]", "p 1">>), Texts(<<"[a]", "n = 08">>),
                    Texts(<<"[a]", "n = 9", "p = 1">>), Texts(<<"[a]", "f = 1.2.3">>), Texts(<<"[a]", "#", "[d">>)}
MCRewrites == {Texts(<<"[c]", "l = {", "'v'", "}", "[b]", "p = z">>),
               Texts(<<"[c]", "q = x">>), <<>>}

MCNewNames == {Chars(w) : w \in {"a", "A", "]", "b c", "b\n"}}
MCNewWords == {Chars(w) : w \in {"", " ", "{", "x", "\"'", "'", "1", "t", "a\nn = 2",
                                "010", "-9", "07.50", ".25"}}
MCUsages == {{"file", "error"}, {"file", "again"}, {"calls"}, {"login"}}

MCPass == Chars("p")
MCPasswords == {<<>>, <<65>>, <<1, 127>>, <<65, -61, 1>>, <<127, 65, 1, 33>>,
                <<33, 34, 35, 36, 37, 38, 39>>}
MCMagics == {0, 48, 9999}
MCHeaders == Texts(<<"[a]", "[b]">>)
=============================================================================
