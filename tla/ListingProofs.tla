--------------------------- MODULE ListingProofs ---------------------------
(***************************************************************************)
(* The table of a remote directory is right, for directories of any length *)
(* and files of any size.                                                  *)
(***************************************************************************)
EXTENDS Listing, SequenceTheorems, TLAPS

USE SizesAssumption

(* What the first field of a line decides. *)
LEMMA FirstField ==
  ASSUME NEW line, line.first # "mode" PROVE ListParse(line) = Null
BY DEF ListParse

(* A line without a name is never a file. *)
LEMMA NoNameNoFile ==
  ASSUME NEW line, line.name = NoName PROVE ListParse(line).is # "file"
BY DEF ListParse, NameThere, Null, Crash

(* A line is a file, with the name it has and a size it may have, or not.   *)
LEMMA ParseType ==
  ASSUME NEW line \in Line
  PROVE  \/ ListParse(line) \in {Null, Crash}
         \/ \E name \in Names \cup Pieces \cup {Garbled}, size \in Nat \cup {NoSize} :
              ListParse(line) = Found(name, size)
<1> SUFFICES ASSUME ListParse(line) \notin {Null, Crash}
             PROVE  \E name \in Names \cup Pieces \cup {Garbled},
                       size \in Nat \cup {NoSize} :
                      ListParse(line) = Found(name, size)
  OBVIOUS
<1>1. /\ Has(line, 4) /\ NameThere(line)
      /\ ListParse(line) = Found(NameIn(line), SizeIn(line))
  BY DEF ListParse
<1>2. NameIn(line) \in Names \cup Pieces \cup {Garbled}
  BY <1>1 DEF NameIn, NameThere, Line
<1>3. SizeIn(line) \in Nat \cup {NoSize}
  <2>1. line.fields \in Seq(Field) /\ Len(line.fields) \in Nat
    BY DEF Line
  <2>2. 3 \in 1..Len(line.fields) /\ 4 \in 1..Len(line.fields)
    BY <1>1, <2>1 DEF Has
  <2>3. line.fields[3] \in Field /\ line.fields[4] \in Field
    BY <2>1, <2>2
  <2>4. line.fields[3].val \in Nat /\ line.fields[4].val \in Nat
    BY <2>3 DEF Field
  <2>5. QED BY <2>4 DEF SizeIn
<1>4. QED BY <1>1, <1>2, <1>3

-----------------------------------------------------------------------------
(* The servers that get_file is made for: no devices, no names that are     *)
(* too long, and a group of one word or none.                              *)
Plain == env \subseteq {"nogroup", "cut", "all"}

PlainEntry(e) == e \in Entry /\ e.mode \in {"-", "d"} /\ e.name # "longmatch"

(* Two sequences of fields, one behind the other. *)
LEMMA Joined ==
  ASSUME NEW s \in Seq(Field), NEW t \in Seq(Field)
  PROVE  /\ s \o t \in Seq(Field) /\ Len(s \o t) = Len(s) + Len(t)
         /\ \A i \in 1..Len(s) : (s \o t)[i] = s[i]
         /\ \A i \in 1..Len(t) : (s \o t)[Len(s) + i] = t[i]
<1> DEFINE k == Len(s)
           m == Len(t)
           st == s \o t
<1>1. st \in Seq(Field) /\ Len(st) = k + m
  BY ConcatProperties
<1>2. \A i \in 1..k + m : st[i] = IF i <= k THEN s[i] ELSE t[i - k]
  BY ConcatProperties
<1>3. k \in Nat /\ m \in Nat
  OBVIOUS
<1> HIDE DEF k, m, st
<1>4. \A i \in 1..k : st[i] = s[i]
  BY <1>2, <1>3
<1>5. \A i \in 1..m : st[k + i] = t[i]
  <2> TAKE i \in 1..m
  <2>1. k + i \in 1..k + m /\ ~(k + i <= k) /\ (k + i) - k = i
    BY <1>3
  <2>2. QED BY <1>2, <2>1
<1>6. QED BY <1>1, <1>4, <1>5 DEF k, m, st

(* The fields from the size on, behind any others. *)
LEMMA SizeAndMonth ==
  ASSUME NEW s \in Seq(Field), NEW n \in Nat
  PROVE  LET f == s \o <<Number(n)>> \o <<Text("month"), Number(1), Text("word")>>
         IN  /\ f \in Seq(Field) /\ Len(f) = Len(s) + 4
             /\ f[Len(s) + 1] = Number(n) /\ f[Len(s) + 2] = Text("month")
<1> DEFINE c == <<Number(n)>>
           d == <<Text("month"), Number(1), Text("word")>>
           sc == s \o c
           f == sc \o d
           k == Len(s)
<1>1. Number(n) \in Field /\ Number(1) \in Field /\ Text("word") \in Field
      /\ Text("month") \in Field
  BY DEF Number, Text, Field
<1>2. c \in Seq(Field) /\ Len(c) = 1 /\ c[1] = Number(n)
  BY <1>1
<1>3. d \in Seq(Field) /\ Len(d) = 3 /\ d[1] = Text("month")
  BY <1>1
<1>4. k \in Nat
  OBVIOUS
<1> HIDE DEF c, d, k
<1>5. sc \in Seq(Field) /\ Len(sc) = k + 1 /\ sc[k + 1] = Number(n)
  <2>1. /\ sc \in Seq(Field) /\ Len(sc) = k + Len(c)
        /\ \A i \in 1..Len(c) : sc[k + i] = c[i]
    BY <1>2, Joined DEF k
  <2>2. QED BY <1>2, <2>1
<1> HIDE DEF sc
<1>6. /\ f \in Seq(Field) /\ Len(f) = (k + 1) + 3
      /\ f[k + 1] = sc[k + 1] /\ f[(k + 1) + 1] = d[1]
  <2>1. /\ f \in Seq(Field) /\ Len(f) = Len(sc) + Len(d)
        /\ \A i \in 1..Len(sc) : f[i] = sc[i]
        /\ \A i \in 1..Len(d) : f[Len(sc) + i] = d[i]
    BY <1>3, <1>5, Joined
  <2>2. k + 1 \in 1..Len(sc) /\ 1 \in 1..Len(d)
    BY <1>3, <1>4, <1>5
  <2> HIDE DEF f
  <2>3. QED BY <1>3, <1>5, <2>1, <2>2
<1>7. (k + 1) + 3 = k + 4 /\ (k + 1) + 1 = k + 2
  BY <1>4
<1>8. QED BY <1>3, <1>5, <1>6, <1>7 DEF c, d, k, sc

(* The fields of such a line. *)
LEMMA LsFields ==
  ASSUME Plain, NEW e, PlainEntry(e)
  PROVE  /\ Ls(e).first = "mode" /\ Ls(e).mode = e.mode /\ Ls(e).name = e.name
         /\ LET f == Ls(e).fields
            IN  /\ f \in Seq(Field)
                /\ \/ /\ Len(f) = 6
                      /\ f[3] = Number(e.size) /\ f[4] = Text("month")
                   \/ /\ Len(f) = 7
                      /\ f[4] = Number(e.size) /\ f[5] = Text("month")
<1> DEFINE f == Ls(e).fields
           a == <<Number(1), Text("word")>>
           b == IF "nogroup" \in env THEN <<>> ELSE <<Text("word")>>
           d == <<Text("month"), Number(1), Text("word")>>
<1>1. e.mode # "c" /\ "spaces" \notin env /\ e.size \in Nat
  BY DEF Plain, PlainEntry, Entry
<1>2. Number(1) \in Field /\ Text("word") \in Field
  BY DEF Number, Text, Field
<1>3. Ls(e).first = "mode" /\ Ls(e).mode = e.mode /\ Ls(e).name = e.name
  BY DEF Ls
<1>4. f = ((a \o b) \o <<Number(e.size)>>) \o d
  BY <1>1 DEF Ls
<1>5. a \in Seq(Field) /\ Len(a) = 2
  BY <1>2
<1>6. /\ b \in Seq(Field)
      /\ \/ Len(b) = 0
         \/ Len(b) = 1
  <2>1. CASE "nogroup" \in env
    BY <2>1
  <2>2. CASE "nogroup" \notin env
    BY <1>2, <2>2
  <2>3. QED BY <2>1, <2>2
<1> DEFINE s == a \o b
<1> HIDE DEF a, b
<1>7. /\ s \in Seq(Field)
      /\ \/ Len(s) = 2
         \/ Len(s) = 3
  <2>1. s \in Seq(Field) /\ Len(s) = Len(a) + Len(b)
    <3>1. a \in Seq(Field) /\ b \in Seq(Field)
      BY <1>5, <1>6
    <3>2. QED BY <3>1, Joined
  <2> HIDE DEF s
  <2>2. CASE Len(b) = 0
    BY <1>5, <2>1, <2>2
  <2>3. CASE Len(b) = 1
    BY <1>5, <2>1, <2>3
  <2>4. QED BY <1>6, <2>1, <2>2, <2>3
<1>8. /\ f \in Seq(Field) /\ Len(f) = Len(s) + 4
      /\ f[Len(s) + 1] = Number(e.size) /\ f[Len(s) + 2] = Text("month")
  <2> HIDE DEF f, s
  <2>1. f = (s \o <<Number(e.size)>>) \o d
    BY <1>4 DEF s
  <2>2. QED BY <1>1, <1>7, <2>1, SizeAndMonth
<1> HIDE DEF f, s
<1>9. \/ /\ Len(f) = 6
         /\ f[3] = Number(e.size) /\ f[4] = Text("month")
      \/ /\ Len(f) = 7
         /\ f[4] = Number(e.size) /\ f[5] = Text("month")
  <2>1. CASE Len(s) = 2
    BY <1>8, <2>1
  <2>2. CASE Len(s) = 3
    BY <1>8, <2>2
  <2>3. QED BY <1>7, <2>1, <2>2
<1>10. QED BY <1>3, <1>8, <1>9 DEF f

(* A line with all its fields is read as what it says. *)
LEMMA ParseFields ==
  ASSUME Plain, NEW e, PlainEntry(e), NEW line, line.first = "mode",
         line.mode = e.mode, line.fields = Ls(e).fields,
         line.name # NoName, line.name # "longmatch"
  PROVE  ListParse(line) = IF Ffilter(e.mode, line.name)
                             THEN Null ELSE Found(line.name, e.size)
<1> DEFINE f == line.fields
<1>1. ~Device(line) /\ NameThere(line) /\ NameIn(line) = line.name
  BY DEF Device, NameThere, NameIn, PlainEntry
<1>2. Number(e.size).is = "number" /\ Number(e.size).val = e.size
      /\ Text("month").is = "month"
  BY DEF Number, Text
<1>3. \/ Len(f) = 6 /\ f[3] = Number(e.size) /\ f[4] = Text("month")
      \/ Len(f) = 7 /\ f[4] = Number(e.size) /\ f[5] = Text("month")
  BY LsFields
<1>4. CASE Len(f) = 6 /\ f[3] = Number(e.size) /\ f[4] = Text("month")
  <2>1. NoGroup(line) /\ MonthAt(line) = 4 /\ SizeIn(line) = e.size
    BY <1>1, <1>2, <1>4 DEF NoGroup, IsMonth, MonthAt, SizeIn
  <2>2. Has(line, 4) /\ Has(line, 4 + 2) /\ IsMonth(line, 4)
    BY <1>2, <1>4 DEF Has, IsMonth
  <2>3. QED BY <1>1, <2>1, <2>2 DEF ListParse
<1>5. CASE Len(f) = 7 /\ f[4] = Number(e.size) /\ f[5] = Text("month")
  <2>1. ~NoGroup(line) /\ MonthAt(line) = 5 /\ SizeIn(line) = e.size
    BY <1>1, <1>2, <1>5 DEF NoGroup, IsMonth, MonthAt, SizeIn
  <2>2. Has(line, 4) /\ Has(line, 5) /\ Has(line, 5 + 2) /\ IsMonth(line, 5)
    BY <1>2, <1>5 DEF Has, IsMonth
  <2>3. QED BY <1>1, <2>1, <2>2 DEF ListParse
<1>6. QED BY <1>3, <1>4, <1>5

LEMMA ParseLs ==
  ASSUME Plain, NEW e, PlainEntry(e)
  PROVE  ListParse(Ls(e)) = IF Wanted(e) THEN Found(e.name, e.size) ELSE Null
<1>1. /\ Ls(e).first = "mode" /\ Ls(e).mode = e.mode /\ Ls(e).name = e.name
      /\ e.name # NoName /\ e.name # "longmatch"
  BY LsFields DEF PlainEntry, Entry, Names, NoName
<1>2. ListParse(Ls(e)) = IF Ffilter(e.mode, e.name)
                           THEN Null ELSE Found(e.name, e.size)
  BY <1>1, ParseFields
<1>3. QED BY <1>2 DEF Ffilter, Wanted

(* What is left of a line is no file, or a file whose name broke off, or it *)
(* is the line.                                                            *)
LEMMA ParsePart ==
  ASSUME Plain, NEW e, PlainEntry(e), NEW part \in Parts(Ls(e))
  PROVE  \/ ListParse(part).is # "file"
         \/ part = Ls(e)
         \/ e.mode # "d" /\ \E name \in Pieces : ListParse(part) = Found(name, e.size)
<1>1. CASE part = Noise("part")
  BY <1>1, FirstField DEF Noise, Null
<1>2. CASE \E n \in 0..Len(Ls(e).fields) :
             part = [Ls(e) EXCEPT !.fields = SubSeq(@, 1, n), !.name = NoName]
  <2>1. part.name = NoName
    BY <1>2 DEF Ls
  <2>2. QED BY <2>1, NoNameNoFile
<1>3. CASE \E name \in {"", Ls(e).name} \cup
                       {p \in Pieces : Ls(e).name # ".hidden"} :
             part = [Ls(e) EXCEPT !.name = name]
  <2>1. PICK name \in {"", Ls(e).name} \cup Pieces :
          part = [Ls(e) EXCEPT !.name = name]
    BY <1>3
  <2>2. CASE name = Ls(e).name
    BY <2>1, <2>2 DEF Ls
  <2>3. CASE name \in Pieces
    <3>1. /\ part.first = "mode" /\ part.mode = e.mode
          /\ part.fields = Ls(e).fields /\ part.name = name
      BY <2>1 DEF Ls
    <3>2. name # NoName /\ name # "longmatch"
      BY <2>3 DEF Pieces, NoName
    <3>3. ListParse(part) = IF Ffilter(e.mode, name)
                              THEN Null ELSE Found(name, e.size)
      BY <3>1, <3>2, ParseFields
    <3>4. CASE Ffilter(e.mode, name)
      <4>1. ListParse(part) = Null
        BY <3>3, <3>4 DEF Ffilter
      <4>2. Null.is # "file"
        BY DEF Null
      <4>3. QED BY <4>1, <4>2
    <3>5. CASE ~Ffilter(e.mode, name)
      BY <2>3, <3>3, <3>5 DEF Ffilter
    <3>6. QED BY <3>4, <3>5
  <2>4. QED BY <2>1, <2>2, <2>3 DEF Pieces
<1>4. QED BY <1>1, <1>2, <1>3 DEF Parts

-----------------------------------------------------------------------------
(* The table grows at its end. *)
LEMMA Appended ==
  ASSUME NEW S, NEW s \in Seq(S), NEW x \in S
  PROVE  /\ Append(s, x) \in Seq(S) /\ Append(s, x) # <<>>
         /\ Front(Append(s, x)) = s /\ Last(Append(s, x)) = x
<1> DEFINE t == Append(s, x)
           k == Len(s)
<1>1. t \in Seq(S) /\ t # <<>> /\ Len(t) = k + 1 /\ t[k + 1] = x
      /\ \A i \in 1..k : t[i] = s[i]
  BY AppendProperties
<1>2. k \in Nat
  OBVIOUS
<1>3. Last(t) = x
  <2> HIDE DEF t, k
  <2>1. QED BY <1>1 DEF Last
<1>4. Front(t) = s
  <2> HIDE DEF t
  <2>1. Front(t) = SubSeq(t, 1, k)
    <3> HIDE DEF k
    <3>1. Front(t) = SubSeq(t, 1, (k + 1) - 1) /\ (k + 1) - 1 = k
      BY <1>1, <1>2 DEF Front
    <3>2. QED BY <3>1
  <2>2. /\ SubSeq(t, 1, k) \in Seq(S) /\ Len(SubSeq(t, 1, k)) = k
        /\ \A i \in 1..k : SubSeq(t, 1, k)[i] = t[i]
    <3> HIDE DEF k
    <3>1. \A i \in 1..k : t[i] \in S
      BY <1>1, <1>2, ElementOfSeq
    <3>2. QED BY <1>2, <3>1, SubSeqProperties
  <2>3. QED BY <1>1, <2>1, <2>2, SeqEqual
<1>5. QED BY <1>1, <1>3, <1>4

(* One more entry has been read, and its file is in the table. *)
LEMMA NextWanted ==
  ASSUME directory \in Seq(Entry), NEW table \in Seq(File), NEW n \in Nat,
         n < Len(directory), HasFirst(table, n), Wanted(directory[n + 1]),
         NEW file \in File, file.name = directory[n + 1].name,
         file.size = directory[n + 1].size
  PROVE  HasFirst(Append(table, file), n + 1)
<1> DEFINE t == Append(table, file)
           m == Len(table)
<1>1. PICK at \in [DOMAIN table -> 1..n] :
        /\ \A i, j \in DOMAIN table : i < j => at[i] < at[j]
        /\ \A e \in 1..n : Wanted(directory[e]) <=> \E i \in DOMAIN table : at[i] = e
        /\ \A i \in DOMAIN table : /\ table[i].name = directory[at[i]].name
                                   /\ table[i].size = directory[at[i]].size
  BY DEF HasFirst
<1>2. m \in Nat /\ DOMAIN table = 1..m
  BY LenProperties
<1>3. DOMAIN t = 1..m + 1 /\ t[m + 1] = file /\ \A i \in 1..m : t[i] = table[i]
  <2>1. t \in Seq(File) /\ Len(t) = m + 1 /\ t[m + 1] = file
        /\ \A i \in 1..m : t[i] = table[i]
    BY AppendProperties
  <2>2. QED BY <2>1, LenProperties
<1> HIDE DEF t, m
<1> DEFINE to == [i \in 1..m + 1 |-> IF i <= m THEN at[i] ELSE n + 1]
<1>4. \A i \in 1..m : at[i] \in 1..n /\ to[i] = at[i] /\ i \in 1..m + 1
  BY <1>1, <1>2
<1>5. to[m + 1] = n + 1 /\ m + 1 \in 1..m + 1 /\ n + 1 \in 1..n + 1
  BY <1>2
<1>6. \A i \in 1..m + 1 : \/ i \in 1..m
                          \/ i = m + 1
  BY <1>2
<1>7. to \in [1..m + 1 -> 1..n + 1]
  BY <1>1, <1>2
<1> HIDE DEF to
<1>8. \A i, j \in 1..m + 1 : i < j => to[i] < to[j]
  <2> SUFFICES ASSUME NEW i \in 1..m + 1, NEW j \in 1..m + 1, i < j
               PROVE  to[i] < to[j]
    OBVIOUS
  <2>1. i \in 1..m
    BY <1>2
  <2>2. CASE j \in 1..m
    BY <1>1, <1>2, <1>4, <2>1, <2>2
  <2>3. CASE j = m + 1
    <3>1. to[i] \in 1..n
      BY <1>4, <2>1
    <3>2. QED BY <1>5, <2>3, <3>1
  <2>4. QED BY <1>6, <2>2, <2>3
<1>9. \A e \in 1..n + 1 :
         Wanted(directory[e]) <=> \E i \in 1..m + 1 : to[i] = e
  <2> TAKE e \in 1..n + 1
  <2>1. CASE e = n + 1
    BY <1>5, <2>1
  <2>2. CASE e \in 1..n
    <3>1. ASSUME NEW i \in 1..m + 1, to[i] = e PROVE i \in 1..m
      BY <1>5, <1>6, <2>2, <3>1
    <3>2. (\E i \in 1..m + 1 : to[i] = e) <=> \E i \in 1..m : at[i] = e
      BY <1>4, <3>1
    <3>3. QED BY <1>1, <1>2, <2>2, <3>2
  <2>3. QED BY <2>1, <2>2
<1>10. \A i \in 1..m + 1 : /\ t[i].name = directory[to[i]].name
                           /\ t[i].size = directory[to[i]].size
  <2> TAKE i \in 1..m + 1
  <2>1. CASE i \in 1..m
    BY <1>1, <1>2, <1>3, <1>4, <2>1
  <2>2. CASE i = m + 1
    BY <1>3, <1>5, <2>2
  <2>3. QED BY <1>6, <2>1, <2>2
<1>11. HasFirst(t, n + 1)
  <2>1. /\ to \in [DOMAIN t -> 1..n + 1]
        /\ \A i, j \in DOMAIN t : i < j => to[i] < to[j]
        /\ \A e \in 1..n + 1 : Wanted(directory[e]) <=> \E i \in DOMAIN t : to[i] = e
        /\ \A i \in DOMAIN t : /\ t[i].name = directory[to[i]].name
                               /\ t[i].size = directory[to[i]].size
    BY <1>3, <1>7, <1>8, <1>9, <1>10, Zenon
  <2>2. QED BY <2>1, Zenon DEF HasFirst
<1>12. QED BY <1>11 DEF t

(* One more entry has been read, of no file that is wanted. *)
LEMMA NextUnwanted ==
  ASSUME NEW table, NEW n \in Nat, HasFirst(table, n),
         ~Wanted(directory[n + 1])
  PROVE  HasFirst(table, n + 1)
<1>1. PICK at \in [DOMAIN table -> 1..n] :
        /\ \A i, j \in DOMAIN table : i < j => at[i] < at[j]
        /\ \A e \in 1..n : Wanted(directory[e]) <=> \E i \in DOMAIN table : at[i] = e
        /\ \A i \in DOMAIN table : /\ table[i].name = directory[at[i]].name
                                   /\ table[i].size = directory[at[i]].size
  BY DEF HasFirst
<1>2. at \in [DOMAIN table -> 1..n + 1] /\ \A i \in DOMAIN table : at[i] # n + 1
  BY <1>1
<1>3. \A e \in 1..n + 1 :
         Wanted(directory[e]) <=> \E i \in DOMAIN table : at[i] = e
  <2> TAKE e \in 1..n + 1
  <2>1. CASE e = n + 1
    BY <1>2, <2>1
  <2>2. CASE e \in 1..n
    BY <1>1, <2>2
  <2>3. QED BY <2>1, <2>2
<1>4. QED BY <1>1, <1>2, <1>3 DEF HasFirst

-----------------------------------------------------------------------------
(* Everything that is printed is a line. *)
LEMMA NoiseType ==
  ASSUME NEW first \in {"total", "message", "part"} PROVE Noise(first) \in Line
<1>1. <<>> \in Seq(Field)
  BY EmptySeq
<1>2. QED BY <1>1 DEF Noise, Line, Modes

LEMMA LsType ==
  ASSUME NEW e \in Entry PROVE Ls(e) \in Line
<1> DEFINE a == <<Number(1), Text("word")>>
           b == IF "nogroup" \in env THEN <<>>
                ELSE IF "spaces" \in env THEN <<Text("word"), Text("word")>>
                ELSE <<Text("word")>>
           c == IF e.mode = "c" THEN <<Text("major"), Number(e.size)>>
                                ELSE <<Number(e.size)>>
           d == <<Text("month"), Number(1), Text("word")>>
<1>1. e.size \in Nat /\ e.mode \in Modes /\ e.name \in Names
  BY DEF Entry
<1>2. Number(1) \in Field /\ Number(e.size) \in Field /\ Text("word") \in Field
      /\ Text("month") \in Field /\ Text("major") \in Field
  BY <1>1 DEF Number, Text, Field
<1>3. a \in Seq(Field) /\ d \in Seq(Field)
  BY <1>2
<1>4. b \in Seq(Field)
  <2>1. <<>> \in Seq(Field) /\ <<Text("word"), Text("word")>> \in Seq(Field)
        /\ <<Text("word")>> \in Seq(Field)
    BY <1>2
  <2>2. QED BY <2>1
<1>5. c \in Seq(Field)
  <2>1. <<Text("major"), Number(e.size)>> \in Seq(Field)
        /\ <<Number(e.size)>> \in Seq(Field)
    BY <1>2
  <2>2. QED BY <2>1
<1>6. Ls(e) = [first |-> "mode", mode |-> e.mode, name |-> e.name,
               fields |-> ((a \o b) \o c) \o d]
  BY DEF Ls
<1> HIDE DEF a, b, c, d
<1>7. a \o b \in Seq(Field)
  BY <1>3, <1>4, Joined, Zenon
<1>8. (a \o b) \o c \in Seq(Field)
  BY <1>5, <1>7, Joined, Zenon
<1> DEFINE f == ((a \o b) \o c) \o d
<1>9. f \in Seq(Field)
  BY <1>3, <1>8, Joined, Zenon
<1> HIDE DEF f
<1>10. Ls(e) = [first |-> "mode", mode |-> e.mode, name |-> e.name, fields |-> f]
  BY <1>6 DEF f
<1>11. QED BY <1>1, <1>9, <1>10 DEF Line

LEMMA PartsType ==
  ASSUME NEW line \in Line, NEW part \in Parts(line) PROVE part \in Line
<1>1. CASE part = Noise("part")
  BY <1>1, NoiseType
<1>2. CASE \E n \in 0..Len(line.fields) :
             part = [line EXCEPT !.fields = SubSeq(@, 1, n), !.name = NoName]
  <2>1. PICK n \in 0..Len(line.fields) :
          part = [line EXCEPT !.fields = SubSeq(@, 1, n), !.name = NoName]
    BY <1>2
  <2> DEFINE f == line.fields
             g == SubSeq(f, 1, n)
  <2>2. f \in Seq(Field) /\ n \in Int /\ 1 \in Int
    BY DEF Line
  <2>3. \A i \in 1..n : f[i] \in Field
    BY <2>2
  <2>4. g \in Seq(Field)
    <3> HIDE DEF f
    <3>1. QED BY <2>2, <2>3, SubSeqProperties
  <2>5. part = [line EXCEPT !.fields = g, !.name = NoName]
    BY <2>1
  <2> HIDE DEF g
  <2>6. QED BY <2>4, <2>5 DEF Line
<1>3. CASE \E name \in {"", line.name} \cup {p \in Pieces : line.name # ".hidden"} :
             part = [line EXCEPT !.name = name]
  BY <1>3 DEF Line, Pieces
<1>4. QED BY <1>1, <1>2, <1>3 DEF Parts

LEMMA TypeInit == Init => TypeOK
<1> SUFFICES ASSUME Init PROVE TypeOK
  OBVIOUS
<1>1. PICK n \in 0..MaxEntries : directory \in [1..n -> Entry]
  BY DEF Init
<1>2. n \in Nat
  BY <1>1
<1>3. directory \in Seq(Entry) /\ Len(directory) = n /\ DOMAIN directory = 1..n
  BY <1>1, <1>2
<1> DEFINE rest == [i \in DOMAIN directory |-> Ls(directory[i])]
<1>4. rest \in Seq(Line) /\ Len(rest) = n
  <2>1. rest \in [1..n -> Line]
    BY <1>1, <1>3, LsType
  <2> HIDE DEF rest
  <2>2. QED BY <1>2, <2>1
<1>5. PICK first \in {"total", "message"} : lines = <<Noise(first)>> \o rest
  BY DEF Init
<1> DEFINE h == <<Noise(first)>>
<1>6. h \in Seq(Line) /\ Len(h) = 1 /\ h[1] = Noise(first)
  BY NoiseType
<1>7. lines = h \o rest
  BY <1>5
<1> HIDE DEF h, rest
<1>8. lines \in Seq(Line) /\ Len(lines) = n + 1 /\ lines[1] = Noise(first)
  <2>1. /\ lines \in Seq(Line) /\ Len(lines) = Len(h) + Len(rest)
        /\ \A i \in 1..Len(h) + Len(rest) :
             lines[i] = IF i <= Len(h) THEN h[i] ELSE rest[i - Len(h)]
    BY <1>4, <1>6, <1>7, ConcatProperties
  <2>2. 1 \in 1..1 + n /\ 1 + n = n + 1
    BY <1>2
  <2>3. QED BY <1>4, <1>6, <2>1, <2>2
<1>9. Head(lines).first # "mode"
  BY <1>2, <1>8 DEF Noise
<1>10. QED BY <1>3, <1>8, <1>9 DEF Init, TypeOK

(* What ListParse makes of a line goes into a table of files. *)
LEMMA TypeNext == TypeOK /\ [Next]_vars => TypeOK'
<1> SUFFICES ASSUME TypeOK, [Next]_vars PROVE TypeOK'
  OBVIOUS
<1>1. directory \in Seq(Entry) /\ lines \in Seq(Line) /\ f_tab \in Seq(File)
      /\ Len(directory) \in Nat /\ Len(lines) \in Nat /\ Len(f_tab) \in Nat
  BY DEF TypeOK
<1>2. CASE ScanLine
  <2> DEFINE line == Head(lines)
             ft == ListParse(line)
  <2>1. lines # <<>> /\ line \in Line /\ lines' = Tail(lines)
        /\ directory' = directory
    BY <1>1, <1>2, HeadTailProperties DEF ScanLine
  <2>2. lines' \in Seq(Line) /\ Len(lines') = Len(lines) - 1
    BY <1>1, <2>1, HeadTailProperties
  <2>3. state' \in {"scan", "crash"}
    BY <1>2 DEF ScanLine
  <2>4. f_tab' = IF ft.is = "file"
                   THEN Append(f_tab, [name |-> ft.name, size |-> ft.size])
                   ELSE f_tab
    BY <1>2 DEF ScanLine
  <2>5. /\ f_tab' \in Seq(File) /\ Len(f_tab') <= Len(f_tab) + 1
        /\ line.first # "mode" => f_tab' = f_tab
    <3>1. CASE ft \in {Null, Crash}
      <4>1. ft.is # "file"
        BY <3>1 DEF Null, Crash
      <4>2. f_tab' = f_tab
        BY <2>4, <4>1
      <4>3. QED BY <1>1, <4>2
    <3>2. CASE ft \notin {Null, Crash}
      <4>1. PICK name \in Names \cup Pieces \cup {Garbled}, size \in Nat \cup {NoSize} :
              ft = Found(name, size)
        BY <2>1, <3>2, ParseType
      <4>2. ft.is = "file" /\ ft.name = name /\ ft.size = size
        BY <4>1 DEF Found
      <4>3. line.first = "mode"
        BY <3>2, FirstField
      <4> DEFINE file == [name |-> name, size |-> size]
      <4>4. file \in File
        BY DEF File
      <4>5. f_tab' = Append(f_tab, file)
        BY <2>4, <4>2
      <4> HIDE DEF file
      <4>6. f_tab' \in Seq(File) /\ Len(f_tab') = Len(f_tab) + 1
        BY <1>1, <4>4, <4>5, AppendProperties
      <4>7. QED BY <1>1, <4>3, <4>6
    <3>3. QED BY <3>1, <3>2
  <2>6. Len(f_tab') \in Nat
    BY <2>5
  <2>7. CASE Len(f_tab) + Len(lines) <= Len(directory)
    <3>1. Len(f_tab') + Len(lines') <= Len(directory)
      BY <1>1, <2>2, <2>5, <2>6, <2>7
    <3>2. QED BY <1>1, <2>1, <2>2, <2>3, <2>5, <3>1 DEF TypeOK
  <2>8. CASE f_tab = <<>> /\ Len(lines) = Len(directory) + 1 /\ line.first # "mode"
    <3>1. f_tab' = <<>> /\ Len(f_tab') = 0
      BY <2>5, <2>8
    <3>2. Len(f_tab') + Len(lines') <= Len(directory)
      BY <1>1, <2>2, <2>8, <3>1
    <3>3. QED BY <1>1, <2>1, <2>2, <2>3, <2>5, <3>2 DEF TypeOK
  <2>9. QED BY <2>7, <2>8 DEF TypeOK
<1>3. CASE ScanEnd
  BY <1>3 DEF ScanEnd, TypeOK
<1>4. CASE Cut
  <2>1. lines # <<>> /\ Head(lines).first = "mode" /\ Head(lines) \in Line
        /\ UNCHANGED <<directory, f_tab, state>>
    BY <1>1, <1>4, HeadTailProperties DEF Cut
  <2>2. lines' \in Seq(Line) /\ Len(lines') <= 1 /\ Len(lines') \in Nat
    <3>1. CASE lines' = <<>>
      BY <3>1
    <3>2. CASE lines' \in {<<part>> : part \in Parts(Head(lines))}
      <4>1. PICK part \in Parts(Head(lines)) : lines' = <<part>>
        BY <3>2
      <4>2. part \in Line
        BY <2>1, PartsType
      <4>3. QED BY <4>1, <4>2
    <3>3. QED BY <1>4, <3>1, <3>2 DEF Cut
  <2>3. Len(lines) >= 1
    BY <1>1, <2>1, EmptySeq
  <2>4. Len(f_tab) + Len(lines) <= Len(directory)
    BY <2>1 DEF TypeOK
  <2>5. Len(f_tab) + Len(lines') <= Len(directory)
    BY <1>1, <2>2, <2>3, <2>4
  <2>6. f_tab' = f_tab /\ directory' = directory /\ state' = state
    BY <2>1
  <2>7. QED BY <1>1, <2>2, <2>5, <2>6 DEF TypeOK
<1>5. CASE UNCHANGED vars
  BY <1>5 DEF vars, TypeOK
<1>6. QED BY <1>2, <1>3, <1>4, <1>5 DEF Next

(* Every table is of files of the directory that is read. *)
THEOREM TypeCorrect == Spec => []TypeOK
<1>1. QED BY TypeInit, TypeNext, PTL DEF Spec

-----------------------------------------------------------------------------
(* The four parts of the invariant. *)
Known == \A e \in Range(directory) : MayBe(e)

ReadToEnd == state = "done" => lines = <<>>

(* The first n entries have been read. *)
HasRead(n) == \/ HasFirst(f_tab, n) /\ (Unbroken(n) \/ Broken(n))
              \/ HasFirst(Front(f_tab), n) /\ Broke(n)

LEMMA ListedParts ==
  Listed <=> /\ TypeOK /\ Known /\ ReadToEnd
             /\ Plain => \E n \in 0..Len(directory) : HasRead(n)
BY DEF Listed, Known, ReadToEnd, HasRead, Plain

(* With plain environments come plain entries. *)
LEMMA PlainDirectory ==
  ASSUME TypeOK, Known, Plain, NEW e \in 1..Len(directory)
  PROVE  PlainEntry(directory[e])
<1>1. directory \in Seq(Entry) /\ DOMAIN directory = 1..Len(directory)
  BY LenProperties DEF TypeOK
<1>2. directory[e] \in Entry /\ directory[e] \in Range(directory)
  BY <1>1 DEF Range
<1>3. QED BY <1>2 DEF Known, MayBe, Plain, PlainEntry, Entry, Modes

(* Nothing has been read at first. *)
LEMMA ListedInit == Init => Listed
<1> SUFFICES ASSUME Init PROVE Listed
  OBVIOUS
<1>1. TypeOK
  BY TypeInit
<1>2. PICK n \in 0..MaxEntries :
        directory \in [1..n -> {e \in Entry : MayBe(e)}]
  BY DEF Init
<1>3. n \in Nat
  BY <1>2
<1>4. Known
  <2>1. DOMAIN directory = 1..n
    BY <1>2
  <2>2. \A i \in 1..n : MayBe(directory[i])
    BY <1>2
  <2>3. QED BY <2>1, <2>2 DEF Known, Range
<1>5. ReadToEnd
  BY DEF Init, ReadToEnd
<1>6. directory \in Seq(Entry) /\ Len(directory) = n /\ DOMAIN directory = 1..n
  <2>1. directory \in [1..n -> Entry]
    BY <1>2
  <2>2. QED BY <1>3, <2>1
<1> DEFINE rest == [i \in DOMAIN directory |-> Ls(directory[i])]
<1>7. /\ rest \in Seq(Line) /\ Len(rest) = n
      /\ \A i \in 1..n : rest[i] = Ls(directory[i])
  <2>1. \A i \in 1..n : directory[i] \in Entry
    BY <1>2
  <2>2. rest \in [1..n -> Line] /\ \A i \in 1..n : rest[i] = Ls(directory[i])
    BY <1>6, <2>1, LsType
  <2> HIDE DEF rest
  <2>3. QED BY <1>3, <2>2
<1>8. PICK first \in {"total", "message"} : lines = <<Noise(first)>> \o rest
  BY DEF Init
<1> DEFINE h == <<Noise(first)>>
<1>9. h \in Seq(Line) /\ Len(h) = 1 /\ h[1] = Noise(first)
  BY NoiseType
<1>10. lines = h \o rest
  BY <1>8
<1> HIDE DEF h, rest
<1>11. /\ lines \in Seq(Line) /\ Len(lines) = 1 + n
       /\ \A i \in 1..1 + n : lines[i] = IF i <= 1 THEN h[i] ELSE rest[i - 1]
  <2>1. /\ h \o rest \in Seq(Line) /\ Len(h \o rest) = Len(h) + Len(rest)
        /\ \A i \in 1..Len(h) + Len(rest) :
             (h \o rest)[i] = IF i <= Len(h) THEN h[i] ELSE rest[i - Len(h)]
    BY <1>7, <1>9, ConcatProperties
  <2>2. Len(h) = 1 /\ Len(rest) = n
    BY <1>7, <1>9
  <2>3. QED BY <1>10, <2>1, <2>2, Zenon
<1>12. Head(lines).first # "mode"
  <2>1. 1 \in 1..1 + n
    BY <1>3
  <2>2. lines[1] = Noise(first) /\ Head(lines) = lines[1]
    BY <1>9, <1>11, <2>1
  <2>3. QED BY <2>2 DEF Noise
<1>13. \A k \in 1..n : lines[1 + k] = Ls(directory[k])
  <2> TAKE k \in 1..n
  <2>1. 1 + k \in 1..1 + n /\ ~(1 + k <= 1) /\ (1 + k) - 1 = k
    BY <1>3
  <2>2. QED BY <1>7, <1>11, <2>1
<1>14. Unbroken(0)
  <2>1. n - 0 = n /\ (1 + n) - n + 0 = 1 /\ 1 + n = n + 1
    BY <1>3
  <2>2. \A k \in 1..n : (1 + n) - n + 0 + k = 1 + k /\ 0 + k = k
    BY <1>3
  <2>3. \A k \in 1..Len(directory) - 0 :
          lines[Len(lines) - Len(directory) + 0 + k] = Ls(directory[0 + k])
    BY <1>6, <1>11, <1>13, <2>1, <2>2
  <2>4. Len(lines) = Len(directory) + 1 /\ state # "crash"
    BY <1>6, <1>11, <2>1 DEF Init
  <2>5. QED BY <1>12, <2>3, <2>4 DEF Unbroken
<1>15. HasFirst(f_tab, 0)
  <2>1. f_tab = <<>> /\ DOMAIN f_tab = {}
    BY DEF Init
  <2>2. [x \in {} |-> 0] \in [DOMAIN f_tab -> 1..0] /\ 1..0 = {}
    BY <2>1
  <2>3. QED BY <2>1, <2>2 DEF HasFirst
<1>16. 0 \in 0..Len(directory)
  BY <1>3, <1>6
<1>17. QED BY <1>1, <1>4, <1>5, <1>14, <1>15, <1>16, ListedParts DEF HasRead

(* What the rest of the listing is, when a line of it is read. *)
LEMMA NextLine ==
  ASSUME TypeOK, NEW n \in 0..Len(directory), Unbroken(n), lines # <<>>,
         Head(lines).first = "mode"
  PROVE  n < Len(directory) /\ Len(lines) = Len(directory) - n
         /\ Head(lines) = Ls(directory[n + 1])
<1>1. lines \in Seq(Line) /\ Len(lines) \in Nat /\ Len(directory) \in Nat /\ n \in Nat
      /\ Len(lines) # 0
  BY EmptySeq DEF TypeOK
<1>2. Len(lines) = Len(directory) - n
  BY DEF Unbroken
<1>3. \A k \in 1..Len(directory) - n :
         lines[Len(lines) - Len(directory) + n + k] = Ls(directory[n + k])
  BY DEF Unbroken
<1>4. /\ n < Len(directory) /\ 1 \in 1..Len(directory) - n
      /\ Len(lines) - Len(directory) + n + 1 = 1
  BY <1>1, <1>2
<1>5. lines[1] = Ls(directory[n + 1])
  BY <1>3, <1>4
<1>6. QED BY <1>2, <1>4, <1>5

(* Reading a line of an unbroken listing leaves the rest unbroken. *)
LEMMA RestUnbroken ==
  ASSUME TypeOK, NEW n \in 0..Len(directory), NEW m \in 0..Len(directory),
         Unbroken(n), lines # <<>>, Len(lines) = Len(directory) - m + 1,
         \/ n = 0 /\ m = 0
         \/ m = n + 1,
         lines' = Tail(lines), directory' = directory, env' = env,
         state' # "crash"
  PROVE  Unbroken(m)'
<1> DEFINE d == Len(directory)
           p == Len(lines)
<1>1. d \in Nat /\ p \in Nat /\ n \in Nat /\ m \in Nat /\ p = d - m + 1
      /\ n <= m /\ m <= n + 1
  BY DEF TypeOK
<1>2. /\ Len(lines') = p - 1
      /\ \A i \in 1..p - 1 : lines'[i] = lines[i + 1]
  BY HeadTailProperties DEF TypeOK
<1>3. \A k \in 1..d - n : lines[p - d + n + k] = Ls(directory[n + k])
  BY DEF Unbroken
<1>4. ASSUME NEW k \in Int PROVE Ls(directory[m + k])' = Ls(directory[m + k])
  BY DEF Ls
<1> HIDE DEF d, p
<1>5. Len(lines') = d - m
  BY <1>1, <1>2
<1>6. \A k \in 1..d - m : lines'[(d - m) - d + m + k] = Ls(directory[m + k])
  <2> TAKE k \in 1..d - m
  <2>1. (d - m) - d + m + k = k /\ k \in 1..p - 1
    BY <1>1
  <2>2. lines'[k] = lines[k + 1]
    BY <1>2, <2>1
  <2>3. k + (m - n) \in 1..d - n /\ p - d + n + (k + (m - n)) = k + 1
        /\ n + (k + (m - n)) = m + k
    BY <1>1
  <2>4. lines[k + 1] = Ls(directory[m + k])
    BY <1>3, <2>3
  <2>5. QED BY <2>1, <2>2, <2>4
<1>7. Len(directory') = d
  BY DEF d
<1>8. \A k \in 1..Len(directory') - m :
         lines'[Len(lines') - Len(directory') + m + k] = Ls(directory[m + k])'
  <2> SUFFICES ASSUME NEW k \in 1..d - m
               PROVE  lines'[(d - m) - d + m + k] = Ls(directory[m + k])'
    BY <1>5, <1>7
  <2>1. k \in Int
    BY <1>1
  <2>2. QED BY <1>4, <1>6, <2>1
<1>9. QED BY <1>5, <1>7, <1>8 DEF Unbroken

(* The table is right as long as directory and FILEMATCH stay as they are. *)
LEMMA StillHasFirst ==
  ASSUME NEW table, NEW n, HasFirst(table, n), directory' = directory, env' = env
  PROVE  /\ f_tab' = table => HasFirst(f_tab, n)'
         /\ Front(f_tab') = table => HasFirst(Front(f_tab), n)'
<1>1. PICK at \in [DOMAIN table -> 1..n] :
        /\ \A i, j \in DOMAIN table : i < j => at[i] < at[j]
        /\ \A e \in 1..n : Wanted(directory[e]) <=> \E i \in DOMAIN table : at[i] = e
        /\ \A i \in DOMAIN table : /\ table[i].name = directory[at[i]].name
                                   /\ table[i].size = directory[at[i]].size
  BY DEF HasFirst
<1>2. ASSUME NEW e \in 1..n PROVE Wanted(directory[e])' <=> Wanted(directory[e])
  BY DEF Wanted, Matches
<1>3. ASSUME f_tab' = table PROVE HasFirst(f_tab, n)'
  <2>1. /\ at \in [DOMAIN f_tab' -> 1..n]
        /\ \A i, j \in DOMAIN f_tab' : i < j => at[i] < at[j]
        /\ \A e \in 1..n :
             Wanted(directory[e])' <=> \E i \in DOMAIN f_tab' : at[i] = e
        /\ \A i \in DOMAIN f_tab' : /\ f_tab'[i].name = directory'[at[i]].name
                                    /\ f_tab'[i].size = directory'[at[i]].size
    BY <1>1, <1>2, <1>3, Zenon
  <2>2. QED BY <2>1, Zenon DEF HasFirst
<1>4. ASSUME Front(f_tab') = table PROVE HasFirst(Front(f_tab), n)'
  <2> DEFINE t == Front(f_tab')
  <2>1. /\ at \in [DOMAIN t -> 1..n]
        /\ \A i, j \in DOMAIN t : i < j => at[i] < at[j]
        /\ \A e \in 1..n :
             Wanted(directory[e])' <=> \E i \in DOMAIN t : at[i] = e
        /\ \A i \in DOMAIN t : /\ t[i].name = directory'[at[i]].name
                               /\ t[i].size = directory'[at[i]].size
    BY <1>1, <1>2, <1>4, Zenon
  <2>2. QED BY <2>1, Zenon DEF HasFirst
<1>5. QED BY <1>3, <1>4

(* A line is read of a listing that has not been broken. *)
LEMMA ScanUnbroken ==
  ASSUME TypeOK, Known, Plain, ScanLine, NEW n \in 0..Len(directory),
         HasFirst(f_tab, n), Unbroken(n)
  PROVE  \E m \in 0..Len(directory) : HasFirst(f_tab, m)' /\ Unbroken(m)'
<1> DEFINE line == Head(lines)
           ft == ListParse(line)
<1>1. lines # <<>> /\ lines' = Tail(lines) /\ directory' = directory /\ env' = env
  BY DEF ScanLine
<1>2. /\ f_tab' = IF ft.is = "file"
                    THEN Append(f_tab, [name |-> ft.name, size |-> ft.size])
                    ELSE f_tab
      /\ state' = IF ft.is = "crash" THEN "crash" ELSE "scan"
  BY DEF ScanLine
<1>3. n \in Nat /\ Len(directory) \in Nat /\ directory \in Seq(Entry)
      /\ f_tab \in Seq(File)
  BY DEF TypeOK
<1>4. CASE line.first # "mode"
  <2>1. ft = Null
    BY <1>4, FirstField
  <2>2. f_tab' = f_tab /\ state' # "crash"
    BY <1>2, <2>1 DEF Null
  <2>3. n = 0 /\ Len(lines) = Len(directory) - 0 + 1
    <3>1. CASE n = 0 /\ Len(lines) = Len(directory) + 1
      BY <1>3, <3>1
    <3>2. CASE Len(lines) = Len(directory) - n
      <4>1. Len(lines) # 0 /\ Len(lines) \in Nat
        BY <1>1, EmptySeq DEF TypeOK
      <4>2. 1 \in 1..Len(directory) - n /\ Len(lines) - Len(directory) + n + 1 = 1
        BY <1>3, <3>2, <4>1
      <4>3. lines[1] = Ls(directory[n + 1])
        BY <4>2 DEF Unbroken
      <4>4. line.first = "mode"
        BY <4>3 DEF Ls
      <4>5. QED BY <1>4, <4>4
    <3>3. QED BY <3>1, <3>2 DEF Unbroken
  <2>4. Unbroken(0)'
    BY <1>1, <1>3, <2>2, <2>3, RestUnbroken
  <2>5. HasFirst(f_tab, 0)'
    BY <1>1, <2>2, <2>3, StillHasFirst
  <2>6. QED BY <1>3, <2>4, <2>5
<1>5. CASE line.first = "mode"
  <2> DEFINE e == directory[n + 1]
  <2>1. n < Len(directory) /\ Len(lines) = Len(directory) - n /\ line = Ls(e)
    BY <1>1, <1>5, NextLine
  <2>2. n + 1 \in 1..Len(directory) /\ n + 1 \in 0..Len(directory)
        /\ Len(lines) = Len(directory) - (n + 1) + 1
    BY <1>3, <2>1
  <2>3. PlainEntry(e)
    BY <2>2, PlainDirectory
  <2>4. ft = IF Wanted(e) THEN Found(e.name, e.size) ELSE Null
    BY <2>1, <2>3, ParseLs
  <2>5. state' # "crash"
    <3>1. ft.is # "crash"
      BY <2>4 DEF Found, Null
    <3>2. QED BY <1>2, <3>1
  <2>6. Unbroken(n + 1)'
    BY <1>1, <1>3, <2>2, <2>5, RestUnbroken
  <2>7. HasFirst(f_tab', n + 1)
    <3>1. CASE Wanted(e)
      <4>1. ft.is = "file" /\ ft.name = e.name /\ ft.size = e.size
        BY <2>4, <3>1 DEF Found
      <4> DEFINE file == [name |-> e.name, size |-> e.size]
      <4>2. f_tab' = Append(f_tab, file)
        BY <1>2, <4>1
      <4>3. file \in File /\ file.name = e.name /\ file.size = e.size
        BY <2>3 DEF PlainEntry, Entry, File
      <4> HIDE DEF file
      <4>4. QED BY <1>3, <2>1, <3>1, <4>2, <4>3, NextWanted
    <3>2. CASE ~Wanted(e)
      <4>1. ft = Null
        BY <2>4, <3>2
      <4>2. f_tab' = f_tab
        BY <1>2, <4>1 DEF Null
      <4>3. QED BY <1>3, <3>2, <4>2, NextUnwanted
    <3>3. QED BY <3>1, <3>2
  <2>8. HasFirst(f_tab, n + 1)'
    BY <1>1, <2>7, StillHasFirst
  <2>9. QED BY <2>2, <2>6, <2>8
<1>6. QED BY <1>4, <1>5

(* The last line of a broken listing is read: it is whole, or no file, or a *)
(* file whose name broke off.                                              *)
LEMMA ScanBroken ==
  ASSUME TypeOK, Known, Plain, ScanLine, NEW n \in 0..Len(directory),
         HasFirst(f_tab, n), Broken(n)
  PROVE  \E m \in 0..Len(directory) : HasRead(m)'
<1> DEFINE line == Head(lines)
           ft == ListParse(line)
           e == directory[n + 1]
<1>1. lines # <<>> /\ lines' = Tail(lines) /\ directory' = directory /\ env' = env
  BY DEF ScanLine
<1>2. f_tab' = IF ft.is = "file"
                 THEN Append(f_tab, [name |-> ft.name, size |-> ft.size])
                 ELSE f_tab
  BY DEF ScanLine
<1>3. n \in Nat /\ Len(directory) \in Nat /\ f_tab \in Seq(File)
  BY DEF TypeOK
<1>4. "cut" \in env /\ n < Len(directory)
  BY <1>1 DEF Broken
<1>5. PICK part \in Parts(Ls(e)) : lines = <<part>>
  BY <1>1 DEF Broken
<1>6. line = part /\ lines' = <<>>
  BY <1>1, <1>5
<1>7. n + 1 \in 1..Len(directory) /\ n + 1 \in 0..Len(directory)
  BY <1>3, <1>4
<1>8. PlainEntry(e)
  BY <1>7, PlainDirectory
<1>9. \A m : Broken(m)'
  BY <1>1, <1>4, <1>6 DEF Broken
<1>10. CASE ft.is # "file"
  <2>1. f_tab' = f_tab
    BY <1>2, <1>10
  <2>2. HasFirst(f_tab, n)'
    BY <1>1, <2>1, StillHasFirst
  <2>3. QED BY <1>1, <1>9, <2>2 DEF HasRead
<1>11. CASE part = Ls(e)
  <2>1. ft = IF Wanted(e) THEN Found(e.name, e.size) ELSE Null
    BY <1>6, <1>8, <1>11, ParseLs
  <2>2. HasFirst(f_tab', n + 1)
    <3>1. CASE Wanted(e)
      <4>1. ft.is = "file" /\ ft.name = e.name /\ ft.size = e.size
        BY <2>1, <3>1 DEF Found
      <4> DEFINE file == [name |-> e.name, size |-> e.size]
      <4>2. f_tab' = Append(f_tab, file)
        BY <1>2, <4>1
      <4>3. file \in File /\ file.name = e.name /\ file.size = e.size
        BY <1>8 DEF PlainEntry, Entry, File
      <4>4. directory \in Seq(Entry)
        BY DEF TypeOK
      <4> HIDE DEF file
      <4>5. QED BY <1>3, <1>4, <3>1, <4>2, <4>3, <4>4, NextWanted
    <3>2. CASE ~Wanted(e)
      <4>1. ft = Null
        BY <2>1, <3>2
      <4>2. f_tab' = f_tab
        BY <1>2, <4>1 DEF Null
      <4>3. QED BY <1>3, <3>2, <4>2, NextUnwanted
    <3>3. QED BY <3>1, <3>2
  <2>3. HasFirst(f_tab, n + 1)'
    BY <1>1, <2>2, StillHasFirst
  <2>4. QED BY <1>1, <1>7, <1>9, <2>3 DEF HasRead
<1>12. CASE e.mode # "d" /\ \E name \in Pieces : ft = Found(name, e.size)
  <2>1. PICK name \in Pieces : ft = Found(name, e.size)
    BY <1>12
  <2> DEFINE file == [name |-> name, size |-> e.size]
  <2>2. f_tab' = Append(f_tab, file)
    BY <1>2, <2>1 DEF Found
  <2>3. file \in File /\ file.name = name /\ file.size = e.size
    BY <1>8 DEF PlainEntry, Entry, File
  <2> HIDE DEF file
  <2>4. f_tab' # <<>> /\ Front(f_tab') = f_tab /\ Last(f_tab') = file
    BY <1>3, <2>2, <2>3, Appended
  <2>5. HasFirst(Front(f_tab), n)'
    BY <1>1, <2>4, StillHasFirst
  <2>6. Broke(n)'
    BY <1>1, <1>4, <1>6, <1>12, <2>3, <2>4 DEF Broke
  <2>7. QED BY <1>1, <2>5, <2>6 DEF HasRead
<1>13. \/ ft.is # "file"
       \/ part = Ls(e)
       \/ e.mode # "d" /\ \E name \in Pieces : ft = Found(name, e.size)
  BY <1>6, <1>8, ParsePart
<1>14. QED BY <1>10, <1>11, <1>12, <1>13

(* A listing breaks off. *)
LEMMA CutBreaks ==
  ASSUME TypeOK, Cut, NEW n \in 0..Len(directory), HasRead(n)
  PROVE  HasRead(n)'
<1>1. /\ "cut" \in env /\ lines # <<>> /\ Head(lines).first = "mode"
      /\ Head(lines).name \in Names /\ directory' = directory /\ env' = env
      /\ f_tab' = f_tab
  BY DEF Cut
<1>2. HasFirst(f_tab, n) /\ (Unbroken(n) \/ Broken(n))
  BY <1>1 DEF HasRead, Broke
<1>3. n < Len(directory) /\ Head(lines) = Ls(directory[n + 1])
  <2>1. CASE Unbroken(n)
    BY <1>1, <2>1, NextLine
  <2>2. CASE Broken(n)
    <3> DEFINE line == Ls(directory[n + 1])
    <3>1. n < Len(directory) /\ \E p \in Parts(line) : lines = <<p>>
      BY <1>1, <2>2 DEF Broken
    <3>2. PICK part \in Parts(line) : lines = <<part>>
      BY <3>1
    <3>3. Head(lines) = part
      BY <3>2
    <3>4. part.first = "mode" /\ part.name \in Names
      BY <1>1, <3>3
    <3>5. part # Noise("part")
      BY <3>4 DEF Noise
    <3>6. ASSUME NEW k \in 0..Len(line.fields),
                 part = [line EXCEPT !.fields = SubSeq(@, 1, k), !.name = NoName]
          PROVE  FALSE
      <4>1. part.name = NoName
        BY <3>6 DEF Ls
      <4>2. QED BY <3>4, <4>1 DEF Names, NoName
    <3>7. part = line
      <4>1. PICK name \in {"", line.name} \cup {p \in Pieces : line.name # ".hidden"} :
              part = [line EXCEPT !.name = name]
        BY <3>5, <3>6 DEF Parts
      <4>2. part.name = name
        BY <4>1 DEF Ls
      <4>3. name = line.name
        BY <3>4, <4>1, <4>2 DEF Names, Pieces
      <4>4. [line EXCEPT !.name = line.name] = line
        BY DEF Ls
      <4> HIDE DEF line
      <4>5. QED BY <4>1, <4>3, <4>4
    <3>8. Head(lines) = line
      BY <3>3, <3>7, Zenon
    <3>9. n < Len(directory)
      BY <3>1
    <3>10. QED BY <3>8, <3>9
  <2>3. QED BY <1>2, <2>1, <2>2
<1>4. Broken(n)'
  <2>1. lines' # <<>> => \E p \in Parts(Ls(directory[n + 1])) : lines' = <<p>>
    BY <1>3 DEF Cut
  <2>2. Ls(directory[n + 1])' = Ls(directory[n + 1])
    BY <1>1 DEF Ls
  <2>3. Parts(Ls(directory[n + 1]))' = Parts(Ls(directory[n + 1]))
    BY <2>2
  <2>4. QED BY <1>1, <1>3, <2>1, <2>3 DEF Broken
<1>5. HasFirst(f_tab, n)'
  BY <1>1, <1>2, StillHasFirst
<1>6. QED BY <1>4, <1>5 DEF HasRead

(* The invariant is inductive. *)
LEMMA ListedNext == Listed /\ [Next]_vars => Listed'
<1> SUFFICES ASSUME Listed, [Next]_vars PROVE Listed'
  OBVIOUS
<1>1. /\ TypeOK /\ Known /\ ReadToEnd
      /\ Plain => \E n \in 0..Len(directory) : HasRead(n)
  BY ListedParts
<1>2. TypeOK'
  BY <1>1, TypeNext
<1>3. directory' = directory /\ env' = env
  BY DEF Next, ScanLine, ScanEnd, Cut, vars
<1>4. Known'
  BY <1>1, <1>3 DEF Known, MayBe
<1>5. ReadToEnd'
  BY <1>1 DEF ReadToEnd, Next, ScanLine, ScanEnd, Cut, vars
<1>6. ASSUME Plain PROVE \E m \in 0..Len(directory) : HasRead(m)'
  <2>1. PICK n \in 0..Len(directory) : HasRead(n)
    BY <1>1, <1>6
  <2>2. CASE ScanLine
    <3>1. HasFirst(f_tab, n) /\ (Unbroken(n) \/ Broken(n))
      BY <2>1, <2>2 DEF HasRead, Broke, ScanLine
    <3>2. CASE Unbroken(n)
      BY <1>1, <1>6, <2>2, <3>1, <3>2, ScanUnbroken DEF HasRead
    <3>3. CASE Broken(n)
      BY <1>1, <1>6, <2>2, <3>1, <3>3, ScanBroken
    <3>4. QED BY <3>1, <3>2, <3>3
  <2>3. CASE Cut
    BY <1>1, <2>1, <2>3, CutBreaks
  <2>4. CASE ScanEnd \/ UNCHANGED vars
    <3>1. /\ f_tab' = f_tab /\ lines' = lines
          /\ state' = state \/ state' = "done"
      BY <2>4 DEF ScanEnd, vars
    <3>2. HasFirst(f_tab, n) => HasFirst(f_tab, n)'
      BY <1>3, <3>1, StillHasFirst
    <3>3. HasFirst(Front(f_tab), n) => HasFirst(Front(f_tab), n)'
      BY <1>3, <3>1, StillHasFirst
    <3>4. ASSUME NEW k PROVE Ls(directory[k])' = Ls(directory[k])
      BY <1>3 DEF Ls
    <3>5. Unbroken(n) => Unbroken(n)'
      BY <1>3, <3>1, <3>4 DEF Unbroken
    <3>6. Broken(n) => Broken(n)'
      <4>1. Parts(Ls(directory[n + 1]))' = Parts(Ls(directory[n + 1]))
        BY <3>4
      <4>2. QED BY <1>3, <3>1, <4>1 DEF Broken
    <3>7. Broke(n) => Broke(n)'
      BY <1>3, <3>1 DEF Broke
    <3>8. QED BY <2>1, <3>2, <3>3, <3>5, <3>6, <3>7 DEF HasRead
  <2>5. QED BY <2>2, <2>3, <2>4 DEF Next
<1>7. Plain' => Plain
  BY <1>3 DEF Plain
<1>8. Plain' => (\E m \in 0..Len(directory) : HasRead(m))'
  BY <1>3, <1>6, <1>7
<1>9. QED
  BY <1>2, <1>4, <1>5, <1>8 DEF Listed, Known, ReadToEnd, HasRead, Plain

(* Whatever the server says around the files, and wherever the connection   *)
(* breaks: the table has what was read, and nothing else.                   *)
THEOREM AlwaysListed == Spec => []Listed
<1>1. QED BY ListedInit, ListedNext, PTL DEF Spec

(* A listing that does not break off gives get_file all the files that are  *)
(* wanted, in order, and no others (fexp.c 843-858).            *)
Complete ==
  state = "done" /\ env \subseteq {"nogroup", "all"} =>
    HasFirst(f_tab, Len(directory))

THEOREM WholeListing == Spec => []Complete
<1>1. Listed => Complete
  <2> SUFFICES ASSUME Listed, state = "done", env \subseteq {"nogroup", "all"}
               PROVE  HasFirst(f_tab, Len(directory))
    BY DEF Complete
  <2>1. Plain /\ "cut" \notin env
    BY DEF Plain
  <2>2. TypeOK /\ ReadToEnd /\ \E n \in 0..Len(directory) : HasRead(n)
    BY <2>1, ListedParts
  <2>3. PICK n \in 0..Len(directory) : HasRead(n)
    BY <2>2
  <2>4. HasFirst(f_tab, n) /\ Unbroken(n)
    BY <2>1, <2>3 DEF HasRead, Broken, Broke
  <2>5. lines = <<>> /\ Len(lines) = 0
    BY <2>2 DEF ReadToEnd
  <2>6. Len(directory) \in Nat
    BY <2>2 DEF TypeOK
  <2>7. n = Len(directory)
    BY <2>4, <2>5, <2>6 DEF Unbroken
  <2>8. QED BY <2>4, <2>7
<1>2. QED BY <1>1, AlwaysListed, PTL
=============================================================================
