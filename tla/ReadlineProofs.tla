--------------------------- MODULE ReadlineProofs ---------------------------
(***************************************************************************)
(* Theorems about readline, for streams of any number of lines of any      *)
(* length, buffers of any size, and reads of any size.                     *)
(***************************************************************************)
EXTENDS Readline, SequenceTheorems, WellFoundedInduction, TLAPS

(* A set of numbers has a smallest one. *)
LEMMA SmallestNumber ==
  ASSUME NEW T \in SUBSET Nat, T # {}
  PROVE  \E x \in T : \A y \in T : x <= y
<1> DEFINE R == OpToRel(<, Nat)
<1>1. IsWellFoundedOn(R, Nat)
  BY NatLessThanWellFounded
<1>2. \A x, y \in Nat : y < x => <<y, x>> \in R
  BY DEF OpToRel
<1> HIDE DEF R
<1>3. PICK x \in T : \A y \in T : ~(<<y, x>> \in R)
  BY <1>1, WFMin
<1>4. ASSUME NEW y \in T PROVE x <= y
  <2>1. ~(y < x)
    BY <1>2, <1>3
  <2>2. QED BY <2>1
<1>5. QED BY <1>4

(* What holds of n and of each predecessor holds down to 0. *)
LEMMA Downward ==
  ASSUME NEW n \in Nat, NEW T, n \in T, \A i \in 0..n - 1 : i + 1 \in T => i \in T
  PROVE  \A i \in 0..n : i \in T
<1> DEFINE B == {d \in 0..n : n - d \notin T}
<1>1. SUFFICES ASSUME B # {} PROVE FALSE
  <2>1. ASSUME NEW i \in 0..n, B = {} PROVE i \in T
    <3>1. n - i \in 0..n /\ n - (n - i) = i
      OBVIOUS
    <3>2. QED BY <2>1, <3>1
  <2>2. QED BY <2>1
<1>2. B \in SUBSET Nat
  OBVIOUS
<1>3. PICK d \in B : \A y \in B : d <= y
  <2> HIDE DEF B
  <2>1. QED BY <1>1, <1>2, SmallestNumber
<1>4. d \in 0..n /\ n - d \notin T
  BY <1>3
<1>5. d # 0 /\ d - 1 \in 0..n
  BY <1>4
<1>6. n - (d - 1) \in T
  <2>1. ~(d <= d - 1)
    BY <1>4
  <2>2. d - 1 \notin B
    BY <1>3, <2>1
  <2>3. QED BY <1>5, <2>2
<1>7. n - d \in 0..n - 1 /\ (n - d) + 1 = n - (d - 1)
  BY <1>4, <1>5
<1>8. QED BY <1>4, <1>6, <1>7

(* The bytes behind a line are those of the next line and those behind it.  *)
LEMMA BehindLines ==
  ASSUME NEW lines \in Seq(Seq(Bytes))
  PROVE  LET r == Behind(lines)
             n == Len(lines)
         IN  /\ \A i \in 0..n : r[i] \in Seq(Bytes)
             /\ r[n] = <<>>
             /\ \A i \in 0..n - 1 : r[i] = lines[i + 1] \o r[i + 1]
<1> DEFINE n == Len(lines)
           From(i, f) == /\ f \in [i..n -> Seq(Bytes)]
                         /\ f[n] = <<>>
                         /\ \A j \in i..n - 1 : f[j] = lines[j + 1] \o f[j + 1]
           T == {i \in 0..n : \E f : From(i, f)}
<1>1. n \in Nat /\ \A j \in 1..n : lines[j] \in Seq(Bytes)
  OBVIOUS
<1> HIDE DEF n
<1>2. n \in T
  <2> DEFINE f == [j \in n..n |-> <<>>]
  <2>1. <<>> \in Seq(Bytes) /\ n \in n..n /\ n..n - 1 = {}
    BY <1>1
  <2>2. f \in [n..n -> Seq(Bytes)] /\ f[n] = <<>>
    BY <2>1
  <2>3. From(n, f)
    BY <2>1, <2>2
  <2>4. n \in 0..n
    BY <1>1
  <2> HIDE DEF From
  <2>5. QED BY <2>3, <2>4
<1>3. ASSUME NEW i \in 0..n - 1, i + 1 \in T PROVE i \in T
  <2>1. i \in Nat /\ i + 1 \in 1..n /\ i \in 0..n
    BY <1>1
  <2>2. PICK g : From(i + 1, g)
    BY <1>3
  <2>3. /\ g \in [i + 1..n -> Seq(Bytes)] /\ g[n] = <<>>
        /\ \A j \in i + 1..n - 1 : g[j] = lines[j + 1] \o g[j + 1]
    BY <2>2
  <2> DEFINE f == [j \in i..n |-> IF j = i THEN lines[i + 1] \o g[i + 1] ELSE g[j]]
  <2>4. lines[i + 1] \in Seq(Bytes) /\ g[i + 1] \in Seq(Bytes)
    BY <1>1, <2>1, <2>3
  <2>5. lines[i + 1] \o g[i + 1] \in Seq(Bytes)
    BY <2>4, ConcatProperties
  <2>6. \A j \in i..n : j # i => j \in i + 1..n
    BY <1>1, <2>1
  <2>7. f \in [i..n -> Seq(Bytes)]
    BY <2>3, <2>5, <2>6
  <2>8. /\ n \in i..n /\ n # i /\ i \in i..n /\ i + 1 # i
        /\ \A j \in i..n - 1 : j \in i..n /\ j + 1 \in i..n /\ j + 1 # i
                               /\ (j # i => j \in i + 1..n - 1)
    BY <1>1, <2>1
  <2>9. f[n] = <<>>
    BY <2>3, <2>8
  <2>10. \A j \in i..n - 1 : f[j] = lines[j + 1] \o f[j + 1]
    <3> TAKE j \in i..n - 1
    <3>1. f[j + 1] = g[j + 1]
      BY <2>8
    <3>2. CASE j = i
      BY <2>8, <3>1, <3>2
    <3>3. CASE j # i
      BY <2>3, <2>8, <3>1, <3>3
    <3>4. QED BY <3>2, <3>3
  <2> HIDE DEF f
  <2>11. From(i, f)
    BY <2>7, <2>9, <2>10
  <2> HIDE DEF From
  <2>12. QED BY <2>1, <2>11
<1>4. 0 \in T
  <2> HIDE DEF T
  <2>1. QED BY <1>1, <1>2, <1>3, Downward
<1>5. PICK f : From(0, f)
  BY <1>4
<1> DEFINE Rec(h) == h = [i \in 0..n |-> IF i = n THEN <<>> ELSE lines[i + 1] \o h[i + 1]]
           r == Behind(lines)
<1>6. Rec(f)
  <2>1. /\ f \in [0..n -> Seq(Bytes)] /\ f[n] = <<>>
        /\ \A j \in 0..n - 1 : f[j] = lines[j + 1] \o f[j + 1]
    BY <1>5
  <2>2. \A i \in 0..n : f[i] = IF i = n THEN <<>> ELSE lines[i + 1] \o f[i + 1]
    <3> TAKE i \in 0..n
    <3>1. i # n => i \in 0..n - 1
      BY <1>1
    <3>2. QED BY <2>1, <3>1
  <2>3. QED BY <2>1, <2>2
<1>7. r = CHOOSE h : Rec(h)
  BY DEF Behind, n
<1>8. Rec(r)
  <2> HIDE DEF Rec, r
  <2>1. QED BY <1>6, <1>7
<1> HIDE DEF r
<1>9. /\ r[n] = <<>>
      /\ \A i \in 0..n - 1 : r[i] = lines[i + 1] \o r[i + 1]
  <2>1. n \in 0..n /\ \A i \in 0..n - 1 : i \in 0..n /\ i # n
    BY <1>1
  <2>2. QED BY <1>8, <2>1
<1>10. \A i \in 0..n : r[i] \in Seq(Bytes)
  <2> DEFINE U == {i \in 0..n : r[i] \in Seq(Bytes)}
  <2>1. n \in U
    <3>1. n \in 0..n /\ <<>> \in Seq(Bytes)
      BY <1>1
    <3>2. r[n] \in Seq(Bytes)
      BY <1>9, <3>1
    <3>3. QED BY <3>1, <3>2
  <2>2. ASSUME NEW i \in 0..n - 1, i + 1 \in U PROVE i \in U
    <3>1. lines[i + 1] \in Seq(Bytes) /\ r[i + 1] \in Seq(Bytes) /\ i \in 0..n
      BY <1>1, <2>2
    <3>2. QED BY <1>9, <3>1, ConcatProperties
  <2>3. \A i \in 0..n : i \in U
    <3> HIDE DEF U
    <3>1. QED BY <1>1, <2>1, <2>2, Downward
  <2>4. QED BY <2>3
<1>11. QED BY <1>9, <1>10 DEF n, r

-----------------------------------------------------------------------------
(* What SubSeq and \o do, element by element. *)
LEMMA Part ==
  ASSUME NEW S, NEW s \in Seq(S), NEW k \in 0..Len(s), NEW m \in k..Len(s)
  PROVE  /\ SubSeq(s, k + 1, m) \in Seq(S) /\ Len(SubSeq(s, k + 1, m)) = m - k
         /\ \A i \in 1..m - k : SubSeq(s, k + 1, m)[i] = s[k + i]
<1> DEFINE n == Len(s)
<1>1. n \in Nat /\ k \in 0..n /\ m \in k..n /\ \A i \in 1..n : s[i] \in S
  BY ElementOfSeq
<1> HIDE DEF n
<1>2. k + 1 \in Int /\ m \in Int /\ \A i \in k + 1..m : s[i] \in S
  BY <1>1
<1> DEFINE t == SubSeq(s, k + 1, m)
<1>3. /\ t \in Seq(S) /\ Len(t) = IF k + 1 <= m THEN m - (k + 1) + 1 ELSE 0
      /\ \A i \in 1..m - (k + 1) + 1 : t[i] = s[k + 1 + i - 1]
  BY <1>2, SubSeqProperties
<1> HIDE DEF t
<1>4. Len(t) = m - k /\ m - (k + 1) + 1 = m - k
  BY <1>1, <1>3
<1>5. \A i \in 1..m - k : k + 1 + i - 1 = k + i
  BY <1>1
<1>6. QED BY <1>3, <1>4, <1>5 DEF t

LEMMA Joined ==
  ASSUME NEW S, NEW s \in Seq(S), NEW t \in Seq(S)
  PROVE  /\ s \o t \in Seq(S) /\ Len(s \o t) = Len(s) + Len(t)
         /\ \A i \in 1..Len(s) : (s \o t)[i] = s[i]
         /\ \A i \in 1..Len(t) : (s \o t)[Len(s) + i] = t[i]
<1> DEFINE k == Len(s)
           m == Len(t)
           st == s \o t
<1>1. st \in Seq(S) /\ Len(st) = k + m
  BY ConcatProperties
<1>2. \A i \in 1..k + m : st[i] = IF i <= k THEN s[i] ELSE t[i - k]
  BY ConcatProperties
<1>3. k \in Nat /\ m \in Nat
  OBVIOUS
<1> HIDE DEF k, m, st
<1>4. \A i \in 1..k : st[i] = s[i]
  BY <1>2, <1>3
<1>5. \A i \in 1..m : st[k + i] = t[i]
  <2> TAKE i \in 1..m
  <2>1. k + i \in 1..k + m /\ ~(k + i <= k) /\ (k + i) - k = i
    BY <1>3
  <2>2. QED BY <1>2, <2>1
<1>6. QED BY <1>1, <1>4, <1>5 DEF k, m, st

(* A sequence is its two parts. *)
LEMMA Parted ==
  ASSUME NEW S, NEW s \in Seq(S), NEW k \in 0..Len(s)
  PROVE  SubSeq(s, 1, k) \o SubSeq(s, k + 1, Len(s)) = s
<1>1. 1 \in 1..Len(s) + 1 /\ k \in 1 - 1..Len(s) /\ Len(s) \in k..Len(s)
  OBVIOUS
<1>2. SubSeq(s, 1, k) \o SubSeq(s, k + 1, Len(s)) = SubSeq(s, 1, Len(s))
  BY <1>1, ConcatAdjacentSubSeq
<1>3. QED BY <1>2, SubSeqFull

(* Two ways to write one sequence: the shorter beginning is a part of the   *)
(* longer.                                                                 *)
LEMMA TwoWays ==
  ASSUME NEW S, NEW a \in Seq(S), NEW b \in Seq(S), NEW c \in Seq(S), NEW d \in Seq(S),
         a \o b = c \o d, Len(a) <= Len(c)
  PROVE  /\ \A i \in 1..Len(a) : a[i] = c[i]
         /\ b = SubSeq(c, Len(a) + 1, Len(c)) \o d
<1> DEFINE k == Len(a)
           m == Len(c)
           s == a \o b
           e == SubSeq(c, k + 1, m)
           ed == e \o d
<1>1. k \in Nat /\ m \in Nat /\ k <= m /\ Len(b) \in Nat /\ Len(d) \in Nat
  OBVIOUS
<1>2. /\ Len(s) = k + Len(b)
      /\ \A i \in 1..k : s[i] = a[i]
      /\ \A i \in 1..Len(b) : s[k + i] = b[i]
  <2>1. a \in Seq(S) /\ b \in Seq(S)
    OBVIOUS
  <2>2. QED BY ONLY <2>1, Joined
<1>3. /\ Len(s) = m + Len(d)
      /\ \A i \in 1..m : s[i] = c[i]
      /\ \A i \in 1..Len(d) : s[m + i] = d[i]
  <2>1. c \in Seq(S) /\ d \in Seq(S) /\ s = c \o d
    OBVIOUS
  <2> HIDE DEF s
  <2>2. QED BY ONLY <2>1, Joined
<1>4. /\ e \in Seq(S) /\ Len(e) = m - k
      /\ \A i \in 1..m - k : e[i] = c[k + i]
  <2>1. k \in 0..Len(c) /\ m \in k..Len(c)
    BY <1>1
  <2>2. QED BY <2>1, Part
<1> HIDE DEF k, m, s, e
<1>5. /\ ed \in Seq(S) /\ Len(ed) = (m - k) + Len(d)
      /\ \A i \in 1..m - k : ed[i] = e[i]
      /\ \A i \in 1..Len(d) : ed[(m - k) + i] = d[i]
  <2>1. /\ ed \in Seq(S) /\ Len(ed) = Len(e) + Len(d)
        /\ \A i \in 1..Len(e) : ed[i] = e[i]
        /\ \A i \in 1..Len(d) : ed[Len(e) + i] = d[i]
    <3>1. e \in Seq(S) /\ d \in Seq(S)
      BY <1>4
    <3>2. QED BY ONLY <3>1, Joined
  <2> HIDE DEF ed
  <2>2. Len(e) = m - k
    BY <1>4
  <2>3. QED BY ONLY <2>1, <2>2, Zenon
<1> HIDE DEF ed
<1>6. \A i \in 1..k : a[i] = c[i]
  <2> TAKE i \in 1..k
  <2>1. i \in 1..m
    BY <1>1
  <2>2. s[i] = a[i] /\ s[i] = c[i]
    BY <1>2, <1>3, <2>1
  <2>3. QED BY <2>2
<1>7. Len(b) = Len(ed)
  <2>1. Len(s) = k + Len(b) /\ Len(s) = m + Len(d) /\ Len(ed) = (m - k) + Len(d)
    BY <1>2, <1>3, <1>5
  <2> DEFINE lb == Len(b)
             ld == Len(d)
  <2> HIDE DEF lb, ld
  <2>2. k + lb = m + ld /\ lb \in Nat /\ ld \in Nat
    BY <2>1, <1>1 DEF lb, ld
  <2>3. lb = (m - k) + ld
    BY <2>2, <1>1
  <2>4. QED BY <2>1, <2>3 DEF lb, ld
<1>8. \A i \in 1..Len(b) : b[i] = ed[i]
  <2> TAKE i \in 1..Len(b)
  <2>1. b[i] = s[k + i]
    BY <1>2
  <2>2. CASE i <= m - k
    <3>1. i \in 1..m - k /\ k + i \in 1..m
      BY <1>1, <2>2
    <3>2. QED BY <1>3, <1>4, <1>5, <2>1, <3>1
  <2>3. CASE i > m - k
    <3>1. i - (m - k) \in 1..Len(d)
      BY <1>1, <1>5, <1>7, <2>3
    <3>2. m + (i - (m - k)) = k + i /\ (m - k) + (i - (m - k)) = i
      BY <1>1, <2>3
    <3>3. QED BY <1>3, <1>5, <2>1, <3>1, <3>2
  <2>4. QED BY <1>1, <2>2, <2>3
<1>9. b = ed
  BY <1>5, <1>7, <1>8, SeqEqual
<1>10. QED BY <1>6, <1>9 DEF k, m, e, ed
-----------------------------------------------------------------------------
(* Of a stream, what is behind a line that does not end in "\n" is nothing, *)
(* and what is behind any other line is the next line and what is behind   *)
(* that.                                                                   *)
LEMMA BehindLine ==
  ASSUME NEW lines, IsStream(lines), NEW i \in 0..Len(lines)
  PROVE  /\ Behind(lines)[i] \in Seq(Bytes)
         /\ i = Len(lines) => Behind(lines)[i] = <<>>
         /\ i # Len(lines) => /\ i + 1 \in 1..Len(lines)
                             /\ 0 \in 0..Len(lines[i + 1]) - 1
                             /\ Behind(lines)[i] = Rest(lines, i + 1, 0)
<1>1. lines \in Seq(Seq(Bytes)) /\ \A k \in 1..Len(lines) : IsLine(lines[k])
  BY DEF IsStream
<1>2. /\ Behind(lines)[i] \in Seq(Bytes)
      /\ i = Len(lines) => Behind(lines)[i] = <<>>
  BY <1>1, BehindLines
<1>3. ASSUME i # Len(lines)
      PROVE  /\ i + 1 \in 1..Len(lines) /\ 0 \in 0..Len(lines[i + 1]) - 1
             /\ Behind(lines)[i] = Rest(lines, i + 1, 0)
  <2>1. i + 1 \in 1..Len(lines) /\ i \in 0..Len(lines) - 1
    BY <1>1, <1>3
  <2>2. lines[i + 1] \in Seq(Bytes) /\ lines[i + 1] # <<>>
    BY <1>1, <2>1 DEF IsLine
  <2>3. 0 \in 0..Len(lines[i + 1]) - 1
    BY <2>2, EmptySeq
  <2>4. Behind(lines)[i] = lines[i + 1] \o Behind(lines)[i + 1]
    BY <1>1, <2>1, BehindLines
  <2>5. Past(lines[i + 1], 0) = lines[i + 1]
    <3>1. 0 + 1 = 1
      OBVIOUS
    <3>2. QED BY <2>2, <3>1, SubSeqFull DEF Past
  <2>6. QED BY <2>1, <2>3, <2>4, <2>5 DEF Rest
<1>4. QED BY <1>2, <1>3

(* A line without some bytes, and without some more. *)
LEMMA PastLine ==
  ASSUME NEW line \in Seq(Bytes), NEW p \in 0..Len(line)
  PROVE  /\ Past(line, p) \in Seq(Bytes) /\ Len(Past(line, p)) = Len(line) - p
         /\ \A k \in 1..Len(line) - p : Past(line, p)[k] = line[p + k]
         /\ Past(line, Len(line)) = <<>>
<1>1. Len(line) \in p..Len(line)
  OBVIOUS
<1>2. /\ Past(line, p) \in Seq(Bytes) /\ Len(Past(line, p)) = Len(line) - p
      /\ \A k \in 1..Len(line) - p : Past(line, p)[k] = line[p + k]
  BY <1>1, Part DEF Past
<1>3. Len(line) + 1 \in Int /\ Len(line) \in Int /\ Len(line) < Len(line) + 1
  OBVIOUS
<1>4. QED BY <1>2, <1>3, SubSeqEmpty DEF Past

LEMMA PastPast ==
  ASSUME NEW line \in Seq(Bytes), NEW p \in 0..Len(line), NEW q \in 0..Len(line) - p
  PROVE  Past(Past(line, p), q) = Past(line, p + q)
<1> DEFINE n == Len(line)
           a == Past(line, p)
           b == Past(a, q)
           c == Past(line, p + q)
<1>1. n \in Nat /\ p \in 0..n /\ q \in 0..n - p /\ p + q \in 0..n
      /\ (n - p) - q = n - (p + q)
  OBVIOUS
<1>2. a \in Seq(Bytes) /\ Len(a) = n - p /\ \A k \in 1..n - p : a[k] = line[p + k]
  BY PastLine
<1>3. b \in Seq(Bytes) /\ Len(b) = (n - p) - q /\ \A k \in 1..(n - p) - q : b[k] = a[q + k]
  <2> HIDE DEF a
  <2>1. q \in 0..Len(a)
    BY <1>1, <1>2
  <2>2. /\ b \in Seq(Bytes) /\ Len(b) = Len(a) - q
        /\ \A k \in 1..Len(a) - q : b[k] = a[q + k]
    BY <1>2, <2>1, PastLine
  <2>3. QED BY ONLY <1>2, <2>2, Zenon
<1>4. c \in Seq(Bytes) /\ Len(c) = n - (p + q)
      /\ \A k \in 1..n - (p + q) : c[k] = line[(p + q) + k]
  BY <1>1, PastLine
<1> HIDE DEF n, a, b, c
<1>5. \A k \in 1..Len(b) : b[k] = c[k]
  <2> TAKE k \in 1..Len(b)
  <2>1. /\ k \in 1..(n - p) - q /\ q + k \in 1..n - p /\ k \in 1..n - (p + q)
        /\ p + (q + k) = (p + q) + k
    BY <1>1, <1>3
  <2>2. QED BY <1>2, <1>3, <1>4, <2>1
<1>6. Len(b) = Len(c)
  BY <1>1, <1>3, <1>4
<1>7. b = c
  BY <1>3, <1>4, <1>5, <1>6, SeqEqual
<1>8. QED BY <1>7 DEF a, b, c

(* Byte p of line i of a stream is before its end. *)
Place(lines, i, p) ==
  IsStream(lines) /\ i \in 1..Len(lines) /\ p \in 0..Len(lines[i]) - 1

(* From there the stream is text and then rest. *)
Split(lines, i, p, text, rest) ==
  /\ Place(lines, i, p) /\ text \in Seq(Bytes) /\ rest \in Seq(Bytes)
  /\ text \o rest = Rest(lines, i, p)

(* The rest of a line is not empty; if it does not end in "\n", nothing is   *)
(* behind it.                                                              *)
RestFacts(line, n, p, w, r) ==
  /\ line \in Seq(Bytes) /\ n \in Nat /\ p \in 0..n - 1 /\ p \in 0..n
  /\ r \in Seq(Bytes) /\ w \in Seq(Bytes) /\ Len(w) = n - p
  /\ \A k \in 1..n - p : w[k] = line[p + k]
  /\ line[n].is # "lf" => r = <<>>

LEMMA RestOfLine ==
  ASSUME NEW lines, NEW i, NEW p, Place(lines, i, p)
  PROVE  /\ RestFacts(lines[i], Len(lines[i]), p, Past(lines[i], p), Behind(lines)[i])
         /\ IsLine(lines[i]) /\ (lines[i][Len(lines[i])].is # "lf" => i = Len(lines))
<1> DEFINE line == lines[i]
           n == Len(line)
           w == Past(line, p)
           r == Behind(lines)[i]
<1>1. IsStream(lines) /\ i \in 1..Len(lines) /\ p \in 0..n - 1
  BY DEF Place
<1>2. IsLine(line) /\ line \in Seq(Bytes) /\ n \in Nat
  BY <1>1 DEF IsStream, IsLine
<1>3. p \in 0..n
  BY <1>1, <1>2
<1>4. w \in Seq(Bytes) /\ Len(w) = n - p /\ \A k \in 1..n - p : w[k] = line[p + k]
  BY <1>2, <1>3, PastLine
<1>5. line[n].is # "lf" => i = Len(lines)
  BY <1>1 DEF IsStream, Last
<1>6. r \in Seq(Bytes) /\ (i = Len(lines) => r = <<>>)
  <2>1. i \in 0..Len(lines)
    BY <1>1 DEF IsStream
  <2>2. QED BY <1>1, <2>1, BehindLine
<1> HIDE DEF line, n, w, r
<1>7. RestFacts(line, n, p, w, r)
  BY <1>1, <1>2, <1>3, <1>4, <1>5, <1>6 DEF RestFacts
<1>8. QED BY <1>2, <1>5, <1>7 DEF line, n, w, r

(* Bytes that are at the beginning of the rest of a stream and have no "\n"  *)
(* before their end lie within one line.                                   *)
Unbroken(text) == \A k \in 1..Len(text) - 1 : text[k].is # "lf"

WithinFacts(line, n, p, r, text, m, rest) ==
  /\ m \in 0..n - p /\ p + m \in 0..n
  /\ \A k \in 1..m : text[k] = line[p + k]
  /\ rest = Past(line, p + m) \o r

LEMMA WithinLine ==
  ASSUME NEW lines, NEW i, NEW p, NEW text, NEW rest,
         Split(lines, i, p, text, rest), Unbroken(text)
  PROVE  WithinFacts(lines[i], Len(lines[i]), p, Behind(lines)[i], text, Len(text), rest)
<1> DEFINE line == lines[i]
           n == Len(line)
           w == Past(line, p)
           r == Behind(lines)[i]
           lt == Len(text)
           lw == Len(w)
<1>1. /\ Place(lines, i, p) /\ text \in Seq(Bytes) /\ rest \in Seq(Bytes)
      /\ text \o rest = w \o r /\ w = Past(line, p) /\ n = Len(line)
  BY DEF Split, Rest
<1>2. RestFacts(line, n, p, w, r)
  BY <1>1, RestOfLine
<1> HIDE DEF line, n, w, r
<1>3. /\ line \in Seq(Bytes) /\ n \in Nat /\ p \in 0..n - 1 /\ r \in Seq(Bytes)
      /\ w \in Seq(Bytes) /\ lw = n - p
      /\ \A k \in 1..n - p : w[k] = line[p + k]
      /\ line[n].is # "lf" => r = <<>>
  BY <1>2 DEF RestFacts
<1>4. lt \in Nat /\ lw \in Nat /\ p \in Nat
  BY <1>1, <1>3
<1>5. w[lw] = line[n]
  <2>1. lw \in 1..n - p /\ p + lw = n
    BY <1>3
  <2>2. QED BY <1>3, <2>1
<1>6. lt <= lw
  <2>1. SUFFICES ASSUME lw < lt PROVE FALSE
    BY <1>4
  <2>2. lw <= lt
    BY <1>4, <2>1
  <2>3. \A k \in 1..lw : w[k] = text[k]
    <3>1. /\ text \in Seq(Bytes) /\ rest \in Seq(Bytes) /\ w \in Seq(Bytes) /\ r \in Seq(Bytes)
          /\ w \o r = text \o rest /\ Len(w) <= Len(text)
      BY <1>1, <1>3, <2>2
    <3>2. QED BY ONLY <3>1, TwoWays
  <2>4. lw \in 1..lw /\ lw \in 1..lt - 1
    BY <1>3, <1>4, <2>1
  <2>5. r = <<>>
    BY <1>3, <1>5, <2>3, <2>4 DEF Unbroken
  <2>6. lt + Len(rest) = lw + Len(r)
    <3>1. Len(text \o rest) = lt + Len(rest)
      BY <1>1, Joined
    <3>2. Len(w \o r) = lw + Len(r)
      BY <1>3, Joined
    <3>3. QED BY <1>1, <3>1, <3>2
  <2>7. Len(r) = 0 /\ Len(rest) \in Nat
    BY <1>1, <2>5
  <2> DEFINE lr == Len(rest)
  <2> HIDE DEF lt, lw, lr
  <2>8. lt + lr = lw + 0
    BY <2>6, <2>7 DEF lr
  <2>9. QED BY <2>8, <2>1, <2>7, <1>4 DEF lr
<1>7. /\ \A k \in 1..lt : text[k] = w[k]
      /\ rest = Past(w, lt) \o r
  <2>1. /\ text \in Seq(Bytes) /\ rest \in Seq(Bytes) /\ w \in Seq(Bytes) /\ r \in Seq(Bytes)
        /\ text \o rest = w \o r /\ Len(text) <= Len(w)
    BY <1>1, <1>3, <1>6
  <2>2. /\ \A k \in 1..Len(text) : text[k] = w[k]
        /\ rest = SubSeq(w, Len(text) + 1, Len(w)) \o r
    BY ONLY <2>1, TwoWays
  <2>3. QED BY <2>2 DEF Past
<1>8. lt \in 0..n - p /\ p \in 0..n /\ p + lt \in 0..n /\ \A k \in 1..lt : k \in 1..n - p
  <2> HIDE DEF lt, lw
  <2>1. QED BY <1>3, <1>4, <1>6
<1>9. \A k \in 1..lt : text[k] = line[p + k]
  BY <1>3, <1>7, <1>8
<1>10. Past(w, lt) = Past(line, p + lt)
  BY <1>1, <1>3, <1>8, PastPast
<1>11. WithinFacts(line, n, p, r, text, lt, rest)
  BY <1>7, <1>8, <1>9, <1>10 DEF WithinFacts
<1>12. QED BY <1>11 DEF n, r, line

(* If they end in "\n" they are the rest of the line. *)
LEMMA WholeRest ==
  ASSUME NEW lines, NEW i, NEW p, NEW text, NEW rest,
         Split(lines, i, p, text, rest), Unbroken(text),
         Len(text) > 0, text[Len(text)].is = "lf"
  PROVE  /\ text = Past(lines[i], p) /\ rest = Behind(lines)[i]
         /\ Len(text) = Len(lines[i]) - p /\ lines[i][Len(lines[i])].is = "lf"
<1> DEFINE line == lines[i]
           n == Len(line)
           r == Behind(lines)[i]
           w == Past(line, p)
           m == Len(text)
<1>1. Place(lines, i, p) /\ text \in Seq(Bytes) /\ m \in Nat /\ m > 0 /\ text[m].is = "lf"
  BY DEF Split
<1>2. RestFacts(line, n, p, w, r) /\ IsLine(line)
  BY <1>1, RestOfLine
<1>3. WithinFacts(line, n, p, r, text, m, rest)
  BY WithinLine
<1>4. \A k \in 1..n : line[k].is = "lf" => k = n
  BY <1>2 DEF IsLine
<1>5. Past(line, n) = <<>>
  BY <1>2, PastLine DEF RestFacts
<1> HIDE DEF line, n, r, w, m
<1>6. p + m = n
  <2>1. n \in Nat /\ p \in 0..n /\ p + m \in 0..n
    BY <1>2, <1>3 DEF RestFacts, WithinFacts
  <2>2. m \in 1..m /\ p + m \in 1..n
    BY ONLY <1>1, <2>1
  <2>3. text[m] = line[p + m]
    BY <1>3, <2>2 DEF WithinFacts
  <2>4. QED BY <1>1, <1>4, <2>2, <2>3
<1>7. rest = r
  <2>1. rest = <<>> \o r /\ r \in Seq(Bytes)
    BY <1>2, <1>3, <1>5, <1>6 DEF RestFacts, WithinFacts
  <2>2. QED BY <2>1, ConcatEmptySeq
<1>8. text = w
  <2>1. n \in Nat /\ p \in 0..n /\ w \in Seq(Bytes) /\ Len(w) = n - p
    BY <1>2 DEF RestFacts
  <2>2. m = n - p
    BY ONLY <1>1, <1>6, <2>1
  <2>3. \A k \in 1..m : text[k] = w[k]
    BY <1>2, <1>3, <2>2 DEF RestFacts, WithinFacts
  <2>4. QED BY <1>1, <2>1, <2>2, <2>3, SeqEqual DEF m
<1>9. m = n - p /\ line[n].is = "lf"
  <2>1. n \in Nat /\ p \in 0..n
    BY <1>2 DEF RestFacts
  <2>2. m = n - p /\ m \in 1..m
    BY ONLY <1>1, <1>6, <2>1
  <2>3. text[m] = line[p + m]
    BY <1>3, <2>2 DEF WithinFacts
  <2>4. QED BY <1>1, <1>6, <2>2, <2>3
<1>10. QED BY <1>7, <1>8, <1>9 DEF line, n, r, w, m

(* If they have none, the line goes on, or ends the stream without one.      *)
LEMMA Unended ==
  ASSUME NEW lines, NEW i, NEW p, NEW text, NEW rest,
         Split(lines, i, p, text, rest), LF(text) = {}
  PROVE  \/ /\ Len(text) < Len(lines[i]) - p
            /\ Place(lines, i, p + Len(text))
            /\ rest = Rest(lines, i, p + Len(text))
         \/ /\ text = Past(lines[i], p) /\ Len(text) = Len(lines[i]) - p
            /\ lines[i][Len(lines[i])].is # "lf" /\ i = Len(lines) /\ rest = <<>>
<1> DEFINE line == lines[i]
           n == Len(line)
           r == Behind(lines)[i]
           w == Past(line, p)
           m == Len(text)
<1>1. Place(lines, i, p) /\ text \in Seq(Bytes) /\ m \in Nat
  BY DEF Split
<1>2. /\ RestFacts(line, n, p, w, r) /\ IsLine(line)
      /\ line[n].is # "lf" => i = Len(lines)
  BY <1>1, RestOfLine
<1>3. \A k \in 1..m : text[k].is # "lf"
  <2>1. DOMAIN text = 1..m
    BY <1>1
  <2>2. QED BY <2>1 DEF LF
<1>4. WithinFacts(line, n, p, r, text, m, rest)
  <2>1. Unbroken(text)
    BY <1>1, <1>3 DEF Unbroken
  <2>2. QED BY <2>1, WithinLine
<1>5. Past(line, n) = <<>>
  BY <1>2, PastLine DEF RestFacts
<1>6. r = Behind(lines)[i]
  OBVIOUS
<1> HIDE DEF r, w, m
<1>7. n \in Nat /\ p \in 0..n - 1 /\ m \in 0..n - p /\ p + m \in 0..n
  BY <1>2, <1>4 DEF RestFacts, WithinFacts
<1>8. ASSUME m # n - p
      PROVE  m < n - p /\ Place(lines, i, p + m) /\ rest = Rest(lines, i, p + m)
  <2>1. m < n - p /\ p + m \in 0..n - 1
    <3> HIDE DEF n
    <3>1. QED BY ONLY <1>7, <1>8
  <2>2. rest = Past(line, p + m) \o r
    BY <1>4 DEF WithinFacts
  <2>3. QED BY <1>1, <1>6, <2>1, <2>2 DEF Rest, Place
<1> HIDE DEF line, n
<1>9. ASSUME m = n - p
      PROVE  text = w /\ line[n].is # "lf" /\ i = Len(lines) /\ rest = <<>>
  <2>1. p + m = n /\ m \in 1..m
    BY ONLY <1>7, <1>9
  <2>2. text[m] = line[n]
    BY <1>4, <2>1 DEF WithinFacts
  <2>3. line[n].is # "lf"
    BY <1>3, <2>1, <2>2
  <2>4. i = Len(lines) /\ r = <<>>
    BY <1>2, <2>3 DEF RestFacts
  <2>5. rest = <<>>
    <3>1. rest = <<>> \o r /\ r \in Seq(Bytes)
      BY <1>2, <1>4, <1>5, <2>1 DEF RestFacts, WithinFacts
    <3>2. QED BY <2>4, <3>1, ConcatEmptySeq
  <2>6. text = w
    <3>1. w \in Seq(Bytes) /\ Len(w) = m
      BY <1>2, <1>9 DEF RestFacts
    <3>2. \A k \in 1..m : text[k] = w[k]
      BY <1>2, <1>4, <1>9 DEF RestFacts, WithinFacts
    <3>3. QED BY <1>1, <3>1, <3>2, SeqEqual DEF m
  <2>7. QED BY <2>3, <2>4, <2>5, <2>6
<1>10. CASE m = n - p
  BY <1>9, <1>10 DEF line, n, w, m
<1>11. CASE m # n - p
  BY <1>8, <1>11 DEF line, n, m
<1>12. QED BY <1>10, <1>11

(* A line that has no carriage return, or has not its "\n", arrives as it is. *)
LEMMA PlainText ==
  ASSUME NEW line, IsLine(line),
         line[Len(line)].is # "lf" \/ \A k \in 1..Len(line) : line[k].is # "cr"
  PROVE  Text(line) = line
<1>1. line \in Seq(Bytes) /\ DOMAIN line = 1..Len(line)
  BY DEF IsLine
<1>2. \A k \in 1..Len(line) : line[k].is # "cr"
  BY <1>1 DEF IsLine
<1>3. QED BY <1>1, <1>2 DEF Text

(* One that has both arrives without the carriage return. *)
LEMMA BareText ==
  ASSUME NEW line, IsLine(line), NEW c \in 1..Len(line), line[c].is = "cr"
  PROVE  LET n == Len(line)
         IN  /\ n \in Nat /\ n - 1 \in 1..n /\ n \in 1..n /\ c = n - 1
             /\ line[n - 1].is = "cr" /\ line[n].is = "lf"
             /\ Text(line) \in Seq(Bytes) /\ Len(Text(line)) = n - 1
             /\ \A k \in 1..n - 2 : Text(line)[k] = line[k]
             /\ Text(line)[n - 1] = line[n]
<1> DEFINE n == Len(line)
           t == Text(line)
<1>1. /\ line \in Seq(Bytes) /\ DOMAIN line = 1..n /\ n \in Nat
      /\ \A k \in 1..n : line[k] \in Bytes
      /\ \A k \in 1..n : line[k].is = "cr" => k + 1 = n /\ line[k + 1].is = "lf"
  BY DEF IsLine
<1>2. c \in 1..n
  OBVIOUS
<1>3. t = [k \in 1..n - 1 |-> IF line[k].is = "cr" THEN line[k + 1] ELSE line[k]]
  BY <1>1 DEF Text
<1> HIDE DEF n, t
<1>4. c + 1 = n /\ c = n - 1 /\ n - 1 \in 1..n /\ n \in 1..n
  BY <1>1, <1>2
<1>5. line[n - 1].is = "cr" /\ line[n].is = "lf" /\ (n - 1) + 1 = n
  BY <1>1, <1>2, <1>4
<1>6. t \in Seq(Bytes) /\ Len(t) = n - 1
  <2>1. \A k \in 1..n - 1 : k \in 1..n /\ k + 1 \in 1..n
    BY <1>1
  <2>2. n - 1 \in Nat
    BY <1>1, <1>4
  <2>3. t \in [1..n - 1 -> Bytes]
    BY <1>1, <1>3, <2>1
  <2>4. QED BY <2>2, <2>3
<1>7. \A k \in 1..n - 2 : t[k] = line[k]
  <2> TAKE k \in 1..n - 2
  <2>1. k \in 1..n - 1 /\ k \in 1..n /\ k + 1 # n
    BY <1>1
  <2>2. QED BY <1>1, <1>3, <2>1
<1>8. t[n - 1] = line[n]
  <2>1. n - 1 \in 1..n - 1
    BY <1>1, <1>4
  <2>2. QED BY <1>3, <1>5, <2>1
<1>9. QED BY <1>1, <1>4, <1>5, <1>6, <1>7, <1>8 DEF n, t

(* What Copy returns of the rest of a line is an end of its text, and of a   *)
(* whole line all of it.                                                   *)
LEMMA ReturnedText ==
  ASSUME NEW line, IsLine(line), NEW p \in 0..Len(line) - 1, line[Len(line)].is = "lf"
  PROVE  LET text == Past(line, p)
         IN  /\ Len(NoCr(text)) = Len(text) - (IF EndsCrLf(text) THEN 1 ELSE 0)
             /\ EndOf(NoCr(text), Text(line))
             /\ p = 0 => NoCr(text) = Text(line)
<1> DEFINE n == Len(line)
           text == Past(line, p)
           m == Len(text)
           crlf == m >= 2 /\ text[m - 1].is = "cr"
           short == Append(SubSeq(text, 1, m - 2), Last(text))
           t == IF crlf THEN short ELSE text
           tl == Text(line)
<1>0. SUFFICES Len(t) = m - (IF crlf THEN 1 ELSE 0) /\ EndOf(t, tl) /\ (p = 0 => t = tl)
  BY DEF NoCr, EndsCrLf
<1>1. /\ line \in Seq(Bytes) /\ n \in Nat /\ p \in 0..n - 1
      /\ \A k \in 1..n : line[k].is = "cr" => k + 1 = n
  BY DEF IsLine
<1>2. /\ p \in 0..n /\ text \in Seq(Bytes) /\ m = n - p
      /\ \A k \in 1..m : text[k] = line[p + k]
  <2>1. p \in 0..n
    BY <1>1
  <2>2. QED BY <1>1, <2>1, PastLine
<1>3. Past(line, 0) = line
  <2>1. 0 + 1 = 1
    OBVIOUS
  <2>2. QED BY <1>1, <2>1, SubSeqFull DEF Past
<1>4. CASE \A k \in 1..n : line[k].is # "cr"
  <2>1. tl = line
    BY <1>4, PlainText
  <2>2. ~crlf
    <3> HIDE DEF n, m, text
    <3>1. SUFFICES ASSUME m >= 2 PROVE text[m - 1].is # "cr"
      OBVIOUS
    <3>2. m - 1 \in 1..m /\ p + (m - 1) \in 1..n
      BY <1>1, <1>2, <3>1
    <3>3. QED BY <1>2, <1>4, <3>2
  <2>3. t = text
    BY <2>2
  <2>4. EndOf(t, tl)
    BY <1>2, <2>1, <2>3 DEF EndOf
  <2>5. p = 0 => t = tl
    BY <1>3, <2>1, <2>3
  <2>6. Len(t) = m - (IF crlf THEN 1 ELSE 0)
    <3>1. m \in Nat
      BY <1>2
    <3>2. QED BY <2>2, <2>3, <3>1
  <2>7. QED BY <1>2, <2>3, <2>4, <2>5, <2>6
<1>5. CASE \E c \in 1..n : line[c].is = "cr"
  <2>1. /\ n - 1 \in 1..n /\ n \in 1..n
        /\ line[n - 1].is = "cr" /\ line[n].is = "lf"
        /\ tl \in Seq(Bytes) /\ Len(tl) = n - 1
        /\ \A k \in 1..n - 2 : tl[k] = line[k]
        /\ tl[n - 1] = line[n]
    BY <1>5, BareText
  <2>2. CASE m >= 2
    <3>1. /\ m \in Nat /\ m - 2 \in Nat /\ m - 1 \in 1..m /\ m \in 1..m /\ p + m = n
          /\ p + (m - 1) = n - 1 /\ p \in 0..n - 1
      <4> HIDE DEF n, m, text
      <4>1. QED BY <1>1, <1>2, <2>2
    <3>2. crlf /\ Last(text) = line[n] /\ Last(text) \in Bytes
      <4>1. text[m - 1] = line[p + (m - 1)] /\ text[m] = line[p + m]
        BY <1>2, <3>1
      <4>2. text[m] \in Bytes
        BY <1>2, <3>1, ElementOfSeq
      <4>3. QED BY <2>1, <2>2, <3>1, <4>1, <4>2 DEF Last
    <3>3. /\ SubSeq(text, 1, m - 2) \in Seq(Bytes) /\ Len(SubSeq(text, 1, m - 2)) = m - 2
          /\ \A k \in 1..m - 2 : SubSeq(text, 1, m - 2)[k] = text[k]
      <4>1. /\ 0 \in 0..Len(text) /\ m - 2 \in 0..Len(text) /\ 0 + 1 = 1 /\ (m - 2) - 0 = m - 2
            /\ \A k \in 1..m - 2 : 0 + k = k
        BY <3>1
      <4>2. /\ SubSeq(text, 0 + 1, m - 2) \in Seq(Bytes)
            /\ Len(SubSeq(text, 0 + 1, m - 2)) = (m - 2) - 0
            /\ \A k \in 1..(m - 2) - 0 : SubSeq(text, 0 + 1, m - 2)[k] = text[0 + k]
        BY <1>2, <4>1, Part
      <4> HIDE DEF m, text
      <4>3. QED BY <4>1, <4>2
    <3> DEFINE a == SubSeq(text, 1, m - 2)
               z == Past(tl, p)
    <3>4. /\ short \in Seq(Bytes) /\ Len(short) = (m - 2) + 1
          /\ \A k \in 1..m - 2 : short[k] = a[k]
          /\ short[(m - 2) + 1] = Last(text)
      <4>1. short = Append(a, Last(text))
        OBVIOUS
      <4> HIDE DEF m, text, a, short
      <4>2. QED BY <3>2, <3>3, <4>1, AppendProperties DEF a
    <3>5. /\ p \in 0..Len(tl) /\ z \in Seq(Bytes) /\ Len(z) = (n - 1) - p
          /\ \A k \in 1..(n - 1) - p : z[k] = tl[p + k]
      <4>1. p \in 0..Len(tl)
        BY <2>1, <3>1
      <4>2. QED BY <2>1, <4>1, PastLine
    <3>6. short = z
      <4> HIDE DEF n, m, text, short, z, a, tl
      <4>1. Len(short) = Len(z)
        BY <3>1, <3>4, <3>5
      <4>2. \A k \in 1..Len(short) : short[k] = z[k]
        <5> TAKE k \in 1..Len(short)
        <5>1. k \in 1..(n - 1) - p /\ z[k] = tl[p + k]
          BY <4>1, <3>5
        <5>2. CASE k \in 1..m - 2
          <6>1. p + k \in 1..n - 2 /\ k \in 1..m
            BY <3>1, <5>2
          <6>2. QED BY <1>2, <2>1, <3>3, <3>4, <5>1, <5>2, <6>1 DEF a
        <5>3. CASE k \notin 1..m - 2
          <6>1. k = (m - 2) + 1 /\ p + k = n - 1
            <7>1. k \in 1..(m - 2) + 1
              BY <3>4
            <7>2. QED BY ONLY <7>1, <3>1, <5>3
          <6>2. QED BY <2>1, <3>2, <3>4, <5>1, <6>1
        <5>4. QED BY <5>2, <5>3
      <4>3. QED BY <3>4, <3>5, <4>1, <4>2, SeqEqual
    <3>7. t = z
      BY <3>2, <3>6
    <3>8. EndOf(t, tl)
      BY <3>5, <3>7 DEF EndOf
    <3>9. p = 0 => t = tl
      <4>1. 0 + 1 = 1
        OBVIOUS
      <4>2. QED BY <2>1, <3>7, <4>1, SubSeqFull DEF Past
    <3>10. t \in Seq(Bytes) /\ Len(t) = m - (IF crlf THEN 1 ELSE 0)
      <4>1. t = short /\ (m - 2) + 1 = m - 1
        BY <3>1, <3>2
      <4>2. QED BY <3>2, <3>4, <4>1
    <3>11. QED BY <3>8, <3>9, <3>10
  <2>3. CASE m < 2
    <3>1. m = 1 /\ p = n - 1 /\ p # 0 /\ n - 2 \in 0..n - 1 /\ 1 \in 1..m /\ p + 1 = n
          /\ (n - 1) - (n - 2) = 1 /\ 1 \in 1..(n - 1) - (n - 2) /\ (n - 2) + 1 = n - 1
      <4> HIDE DEF n, m, text, tl
      <4>1. n \in Nat /\ p \in 0..n - 1 /\ m = n - p /\ n - 1 \in 1..n /\ m < 2
        BY <1>1, <1>2, <2>1, <2>3
      <4>2. p = n - 1 /\ m = 1
        BY ONLY <4>1
      <4>3. QED BY ONLY <4>1, <4>2
    <3>2. ~crlf /\ t = text
      BY <2>3, <3>1
    <3> DEFINE z == Past(tl, n - 2)
    <3>3. /\ z \in Seq(Bytes) /\ Len(z) = (n - 1) - (n - 2)
          /\ \A k \in 1..(n - 1) - (n - 2) : z[k] = tl[(n - 2) + k]
      <4>1. n - 2 \in 0..Len(tl)
        BY <2>1, <3>1
      <4>2. QED BY <2>1, <4>1, PastLine
    <3>4. text = z
      <4> HIDE DEF n, m, text, z, tl
      <4>1. text[1] = line[n] /\ z[1] = line[n] /\ Len(z) = 1 /\ Len(text) = 1
        BY <1>2, <2>1, <3>1, <3>3 DEF m
      <4>2. \A k \in 1..Len(text) : text[k] = z[k]
        BY <4>1
      <4>3. QED BY <1>2, <3>3, <4>1, <4>2, SeqEqual
    <3>5. EndOf(t, tl)
      BY <2>1, <3>1, <3>2, <3>4 DEF EndOf
    <3>6. QED BY <1>2, <3>1, <3>2, <3>5
  <2>4. m \in Int
    BY <1>2
  <2>5. QED BY <2>2, <2>3, <2>4
<1>6. QED BY <1>4, <1>5

-----------------------------------------------------------------------------
(* What the calls have returned, one more. *)
Answers == [text : Seq(Bytes), retval : Nat \cup {-1}]

Added(g, h, text, value) ==
  /\ h \in Seq(Answers) /\ h # <<>> /\ Len(g) \in Nat /\ Len(h) = Len(g) + 1
  /\ DOMAIN g = 1..Len(g) /\ DOMAIN h = 1..Len(g) + 1
  /\ \A k \in 1..Len(g) : h[k] = g[k]
  /\ h[Len(g) + 1] = [text |-> text, retval |-> value]
  /\ Last(h) = [text |-> text, retval |-> value]

LEMMA Adding ==
  ASSUME NEW g \in Seq(Answers), NEW text \in Seq(Bytes), NEW value \in Nat \cup {-1}
  PROVE  Added(g, Append(g, [text |-> text, retval |-> value]), text, value)
<1> DEFINE e == [text |-> text, retval |-> value]
           h == Append(g, e)
<1>1. e \in Answers
  BY DEF Answers
<1> HIDE DEF e
<1>2. /\ h \in Seq(Answers) /\ h # <<>> /\ Len(h) = Len(g) + 1
      /\ \A k \in 1..Len(g) : h[k] = g[k]
      /\ h[Len(g) + 1] = e
  BY <1>1, AppendProperties
<1> HIDE DEF h
<1>3. Len(g) \in Nat /\ DOMAIN g = 1..Len(g) /\ DOMAIN h = 1..Len(g) + 1
  BY <1>2
<1>4. Last(h) = e
  BY <1>2 DEF Last
<1>5. Added(g, h, text, value)
  BY <1>2, <1>3, <1>4 DEF Added, e
<1>6. QED BY <1>5 DEF h, e

(* The two invariants of what was returned, of a sequence. *)
Tails(lines, g) ==
  \A k \in DOMAIN g :
    g[k].text # <<>> => \E i \in DOMAIN lines : EndOf(g[k].text, Text(lines[i]))

Whole(lines, g) ==
  \A k \in DOMAIN g :
    IF k <= Len(lines)
      THEN g[k] = [text |-> Text(lines[k]), retval |-> Len(Text(lines[k]))]
      ELSE g[k].retval = -1

LEMMA TailAdded ==
  ASSUME NEW lines, NEW g, NEW h, NEW text, NEW value, Added(g, h, text, value),
         Tails(lines, g),
         text # <<>> => \E i \in DOMAIN lines : EndOf(text, Text(lines[i]))
  PROVE  Tails(lines, h)
<1>1. SUFFICES ASSUME NEW k \in 1..Len(g) + 1, h[k].text # <<>>
               PROVE  \E i \in DOMAIN lines : EndOf(h[k].text, Text(lines[i]))
  BY DEF Added, Tails
<1>2. CASE k = Len(g) + 1
  <2>1. h[k].text = text
    BY <1>2 DEF Added
  <2>2. QED BY <1>1, <2>1
<1>3. CASE k # Len(g) + 1
  <2>1. k \in 1..Len(g) /\ k \in DOMAIN g /\ h[k] = g[k]
    BY <1>3 DEF Added
  <2>2. QED BY <1>1, <2>1 DEF Tails
<1>4. QED BY <1>2, <1>3

LEMMA WholeAdded ==
  ASSUME NEW lines, NEW g, NEW h, NEW text, NEW value, Added(g, h, text, value),
         Whole(lines, g),
         IF Len(g) + 1 <= Len(lines)
           THEN text = Text(lines[Len(g) + 1]) /\ value = Len(Text(lines[Len(g) + 1]))
           ELSE value = -1
  PROVE  Whole(lines, h)
<1>1. SUFFICES ASSUME NEW k \in 1..Len(g) + 1
               PROVE  IF k <= Len(lines)
                        THEN h[k] = [text |-> Text(lines[k]), retval |-> Len(Text(lines[k]))]
                        ELSE h[k].retval = -1
  BY DEF Added, Whole
<1>2. CASE k = Len(g) + 1
  <2>1. h[k] = [text |-> text, retval |-> value]
    BY <1>2 DEF Added
  <2>2. QED BY <1>2, <2>1
<1>3. CASE k # Len(g) + 1
  <2>1. k \in 1..Len(g) /\ k \in DOMAIN g /\ h[k] = g[k]
    BY <1>3 DEF Added
  <2>2. QED BY <2>1 DEF Whole
<1>4. QED BY <1>2, <1>3

(* Position, of a stream, what is left of it and the number of answers. *)
At(left, lines, fit, n, ended) ==
  \/ \E i, p : /\ Place(lines, i, p) /\ left = Rest(lines, i, p)
               /\ fit => p = 0 /\ n = i - 1
  \/ left = <<>> /\ (fit => n = Len(lines) \/ ended)

Ended == pc = "idle" /\ got # <<>> /\ Last(got).retval = -1

LEMMA PositionIs ==
  IsStream(sent) => (Position <=> At(Left, sent, Fit, Len(got), Ended))
<1> SUFFICES ASSUME IsStream(sent)
             PROVE  Position <=> At(Left, sent, Fit, Len(got), Ended)
  OBVIOUS
<1>1. (\E i \in 1..Len(sent) : \E p \in 0..Len(sent[i]) - 1 :
         Left = Rest(sent, i, p) /\ (Fit => p = 0 /\ Len(got) = i - 1))
      <=> \E i, p : /\ Place(sent, i, p) /\ Left = Rest(sent, i, p)
                    /\ Fit => p = 0 /\ Len(got) = i - 1
  BY DEF Place
<1>2. QED BY <1>1 DEF Position, At, Ended

(* At the beginning of a line or at the end of the stream. *)
LEMMA AtNextLine ==
  ASSUME NEW lines, IsStream(lines), NEW i \in 0..Len(lines), NEW fit, NEW n, NEW ended,
         fit => n = i
  PROVE  At(Behind(lines)[i], lines, fit, n, ended)
<1>1. CASE i = Len(lines)
  BY <1>1, BehindLine DEF At
<1>2. CASE i # Len(lines)
  <2>1. Place(lines, i + 1, 0) /\ Behind(lines)[i] = Rest(lines, i + 1, 0)
    BY <1>2, BehindLine DEF Place
  <2>2. (i + 1) - 1 = i
    OBVIOUS
  <2>3. QED BY <2>1, <2>2 DEF At
<1>3. QED BY <1>1, <1>2

(* A line that fits. *)
LEMMA FittingLine ==
  ASSUME IsStream(sent), Fit, NEW i \in 1..Len(sent)
  PROVE  /\ Len(sent[i]) < MaxLine - (IF sent[i][Len(sent[i])].is = "lf" THEN 0 ELSE 1)
         /\ ~Bare(sent[i])
<1>1. sent[i] \in Range(sent)
  BY DEF IsStream, Range
<1>2. QED BY <1>1 DEF Fit, Last

(* What Copy takes from the connection's buffer. *)
LEMMA CopyRoom ==
  ASSUME TypeOK, cbuf # <<>>, max > 0
  PROVE  /\ Room \in 0..Len(cbuf) /\ Room <= max
         /\ Stops = {j \in 1..Room : cbuf[j].is = "lf"}
         /\ Copied \in 0..Room
         /\ Stops = {} => Copied = Room
         /\ Stops # {} => /\ Copied \in Stops /\ Copied > 0
                          /\ \A j \in 1..Copied - 1 : cbuf[j].is # "lf"
         /\ Room = Len(cbuf) \/ max - Room = 1
<1>1. cbuf \in Seq(Bytes) /\ Len(cbuf) \in Nat /\ max \in Nat /\ max > 0
  BY DEF TypeOK
<1>2. Room \in 0..Len(cbuf) /\ Room <= max /\ (Room = Len(cbuf) \/ max - Room = 1)
  BY <1>1 DEF Room
<1>3. Stops = {j \in 1..Room : cbuf[j].is = "lf"}
  <2> DEFINE s == SubSeq(cbuf, 1, Room)
  <2>1. s \in Seq(Bytes) /\ Len(s) = Room /\ \A j \in 1..Room : s[j] = cbuf[j]
    <3>1. /\ 0 \in 0..Len(cbuf) /\ Room \in 0..Len(cbuf) /\ 0 + 1 = 1 /\ Room - 0 = Room
          /\ \A j \in 1..Room : 0 + j = j
      BY <1>1, <1>2
    <3>2. /\ SubSeq(cbuf, 0 + 1, Room) \in Seq(Bytes)
          /\ Len(SubSeq(cbuf, 0 + 1, Room)) = Room - 0
          /\ \A j \in 1..Room - 0 : SubSeq(cbuf, 0 + 1, Room)[j] = cbuf[0 + j]
      BY <1>1, <3>1, Part
    <3>3. QED BY <3>1, <3>2
  <2> HIDE DEF s
  <2>2. DOMAIN s = 1..Room
    BY <2>1
  <2>3. Stops = {j \in DOMAIN s : s[j].is = "lf"}
    BY DEF Stops, LF, s
  <2>4. QED BY <2>1, <2>2, <2>3
<1>4. Stops = {} => Copied = Room
  BY DEF Copied
<1>5. ASSUME Stops # {}
      PROVE  /\ Copied \in Stops /\ Copied \in 1..Room
             /\ \A j \in 1..Copied - 1 : cbuf[j].is # "lf"
  <2>1. Stops \in SUBSET Nat
    BY <1>2, <1>3
  <2>2. \E j \in Stops : \A k \in Stops : j <= k
    BY <1>5, <2>1, SmallestNumber
  <2>3. Copied \in Stops /\ \A k \in Stops : Copied <= k
    BY <1>5, <2>2 DEF Copied, Min
  <2>4. Copied \in 1..Room
    BY <1>3, <2>3
  <2>5. ASSUME NEW j \in 1..Copied - 1 PROVE cbuf[j].is # "lf"
    <3>1. j \in 1..Room /\ ~(Copied <= j)
      BY <1>2, <2>4
    <3>2. QED BY <1>3, <2>3, <3>1
  <2>6. QED BY <2>3, <2>4, <2>5
<1>6. Copied \in 0..Room
  BY <1>2, <1>4, <1>5
<1>7. QED BY <1>2, <1>3, <1>4, <1>5, <1>6

(* What lies before the rest of the buffer then. *)
CopyFacts(text, c) ==
  /\ text \in Seq(Bytes) /\ c \in Seq(Bytes) /\ c \o net \in Seq(Bytes)
  /\ Len(text) = Len(buf) + Copied /\ Len(text) \in Nat /\ Len(buf) \in Nat
  /\ text \o (c \o net) = buf \o (cbuf \o net)
  /\ buf \o (cbuf \o net) # <<>>
  /\ LF(buf) = {} /\ Stops = {} => LF(text) = {}
  /\ LF(buf) = {} /\ Stops # {} => Unbroken(text)
  /\ Stops # {} => Len(text) > 0 /\ text[Len(text)].is = "lf"
  /\ Copied = Len(cbuf) => c = <<>>

LEMMA CopyText ==
  ASSUME TypeOK, cbuf # <<>>, max > 0
  PROVE  CopyFacts(buf \o SubSeq(cbuf, 1, Copied), Past(cbuf, Copied))
<1> DEFINE n == Copied
           piece == SubSeq(cbuf, 1, n)
           c == Past(cbuf, n)
           text == buf \o piece
           k == Len(buf)
<1>1. /\ cbuf \in Seq(Bytes) /\ net \in Seq(Bytes) /\ buf \in Seq(Bytes)
      /\ k \in Nat /\ Len(cbuf) \in Nat
  BY DEF TypeOK
<1>2. /\ n \in 0..Room /\ Room \in 0..Len(cbuf)
      /\ Stops = {j \in 1..Room : cbuf[j].is = "lf"}
      /\ Stops = {} => n = Room
      /\ Stops # {} => n \in Stops /\ n > 0 /\ \A j \in 1..n - 1 : cbuf[j].is # "lf"
  BY CopyRoom
<1>3. n \in 0..Len(cbuf) /\ n \in Nat
  BY <1>1, <1>2
<1>4. piece \in Seq(Bytes) /\ Len(piece) = n /\ \A j \in 1..n : piece[j] = cbuf[j]
  <2>1. /\ 0 \in 0..Len(cbuf) /\ n \in 0..Len(cbuf) /\ 0 + 1 = 1 /\ n - 0 = n
        /\ \A j \in 1..n : 0 + j = j
    BY <1>1, <1>3
  <2>2. /\ SubSeq(cbuf, 0 + 1, n) \in Seq(Bytes)
        /\ Len(SubSeq(cbuf, 0 + 1, n)) = n - 0
        /\ \A j \in 1..n - 0 : SubSeq(cbuf, 0 + 1, n)[j] = cbuf[0 + j]
    BY <1>1, <2>1, Part
  <2>3. QED BY <2>1, <2>2
<1>5. c \in Seq(Bytes) /\ piece \o c = cbuf
  <2>1. c \in Seq(Bytes)
    BY <1>1, <1>3, PastLine
  <2>2. piece \o c = cbuf
    BY <1>1, <1>3, Parted DEF Past
  <2>3. QED BY <2>1, <2>2
<1>6. n = Len(cbuf) => c = <<>>
  BY <1>1, <1>3, PastLine
<1> HIDE DEF n, piece, c, k
<1>7. /\ text \in Seq(Bytes) /\ Len(text) = k + n
      /\ \A j \in 1..k : text[j] = buf[j]
      /\ \A j \in 1..n : text[k + j] = piece[j]
  <2>1. /\ text \in Seq(Bytes) /\ Len(text) = Len(buf) + Len(piece)
        /\ \A j \in 1..Len(buf) : text[j] = buf[j]
        /\ \A j \in 1..Len(piece) : text[Len(buf) + j] = piece[j]
    <3>1. buf \in Seq(Bytes) /\ piece \in Seq(Bytes)
      BY <1>1, <1>4
    <3>2. QED BY ONLY <3>1, Joined
  <2> HIDE DEF text
  <2>2. Len(buf) = k /\ Len(piece) = n
    BY <1>4 DEF k
  <2>3. QED BY ONLY <2>1, <2>2, Zenon
<1>8. c \o net \in Seq(Bytes) /\ text \o (c \o net) = buf \o (cbuf \o net)
  <2>1. c \o net \in Seq(Bytes)
    BY <1>1, <1>5, ConcatProperties
  <2>2. text \o (c \o net) = buf \o (piece \o (c \o net))
    <3>1. buf \in Seq(Bytes) /\ piece \in Seq(Bytes) /\ c \o net \in Seq(Bytes)
      BY <1>1, <1>4, <2>1
    <3> DEFINE z == c \o net
    <3> HIDE DEF z
    <3>2. (buf \o piece) \o z = buf \o (piece \o z)
      BY ONLY <3>1, ConcatAssociative DEF z
    <3>3. QED BY <3>2 DEF z
  <2>3. piece \o (c \o net) = (piece \o c) \o net
    <3>1. piece \in Seq(Bytes) /\ c \in Seq(Bytes) /\ net \in Seq(Bytes)
      BY <1>1, <1>4, <1>5
    <3>2. QED BY ONLY <3>1, ConcatAssociative
  <2>4. QED BY <1>5, <2>1, <2>2, <2>3
<1>9. buf \o (cbuf \o net) # <<>>
  <2>1. cbuf \o net \in Seq(Bytes) /\ cbuf \o net # <<>>
    BY <1>1, ConcatProperties, ConcatEqualIffEmpty
  <2>2. QED BY <1>1, <2>1, ConcatEqualIffEmpty
<1> HIDE DEF text
<1>10. ASSUME LF(buf) = {} PROVE \A j \in 1..k : text[j].is # "lf"
  <2>1. DOMAIN buf = 1..k
    BY <1>1 DEF k
  <2>2. QED BY <1>7, <1>10, <2>1 DEF LF
<1>11. ASSUME LF(buf) = {}, Stops = {} PROVE LF(text) = {}
  <2>1. n = Room
    BY <1>2, <1>11
  <2>2. SUFFICES ASSUME NEW j \in 1..k + n PROVE text[j].is # "lf"
    <3>1. DOMAIN text = 1..k + n
      BY <1>7
    <3>2. QED BY <3>1 DEF LF
  <2>3. CASE j \in 1..k
    BY <1>10, <1>11, <2>3
  <2>4. CASE j \notin 1..k
    <3>1. j - k \in 1..n /\ k + (j - k) = j
      BY <1>1, <1>3, <2>2, <2>4
    <3>2. text[j] = cbuf[j - k] /\ j - k \in 1..Room
      BY <1>4, <1>7, <2>1, <3>1
    <3>3. QED BY <1>2, <1>11, <3>2
  <2>5. QED BY <2>3, <2>4
<1>12. ASSUME Stops # {} PROVE Len(text) > 0 /\ text[Len(text)].is = "lf"
  <2>1. n \in Stops /\ n \in 1..n /\ k + n > 0
    BY <1>1, <1>2, <1>3, <1>12
  <2>2. text[k + n] = cbuf[n] /\ cbuf[n].is = "lf"
    BY <1>2, <1>4, <1>7, <2>1
  <2>3. QED BY <1>7, <2>1, <2>2
<1>13. ASSUME LF(buf) = {}, Stops # {} PROVE Unbroken(text)
  <2>1. SUFFICES ASSUME NEW j \in 1..k + n - 1 PROVE text[j].is # "lf"
    <3>1. Len(text) - 1 = k + n - 1
      BY <1>1, <1>3, <1>7
    <3>2. QED BY <3>1 DEF Unbroken
  <2>2. CASE j \in 1..k
    BY <1>10, <1>13, <2>2
  <2>3. CASE j \notin 1..k
    <3>1. j - k \in 1..n /\ k + (j - k) = j /\ j - k \in 1..n - 1
      BY <1>1, <1>3, <2>1, <2>3
    <3>2. text[j] = cbuf[j - k]
      BY <1>4, <1>7, <3>1
    <3>3. QED BY <1>2, <1>13, <3>1, <3>2
  <2>4. QED BY <2>2, <2>3
<1>14. Len(text) \in Nat /\ Len(text) = Len(buf) + Copied /\ Len(buf) \in Nat
  BY <1>1, <1>3, <1>7 DEF k, n
<1>15. CopyFacts(text, c)
  BY <1>5, <1>6, <1>7, <1>8, <1>9, <1>11, <1>12, <1>13, <1>14 DEF CopyFacts, n
<1>16. QED BY <1>15 DEF text, c, piece, n

LEMMA NoCrType ==
  ASSUME NEW text \in Seq(Bytes)
  PROVE  NoCr(text) \in Seq(Bytes)
<1>1. CASE EndsCrLf(text)
  <2> DEFINE m == Len(text)
  <2>1. m \in Nat /\ m >= 2 /\ m - 2 \in 0..m /\ m \in 1..m /\ 0 \in 0..m /\ 0 + 1 = 1
    BY <1>1 DEF EndsCrLf
  <2>2. SubSeq(text, 0 + 1, m - 2) \in Seq(Bytes)
    <3>1. m - 2 \in 0..Len(text)
      BY <2>1
    <3>2. QED BY <2>1, <3>1, Part
  <2>3. text[m] \in Bytes
    BY <2>1, ElementOfSeq
  <2> DEFINE a == SubSeq(text, 1, m - 2)
  <2>4. a \in Seq(Bytes) /\ Last(text) \in Bytes
    BY <2>1, <2>2, <2>3 DEF Last
  <2>5. NoCr(text) = Append(a, Last(text))
    BY <1>1 DEF NoCr
  <2> HIDE DEF a
  <2>6. QED BY <2>4, <2>5, AppendProperties
<1>2. CASE ~EndsCrLf(text)
  BY <1>2 DEF NoCr
<1>3. QED BY <1>1, <1>2

-----------------------------------------------------------------------------
Inv == InPieces /\ LinesArrive

(* The invariants of what was returned, of the variables. *)
LEMMA Promises ==
  /\ NoBeginnings <=> (~outside /\ env = {} => Tails(sent, got))
  /\ LinesArrive <=> (Fit => ~outside /\ (env = {} => Whole(sent, got)))
<1>1. QED BY DEF NoBeginnings, LinesArrive, Tails, Whole

(* In the middle of a call the invariant places what the call has copied and *)
(* the bytes behind it.                                                    *)
LEMMA Here ==
  ASSUME Inv, pc \in {"copy", "check", "read"}, ~outside,
         NEW text \in Seq(Bytes), NEW rest \in Seq(Bytes),
         text \o rest = buf \o (cbuf \o net), buf \o (cbuf \o net) # <<>>
  PROVE  \E i, p : Split(sent, i, p, text, rest) /\ (Fit => p = 0 /\ Len(got) = i - 1)
<1>1. pc # "idle" /\ alive /\ Position /\ IsStream(sent)
  BY DEF Inv, InPieces, TypeOK
<1>2. Left = text \o rest /\ Left # <<>>
  BY <1>1 DEF Left
<1>3. At(Left, sent, Fit, Len(got), Ended)
  BY <1>1, PositionIs
<1>4. PICK i, p : /\ Place(sent, i, p) /\ Left = Rest(sent, i, p)
                  /\ Fit => p = 0 /\ Len(got) = i - 1
  BY <1>2, <1>3 DEF At
<1>5. Split(sent, i, p, text, rest)
  BY <1>2, <1>4 DEF Split
<1>6. QED BY <1>4, <1>5

LEMMA Returning ==
  ASSUME TypeOK, NEW text \in Seq(Bytes), NEW value \in Nat \cup {-1}, Return(text, value)
  PROVE  /\ Added(got, got', text, value)
         /\ pc' = "idle" /\ buf' = text /\ retval' = value
         /\ got' \in Seq(Answers)
<1>1. got \in Seq(Answers)
  BY DEF TypeOK, Answers
<1>2. QED BY <1>1, Adding DEF Return, Added

LEMMA InitInv ==
  ASSUME TypeOK, Init
  PROVE  Inv
<1>1. IsStream(sent) /\ net = Behind(sent)[0] /\ net \in Seq(Bytes)
  BY DEF Init, TypeOK
<1>2. cbuf \o net = net
  BY <1>1, ConcatEmptySeq DEF Init
<1>3. Left = Behind(sent)[0]
  BY <1>1, <1>2, ConcatEmptySeq DEF Left, Init
<1>4. Len(got) = 0 /\ 0 \in 0..Len(sent) /\ DOMAIN got = {}
  BY <1>1 DEF Init, IsStream
<1>5. At(Left, sent, Fit, Len(got), Ended)
  BY <1>1, <1>3, <1>4, AtNextLine
<1>6. Position
  BY <1>1, <1>5, PositionIs
<1>7. NoBeginnings /\ LinesArrive
  BY <1>4 DEF NoBeginnings, LinesArrive, Init
<1>8. Buffers
  BY DEF Buffers, Init
<1>9. QED BY <1>6, <1>7, <1>8 DEF Inv, InPieces, Init

LEMMA CallInv ==
  ASSUME Inv, Call
  PROVE  Inv'
<1>1. /\ pc = "idle" /\ alive /\ (got # <<>> => Last(got).retval >= 0)
      /\ pc' = "copy" /\ buf' = <<>> /\ max' = MaxLine /\ eof' = FALSE /\ retval' = 0
      /\ sent' = sent /\ net' = net /\ cbuf' = cbuf /\ cleft' = cleft /\ alive' = alive
      /\ got' = got /\ outside' = outside /\ env' = env
  BY DEF Call, peer, ctl
<1>2. TypeOK /\ MaxLine \in Nat /\ MaxLine > 1
  BY BufferAssumption DEF Inv, InPieces
<1>3. TypeOK'
  <2>1. IsStream(sent') /\ buf' \in Seq(Bytes) /\ max' \in Nat /\ retval' \in Nat
    BY <1>1, <1>2 DEF TypeOK
  <2>2. /\ net' \in Seq(Bytes) /\ cbuf' \in Seq(Bytes) /\ cleft' \in Nat
        /\ got' \in Seq([text : Seq(Bytes), retval : Nat \cup {-1}])
    BY <1>1, <1>2 DEF TypeOK
  <2>3. pc' \in {"idle", "copy", "check", "read", "wild"}
        /\ eof' \in BOOLEAN /\ alive' \in BOOLEAN /\ outside' \in BOOLEAN
    BY <1>1, <1>2 DEF TypeOK
  <2>4. QED BY <2>1, <2>2, <2>3 DEF TypeOK
<1>4. (Fit <=> Fit') /\ (NoBeginnings <=> NoBeginnings') /\ (LinesArrive <=> LinesArrive')
  BY <1>1 DEF Fit, NoBeginnings, LinesArrive
<1>5. ASSUME alive', ~outside' PROVE Buffers' /\ Position'
  <2>1. Buffers'
    <3>1. LF(<<>>) = {} /\ Len(<<>>) = 0
      BY DEF LF
    <3>2. QED BY <1>1, <1>2, <3>1 DEF Buffers
  <2>2. Position /\ IsStream(sent)
    BY <1>1, <1>5 DEF Inv, InPieces, TypeOK
  <2>3. At(Left, sent, Fit, Len(got), Ended)
    BY <2>2, PositionIs
  <2>4. ~Ended /\ ~Ended' /\ Left' = Left
    BY <1>1 DEF Ended, Left
  <2>5. At(Left, sent, Fit, Len(got), Ended)'
    BY <1>1, <1>4, <2>3, <2>4 DEF At, Place
  <2>6. (IsStream(sent) => (Position <=> At(Left, sent, Fit, Len(got), Ended)))'
    BY PositionIs, PTL
  <2>7. IsStream(sent)'
    BY <1>3 DEF TypeOK
  <2>8. QED BY <2>1, <2>5, <2>6, <2>7
<1>6. QED BY <1>1, <1>3, <1>4, <1>5 DEF Inv, InPieces

(* No end of a line yet: what is copied joins what was. *)
LEMMA CopyOnInv ==
  ASSUME Inv, Copy, Stops = {}
  PROVE  Inv'
<1> DEFINE text == buf \o SubSeq(cbuf, 1, Copied)
           c == Past(cbuf, Copied)
           n == Copied
<1>1. /\ pc = "copy" /\ cbuf # <<>> /\ max > 0
      /\ cbuf' = c /\ max' = max - n /\ pc' = "check" /\ buf' = text /\ retval' = retval + n
      /\ outside' = (outside \/ Len(text) >= MaxLine) /\ got' = got
      /\ sent' = sent /\ net' = net /\ cleft' = cleft /\ alive' = alive /\ eof' = eof
      /\ env' = env
  BY DEF Copy, peer
<1>2. TypeOK /\ alive /\ MaxLine \in Nat /\ MaxLine > 1 /\ IsStream(sent)
  BY <1>1, BufferAssumption DEF Inv, InPieces, TypeOK
<1>3. CopyFacts(text, c)
  BY <1>1, <1>2, CopyText
<1>4. n \in 0..Room /\ Room <= max /\ n = Room /\ Room \in Nat /\ max \in Nat /\ retval \in Nat
      /\ (Room = Len(cbuf) \/ max - Room = 1)
  BY <1>1, <1>2, CopyRoom DEF TypeOK
<1> HIDE DEF text, c, n
<1>5. TypeOK'
  <2>1. IsStream(sent') /\ buf' \in Seq(Bytes) /\ max' \in Nat /\ retval' \in Nat
    BY <1>1, <1>2, <1>3, <1>4 DEF TypeOK, CopyFacts
  <2>2. /\ net' \in Seq(Bytes) /\ cbuf' \in Seq(Bytes) /\ cleft' \in Nat
        /\ got' \in Seq([text : Seq(Bytes), retval : Nat \cup {-1}])
    BY <1>1, <1>2, <1>3 DEF TypeOK, CopyFacts
  <2>3. /\ pc' \in {"idle", "copy", "check", "read", "wild"}
        /\ eof' \in BOOLEAN /\ alive' \in BOOLEAN /\ outside' \in BOOLEAN
    BY <1>1, <1>2 DEF TypeOK
  <2>4. QED BY <2>1, <2>2, <2>3 DEF TypeOK
<1>6. (Fit <=> Fit') /\ (NoBeginnings => NoBeginnings')
  BY <1>1 DEF Fit, NoBeginnings
<1>7. ASSUME ~outside PROVE Buffers /\ Position /\ LF(text) = {}
  <2>1. Buffers /\ Position
    BY <1>2, <1>7 DEF Inv, InPieces
  <2>2. LF(buf) = {}
    BY <1>1, <2>1 DEF Buffers
  <2>3. QED BY <1>3, <2>1, <2>2 DEF CopyFacts
<1>8. ASSUME ~outside' PROVE Buffers'
  <2>1. ~outside /\ ~(Len(text) >= MaxLine)
    BY <1>1, <1>8
  <2>2. /\ LF(buf) = {} /\ max = MaxLine - Len(buf) /\ retval = Len(buf)
        /\ LF(text) = {} /\ ~eof
    BY <1>1, <1>7, <2>1 DEF Buffers
  <2>3. Len(text) = Len(buf) + n /\ Len(text) \in Nat /\ Len(buf) \in Nat
    BY <1>3 DEF CopyFacts, n
  <2>4. Len(text) < MaxLine /\ max - n = MaxLine - Len(text) /\ retval + n = Len(text)
    BY <1>2, <1>4, <2>1, <2>2, <2>3
  <2>5. c = <<>> \/ max - n = 1
    BY <1>3, <1>4 DEF CopyFacts, n
  <2>6. QED BY <1>1, <2>2, <2>4, <2>5 DEF Buffers
<1>9. ASSUME ~outside' PROVE Position'
  <2>1. Position
    BY <1>1, <1>7, <1>9
  <2>2. At(Left, sent, Fit, Len(got), Ended)
    BY <1>2, <2>1, PositionIs
  <2>3. Left' = Left /\ ~Ended /\ ~Ended'
    <3>1. Left = buf \o (cbuf \o net) /\ Left' = text \o (c \o net)
      BY <1>1 DEF Left
    <3>2. QED BY <1>1, <1>3, <3>1 DEF Ended, CopyFacts
  <2>4. At(Left, sent, Fit, Len(got), Ended)'
    BY <1>1, <1>6, <2>2, <2>3 DEF At, Place
  <2>5. (IsStream(sent) => (Position <=> At(Left, sent, Fit, Len(got), Ended)))'
    BY PositionIs, PTL
  <2>6. IsStream(sent)'
    BY <1>5 DEF TypeOK
  <2>7. QED BY <2>4, <2>5, <2>6
<1>10. LinesArrive'
  <2>1. SUFFICES ASSUME Fit PROVE ~outside' /\ (env = {} => Whole(sent, got))
    BY <1>1, <1>6 DEF LinesArrive, Whole
  <2>2. ~outside /\ (env = {} => Whole(sent, got))
    BY <2>1, Promises DEF Inv
  <2>3. Len(text) < MaxLine
    <3>1. /\ text \in Seq(Bytes) /\ c \o net \in Seq(Bytes)
          /\ text \o (c \o net) = buf \o (cbuf \o net) /\ buf \o (cbuf \o net) # <<>>
      BY <1>3 DEF CopyFacts
    <3>2. PICK i, p : Split(sent, i, p, text, c \o net) /\ p = 0 /\ Len(got) = i - 1
      BY <1>1, <2>1, <2>2, <3>1, Here
    <3>3. i \in 1..Len(sent) /\ Len(sent[i]) \in Nat
      BY <3>2 DEF Split, Place, IsStream
    <3>4. Len(sent[i]) < MaxLine - (IF sent[i][Len(sent[i])].is = "lf" THEN 0 ELSE 1)
      BY <1>2, <2>1, <3>3, FittingLine
    <3>5. \/ Len(text) < Len(sent[i]) - p
          \/ Len(text) = Len(sent[i]) - p /\ sent[i][Len(sent[i])].is # "lf"
      BY <1>7, <2>2, <3>2, Unended
    <3>6. Len(text) \in Nat
      BY <1>3 DEF CopyFacts
    <3>7. QED BY <1>2, <3>2, <3>3, <3>4, <3>5, <3>6
  <2>4. ~(Len(text) >= MaxLine)
    <3>1. Len(text) \in Nat
      BY <1>3 DEF CopyFacts
    <3>2. QED BY <1>2, <2>3, <3>1
  <2>5. QED BY <1>1, <2>2, <2>4
<1>11. QED BY <1>1, <1>2, <1>5, <1>6, <1>8, <1>9, <1>10 DEF Inv, InPieces

(* The end of a line: what is returned was the rest of one. *)
LEMMA LineFound ==
  ASSUME Inv, pc = "copy", cbuf # <<>>, max > 0, Stops # {}, ~outside
  PROVE  LET text == buf \o SubSeq(cbuf, 1, Copied)
             rest == Past(cbuf, Copied) \o net
         IN  \E i, p : /\ Split(sent, i, p, text, rest) /\ (Fit => p = 0 /\ Len(got) = i - 1)
                       /\ text = Past(sent[i], p) /\ rest = Behind(sent)[i]
                       /\ Len(text) = Len(sent[i]) - p
                       /\ sent[i][Len(sent[i])].is = "lf"
<1> DEFINE text == buf \o SubSeq(cbuf, 1, Copied)
           c == Past(cbuf, Copied)
           rest == c \o net
<1>1. CopyFacts(text, c)
  BY CopyText DEF Inv, InPieces
<1> HIDE DEF text, c
<1>2. LF(buf) = {}
  <2>1. Buffers
    BY DEF Inv, InPieces
  <2>2. QED BY <2>1 DEF Buffers
<1>3. Unbroken(text) /\ Len(text) > 0 /\ text[Len(text)].is = "lf"
  BY <1>1, <1>2 DEF CopyFacts
<1>4. /\ text \in Seq(Bytes) /\ rest \in Seq(Bytes)
      /\ text \o rest = buf \o (cbuf \o net) /\ buf \o (cbuf \o net) # <<>>
  BY <1>1 DEF CopyFacts
<1> HIDE DEF rest
<1>5. PICK i, p : Split(sent, i, p, text, rest) /\ (Fit => p = 0 /\ Len(got) = i - 1)
  BY <1>4, Here
<1>6. /\ text = Past(sent[i], p) /\ rest = Behind(sent)[i]
      /\ Len(text) = Len(sent[i]) - p /\ sent[i][Len(sent[i])].is = "lf"
  BY <1>3, <1>5, WholeRest
<1>7. QED BY <1>5, <1>6 DEF rest, text, c

LEMMA CopyReturnInv ==
  ASSUME Inv, Copy, Stops # {},
         LET text == buf \o SubSeq(cbuf, 1, Copied)
         IN  /\ Return(NoCr(text), retval + Copied - (IF EndsCrLf(text) THEN 1 ELSE 0))
             /\ outside' = (outside \/ Len(text) >= MaxLine)
  PROVE  Inv'
<1> DEFINE text == buf \o SubSeq(cbuf, 1, Copied)
           c == Past(cbuf, Copied)
           n == Copied
           d == IF EndsCrLf(text) THEN 1 ELSE 0
           value == retval + n - d
           rest == c \o net
<1>1. /\ pc = "copy" /\ cbuf # <<>> /\ max > 0
      /\ cbuf' = c /\ max' = max - n
      /\ Return(NoCr(text), value)
      /\ outside' = (outside \/ Len(text) >= MaxLine)
      /\ sent' = sent /\ net' = net /\ cleft' = cleft /\ alive' = alive /\ eof' = eof
      /\ env' = env
  BY DEF Copy, peer
<1>2. TypeOK /\ alive /\ MaxLine \in Nat /\ MaxLine > 1 /\ IsStream(sent)
  BY <1>1, BufferAssumption DEF Inv, InPieces, TypeOK
<1>3. CopyFacts(text, c)
  BY <1>1, <1>2, CopyText
<1>4. n \in 0..Room /\ n > 0 /\ Room <= max /\ Room \in Nat /\ max \in Nat /\ retval \in Nat
  BY <1>1, <1>2, CopyRoom DEF TypeOK
<1>5. d \in {0, 1}
  OBVIOUS
<1>6. ~outside =>
        \E i, p : /\ Split(sent, i, p, text, rest) /\ (Fit => p = 0 /\ Len(got) = i - 1)
                  /\ text = Past(sent[i], p) /\ rest = Behind(sent)[i]
                  /\ Len(text) = Len(sent[i]) - p
                  /\ sent[i][Len(sent[i])].is = "lf"
  BY <1>1, LineFound
<1>7. NoCr(text) \in Seq(Bytes)
  BY <1>3, NoCrType DEF CopyFacts
<1>8. d = IF EndsCrLf(text) THEN 1 ELSE 0
  OBVIOUS
<1>9. Len(text) = Len(buf) + n /\ Len(text) \in Nat /\ Len(buf) \in Nat
  BY <1>3 DEF CopyFacts
<1>10. value = retval + n - d
  OBVIOUS
<1> HIDE DEF text, c, n, d, value
<1>11. value \in Nat
  BY <1>4, <1>5, <1>10
<1>12. /\ Added(got, got', NoCr(text), value)
       /\ pc' = "idle" /\ buf' = NoCr(text) /\ retval' = value /\ got' \in Seq(Answers)
  BY <1>1, <1>2, <1>7, <1>11, Returning
<1>13. TypeOK'
  <2>1. IsStream(sent') /\ buf' \in Seq(Bytes) /\ max' \in Nat /\ retval' \in Nat
    BY <1>1, <1>2, <1>4, <1>7, <1>11, <1>12
  <2>2. /\ net' \in Seq(Bytes) /\ cbuf' \in Seq(Bytes) /\ cleft' \in Nat
        /\ got' \in Seq([text : Seq(Bytes), retval : Nat \cup {-1}])
    BY <1>1, <1>2, <1>3, <1>12 DEF TypeOK, CopyFacts, Answers
  <2>3. /\ pc' \in {"idle", "copy", "check", "read", "wild"}
        /\ eof' \in BOOLEAN /\ alive' \in BOOLEAN /\ outside' \in BOOLEAN
    BY <1>1, <1>2, <1>12 DEF TypeOK
  <2>4. QED BY <2>1, <2>2, <2>3 DEF TypeOK
<1>14. (Fit <=> Fit')
  BY <1>1 DEF Fit
<1>15. ASSUME ~outside' PROVE Buffers'
  BY <1>12 DEF Buffers
<1>16. ASSUME NEW i, NEW p, Split(sent, i, p, text, rest), text = Past(sent[i], p),
              sent[i][Len(sent[i])].is = "lf"
       PROVE  /\ i \in 1..Len(sent) /\ Len(sent[i]) \in Nat /\ Len(sent) \in Nat
              /\ i \in DOMAIN sent
              /\ Len(NoCr(text)) = Len(text) - d
              /\ EndOf(NoCr(text), Text(sent[i]))
              /\ p = 0 => NoCr(text) = Text(sent[i])
  <2>1. /\ i \in 1..Len(sent) /\ Len(sent[i]) \in Nat /\ Len(sent) \in Nat
        /\ i \in DOMAIN sent /\ IsLine(sent[i]) /\ p \in 0..Len(sent[i]) - 1
    BY <1>16 DEF Split, Place, IsStream
  <2>2. /\ Len(NoCr(Past(sent[i], p))) = Len(Past(sent[i], p))
             - (IF EndsCrLf(Past(sent[i], p)) THEN 1 ELSE 0)
        /\ EndOf(NoCr(Past(sent[i], p)), Text(sent[i]))
        /\ p = 0 => NoCr(Past(sent[i], p)) = Text(sent[i])
    BY <1>16, <2>1, ReturnedText
  <2>3. QED BY <1>8, <1>16, <2>1, <2>2
<1>17. ASSUME ~outside' PROVE Position'
  <2>1. ~outside
    BY <1>1, <1>17
  <2>2. PICK i, p : /\ Split(sent, i, p, text, rest) /\ (Fit => p = 0 /\ Len(got) = i - 1)
                    /\ rest = Behind(sent)[i]
    BY <1>6, <2>1
  <2>3. i \in 0..Len(sent) /\ (Fit' => Len(got') = i)
    <3>1. i \in 1..Len(sent) /\ Len(got') = Len(got) + 1
      BY <1>12, <2>2 DEF Split, Place, Added
    <3>2. QED BY <1>14, <2>2, <3>1
  <2>4. At(Behind(sent)[i], sent, Fit', Len(got'), Ended')
    BY <1>2, <2>3, AtNextLine
  <2>5. Left' = Behind(sent)[i]
    <3>1. Left' = <<>> \o (c \o net) /\ c \o net \in Seq(Bytes)
      BY <1>1, <1>3, <1>12 DEF Left, CopyFacts
    <3>2. QED BY <2>2, <3>1, ConcatEmptySeq
  <2>6. At(Left, sent, Fit, Len(got), Ended)'
    BY <1>1, <2>4, <2>5
  <2>7. (IsStream(sent) => (Position <=> At(Left, sent, Fit, Len(got), Ended)))'
    BY PositionIs, PTL
  <2>8. IsStream(sent)'
    BY <1>13 DEF TypeOK
  <2>9. QED BY <2>6, <2>7, <2>8
<1>18. NoBeginnings'
  <2>1. SUFFICES ASSUME ~outside', env = {} PROVE Tails(sent, got')
    BY <1>1 DEF NoBeginnings, Tails
  <2>2. ~outside /\ Tails(sent, got)
    BY <1>1, <2>1, Promises DEF Inv, InPieces
  <2>3. PICK i, p : /\ Split(sent, i, p, text, rest) /\ text = Past(sent[i], p)
                    /\ sent[i][Len(sent[i])].is = "lf"
    BY <1>6, <2>2
  <2>4. i \in DOMAIN sent /\ EndOf(NoCr(text), Text(sent[i]))
    BY <1>16, <2>3
  <2>5. QED BY <1>12, <2>2, <2>4, TailAdded
<1>19. LinesArrive'
  <2>1. SUFFICES ASSUME Fit PROVE ~outside' /\ (env = {} => Whole(sent, got'))
    BY <1>1, <1>14 DEF LinesArrive, Whole
  <2>2. ~outside /\ (env = {} => Whole(sent, got))
    BY <2>1, Promises DEF Inv
  <2>3. PICK i, p : /\ Split(sent, i, p, text, rest) /\ p = 0 /\ Len(got) = i - 1
                    /\ text = Past(sent[i], p) /\ Len(text) = Len(sent[i]) - p
                    /\ sent[i][Len(sent[i])].is = "lf"
    BY <1>6, <2>1, <2>2
  <2>4. /\ i \in 1..Len(sent) /\ Len(sent[i]) \in Nat /\ Len(sent) \in Nat
        /\ Len(NoCr(text)) = Len(text) - d /\ NoCr(text) = Text(sent[i])
    BY <1>16, <2>3
  <2>5. ~outside'
    <3>1. Len(sent[i]) < MaxLine - (IF sent[i][Len(sent[i])].is = "lf" THEN 0 ELSE 1)
      BY <1>2, <2>1, <2>4, FittingLine
    <3>2. ~(Len(text) >= MaxLine)
      BY <1>2, <2>3, <2>4, <3>1
    <3>3. QED BY <1>1, <2>2, <3>2
  <2>6. value = Len(text) - d
    <3>1. Buffers
      BY <1>2, <2>2 DEF Inv, InPieces
    <3>2. retval = Len(buf)
      BY <1>1, <3>1 DEF Buffers
    <3>3. QED BY <1>4, <1>5, <1>9, <1>10, <3>2
  <2>7. Len(got) + 1 = i /\ i <= Len(sent)
    BY <2>3, <2>4
  <2>8. QED BY <1>12, <2>2, <2>4, <2>5, <2>6, <2>7, WholeAdded
<1>20. QED BY <1>1, <1>2, <1>12, <1>13, <1>15, <1>17, <1>18, <1>19 DEF Inv, InPieces

(* The test for "\r\n" reads and writes before the buffer: never of a line   *)
(* that fits.                                                              *)
LEMMA CopySpoilsInv ==
  ASSUME Inv, Copy, Stops # {}, Len(buf \o SubSeq(cbuf, 1, Copied)) = 1,
         Return(<<>>, 0), outside' = TRUE
  PROVE  Inv'
<1> DEFINE text == buf \o SubSeq(cbuf, 1, Copied)
           c == Past(cbuf, Copied)
           rest == c \o net
<1>1. /\ pc = "copy" /\ cbuf # <<>> /\ max > 0
      /\ cbuf' = c /\ max' = max - Copied
      /\ Return(<<>>, 0) /\ outside' = TRUE
      /\ sent' = sent /\ net' = net /\ cleft' = cleft /\ alive' = alive /\ eof' = eof
      /\ env' = env
  BY DEF Copy, peer
<1>2. TypeOK /\ alive /\ IsStream(sent)
  BY <1>1 DEF Inv, InPieces, TypeOK
<1>3. CopyFacts(text, c)
  BY <1>1, <1>2, CopyText
<1>4. Copied \in 0..Room /\ Room <= max /\ Room \in Nat /\ max \in Nat
  BY <1>1, <1>2, CopyRoom DEF TypeOK
<1>5. /\ Added(got, got', <<>>, 0)
      /\ pc' = "idle" /\ buf' = <<>> /\ retval' = 0 /\ got' \in Seq(Answers)
  <2>1. <<>> \in Seq(Bytes) /\ 0 \in Nat \cup {-1}
    OBVIOUS
  <2>2. QED BY <1>1, <1>2, <2>1, Returning
<1>6. ~outside =>
        \E i, p : /\ Split(sent, i, p, text, rest) /\ (Fit => p = 0 /\ Len(got) = i - 1)
                  /\ text = Past(sent[i], p) /\ rest = Behind(sent)[i]
                  /\ Len(text) = Len(sent[i]) - p
                  /\ sent[i][Len(sent[i])].is = "lf"
  BY <1>1, LineFound
<1>7. Len(text) = 1
  OBVIOUS
<1> HIDE DEF text, c
<1>8. TypeOK'
  <2>1. IsStream(sent') /\ buf' \in Seq(Bytes) /\ max' \in Nat /\ retval' \in Nat
    BY <1>1, <1>2, <1>4, <1>5
  <2>2. /\ net' \in Seq(Bytes) /\ cbuf' \in Seq(Bytes) /\ cleft' \in Nat
        /\ got' \in Seq([text : Seq(Bytes), retval : Nat \cup {-1}])
    BY <1>1, <1>2, <1>3, <1>5 DEF TypeOK, CopyFacts, Answers
  <2>3. /\ pc' \in {"idle", "copy", "check", "read", "wild"}
        /\ eof' \in BOOLEAN /\ alive' \in BOOLEAN /\ outside' \in BOOLEAN
    BY <1>1, <1>2, <1>5 DEF TypeOK
  <2>4. QED BY <2>1, <2>2, <2>3 DEF TypeOK
<1>9. ~Fit'
  <2>1. SUFFICES ASSUME Fit PROVE FALSE
    BY <1>1 DEF Fit
  <2>2. ~outside
    BY <2>1 DEF Inv, LinesArrive
  <2>3. PICK i, p : /\ Split(sent, i, p, text, rest) /\ p = 0
                    /\ Len(text) = Len(sent[i]) - p
                    /\ sent[i][Len(sent[i])].is = "lf"
    BY <1>6, <2>1, <2>2
  <2>4. i \in 1..Len(sent) /\ Len(sent[i]) \in Nat
    BY <2>3 DEF Split, Place, IsStream
  <2>5. Len(sent[i]) = 1
    BY <1>7, <2>3, <2>4
  <2>6. ~Bare(sent[i])
    BY <1>2, <2>1, <2>4, FittingLine
  <2>7. QED BY <2>3, <2>5, <2>6 DEF Bare
<1>10. NoBeginnings' /\ LinesArrive'
  BY <1>1, <1>9 DEF NoBeginnings, LinesArrive
<1>11. QED BY <1>1, <1>2, <1>5, <1>8, <1>10 DEF Inv, InPieces

LEMMA CopyInv ==
  ASSUME Inv, Copy
  PROVE  Inv'
<1>1. CASE Stops = {}
  BY <1>1, CopyOnInv
<1>2. CASE Stops # {}
  <2> DEFINE text == buf \o SubSeq(cbuf, 1, Copied)
  <2>1. \/ /\ Return(NoCr(text), retval + Copied - (IF EndsCrLf(text) THEN 1 ELSE 0))
           /\ outside' = (outside \/ Len(text) >= MaxLine)
        \/ Len(text) = 1 /\ Return(<<>>, 0) /\ outside' = TRUE
    BY <1>2 DEF Copy
  <2>2. CASE /\ Return(NoCr(text), retval + Copied - (IF EndsCrLf(text) THEN 1 ELSE 0))
             /\ outside' = (outside \/ Len(text) >= MaxLine)
    BY <1>2, <2>2, CopyReturnInv
  <2>3. CASE Len(text) = 1 /\ Return(<<>>, 0) /\ outside' = TRUE
    BY <1>2, <2>3, CopySpoilsInv
  <2>4. QED BY <2>1, <2>2, <2>3
<1>3. QED BY <1>1, <1>2

LEMMA CopyWildInv ==
  ASSUME Inv, CopyWild
  PROVE  Inv'
<1>1. /\ pc = "copy" /\ max = 0 /\ pc' = "wild" /\ outside' = TRUE
      /\ sent' = sent /\ net' = net /\ cbuf' = cbuf /\ cleft' = cleft /\ alive' = alive
      /\ buf' = buf /\ max' = max /\ eof' = eof /\ retval' = retval
      /\ got' = got /\ env' = env
  BY DEF CopyWild, peer, ctl, call
<1>2. TypeOK /\ alive /\ MaxLine \in Nat
  BY <1>1, BufferAssumption DEF Inv, InPieces
<1>3. TypeOK'
  BY <1>1, <1>2 DEF TypeOK
<1>4. ~Fit'
  <2>1. SUFFICES ASSUME Fit PROVE FALSE
    BY <1>1 DEF Fit
  <2>2. ~outside
    BY <2>1 DEF Inv, LinesArrive
  <2>3. Buffers
    BY <1>2, <2>2 DEF Inv, InPieces
  <2>4. Len(buf) < MaxLine /\ max = MaxLine - Len(buf) /\ Len(buf) \in Nat
    BY <1>1, <1>2, <2>3 DEF Buffers, TypeOK
  <2>5. QED BY <1>1, <1>2, <2>4
<1>5. NoBeginnings' /\ LinesArrive'
  BY <1>1, <1>4 DEF NoBeginnings, LinesArrive
<1>6. QED BY <1>1, <1>2, <1>3, <1>5 DEF Inv, InPieces

(* Steps within a call that leave the bytes in their order. *)
LEMMA WithinCall ==
  ASSUME Inv, pc \in {"copy", "check", "read"}, pc' \in {"copy", "check", "read"}, TypeOK',
         buf' = buf, cbuf' \o net' = cbuf \o net, got' = got, sent' = sent,
         alive' = alive, outside' = outside, env' = env,
         Buffers => Buffers'
  PROVE  Inv'
<1>1. alive /\ TypeOK
  BY DEF Inv, InPieces
<1>2. (Fit <=> Fit') /\ (NoBeginnings <=> NoBeginnings') /\ (LinesArrive <=> LinesArrive')
  BY DEF Fit, NoBeginnings, LinesArrive
<1>3. ASSUME ~outside' PROVE Buffers' /\ Position'
  <2>1. Position /\ Buffers /\ IsStream(sent)
    BY <1>1, <1>3 DEF Inv, InPieces, TypeOK
  <2>2. At(Left, sent, Fit, Len(got), Ended)
    BY <2>1, PositionIs
  <2>3. ~Ended /\ ~Ended' /\ Left' = Left
    BY DEF Ended, Left
  <2>4. At(Left, sent, Fit, Len(got), Ended)'
    BY <1>2, <2>2, <2>3 DEF At, Place
  <2>5. (IsStream(sent) => (Position <=> At(Left, sent, Fit, Len(got), Ended)))'
    BY PositionIs, PTL
  <2>6. IsStream(sent)'
    BY DEF TypeOK
  <2>7. QED BY <2>1, <2>4, <2>5, <2>6
<1>4. QED BY <1>1, <1>2, <1>3 DEF Inv, InPieces

LEMMA CopyNothingInv ==
  ASSUME Inv, CopyNothing
  PROVE  Inv'
<1>1. /\ pc = "copy" /\ cbuf = <<>> /\ pc' = "check"
      /\ sent' = sent /\ net' = net /\ cbuf' = cbuf /\ cleft' = cleft /\ alive' = alive
      /\ buf' = buf /\ max' = max /\ eof' = eof /\ retval' = retval
      /\ got' = got /\ outside' = outside /\ env' = env
  BY DEF CopyNothing, peer, ctl, call
<1>2. TypeOK'
  BY <1>1 DEF Inv, InPieces, TypeOK
<1>3. Buffers => Buffers'
  BY <1>1 DEF Buffers
<1>4. QED BY <1>1, <1>2, <1>3, WithinCall

(* A full buffer is emptied: its line did not fit. *)
LEMMA CheckFullInv ==
  ASSUME Inv, Check, max = 1
  PROVE  Inv'
<1>1. /\ pc = "check" /\ Return(<<>>, retval) /\ cleft' = cleft
      /\ sent' = sent /\ net' = net /\ cbuf' = cbuf /\ alive' = alive /\ max' = max
      /\ eof' = eof /\ outside' = outside /\ env' = env
  BY DEF Check, peer
<1>2. /\ TypeOK /\ alive /\ MaxLine \in Nat /\ MaxLine > 1 /\ IsStream(sent)
      /\ retval \in Nat /\ cbuf \in Seq(Bytes) /\ net \in Seq(Bytes) /\ buf \in Seq(Bytes)
  BY <1>1, BufferAssumption DEF Inv, InPieces, TypeOK
<1>3. /\ Added(got, got', <<>>, retval)
      /\ pc' = "idle" /\ buf' = <<>> /\ retval' = retval /\ got' \in Seq(Answers)
  <2>1. <<>> \in Seq(Bytes)
    OBVIOUS
  <2>2. QED BY <1>1, <1>2, <2>1, Returning
<1>4. TypeOK'
  <2>1. buf' \in Seq(Bytes) /\ got' \in Seq([text : Seq(Bytes), retval : Nat \cup {-1}])
    BY <1>3 DEF Answers
  <2>2. QED BY <1>1, <1>2, <1>3, <2>1 DEF TypeOK
<1>5. Fit <=> Fit'
  BY <1>1 DEF Fit
<1> DEFINE rest == cbuf \o net
<1>6. rest \in Seq(Bytes) /\ rest = cbuf \o net
  BY <1>2, ConcatProperties
<1> HIDE DEF rest
<1>7. ASSUME ~outside
      PROVE  /\ LF(buf) = {} /\ Len(buf) = MaxLine - 1
             /\ \E i, p : Split(sent, i, p, buf, rest) /\ (Fit => p = 0 /\ Len(got) = i - 1)
  <2>1. Buffers
    BY <1>2, <1>7 DEF Inv, InPieces
  <2>2. LF(buf) = {} /\ max = MaxLine - Len(buf) /\ Len(buf) \in Nat
    BY <1>1, <1>2, <2>1 DEF Buffers
  <2>3. Len(buf) = MaxLine - 1
    BY <1>2, <2>2
  <2>4. buf # <<>>
    BY <1>2, <2>3
  <2>5. buf \o rest # <<>> /\ buf \o rest = buf \o (cbuf \o net)
    BY <1>2, <1>6, <2>4, ConcatEqualIffEmpty
  <2>6. \E i, p : Split(sent, i, p, buf, rest) /\ (Fit => p = 0 /\ Len(got) = i - 1)
    BY <1>1, <1>2, <1>6, <1>7, <2>5, Here
  <2>7. QED BY <2>2, <2>3, <2>6
<1>8. ASSUME ~outside PROVE ~Fit
  <2>1. SUFFICES ASSUME Fit PROVE FALSE
    OBVIOUS
  <2>2. PICK i, p : Split(sent, i, p, buf, rest) /\ p = 0
    BY <1>7, <1>8, <2>1
  <2>3. i \in 1..Len(sent) /\ Len(sent[i]) \in Nat
    BY <2>2 DEF Split, Place, IsStream
  <2>4. Len(sent[i]) < MaxLine - (IF sent[i][Len(sent[i])].is = "lf" THEN 0 ELSE 1)
    BY <1>2, <2>1, <2>3, FittingLine
  <2>5. \/ Len(buf) < Len(sent[i]) - p
        \/ Len(buf) = Len(sent[i]) - p /\ sent[i][Len(sent[i])].is # "lf"
    BY <1>7, <1>8, <2>2, Unended
  <2>6. QED BY <1>2, <1>7, <1>8, <2>2, <2>3, <2>4, <2>5
<1>9. ASSUME ~outside' PROVE Buffers' /\ Position'
  <2>1. PICK i, p : Split(sent, i, p, buf, rest)
    BY <1>1, <1>7, <1>9
  <2>2. \/ Place(sent, i, p + Len(buf)) /\ rest = Rest(sent, i, p + Len(buf))
        \/ rest = <<>>
    BY <1>1, <1>7, <1>9, <2>1, Unended
  <2>3. At(rest, sent, Fit', Len(got'), Ended')
    BY <1>1, <1>5, <1>8, <1>9, <2>2 DEF At
  <2>4. Left' = rest
    <3>1. Left' = <<>> \o rest
      BY <1>1, <1>3, <1>6 DEF Left
    <3>2. QED BY <1>6, <3>1, ConcatEmptySeq
  <2>5. At(Left, sent, Fit, Len(got), Ended)'
    BY <1>1, <2>3, <2>4
  <2>6. (IsStream(sent) => (Position <=> At(Left, sent, Fit, Len(got), Ended)))'
    BY PositionIs, PTL
  <2>7. IsStream(sent)'
    BY <1>4 DEF TypeOK
  <2>8. Buffers'
    BY <1>3 DEF Buffers
  <2>9. QED BY <2>5, <2>6, <2>7, <2>8
<1>10. NoBeginnings'
  <2>1. SUFFICES ASSUME ~outside', env = {} PROVE Tails(sent, got')
    BY <1>1 DEF NoBeginnings, Tails
  <2>2. Tails(sent, got)
    BY <1>1, <2>1, Promises DEF Inv, InPieces
  <2>3. QED BY <1>3, <2>2, TailAdded
<1>11. LinesArrive'
  BY <1>5, <1>8 DEF Inv, LinesArrive
<1>12. QED BY <1>1, <1>2, <1>3, <1>4, <1>9, <1>10, <1>11 DEF Inv, InPieces

(* The end of the stream: what there is of a line is returned, or -1. *)
LEMMA CheckEofInv ==
  ASSUME Inv, Check, max # 1, eof
  PROVE  Inv'
<1> DEFINE value == IF retval = 0 THEN -1 ELSE retval
<1>1. /\ pc = "check" /\ Return(buf, value)
      /\ cleft' = IF cbuf = <<>> THEN FTPLIB_BUFSIZ ELSE cleft
      /\ sent' = sent /\ net' = net /\ cbuf' = cbuf /\ alive' = alive /\ max' = max
      /\ eof' = eof /\ outside' = outside /\ env' = env
  BY DEF Check, peer
<1>2. /\ TypeOK /\ alive /\ FTPLIB_BUFSIZ \in Nat /\ IsStream(sent)
      /\ retval \in Nat /\ cbuf \in Seq(Bytes) /\ net \in Seq(Bytes) /\ buf \in Seq(Bytes)
      /\ Len(buf) \in Nat /\ value \in Nat \cup {-1} /\ Len(sent) \in Nat
  BY <1>1, BufferAssumption DEF Inv, InPieces, TypeOK, IsStream
<1>3. value = IF retval = 0 THEN -1 ELSE retval
  OBVIOUS
<1> HIDE DEF value
<1>4. /\ Added(got, got', buf, value)
      /\ pc' = "idle" /\ buf' = buf /\ retval' = value /\ got' \in Seq(Answers)
  BY <1>1, <1>2, Returning
<1>5. TypeOK'
  <2>1. /\ got' \in Seq([text : Seq(Bytes), retval : Nat \cup {-1}])
        /\ cleft' \in Nat /\ retval' \in Nat \cup {-1}
    BY <1>1, <1>2, <1>4 DEF Answers, TypeOK
  <2>2. QED BY <1>1, <1>2, <1>4, <2>1 DEF TypeOK
<1>6. Fit <=> Fit'
  BY <1>1 DEF Fit
<1>7. ASSUME ~outside
      PROVE  cbuf = <<>> /\ net = <<>> /\ LF(buf) = {} /\ retval = Len(buf)
  <2>1. Buffers
    BY <1>2, <1>7 DEF Inv, InPieces
  <2>2. QED BY <1>1, <2>1 DEF Buffers
<1>8. ASSUME ~outside, buf # <<>>
      PROVE  /\ Len(sent) \in 1..Len(sent) /\ Len(sent) \in DOMAIN sent
             /\ EndOf(buf, Text(sent[Len(sent)]))
             /\ Fit => Len(got) = Len(sent) - 1 /\ buf = Text(sent[Len(sent)])
  <2>1. cbuf \o net = <<>> /\ buf \o <<>> = buf
    BY <1>2, <1>7, <1>8, ConcatEmptySeq
  <2>2. /\ <<>> \in Seq(Bytes) /\ buf \o <<>> = buf \o (cbuf \o net)
        /\ buf \o (cbuf \o net) # <<>>
    BY <1>8, <2>1
  <2>3. PICK i, p : Split(sent, i, p, buf, <<>>) /\ (Fit => p = 0 /\ Len(got) = i - 1)
    BY <1>1, <1>2, <1>8, <2>2, Here
  <2>4. /\ i \in 1..Len(sent) /\ i \in DOMAIN sent /\ IsLine(sent[i])
        /\ sent[i] \in Seq(Bytes) /\ p \in 0..Len(sent[i]) - 1 /\ p \in 0..Len(sent[i])
    BY <2>3 DEF Split, Place, IsStream
  <2>5. \/ Place(sent, i, p + Len(buf)) /\ <<>> = Rest(sent, i, p + Len(buf))
        \/ /\ buf = Past(sent[i], p) /\ i = Len(sent)
           /\ sent[i][Len(sent[i])].is # "lf"
    BY <1>7, <1>8, <2>3, Unended
  <2>6. ~(Place(sent, i, p + Len(buf)) /\ <<>> = Rest(sent, i, p + Len(buf)))
    <3> DEFINE q == p + Len(buf)
               w == Past(sent[i], q)
               r == Behind(sent)[i]
    <3> HIDE DEF q
    <3>1. SUFFICES ASSUME Place(sent, i, q), <<>> = Rest(sent, i, q) PROVE FALSE
      BY DEF q
    <3>2. RestFacts(sent[i], Len(sent[i]), q, w, r)
      BY <3>1, RestOfLine
    <3> HIDE DEF w, r
    <3>3. w \in Seq(Bytes) /\ r \in Seq(Bytes) /\ Len(w) # 0
      BY <3>2 DEF RestFacts
    <3>4. w \o r = <<>>
      BY <3>1 DEF Rest, w, r
    <3>5. w = <<>>
      BY <3>3, <3>4, ConcatEqualIffEmpty
    <3>6. QED BY <3>3, <3>5
  <2>7. Text(sent[i]) = sent[i]
    BY <2>4, <2>5, <2>6, PlainText
  <2>8. EndOf(buf, sent[i])
    BY <2>4, <2>5, <2>6 DEF EndOf
  <2>9. Past(sent[i], 0) = sent[i]
    <3>1. 0 + 1 = 1
      OBVIOUS
    <3>2. QED BY <2>4, <3>1, SubSeqFull DEF Past
  <2>10. QED BY <2>3, <2>4, <2>5, <2>6, <2>7, <2>8, <2>9
<1>9. ASSUME ~outside, Fit, buf = <<>>
      PROVE  Len(got) = Len(sent) /\ value = -1
  <2>1. Position
    BY <1>2, <1>9 DEF Inv, InPieces
  <2>2. At(Left, sent, Fit, Len(got), Ended)
    BY <1>2, <2>1, PositionIs
  <2>3. Left = <<>>
    <3>1. Left = <<>> \o (<<>> \o <<>>)
      BY <1>1, <1>7, <1>9 DEF Left
    <3>2. QED BY <3>1
  <2>4. ~Ended
    BY <1>1 DEF Ended
  <2>5. ASSUME NEW i, NEW p, Place(sent, i, p) PROVE Left # Rest(sent, i, p)
    <3> DEFINE w == Past(sent[i], p)
               r == Behind(sent)[i]
    <3>1. RestFacts(sent[i], Len(sent[i]), p, w, r)
      BY <2>5, RestOfLine
    <3> HIDE DEF w, r
    <3>2. w \in Seq(Bytes) /\ r \in Seq(Bytes) /\ Len(w) # 0
      BY <3>1 DEF RestFacts
    <3>3. w # <<>>
      BY <3>2
    <3>4. w \o r # <<>>
      BY <3>2, <3>3, ConcatEqualIffEmpty
    <3>5. QED BY <2>3, <3>4 DEF Rest, w, r
  <2>6. Len(got) = Len(sent)
    BY <1>9, <2>2, <2>4, <2>5 DEF At
  <2>7. retval = 0
    BY <1>7, <1>9
  <2>8. QED BY <1>3, <2>6, <2>7
<1>10. ASSUME ~outside' PROVE Buffers' /\ Position'
  <2>1. Left' = <<>>
    <3>1. Left' = <<>> \o (<<>> \o <<>>)
      BY <1>1, <1>4, <1>7, <1>10 DEF Left
    <3>2. QED BY <3>1
  <2>2. Fit' => Len(got') = Len(sent') \/ Ended'
    <3>1. CASE buf = <<>>
      <4>1. SUFFICES ASSUME Fit PROVE Ended'
        BY <1>6
      <4>2. value = -1
        BY <1>1, <1>9, <1>10, <3>1, <4>1
      <4>3. QED BY <1>4, <4>2 DEF Ended, Added
    <3>2. CASE buf # <<>>
      <4>1. SUFFICES ASSUME Fit PROVE Len(got') = Len(sent')
        BY <1>6
      <4>2. Len(got) = Len(sent) - 1 /\ Len(got') = Len(got) + 1
        BY <1>1, <1>4, <1>8, <1>10, <3>2, <4>1 DEF Added
      <4>3. QED BY <1>1, <1>2, <4>2
    <3>3. QED BY <3>1, <3>2
  <2>3. Position'
    BY <2>1, <2>2 DEF Position, Ended
  <2>4. Buffers'
    BY <1>4 DEF Buffers
  <2>5. QED BY <2>3, <2>4
<1>11. NoBeginnings'
  <2>1. SUFFICES ASSUME ~outside', env = {} PROVE Tails(sent, got')
    BY <1>1 DEF NoBeginnings, Tails
  <2>2. ~outside /\ Tails(sent, got)
    BY <1>1, <2>1, Promises DEF Inv, InPieces
  <2>3. buf # <<>> => \E i \in DOMAIN sent : EndOf(buf, Text(sent[i]))
    BY <1>8, <2>2
  <2>4. QED BY <1>4, <2>2, <2>3, TailAdded
<1>12. LinesArrive'
  <2>1. SUFFICES ASSUME Fit PROVE ~outside' /\ (env = {} => Whole(sent, got'))
    BY <1>1, <1>6 DEF LinesArrive, Whole
  <2>2. ~outside /\ (env = {} => Whole(sent, got))
    BY <2>1, Promises DEF Inv
  <2>3. CASE buf = <<>>
    <3>1. Len(got) = Len(sent) /\ value = -1
      BY <1>9, <2>1, <2>2, <2>3
    <3>2. ~(Len(got) + 1 <= Len(sent))
      BY <1>2, <3>1
    <3>3. QED BY <1>1, <1>4, <2>2, <3>1, <3>2, WholeAdded
  <2>4. CASE buf # <<>>
    <3>1. Len(got) = Len(sent) - 1 /\ buf = Text(sent[Len(sent)]) /\ retval = Len(buf)
      BY <1>7, <1>8, <2>1, <2>2, <2>4
    <3>2. Len(got) + 1 = Len(sent) /\ Len(got) + 1 <= Len(sent)
      BY <1>2, <3>1
    <3>3. value = Len(buf)
      BY <1>2, <1>3, <2>4, <3>1
    <3>4. QED BY <1>1, <1>4, <2>2, <3>1, <3>2, <3>3, WholeAdded
  <2>5. QED BY <2>3, <2>4
<1>13. QED BY <1>1, <1>2, <1>4, <1>5, <1>10, <1>11, <1>12 DEF Inv, InPieces

LEMMA CheckOnInv ==
  ASSUME Inv, Check, max # 1, ~eof
  PROVE  Inv'
<1>1. /\ pc = "check" /\ pc' = "read" /\ buf' = buf /\ retval' = retval /\ got' = got
      /\ cleft' = IF cbuf = <<>> THEN FTPLIB_BUFSIZ ELSE cleft
      /\ sent' = sent /\ net' = net /\ cbuf' = cbuf /\ alive' = alive /\ max' = max
      /\ eof' = eof /\ outside' = outside /\ env' = env
  BY DEF Check, peer
<1>2. /\ TypeOK /\ FTPLIB_BUFSIZ \in Nat /\ MaxLine \in Nat
      /\ Len(buf) \in Nat /\ max \in Nat
  BY BufferAssumption DEF Inv, InPieces, TypeOK
<1>3. TypeOK'
  BY <1>1, <1>2 DEF TypeOK
<1>4. ASSUME Buffers PROVE Buffers'
  <2>1. /\ LF(buf) = {} /\ Len(buf) < MaxLine /\ max = MaxLine - Len(buf)
        /\ retval = Len(buf) /\ cbuf = <<>> /\ ~eof
    BY <1>1, <1>4 DEF Buffers
  <2>2. max > 1
    BY <1>2, <2>1
  <2>3. QED BY <1>1, <2>1, <2>2 DEF Buffers
<1>5. QED BY <1>1, <1>3, <1>4, WithinCall

LEMMA CheckInv ==
  ASSUME Inv, Check
  PROVE  Inv'
<1>1. eof \in BOOLEAN
  BY DEF Inv, InPieces, TypeOK
<1>2. QED BY <1>1, CheckFullInv, CheckEofInv, CheckOnInv

LEMMA ReadInv ==
  ASSUME Inv, NEW x \in 0..FTPLIB_BUFSIZ, Read(x)
  PROVE  Inv'
<1>1. /\ pc = "read" /\ x <= cleft /\ x <= Len(net) /\ (x = 0 => net = <<>> \/ cleft = 0)
      /\ net' = Past(net, x) /\ cbuf' = cbuf \o SubSeq(net, 1, x) /\ cleft' = cleft - x
      /\ eof' = (x = 0) /\ pc' = "copy"
      /\ sent' = sent /\ alive' = alive /\ buf' = buf /\ max' = max /\ retval' = retval
      /\ got' = got /\ outside' = outside /\ env' = env
  BY DEF Read
<1>2. /\ TypeOK /\ FTPLIB_BUFSIZ \in Nat \ {0} /\ cleft \in Nat /\ x \in Nat
      /\ net \in Seq(Bytes) /\ cbuf \in Seq(Bytes) /\ Len(net) \in Nat
  BY BufferAssumption DEF Inv, InPieces, TypeOK
<1>3. x \in 0..Len(net)
  BY <1>1, <1>2
<1>4. /\ SubSeq(net, 1, x) \in Seq(Bytes) /\ Past(net, x) \in Seq(Bytes)
      /\ SubSeq(net, 1, x) \o Past(net, x) = net
  <2>1. SubSeq(net, 1, x) \in Seq(Bytes)
    <3>1. 0 \in 0..Len(net) /\ x \in 0..Len(net) /\ 0 + 1 = 1
      BY <1>2, <1>3
    <3>2. SubSeq(net, 0 + 1, x) \in Seq(Bytes)
      BY <1>2, <1>3, <3>1, Part
    <3>3. QED BY <3>1, <3>2
  <2>2. Past(net, x) \in Seq(Bytes)
    BY <1>2, <1>3, PastLine
  <2>3. SubSeq(net, 1, x) \o Past(net, x) = net
    BY <1>2, <1>3, Parted DEF Past
  <2>4. QED BY <2>1, <2>2, <2>3
<1>5. cbuf' \o net' = cbuf \o net
  <2> DEFINE a == SubSeq(net, 1, x)
             b == Past(net, x)
  <2>1. cbuf' = cbuf \o a /\ net' = b /\ a \o b = net /\ a \in Seq(Bytes) /\ b \in Seq(Bytes)
    BY <1>1, <1>4
  <2> HIDE DEF a, b
  <2>2. (cbuf \o a) \o b = cbuf \o (a \o b)
    <3>1. cbuf \in Seq(Bytes) /\ a \in Seq(Bytes) /\ b \in Seq(Bytes)
      BY <1>2, <2>1
    <3>2. QED BY ONLY <3>1, ConcatAssociative
  <2>3. QED BY <2>1, <2>2
<1>6. TypeOK'
  <2>1. cbuf' \in Seq(Bytes) /\ net' \in Seq(Bytes)
    BY <1>1, <1>2, <1>4, ConcatProperties
  <2>2. cleft' \in Nat
    BY <1>1, <1>2
  <2>3. QED BY <1>1, <1>2, <2>1, <2>2 DEF TypeOK
<1>7. ASSUME Buffers PROVE Buffers'
  <2>1. /\ LF(buf) = {} /\ Len(buf) < MaxLine /\ max = MaxLine - Len(buf)
        /\ retval = Len(buf) /\ cbuf = <<>> /\ cleft = FTPLIB_BUFSIZ
    BY <1>1, <1>7 DEF Buffers
  <2>2. ASSUME x = 0 PROVE cbuf' = <<>> /\ net' = <<>>
    <3>1. net = <<>>
      BY <1>1, <1>2, <2>1, <2>2
    <3>2. cbuf' \o net' = <<>>
      BY <1>5, <2>1, <3>1
    <3>3. cbuf' \in Seq(Bytes) /\ net' \in Seq(Bytes)
      BY <1>6 DEF TypeOK
    <3>4. QED BY <3>2, <3>3, ConcatEqualIffEmpty
  <2>3. QED BY <1>1, <2>1, <2>2 DEF Buffers
<1>8. QED BY <1>1, <1>5, <1>6, <1>7, WithinCall

(* A call that fails promises nothing, and is the last.                     *)
LEMMA GivenUp ==
  ASSUME Inv, NEW value \in Nat \cup {-1}, Failure(value), pc = "read", env # {},
         alive' = FALSE, sent' = sent, net' = net, cbuf' = cbuf, cleft' = cleft,
         max' = max, eof' = eof, outside' = outside, env' = env
  PROVE  Inv'
<1>1. TypeOK /\ buf \in Seq(Bytes)
  BY DEF Inv, InPieces, TypeOK
<1>2. /\ pc' = "idle" /\ buf' \in Seq(Bytes) /\ retval' = value /\ got' \in Seq(Answers)
  <2>1. Message \in Seq(Bytes)
    BY DEF Message, Byte, Bytes
  <2>2. PICK text \in Seq(Bytes) : Return(text, value)
    BY <1>1, <2>1 DEF Failure
  <2>3. QED BY <1>1, <2>2, Returning
<1>3. TypeOK'
  <2>1. got' \in Seq([text : Seq(Bytes), retval : Nat \cup {-1}]) /\ retval' \in Nat \cup {-1}
    BY <1>2 DEF Answers
  <2>2. QED BY <1>1, <1>2, <2>1 DEF TypeOK
<1>4. NoBeginnings' /\ LinesArrive'
  <2>1. Fit <=> Fit'
    BY DEF Fit
  <2>2. QED BY <2>1 DEF Inv, NoBeginnings, LinesArrive
<1>5. QED BY <1>2, <1>3, <1>4 DEF Inv, InPieces

LEMMA TimeoutInv ==
  ASSUME Inv, Timeout
  PROVE  Inv'
<1>1. retval \in Nat \cup {-1}
  BY DEF Inv, InPieces, TypeOK
<1>2. /\ Failure(retval) /\ pc = "read" /\ env # {} /\ alive' = FALSE
      /\ sent' = sent /\ net' = net /\ cbuf' = cbuf /\ cleft' = cleft
      /\ max' = max /\ eof' = eof /\ outside' = outside /\ env' = env
  BY DEF Timeout, peer
<1>3. QED BY <1>1, <1>2, GivenUp

LEMMA ReadErrorInv ==
  ASSUME Inv, ReadError
  PROVE  Inv'
<1>1. -1 \in Nat \cup {-1}
  OBVIOUS
<1>2. /\ Failure(-1) /\ pc = "read" /\ env # {} /\ alive' = FALSE
      /\ sent' = sent /\ net' = net /\ cbuf' = cbuf /\ cleft' = cleft
      /\ max' = max /\ eof' = eof /\ outside' = outside /\ env' = env
  BY DEF ReadError, peer
<1>3. QED BY <1>1, <1>2, GivenUp

LEMMA StutterInv ==
  ASSUME Inv, UNCHANGED vars
  PROVE  Inv'
<1>1. /\ sent' = sent /\ net' = net /\ cbuf' = cbuf /\ cleft' = cleft /\ alive' = alive
      /\ pc' = pc /\ buf' = buf /\ max' = max /\ eof' = eof /\ retval' = retval
      /\ got' = got /\ outside' = outside /\ env' = env
  BY DEF vars, peer, ctl, call
<1>2. TypeOK' /\ Buffers' = Buffers /\ (Position <=> Position')
  BY <1>1 DEF Inv, InPieces, TypeOK, Buffers, Position, Left, Fit
<1>3. (NoBeginnings <=> NoBeginnings') /\ (LinesArrive <=> LinesArrive')
  BY <1>1 DEF NoBeginnings, LinesArrive, Fit
<1>4. QED BY <1>1, <1>2, <1>3 DEF Inv, InPieces

-----------------------------------------------------------------------------
(* The lines of a peer are lines. *)
LEMMA EndIs ==
  ASSUME NEW e \in Ends \cup {<<>>}
  PROVE  /\ DOMAIN e = 1..Len(e) /\ Len(e) \in Nat
         /\ \A j \in 1..Len(e) : /\ e[j] \in {"cr", "lf"}
                                 /\ e[j] = "lf" => j = Len(e)
                                 /\ e[j] = "cr" => j + 1 = Len(e) /\ e[j + 1] = "lf"
         /\ e # <<>> => Len(e) > 0 /\ e[Len(e)] = "lf"
<1>1. CASE e = <<"cr", "lf">>
  BY <1>1
<1>2. CASE e = <<"lf">>
  BY <1>2
<1>3. CASE e = <<>>
  BY <1>3
<1>4. QED BY <1>1, <1>2, <1>3 DEF Ends

LEMMA LineIs ==
  ASSUME NEW i \in Nat, NEW l \in Nat, NEW e \in Ends \cup {<<>>}
  PROVE  LET line == LineOf(i, l, e)
         IN  /\ line \in Seq(Bytes)
             /\ line # <<>> => IsLine(line)
             /\ e # <<>> => Last(line).is = "lf"
<1> DEFINE a == [k \in 1..l |-> Byte(i, "c")]
           b == [k \in DOMAIN e |-> Byte(i, e[k])]
           m == Len(e)
           line == a \o b
<1>1. /\ DOMAIN e = 1..m /\ m \in Nat
      /\ \A j \in 1..m : /\ e[j] \in {"cr", "lf"}
                         /\ e[j] = "lf" => j = m
                         /\ e[j] = "cr" => j + 1 = m /\ e[j + 1] = "lf"
      /\ e # <<>> => m > 0 /\ e[m] = "lf"
  BY EndIs
<1> HIDE DEF m
<1>2. a \in Seq(Bytes) /\ Len(a) = l /\ \A k \in 1..l : a[k].is = "c"
  <2>1. \A k \in 1..l : a[k] = Byte(i, "c")
    OBVIOUS
  <2>2. Byte(i, "c") \in Bytes /\ Byte(i, "c").is = "c"
    BY DEF Byte, Bytes
  <2>3. a \in [1..l -> Bytes]
    BY <2>2
  <2>4. QED BY <2>1, <2>2, <2>3
<1>3. b \in Seq(Bytes) /\ Len(b) = m /\ \A j \in 1..m : b[j].is = e[j]
  <2>1. \A j \in 1..m : Byte(i, e[j]) \in Bytes /\ Byte(i, e[j]).is = e[j]
    BY <1>1 DEF Byte, Bytes
  <2>2. b \in [1..m -> Bytes] /\ \A j \in 1..m : b[j] = Byte(i, e[j])
    BY <1>1, <2>1
  <2> HIDE DEF b
  <2>3. QED BY <1>1, <2>1, <2>2
<1> HIDE DEF a, b
<1>4. /\ line \in Seq(Bytes) /\ Len(line) = l + m
      /\ \A k \in 1..l : line[k] = a[k]
      /\ \A j \in 1..m : line[l + j] = b[j]
  <2>1. /\ line \in Seq(Bytes) /\ Len(line) = Len(a) + Len(b)
        /\ \A k \in 1..Len(a) : line[k] = a[k]
        /\ \A j \in 1..Len(b) : line[Len(a) + j] = b[j]
    <3>1. a \in Seq(Bytes) /\ b \in Seq(Bytes)
      BY <1>2, <1>3
    <3>2. QED BY ONLY <3>1, Joined
  <2> HIDE DEF line
  <2>2. Len(a) = l /\ Len(b) = m
    BY <1>2, <1>3
  <2>3. QED BY ONLY <2>1, <2>2, Zenon
<1> HIDE DEF line
<1>5. ASSUME NEW k \in 1..l + m
      PROVE  /\ line[k].is = "lf" => k = l + m
             /\ line[k].is = "cr" => k + 1 = l + m /\ line[k + 1].is = "lf"
  <2>1. CASE k \in 1..l
    BY <1>2, <1>4, <2>1
  <2>2. CASE k \notin 1..l
    <3> DEFINE j == k - l
    <3>1. j \in 1..m /\ l + j = k /\ (j + 1 = m => j + 1 \in 1..m)
          /\ l + (j + 1) = k + 1 /\ (j = m => k = l + m) /\ (j + 1 = m => k + 1 = l + m)
      BY <1>1, <1>5, <2>2
    <3> HIDE DEF j
    <3>2. line[k].is = e[j]
      BY <1>3, <1>4, <3>1
    <3>3. j + 1 = m => line[k + 1].is = e[j + 1]
      BY <1>3, <1>4, <3>1
    <3>4. QED BY <1>1, <3>1, <3>2, <3>3
  <2>3. QED BY <2>1, <2>2
<1>6. line # <<>> => IsLine(line)
  BY <1>4, <1>5 DEF IsLine
<1>7. ASSUME e # <<>> PROVE Last(line).is = "lf"
  <2>1. m \in 1..m /\ e[m] = "lf"
    BY <1>1, <1>7
  <2>2. line[l + m].is = "lf"
    BY <1>3, <1>4, <2>1
  <2>3. QED BY <1>4, <2>2 DEF Last
<1>8. QED BY <1>4, <1>6, <1>7 DEF LineOf, line, a, b

LEMMA InitType ==
  ASSUME Init
  PROVE  TypeOK
<1>1. sent \in Streams /\ \A line \in Range(sent) : line # <<>>
  BY DEF Init
<1>2. PICK n \in 0..Lines : sent \in StreamsOf(n)
  <2>1. sent \in Streams
    BY <1>1
  <2>2. QED BY ONLY <2>1 DEF Streams
<1>3. PICK lengths \in [1..n -> Lengths] :
        \E ends \in {e \in [1..n -> Ends \cup {<<>>}] : \A i \in 1..n - 1 : e[i] # <<>>} :
          sent = [i \in 1..n |-> LineOf(i, lengths[i], ends[i])]
  <2>1. sent \in StreamsOf(n)
    BY <1>2
  <2>2. QED BY ONLY <2>1, SMTT(20) DEF StreamsOf
<1>4. PICK ends \in {e \in [1..n -> Ends \cup {<<>>}] : \A i \in 1..n - 1 : e[i] # <<>>} :
        sent = [i \in 1..n |-> LineOf(i, lengths[i], ends[i])]
  BY <1>3
<1>5. n \in Nat /\ ends \in [1..n -> Ends \cup {<<>>}] /\ \A i \in 1..n - 1 : ends[i] # <<>>
  BY LinesAssumption
<1>6. ASSUME NEW i \in 1..n
      PROVE  /\ sent[i] \in Seq(Bytes) /\ (sent[i] # <<>> => IsLine(sent[i]))
             /\ ends[i] # <<>> => Last(sent[i]).is = "lf"
  <2>1. i \in Nat /\ lengths[i] \in Nat
    <3>1. lengths[i] \in Lengths
      OBVIOUS
    <3>2. i \in Nat
      BY <1>5
    <3>3. QED BY <3>1, <3>2, LinesAssumption
  <2>2. ends[i] \in Ends \cup {<<>>}
    BY <1>5, Zenon
  <2>3. sent[i] = LineOf(i, lengths[i], ends[i])
    BY <1>4
  <2> DEFINE l == lengths[i]
             e == ends[i]
  <2>4. i \in Nat /\ l \in Nat /\ e \in Ends \cup {<<>>}
    BY <2>1, <2>2
  <2> HIDE DEF l, e
  <2>5. /\ LineOf(i, l, e) \in Seq(Bytes)
        /\ LineOf(i, l, e) # <<>> => IsLine(LineOf(i, l, e))
        /\ e # <<>> => Last(LineOf(i, l, e)).is = "lf"
    BY ONLY <2>4, LineIs
  <2>6. QED BY <2>3, <2>5 DEF l, e
<1>7. sent \in Seq(Seq(Bytes)) /\ Len(sent) = n
  <2>1. DOMAIN sent = 1..n /\ sent \in [1..n -> Seq(Bytes)]
    BY <1>4, <1>6
  <2>2. QED BY <1>5, <2>1
<1>8. \A i \in 1..n : IsLine(sent[i])
  <2> TAKE i \in 1..n
  <2>1. DOMAIN sent = 1..n
    BY <1>7
  <2>2. sent[i] # <<>>
    BY <1>1, <2>1 DEF Range
  <2>3. QED BY <1>6, <2>2
<1>9. IsStream(sent)
  BY <1>5, <1>6, <1>7, <1>8 DEF IsStream
<1>10. net \in Seq(Bytes)
  <2>1. 0 \in 0..Len(sent) /\ net = Behind(sent)[0]
    BY <1>5, <1>7 DEF Init
  <2>2. QED BY <1>9, <2>1, BehindLine
<1>11. /\ cbuf = <<>> /\ cleft = 0 /\ alive = TRUE
       /\ pc = "idle" /\ buf = <<>> /\ max = 0 /\ eof = FALSE /\ retval = 0
       /\ got = <<>> /\ outside = FALSE
  BY DEF Init
<1>12. /\ <<>> \in Seq(Bytes) /\ <<>> \in Seq([text : Seq(Bytes), retval : Nat \cup {-1}])
       /\ 0 \in Nat /\ 0 \in Nat \cup {-1}
  OBVIOUS
<1>13. QED BY <1>9, <1>10, <1>11, <1>12 DEF TypeOK

-----------------------------------------------------------------------------
LEMMA Inductive == Spec => []Inv
<1>1. Init => Inv
  BY InitType, InitInv
<1>2. Inv /\ [Next]_vars => Inv'
  <2> SUFFICES ASSUME Inv, [Next]_vars PROVE Inv'
    OBVIOUS
  <2>1. CASE Call
    BY <2>1, CallInv
  <2>2. CASE Copy
    BY <2>2, CopyInv
  <2>3. CASE CopyWild
    BY <2>3, CopyWildInv
  <2>4. CASE CopyNothing
    BY <2>4, CopyNothingInv
  <2>5. CASE Check
    BY <2>5, CheckInv
  <2>6. CASE \E x \in 0..FTPLIB_BUFSIZ : Read(x)
    BY <2>6, ReadInv
  <2>7. CASE Timeout
    BY <2>7, TimeoutInv
  <2>8. CASE ReadError
    BY <2>8, ReadErrorInv
  <2>9. CASE UNCHANGED vars
    BY <2>9, StutterInv
  <2>10. QED BY <2>1, <2>2, <2>3, <2>4, <2>5, <2>6, <2>7, <2>8, <2>9 DEF Next
<1>3. QED BY <1>1, <1>2, PTL DEF Spec

(* The inductive invariant: as long as nothing failed and nothing was written *)
(* beside the caller's buffer, the bytes that readline holds, those of the   *)
(* connection's buffer and those on their way are the rest of one line and   *)
(* all that is behind it (ftplib.c 136-192).                               *)
THEOREM Pieces == Spec => []InPieces
<1>1. Inv => InPieces
  BY DEF Inv
<1>2. QED BY Inductive, <1>1, PTL

(* Lines shorter than the caller's buffer are returned whole and in order,   *)
(* with their length, however the bytes come, and no byte is written beside  *)
(* the buffer.                                                             *)
THEOREM WholeLines == Spec => []LinesArrive
<1>1. Inv => LinesArrive
  BY DEF Inv
<1>2. QED BY Inductive, <1>1, PTL

(* Of a line that does not fit no caller sees the beginning. *)
THEOREM OnlyEnds == Spec => []NoBeginnings
<1>1. Inv => NoBeginnings
  BY DEF Inv, InPieces
<1>2. QED BY Inductive, <1>1, PTL
=============================================================================
