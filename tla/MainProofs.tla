----------------------------- MODULE MainProofs -----------------------------
(***************************************************************************)
(* Theorems about the main thread: about the configuration that it reads   *)
(* before anything else, for every file and every table of parameters, and *)
(* about the window that it keeps afterwards, for any number of window     *)
(* processes.                                                              *)
(***************************************************************************)
EXTENDS Supervisor, ConfigProps, SequenceTheorems, FiniteSetTheorems,
        WellFoundedInduction, TLAPS

(* A set of numbers has a smallest one. *)
LEMMA SmallestNumber ==
  ASSUME NEW T \in SUBSET Nat, T # {}
  PROVE  \E x \in T : \A y \in T : x <= y
<1> DEFINE R == OpToRel(<, Nat)
<1>1. IsWellFoundedOn(R, Nat)
  BY NatLessThanWellFounded
<1>2. \A x, y \in Nat : y < x => <<y, x>> \in R
  BY DEF OpToRel
<1> HIDE DEF R
<1>3. PICK x \in T : \A y \in T : ~(<<y, x>> \in R)
  BY <1>1, WFMin
<1>4. ASSUME NEW y \in T PROVE x <= y
  <2>1. ~(y < x)
    BY <1>2, <1>3
  <2>2. QED BY <2>1
<1>5. QED BY <1>4

(* What holds of m, and of each number whose predecessor it holds of, holds *)
(* up to n.                                                                *)
LEMMA Upward ==
  ASSUME NEW m \in Nat, NEW n \in Nat, NEW T, m \in T,
         \A i \in m + 1..n : i - 1 \in T => i \in T
  PROVE  \A i \in m..n : i \in T
<1> DEFINE B == {i \in m..n : i \notin T}
<1>1. SUFFICES ASSUME B # {} PROVE FALSE
  OBVIOUS
<1>2. B \in SUBSET Nat
  OBVIOUS
<1>3. PICK d \in B : \A y \in B : d <= y
  <2> HIDE DEF B
  <2>1. QED BY <1>1, <1>2, SmallestNumber
<1>4. d \in m..n /\ d \notin T
  BY <1>3
<1>5. d # m
  BY <1>4
<1>6. d \in m + 1..n /\ d - 1 \in m..n /\ ~(d <= d - 1)
  BY <1>4, <1>5
<1>7. d - 1 \in T
  BY <1>3, <1>6
<1>8. QED BY <1>4, <1>6, <1>7

(* A function that is b at m and then follows g, up to n: there is one. *)
Follows(f, m, l, n, S, b, g) ==
  f \in [m..n -> S] /\ f[m] = b /\ \A i \in l..n : f[i] = g[<<i, f[i - 1]>>]

LEMMA Recursion ==
  ASSUME NEW m \in Nat, NEW n \in Nat, NEW l \in Nat, l = m + 1, m <= n,
         NEW S, NEW b \in S, NEW g \in [(l..n) \X S -> S]
  PROVE  \E f : Follows(f, m, l, n, S, b, g)
<1> DEFINE Is(f, k) == /\ f \in [m..k -> S] /\ f[m] = b
                       /\ \A i \in m + 1..k : f[i] = g[<<i, f[i - 1]>>]
           T == {k \in m..n : \E f : Is(f, k)}
<1>1. m \in T
  <2> DEFINE f == [i \in m..m |-> b]
  <2>1. m \in m..m /\ m + 1..m = {} /\ m \in m..n
    OBVIOUS
  <2>2. f \in [m..m -> S] /\ f[m] = b
    BY <2>1
  <2>3. Is(f, m)
    BY <2>1, <2>2
  <2> HIDE DEF f, Is
  <2>4. QED BY <2>1, <2>3
<1>2. ASSUME NEW k \in m + 1..n, k - 1 \in T PROVE k \in T
  <2>1. PICK h : Is(h, k - 1)
    BY <1>2
  <2>2. /\ h \in [m..k - 1 -> S] /\ h[m] = b
        /\ \A i \in m + 1..k - 1 : h[i] = g[<<i, h[i - 1]>>]
    BY <2>1
  <2> DEFINE f == [i \in m..k |-> IF i = k THEN g[<<k, h[k - 1]>>] ELSE h[i]]
  <2>3. /\ k - 1 \in m..k - 1 /\ m \in m..k - 1 /\ k # m /\ k \in m..n /\ m \in m..k
        /\ \A i \in m..k : i # k => i \in m..k - 1
        /\ \A i \in m + 1..k : /\ i \in m..k /\ i - 1 \in m..k /\ i - 1 # k
                               /\ i # k => i \in m + 1..k - 1
    OBVIOUS
  <2>4. g[<<k, h[k - 1]>>] \in S
    BY <2>2, <2>3
  <2>5. f \in [m..k -> S]
    BY <2>2, <2>3, <2>4
  <2>6. f[m] = b
    BY <2>2, <2>3
  <2>7. ASSUME NEW i \in m + 1..k PROVE f[i] = g[<<i, f[i - 1]>>]
    <3>1. f[i - 1] = h[i - 1]
      BY <2>3
    <3>2. CASE i = k
      BY <2>3, <3>1, <3>2
    <3>3. CASE i # k
      BY <2>2, <2>3, <3>1, <3>3
    <3>4. QED BY <3>2, <3>3
  <2> HIDE DEF f
  <2>8. Is(f, k)
    BY <2>5, <2>6, <2>7
  <2> HIDE DEF Is
  <2>9. QED BY <2>3, <2>8
<1>3. n \in T
  <2> HIDE DEF T
  <2>1. n \in m..n
    OBVIOUS
  <2>2. QED BY <1>1, <1>2, <2>1, Upward
<1>4. PICK f : Is(f, n)
  BY <1>3
<1>5. QED BY <1>4 DEF Follows

-----------------------------------------------------------------------------
(* What SubSeq and \o do, element by element. *)
LEMMA Part ==
  ASSUME NEW S, NEW s \in Seq(S), NEW k \in 0..Len(s), NEW m \in k..Len(s)
  PROVE  /\ SubSeq(s, k + 1, m) \in Seq(S) /\ Len(SubSeq(s, k + 1, m)) = m - k
         /\ \A i \in 1..m - k : SubSeq(s, k + 1, m)[i] = s[k + i]
<1> DEFINE n == Len(s)
<1>1. n \in Nat /\ k \in 0..n /\ m \in k..n /\ \A i \in 1..n : s[i] \in S
  BY ElementOfSeq
<1> HIDE DEF n
<1>2. k + 1 \in Int /\ m \in Int /\ \A i \in k + 1..m : s[i] \in S
  BY <1>1
<1> DEFINE t == SubSeq(s, k + 1, m)
<1>3. /\ t \in Seq(S) /\ Len(t) = IF k + 1 <= m THEN m - (k + 1) + 1 ELSE 0
      /\ \A i \in 1..m - (k + 1) + 1 : t[i] = s[k + 1 + i - 1]
  BY <1>2, SubSeqProperties
<1> HIDE DEF t
<1>4. Len(t) = m - k /\ m - (k + 1) + 1 = m - k
  BY <1>1, <1>3
<1>5. \A i \in 1..m - k : k + 1 + i - 1 = k + i
  BY <1>1
<1>6. QED BY <1>3, <1>4, <1>5 DEF t

LEMMA Joined ==
  ASSUME NEW S, NEW s \in Seq(S), NEW t \in Seq(S)
  PROVE  /\ s \o t \in Seq(S) /\ Len(s \o t) = Len(s) + Len(t)
         /\ \A i \in 1..Len(s) : (s \o t)[i] = s[i]
         /\ \A i \in 1..Len(t) : (s \o t)[Len(s) + i] = t[i]
<1> DEFINE k == Len(s)
           m == Len(t)
           st == s \o t
<1>1. st \in Seq(S) /\ Len(st) = k + m
  BY ConcatProperties
<1>2. \A i \in 1..k + m : st[i] = IF i <= k THEN s[i] ELSE t[i - k]
  BY ConcatProperties
<1>3. k \in Nat /\ m \in Nat
  OBVIOUS
<1> HIDE DEF k, m, st
<1>4. \A i \in 1..k : st[i] = s[i]
  BY <1>2, <1>3
<1>5. \A i \in 1..m : st[k + i] = t[i]
  <2> TAKE i \in 1..m
  <2>1. k + i \in 1..k + m /\ ~(k + i <= k) /\ (k + i) - k = i
    BY <1>3
  <2>2. QED BY <1>2, <2>1
<1>6. QED BY <1>1, <1>4, <1>5 DEF k, m, st

(* The beginning of a sequence, with one element more. *)
LEMMA Started ==
  ASSUME NEW S, NEW s \in Seq(S), NEW k \in 0..Len(s), NEW e \in S
  PROVE  LET t == Append(SubSeq(s, 1, k), e)
         IN  /\ t \in Seq(S) /\ Len(t) = k + 1
             /\ \A i \in 1..k : t[i] = s[i]
             /\ t[k + 1] = e
<1> DEFINE u == SubSeq(s, 1, k)
<1>1. u \in Seq(S) /\ Len(u) = k /\ \A i \in 1..k : u[i] = s[i]
  <2>1. 0 \in 0..Len(s) /\ k \in 0..Len(s) /\ 0 + 1 = 1 /\ k - 0 = k
        /\ \A i \in 1..k : 0 + i = i
    OBVIOUS
  <2>2. QED BY <2>1, Part
<1> HIDE DEF u
<1>2. k \in Nat
  OBVIOUS
<1>3. QED BY <1>1, <1>2, AppendProperties DEF u

-----------------------------------------------------------------------------
(* Words: what parse_word returns is made of the letters of the line. *)
LEMMA MinIs ==
  ASSUME NEW T \in SUBSET Nat, T # {}
  PROVE  Min(T) \in T /\ \A i \in T : Min(T) <= i
<1>1. \E x \in T : \A y \in T : x <= y
  BY SmallestNumber
<1>2. QED BY <1>1 DEF Min

LEMMA BeforeIs ==
  ASSUME NEW ptr \in Strings, NEW stop
  PROVE  /\ Before(ptr, stop) \in 0..Len(ptr)
         /\ \A i \in 1..Before(ptr, stop) : ptr[i] \notin stop
         /\ Before(ptr, stop) < Len(ptr) => ptr[Before(ptr, stop) + 1] \in stop
<1> DEFINE n == Len(ptr)
           T == {i \in 1..n : ptr[i] \in stop} \cup {n + 1}
<1>1. n \in Nat
  BY DEF Strings
<1> HIDE DEF n
<1>2. T \in SUBSET Nat /\ T # {}
  BY <1>1
<1>3. Min(T) \in T /\ \A i \in T : Min(T) <= i
  <2> HIDE DEF T
  <2>1. QED BY <1>2, MinIs
<1>4. Before(ptr, stop) = Min(T) - 1
  BY DEF Before, n
<1> DEFINE m == Min(T)
<1> HIDE DEF m
<1>5. m \in T /\ \A i \in T : m <= i
  BY <1>3 DEF m
<1>6. m \in 1..n + 1 /\ (m < n + 1 => ptr[m] \in stop)
  BY <1>1, <1>5
<1>7. \A i \in 1..m - 1 : ptr[i] \notin stop
  <2> TAKE i \in 1..m - 1
  <2>1. i \in 1..n /\ ~(m <= i)
    BY <1>1, <1>6
  <2>2. QED BY <1>5, <2>1
<1>8. m - 1 \in 0..n /\ (m - 1 < n => m < n + 1) /\ m - 1 + 1 = m
  BY <1>1, <1>6
<1>9. QED BY <1>4, <1>6, <1>7, <1>8 DEF m, n

(* What is left of a line behind its first j characters. *)
LEMMA FromIs ==
  ASSUME NEW ptr \in Strings, NEW j \in 0..Len(ptr)
  PROVE  /\ From(ptr, j + 1) \in Strings /\ Len(From(ptr, j + 1)) = Len(ptr) - j
         /\ \A i \in 1..Len(ptr) - j : From(ptr, j + 1)[i] = ptr[j + i]
<1>1. ptr \in Seq(Letters) /\ Len(ptr) \in j..Len(ptr)
  BY DEF Strings
<1>2. QED BY <1>1, Part DEF From, Strings

LEMMA AtIs ==
  ASSUME NEW ptr \in Strings
  PROVE  /\ ptr = <<>> => At(ptr) = Zero
         /\ Len(ptr) > 0 => At(ptr) = ptr[1] /\ ptr # <<>>
         /\ ptr # <<>> => Len(ptr) > 0
  BY DEF At, Strings

LEMMA RmFirstSpacesIs ==
  ASSUME NEW ptr \in Strings
  PROVE  \E j \in 0..Len(ptr) :
           /\ RmFirstSpaces(ptr) = From(ptr, j + 1)
           /\ \A i \in 1..j : ptr[i] \in Blanks
           /\ j < Len(ptr) => ptr[j + 1] \notin Blanks
<1> DEFINE n == Len(ptr)
           T == {i \in 1..n : ptr[i] \notin Blanks} \cup {n + 1}
<1>1. n \in Nat
  BY DEF Strings
<1> HIDE DEF n
<1>2. T \in SUBSET Nat /\ T # {}
  BY <1>1
<1>3. Min(T) \in T /\ \A i \in T : Min(T) <= i
  <2> HIDE DEF T
  <2>1. QED BY <1>2, MinIs
<1>4. RmFirstSpaces(ptr) = From(ptr, Min(T))
  BY DEF RmFirstSpaces, n
<1> DEFINE m == Min(T)
<1> HIDE DEF m
<1>5. m \in T /\ \A i \in T : m <= i
  BY <1>3 DEF m
<1>6. m \in 1..n + 1 /\ (m < n + 1 => ptr[m] \notin Blanks)
  BY <1>1, <1>5
<1>7. \A i \in 1..m - 1 : ptr[i] \in Blanks
  <2> TAKE i \in 1..m - 1
  <2>1. i \in 1..n /\ ~(m <= i)
    BY <1>1, <1>6
  <2>2. QED BY <1>5, <2>1
<1>8. m - 1 \in 0..n /\ (m - 1 < n => m < n + 1) /\ m - 1 + 1 = m
  BY <1>1, <1>6
<1>9. RmFirstSpaces(ptr) = From(ptr, (m - 1) + 1)
  BY <1>4, <1>8 DEF m
<1>10. \A i \in 1..m - 1 : ptr[i] \in Blanks
  BY <1>7
<1>11. m - 1 < n => ptr[(m - 1) + 1] \notin Blanks
  BY <1>6, <1>8
<1>12. QED BY <1>8, <1>9, <1>10, <1>11 DEF n

LEMMA RmFirstSpacesType ==
  ASSUME NEW ptr \in Strings
  PROVE  RmFirstSpaces(ptr) \in Strings
<1>1. PICK j \in 0..Len(ptr) : RmFirstSpaces(ptr) = From(ptr, j + 1)
  BY RmFirstSpacesIs
<1>2. QED BY <1>1, FromIs

LEMMA TailType ==
  ASSUME NEW ptr \in Strings, ptr # <<>>
  PROVE  Tail(ptr) \in Strings
  BY HeadTailProperties DEF Strings

WordTypes == {"parameter", "section", "value"}

LEMMA ParseWordType ==
  ASSUME NEW ptr \in Strings, NEW type \in WordTypes, ParseWord(ptr, type).ok
  PROVE  /\ ParseWord(ptr, type).word \in Strings
         /\ ParseWord(ptr, type).rest \in Strings
         /\ type = "section" => At(ParseWord(ptr, type).rest) = "]"
<1> DEFINE quoted == At(ptr) \in Quotes
           body == IF quoted THEN Tail(ptr) ELSE ptr
           len == Before(body, IF quoted THEN {Head(ptr)} ELSE Stops(type))
           word == SubSeq(body, 1, len)
           rest == RmFirstSpaces(From(body, len + (IF quoted THEN 2 ELSE 1)))
<1>1. body \in Strings
  <2>1. quoted => ptr # <<>>
    BY DEF At, Quotes, Zero
  <2>2. QED BY <2>1, TailType
<1> HIDE DEF body
<1>2. len \in 0..Len(body)
  BY <1>1, BeforeIs
<1> HIDE DEF len
<1>3. word \in Strings
  <2>1. body \in Seq(Letters) /\ 0 \in 0..Len(body) /\ len \in 0..Len(body) /\ 0 + 1 = 1
    BY <1>1, <1>2 DEF Strings
  <2>2. QED BY <2>1, Part DEF Strings
<1>4. ~(quoted /\ len = Len(body))
  BY DEF ParseWord, Failed, body, len
<1>5. From(body, len + (IF quoted THEN 2 ELSE 1)) \in Strings
  <2>1. CASE quoted
    <3>1. len + 1 \in 0..Len(body) /\ (len + 1) + 1 = len + 2
      BY <1>2, <1>4, <2>1, <1>1 DEF Strings
    <3>2. QED BY <1>1, <2>1, <3>1, FromIs
  <2>2. CASE ~quoted
    BY <1>1, <1>2, <2>2, FromIs
  <2>3. QED BY <2>1, <2>2
<1>6. rest \in Strings
  BY <1>5, RmFirstSpacesType
<1> HIDE DEF word, rest
<1>7. ParseWord(ptr, type) =
        CASE type = "parameter" /\ At(rest) = "=" -> Word(word, RmFirstSpaces(Tail(rest)))
          [] type = "section" /\ At(rest) = "]" -> Word(word, rest)
          [] type = "value" /\ Ends(rest) -> Word(word, rest)
          [] OTHER -> Failed(TRUE)
  BY <1>4 DEF ParseWord, body, len, word, rest
<1>8. CASE type = "parameter" /\ At(rest) = "="
  <2>1. rest # <<>>
    BY <1>8 DEF At, Zero
  <2>2. RmFirstSpaces(Tail(rest)) \in Strings
    BY <1>6, <2>1, TailType, RmFirstSpacesType
  <2>3. ParseWord(ptr, type) = Word(word, RmFirstSpaces(Tail(rest)))
    BY <1>7, <1>8
  <2>4. QED BY <1>3, <1>8, <2>2, <2>3 DEF Word
<1>9. CASE type = "section" /\ At(rest) = "]"
  <2>1. ParseWord(ptr, type) = Word(word, rest)
    BY <1>7, <1>9
  <2>2. QED BY <1>3, <1>6, <1>9, <2>1 DEF Word
<1>10. CASE type = "value" /\ Ends(rest)
  <2>1. ParseWord(ptr, type) = Word(word, rest)
    BY <1>7, <1>10
  <2>2. QED BY <1>3, <1>6, <1>10, <2>1 DEF Word
<1>11. CASE ~(type = "parameter" /\ At(rest) = "=") /\ ~(type = "section" /\ At(rest) = "]")
            /\ ~(type = "value" /\ Ends(rest))
  <2>1. ParseWord(ptr, type) = Failed(TRUE)
    BY <1>7, <1>11
  <2>2. QED BY <2>1 DEF Failed
<1>12. QED BY <1>8, <1>9, <1>10, <1>11

-----------------------------------------------------------------------------
(* The functions that the model defines from each value to the next. *)
LEMMA FlattenIs ==
  ASSUME NEW T, NEW s \in Seq(Seq(T)), s # <<>>
  PROVE  \E f \in [1..Len(s) -> Seq(T)] :
           /\ f[1] = s[1] /\ \A i \in 2..Len(s) : f[i] = f[i - 1] \o s[i]
           /\ FlattenSeq(s) = f[Len(s)]
<1> DEFINE n == Len(s)
           g == [e \in (2..n) \X Seq(T) |-> e[2] \o s[e[1]]]
           Rec(h) == h = [i \in 1..n |-> IF i = 1 THEN s[i] ELSE h[i - 1] \o s[i]]
<1>1. n \in Nat /\ n # 0 /\ 1 <= n /\ 1 \in 1..n /\ \A i \in 1..n : s[i] \in Seq(T)
  OBVIOUS
<1> HIDE DEF n
<1>2. g \in [(2..n) \X Seq(T) -> Seq(T)]
  <2>1. ASSUME NEW i \in 2..n, NEW t \in Seq(T) PROVE t \o s[i] \in Seq(T)
    <3>1. i \in 1..n
      BY <1>1
    <3>2. QED BY <1>1, <3>1, ConcatProperties
  <2>2. QED BY <2>1
<1>3. PICK f \in [1..n -> Seq(T)] :
        f[1] = s[1] /\ \A i \in 2..n : f[i] = g[<<i, f[i - 1]>>]
  <2> HIDE DEF g
  <2>1. 1 \in Nat /\ 2 \in Nat /\ 2 = 1 + 1 /\ s[1] \in Seq(T)
    BY <1>1
  <2>2. \E f : Follows(f, 1, 2, n, Seq(T), s[1], g)
    BY <1>1, <1>2, <2>1, Recursion
  <2>3. QED BY <2>2 DEF Follows
<1>4. \A i \in 2..n : f[i] = f[i - 1] \o s[i]
  <2> TAKE i \in 2..n
  <2>1. i - 1 \in 1..n
    BY <1>1
  <2>2. <<i, f[i - 1]>> \in (2..n) \X Seq(T)
    BY <1>3, <2>1
  <2>3. QED BY <1>3, <2>1, <2>2
<1>5. Rec(f)
  <2>1. \A i \in 1..n : f[i] = IF i = 1 THEN s[i] ELSE f[i - 1] \o s[i]
    <3> TAKE i \in 1..n
    <3>1. i # 1 => i \in 2..n
      BY <1>1
    <3>2. QED BY <1>3, <1>4, <3>1
  <2>2. QED BY <1>3, <2>1
<1>6. ASSUME NEW h, Rec(h) PROVE h[n] = f[n]
  <2> DEFINE U == {i \in 1..n : h[i] = f[i]}
  <2>1. \A i \in 1..n : h[i] = IF i = 1 THEN s[i] ELSE h[i - 1] \o s[i]
    BY <1>6
  <2>2. 1 \in U
    BY <1>1, <1>3, <2>1
  <2>3. ASSUME NEW i \in 1 + 1..n, i - 1 \in U PROVE i \in U
    <3>1. i \in 1..n /\ i \in 2..n /\ i # 1 /\ h[i - 1] = f[i - 1]
      BY <1>1, <2>3
    <3>2. h[i] = h[i - 1] \o s[i]
      BY <2>1, <3>1
    <3>3. QED BY <1>4, <3>1, <3>2
  <2>4. \A i \in 1..n : i \in U
    <3> HIDE DEF U
    <3>1. QED BY <1>1, <2>2, <2>3, Upward
  <2>5. n \in 1..n
    BY <1>1
  <2>6. QED BY <2>4, <2>5
<1>7. FlattenSeq(s) = (CHOOSE h : Rec(h))[n]
  BY <1>1 DEF FlattenSeq, n
<1>8. Rec(CHOOSE h : Rec(h))
  <2> HIDE DEF Rec
  <2>1. QED BY <1>5
<1>9. FlattenSeq(s) = f[n]
  <2> HIDE DEF Rec
  <2>1. QED BY <1>6, <1>7, <1>8
<1>10. QED BY <1>3, <1>4, <1>9 DEF n

LEMMA FlattenType ==
  ASSUME NEW T, NEW s \in Seq(Seq(T))
  PROVE  FlattenSeq(s) \in Seq(T)
<1>1. CASE s = <<>>
  BY <1>1 DEF FlattenSeq
<1>2. CASE s # <<>>
  <2>1. PICK f \in [1..Len(s) -> Seq(T)] : FlattenSeq(s) = f[Len(s)]
    BY <1>2, FlattenIs
  <2>2. Len(s) \in 1..Len(s)
    BY <1>2
  <2>3. QED BY <2>1, <2>2
<1>3. QED BY <1>1, <1>2

(* strcasecmp finds a name again after it was folded. *)
LEMMA ToLowerIs ==
  /\ DOMAIN ToLower = Range(Upper)
  /\ \A c \in Range(Upper) : ToLower[c] \in Letters /\ ToLower[c] \notin Range(Upper)
<1>1. DOMAIN Upper = 1..26 /\ DOMAIN Lower = 1..26
  BY DEF Upper, Lower
<1>2. \A i, j \in 1..26 : Lower[i] # Upper[j]
  <2>1. \A i \in 1..26 : Lower[i] \in {"a", "b", "c", "d", "e", "f", "g", "h", "i", "j", "k", "l",
                                       "m", "n", "o", "p", "q", "r", "s", "t", "u", "v", "w", "x",
                                       "y", "z"}
    BY DEF Lower
  <2>2. \A i \in 1..26 : Upper[i] \in {"A", "B", "C", "D", "E", "F", "G", "H", "I", "J", "K", "L",
                                       "M", "N", "O", "P", "Q", "R", "S", "T", "U", "V", "W", "X",
                                       "Y", "Z"}
    BY DEF Upper
  <2>3. QED BY <2>1, <2>2
<1>3. ASSUME NEW c \in Range(Upper) PROVE \E i \in 1..26 : ToLower[c] = Lower[i]
  <2>1. \E i \in DOMAIN Upper : Upper[i] = c
    BY DEF Range
  <2> DEFINE k == CHOOSE k \in DOMAIN Upper : Upper[k] = c
  <2>2. k \in DOMAIN Upper
    BY <2>1
  <2>3. ToLower[c] = Lower[k]
    BY DEF ToLower
  <2> HIDE DEF k
  <2>4. QED BY <1>1, <2>2, <2>3
<1>4. \A i \in 1..26 : Lower[i] \in Letters /\ Lower[i] \notin Range(Upper)
  <2> TAKE i \in 1..26
  <2>1. Lower[i] \in Range(Lower)
    BY <1>1 DEF Range
  <2>2. Range(Lower) \subseteq Letters
    BY LettersAssumption
  <2>3. \A j \in DOMAIN Upper : Lower[i] # Upper[j]
    BY <1>1, <1>2
  <2>4. QED BY <2>1, <2>2, <2>3 DEF Range
<1>5. DOMAIN ToLower = Range(Upper)
  BY DEF ToLower
<1>6. QED BY <1>3, <1>4, <1>5

LEMMA FoldIs ==
  ASSUME NEW word \in Strings
  PROVE  Fold(word) \in Strings /\ Fold(Fold(word)) = Fold(word)
<1> DEFINE n == Len(word)
           low(c) == IF c \in DOMAIN ToLower THEN ToLower[c] ELSE c
           f == Fold(word)
<1>1. n \in Nat /\ DOMAIN word = 1..n /\ \A i \in 1..n : word[i] \in Letters
  BY DEF Strings
<1> HIDE DEF n
<1>2. \A c \in Letters : low(c) \in Letters /\ low(c) \notin DOMAIN ToLower
  BY ToLowerIs
<1>3. f = [i \in 1..n |-> low(word[i])]
  BY <1>1 DEF Fold
<1>4. Fold(f) = [i \in DOMAIN f |-> low(f[i])]
  BY DEF Fold
<1>5. \A c : c \notin DOMAIN ToLower => low(c) = c
  OBVIOUS
<1> HIDE DEF low, f
<1>6. f \in [1..n -> Letters] /\ DOMAIN f = 1..n
  BY <1>1, <1>2, <1>3
<1>7. \A i \in 1..n : low(f[i]) = f[i]
  BY <1>1, <1>2, <1>3, <1>5
<1>8. Fold(f) = f
  <2>1. f = [i \in 1..n |-> f[i]]
    BY <1>6
  <2>2. Fold(f) = [i \in 1..n |-> low(f[i])]
    BY <1>4, <1>6
  <2>3. QED BY <1>7, <2>1, <2>2
<1>9. f \in Strings
  BY <1>1, <1>6, SeqDef DEF Strings
<1>10. QED BY <1>8, <1>9 DEF f

(* What strtol takes for the digits of a number are letters of the word. *)
LEMMA DigitIs ==
  ASSUME NEW base \in {8, 10, 16}, NEW c \in DigitsOf(base)
  PROVE  Digit(c) \in 0..15
<1>1. DOMAIN Figures = 1..16
  BY DEF Figures
<1>2. \E i \in DOMAIN Figures : Figures[i] = c
  BY <1>1 DEF DigitsOf
<1>3. (CHOOSE i \in DOMAIN Figures : Figures[i] = c) \in 1..16
  <2> HIDE DEF Figures
  <2>1. QED BY <1>1, <1>2
<1>4. QED BY <1>3 DEF Digit

LEMMA UnsignedType ==
  ASSUME NEW word \in Strings
  PROVE  Trimmed(word) \in Strings /\ Unsigned(word) \in Strings
<1>1. Trimmed(word) \in Strings
  BY BeforeIs, FromIs DEF Trimmed
<1>2. HasSign(word) => Trimmed(word) # <<>>
  BY DEF HasSign, At, Zero
<1>3. QED BY <1>1, <1>2, TailType DEF Unsigned

LEMMA BodyIs ==
  ASSUME NEW word \in Strings, IsNumber(word)
  PROVE  /\ Body(word) \in Strings /\ Base(word) \in {8, 10, 16}
         /\ \A i \in 1..Len(Body(word)) : Body(word)[i] \in DigitsOf(Base(word))
<1> DEFINE u == Unsigned(word)
           j == IF HasPrefix(word) THEN 2 ELSE 0
           x == From(u, j + 1)
<1>1. u \in Strings /\ Len(u) \in Nat
  BY UnsignedType DEF Strings
<1>2. j \in 0..Len(u)
  BY <1>1 DEF HasPrefix
<1>3. x \in Strings /\ Len(x) = Len(u) - j
  <2> HIDE DEF u, j
  <2>1. QED BY <1>1, <1>2, FromIs
<1>4. Body(word) = Fold(x)
  BY DEF Body
<1>5. Body(word) \in Strings
  BY <1>3, <1>4, FoldIs
<1>6. Base(word) \in {8, 10, 16}
  BY DEF Base
<1>7. CASE word = <<>>
  <2>1. Trimmed(word) \in Strings /\ Len(Trimmed(word)) = 0
    <3> DEFINE b == Before(word, Letters \ (Blanks \cup {Newline}))
    <3>1. b \in 0..Len(word) /\ Trimmed(word) = From(word, b + 1)
      BY BeforeIs DEF Trimmed
    <3> HIDE DEF b
    <3>2. Len(Trimmed(word)) = Len(word) - b /\ Len(word) = 0 /\ b = 0
      BY <1>7, <3>1, FromIs
    <3>3. QED BY <3>2, UnsignedType
  <2>2. Trimmed(word) = <<>>
    BY <2>1 DEF Strings
  <2>3. u = <<>>
    BY <2>2 DEF Unsigned, HasSign, At, Zero
  <2>4. Len(x) = 0
    <3>1. Len(u) = 0
      BY <2>3
    <3> HIDE DEF u
    <3>2. j = 0
      BY <1>1, <3>1 DEF HasPrefix, u
    <3>3. QED BY <1>3, <3>1, <3>2
  <2>5. DOMAIN Fold(x) = {}
    <3> HIDE DEF x
    <3>1. DOMAIN x = {}
      BY <1>3, <2>4 DEF Strings
    <3>2. QED BY <3>1 DEF Fold
  <2>6. DOMAIN Body(word) = 1..Len(Body(word))
    BY <1>5 DEF Strings
  <2>7. 1..Len(Body(word)) = {}
    BY <1>4, <2>5, <2>6
  <2>8. QED BY <1>5, <1>6, <2>7
<1>8. CASE word # <<>>
  <2>1. Range(Body(word)) \subseteq DigitsOf(Base(word))
    BY <1>8 DEF IsNumber
  <2>2. \A i \in 1..Len(Body(word)) : Body(word)[i] \in Range(Body(word))
    BY <1>5 DEF Range, Strings
  <2>3. QED BY <1>5, <1>6, <2>1, <2>2
<1>9. QED BY <1>7, <1>8

LEMMA NumberType ==
  ASSUME NEW word \in Strings, IsNumber(word)
  PROVE  Number(word) \in Int
<1> DEFINE body == Body(word)
           base == Base(word)
           n == Len(body)
           g == [e \in (1..n) \X Nat |-> base * e[2] + Digit(body[e[1]])]
           Rec(h) == h = [i \in 0..n |-> IF i = 0 THEN 0
                                                  ELSE base * h[i - 1] + Digit(body[i])]
<1>1. n \in Nat /\ base \in Nat /\ \A i \in 1..n : Digit(body[i]) \in 0..15
  <2>1. body \in Strings /\ base \in {8, 10, 16} /\ \A i \in 1..n : body[i] \in DigitsOf(base)
    BY BodyIs
  <2> HIDE DEF body, base
  <2>2. n \in Nat
    BY <2>1 DEF Strings
  <2>3. ASSUME NEW i \in 1..n PROVE Digit(body[i]) \in 0..15
    <3> DEFINE c == body[i]
    <3>1. c \in DigitsOf(base)
      BY <2>1
    <3> HIDE DEF c
    <3>2. Digit(c) \in 0..15
      BY <2>1, <3>1, DigitIs
    <3>3. QED BY <3>2 DEF c
  <2>4. QED BY <2>1, <2>2, <2>3
<1> HIDE DEF n, base, body
<1>2. g \in [(1..n) \X Nat -> Nat]
  <2>1. ASSUME NEW i \in 1..n, NEW t \in Nat PROVE base * t + Digit(body[i]) \in Nat
    <3>1. i \in 1..n
      BY <1>1
    <3>2. QED BY <1>1, <3>1
  <2>2. QED BY <2>1
<1>3. PICK f \in [0..n -> Nat] :
        f[0] = 0 /\ \A i \in 1..n : f[i] = g[<<i, f[i - 1]>>]
  <2> HIDE DEF g
  <2>1. 0 \in Nat /\ 1 \in Nat /\ 1 = 0 + 1 /\ 0 <= n
    BY <1>1
  <2>2. \E f : Follows(f, 0, 1, n, Nat, 0, g)
    BY <1>1, <1>2, <2>1, Recursion
  <2>3. QED BY <2>2 DEF Follows
<1>4. Rec(f)
  <2>1. \A i \in 0..n : f[i] = IF i = 0 THEN 0 ELSE base * f[i - 1] + Digit(body[i])
    <3> TAKE i \in 0..n
    <3>1. CASE i = 0
      BY <1>3, <3>1
    <3>2. CASE i # 0
      <4>1. i \in 1..n /\ i - 1 \in 0..n
        BY <1>1, <3>2
      <4>2. <<i, f[i - 1]>> \in (1..n) \X Nat
        BY <1>3, <4>1
      <4>3. QED BY <1>3, <3>2, <4>1, <4>2
    <3>3. QED BY <3>1, <3>2
  <2>2. QED BY <1>3, <2>1
<1>5. Number(word) = (IF At(Trimmed(word)) = "-" THEN -1 ELSE 1) * (CHOOSE h : Rec(h))[n]
  BY DEF Number, n, body, base
<1>6. Rec(CHOOSE h : Rec(h))
  <2> HIDE DEF Rec
  <2>1. QED BY <1>4
<1>7. ASSUME NEW h, Rec(h) PROVE h[n] \in Nat
  <2> DEFINE U == {i \in 0..n : h[i] \in Nat}
  <2>1. \A i \in 0..n : h[i] = IF i = 0 THEN 0 ELSE base * h[i - 1] + Digit(body[i])
    BY <1>7
  <2>2. 0 \in U
    BY <1>1, <2>1
  <2>3. ASSUME NEW i \in 0 + 1..n, i - 1 \in U PROVE i \in U
    <3>1. i \in 0..n /\ i \in 1..n /\ i # 0 /\ h[i - 1] \in Nat
      BY <1>1, <2>3
    <3>2. h[i] = base * h[i - 1] + Digit(body[i])
      <4> HIDE DEF Rec
      <4>1. QED BY <2>1, <3>1
    <3>3. Digit(body[i]) \in 0..15
      BY <1>1, <3>1
    <3> DEFINE t == h[i - 1]
               d == Digit(body[i])
    <3>4. t \in Nat /\ d \in 0..15
      BY <3>1, <3>3
    <3>5. base * t + d \in Nat
      <4> HIDE DEF t, d
      <4>1. QED BY <1>1, <3>4
    <3>6. QED BY <3>1, <3>2, <3>5
  <2>4. \A i \in 0..n : i \in U
    <3> HIDE DEF U
    <3>1. QED BY <1>1, <2>2, <2>3, Upward
  <2>5. n \in 0..n
    BY <1>1
  <2>6. QED BY <2>4, <2>5
<1>8. (CHOOSE h : Rec(h))[n] \in Nat
  <2> HIDE DEF Rec
  <2>1. QED BY <1>6, <1>7
<1>9. QED
  <2> DEFINE t == (CHOOSE h : Rec(h))[n]
  <2>1. t \in Nat
    BY <1>8
  <2>2. Number(word) = (IF At(Trimmed(word)) = "-" THEN -1 ELSE 1) * t
    BY <1>5
  <2> HIDE DEF t
  <2>3. CASE At(Trimmed(word)) = "-"
    BY <2>1, <2>2, <2>3
  <2>4. CASE At(Trimmed(word)) # "-"
    BY <2>1, <2>2, <2>4
  <2>5. QED BY <2>3, <2>4

-----------------------------------------------------------------------------
(* What values are made of. *)
LEMMA Tuples ==
  ASSUME NEW T
  PROVE  /\ \A x \in T : <<x>> \in Seq(T)
         /\ \A x, y, z \in T : <<x, y, z>> \in Seq(T)
         /\ \A x, y, z, w \in T : <<x, y, z, w>> \in Seq(T)
         /\ \A x, y, z, w, v \in T : <<x, y, z, w, v>> \in Seq(T)
  OBVIOUS

LEMMA Written ==
  /\ <<"'">> \in Strings /\ <<"\"">> \in Strings /\ <<"\t", "=", " ">> \in Strings
  /\ <<"[">> \in Strings /\ <<"]">> \in Strings
  /\ <<"T", "r", "u", "e">> \in Strings /\ <<"F", "a", "l", "s", "e">> \in Strings
  /\ Range(Digits) \subseteq Letters
  /\ {"a", "b", "c", "d", "e", "f"} \subseteq Letters
  /\ "-" \in Letters /\ "." \in Letters /\ "0" \in Letters
  /\ <<".">> \in Strings /\ <<"0">> \in Strings
<1>1. {"a", "b", "c", "d", "e", "f", "r", "u", "l", "s"} \subseteq Range(Lower)
  <2>1. DOMAIN Lower = 1..26
    BY DEF Lower
  <2>2. /\ Lower[1] = "a" /\ Lower[2] = "b" /\ Lower[3] = "c" /\ Lower[4] = "d"
        /\ Lower[5] = "e" /\ Lower[6] = "f" /\ Lower[18] = "r" /\ Lower[21] = "u"
        /\ Lower[12] = "l" /\ Lower[19] = "s"
    BY DEF Lower
  <2>3. QED BY <2>1, <2>2 DEF Range
<1>2. {"T", "F"} \subseteq Range(Upper)
  <2>1. DOMAIN Upper = 1..26
    BY DEF Upper
  <2>2. Upper[20] = "T" /\ Upper[6] = "F"
    BY DEF Upper
  <2>3. QED BY <2>1, <2>2 DEF Range
<1>3. /\ Range(Digits) \subseteq Letters /\ Marks \subseteq Letters
      /\ "T" \in Letters /\ "r" \in Letters /\ "u" \in Letters /\ "e" \in Letters
      /\ "F" \in Letters /\ "a" \in Letters /\ "l" \in Letters /\ "s" \in Letters
      /\ {"a", "b", "c", "d", "e", "f"} \subseteq Letters
  BY <1>1, <1>2, LettersAssumption
<1>4. {"\"", "'", "[", "]", "\t", "=", " "} \subseteq Marks
  BY DEF Marks, Blanks, Quotes
<1>5. /\ "\"" \in Letters /\ "'" \in Letters /\ "[" \in Letters /\ "]" \in Letters
      /\ "\t" \in Letters /\ "=" \in Letters /\ " " \in Letters
  BY <1>3, <1>4, Zenon
<1>6. /\ <<"'">> \in Seq(Letters) /\ <<"\"">> \in Seq(Letters)
      /\ <<"[">> \in Seq(Letters) /\ <<"]">> \in Seq(Letters)
      /\ <<"\t", "=", " ">> \in Seq(Letters)
  BY <1>5, Tuples, Zenon
<1>7. <<"T", "r", "u", "e">> \in Seq(Letters) /\ <<"F", "a", "l", "s", "e">> \in Seq(Letters)
  BY <1>3
<1>8. "-" \in Letters /\ "." \in Letters
  BY LettersAssumption
<1>9. "0" \in Letters
  <2>1. DOMAIN Digits = 1..10 /\ Digits[1] = "0"
    BY DEF Digits
  <2>2. QED BY <1>3, <2>1 DEF Range
<1>10. <<".">> \in Seq(Letters) /\ <<"0">> \in Seq(Letters)
  BY <1>8, <1>9, Tuples, Zenon
<1>11. QED BY <1>3, <1>6, <1>7, <1>8, <1>9, <1>10, Zenon DEF Strings

(* The first digits of a fraction, and zeros behind them. *)
LEMMA PlacesType ==
  ASSUME NEW digits \in Strings, NEW n \in Nat
  PROVE  Places(digits, n) \in Strings
<1>1. "0" \in Letters
  BY Written, Zenon
<1>2. \A i \in DOMAIN digits : digits[i] \in Letters
  BY DEF Strings
<1>3. [i \in 1..n |-> IF i \in DOMAIN digits THEN digits[i] ELSE "0"] \in [1..n -> Letters]
  BY <1>1, <1>2
<1>4. QED BY <1>3, SeqDef DEF Places, Strings

LEMMA RealType ==
  ASSUME NEW word \in Strings
  PROVE  /\ RealOf(word).is = "float"
         /\ RealOf(word) \in [is : {"float"}, whole : Strings, fraction : Strings]
<1> DEFINE n == Len(word)
           k == Point(word)
           whole == WholePart(word)
           z == Before(whole, Letters \ {"0"})
<1>1. n \in Nat /\ k \in 0..n
  BY BeforeIs DEF Point, Strings
<1> HIDE DEF n, k
<1>2. whole \in Strings
  <2>1. word \in Seq(Letters) /\ 0 \in 0..Len(word) /\ k \in 0..Len(word) /\ 0 + 1 = 1
    BY <1>1 DEF Strings, n
  <2>2. SubSeq(word, 0 + 1, k) \in Seq(Letters)
    <3> HIDE DEF k
    <3>1. QED BY <2>1, Part
  <2>3. QED BY <2>1, <2>2 DEF WholePart, Strings, k
<1> HIDE DEF whole
<1>3. z \in 0..Len(whole)
  BY <1>2, BeforeIs
<1>4. NoZeros(whole) \in Strings
  <2>1. NoZeros(whole) = From(whole, z + 1)
    BY DEF NoZeros
  <2> HIDE DEF z
  <2>2. QED BY <1>2, <1>3, <2>1, FromIs
<1>5. Fraction(word) \in Strings
  <2>1. Fraction(word) = From(word, k + 2)
    BY DEF Fraction, k
  <2>2. CASE k < n
    <3>1. k + 1 \in 0..Len(word) /\ (k + 1) + 1 = k + 2
      BY <1>1, <2>2 DEF n
    <3>2. QED BY <2>1, <3>1, FromIs
  <2>3. CASE k = n
    <3>1. word \in Seq(Letters) /\ From(word, k + 2) = SubSeq(word, n + 2, n)
      BY <2>3 DEF From, Strings, n
    <3>2. \A i \in n + 2..n : word[i] \in Letters
      BY <1>1
    <3>3. SubSeq(word, n + 2, n) \in Seq(Letters)
      <4>1. n + 2 \in Int /\ n \in Int
        BY <1>1
      <4>2. QED BY <3>1, <3>2, <4>1, SubSeqProperties
    <3>4. QED BY <2>1, <3>1, <3>3 DEF Strings
  <2>4. QED BY <1>1, <2>2, <2>3
<1>6. Places(Fraction(word), DigitsKept) \in Strings
  BY <1>5, PlacesType, FractionAssumption
<1>7. RealOf(word) = Real(NoZeros(whole), Places(Fraction(word), DigitsKept))
  BY DEF RealOf, whole
<1>8. QED BY <1>4, <1>6, <1>7 DEF Real

(* What %d and %f write. *)
LEMMA DecimalType ==
  ASSUME NEW n \in -9..9
  PROVE  Decimal(n) \in Strings
<1>1. DOMAIN Digits = 1..10
  BY DEF Digits
<1>2. \A i \in 1..10 : Digits[i] \in Letters
  <2>1. \A i \in 1..10 : Digits[i] \in Range(Digits)
    BY <1>1 DEF Range
  <2>2. Range(Digits) \subseteq Letters
    BY Written, Zenon
  <2>3. QED BY <2>1, <2>2
<1>3. CASE n < 0
  <2>1. Digits[1 - n] \in Letters
    BY <1>2, <1>3
  <2>2. "-" \in Letters
    BY Written, Zenon
  <2>3. QED BY <1>3, <2>1, <2>2 DEF Decimal, Strings
<1>4. CASE ~(n < 0)
  <2>1. Digits[n + 1] \in Letters
    BY <1>2, <1>4
  <2>2. QED BY <1>4, <2>1 DEF Decimal, Strings
<1>5. QED BY <1>3, <1>4

LEMMA PrintedType ==
  ASSUME NEW real \in [is : {"float"}, whole : Strings, fraction : Strings]
  PROVE  Printed(real) \in Strings
<1> DEFINE whole == IF real.whole = <<>> THEN <<"0">> ELSE real.whole
           places == Places(real.fraction, DigitsWritten)
<1>1. whole \in Seq(Letters)
  <2>1. <<"0">> \in Strings
    BY Written, Zenon
  <2>2. real.whole \in Strings
    OBVIOUS
  <2>3. QED BY <2>1, <2>2 DEF Strings
<1>2. places \in Seq(Letters)
  BY PlacesType, FractionAssumption DEF Strings
<1>3. <<".">> \in Seq(Letters)
  BY Written, Zenon DEF Strings
<1>4. Printed(real) = whole \o <<".">> \o places
  BY DEF Printed
<1> HIDE DEF whole, places
<1>5. whole \o <<".">> \in Seq(Letters)
  BY <1>1, <1>3, ConcatProperties
<1>6. QED BY <1>2, <1>4, <1>5, ConcatProperties DEF Strings

-----------------------------------------------------------------------------
(* Parameters and their values. *)
KindsOfValue == {"string", "int", "float", "bool", "list"}

LEMMA TypesIs ==
  /\ \A p \in Params : p \in Strings /\ Fold(p) = p /\ Types[p] \in KindsOfValue
  /\ DOMAIN Types = Params
  /\ \A i \in DOMAIN Table : Table[i].name \in Strings /\ Fold(Table[i].name) \in Params
<1>1. \A i \in DOMAIN Table : Table[i] \in [name : Strings, type : KindsOfValue]
  <2> DEFINE Rows == [name : Strings, type : KindsOfValue]
  <2>1. Table \in Seq(Rows)
    BY TableAssumption DEF KindsOfValue
  <2> HIDE DEF Rows
  <2>2. \A i \in DOMAIN Table : Table[i] \in Rows
    BY <2>1
  <2>3. QED BY <2>2 DEF Rows
<1>2. \A i \in DOMAIN Table : Table[i].name \in Strings /\ Table[i].type \in KindsOfValue
  BY <1>1
<1>3. ASSUME NEW p \in Params PROVE p \in Strings /\ Fold(p) = p /\ Types[p] \in KindsOfValue
  <2>1. \E i \in DOMAIN Table : Fold(Table[i].name) = p
    BY DEF Params
  <2> DEFINE i == CHOOSE i \in DOMAIN Table : Fold(Table[i].name) = p
  <2>2. i \in DOMAIN Table /\ Fold(Table[i].name) = p
    BY <2>1
  <2>3. Types[p] = Table[i].type
    BY DEF Types
  <2> HIDE DEF i
  <2>4. p \in Strings /\ Fold(p) = p
    BY <1>2, <2>2, FoldIs
  <2>5. QED BY <1>2, <2>2, <2>3, <2>4
<1>4. QED BY <1>2, <1>3 DEF Types, Params

LEMMA ValueOfIs ==
  /\ ValueOf("string") = {Null} \cup [is : {"string"}, string : Strings]
  /\ ValueOf("int") = [is : {"int"}, int : -IntMax - 1..IntMax]
  /\ ValueOf("float") = [is : {"float"}, whole : Strings, fraction : Strings]
  /\ ValueOf("bool") = [is : {"int"}, int : -1..1]
  /\ ValueOf("list") = [is : {"list"}, list : Seq(Strings)]
  /\ \A type \in KindsOfValue : ValueOf(type) \subseteq Value
  BY DEF ValueOf, Value, KindsOfValue

LEMMA DefaultType == Default \in Settings
<1>1. ASSUME NEW p \in Params PROVE Default[p] \in ValueOf(Types[p]) /\ Default[p] \in Value
  <2>1. Types[p] \in KindsOfValue
    BY TypesIs
  <2>2. CASE Types[p] = "string"
    <3>1. Default[p] = Null
      BY <2>2 DEF Default
    <3>2. QED BY <2>1, <2>2, <3>1, ValueOfIs
  <2>3. CASE Types[p] = "int"
    <3>1. Default[p] = Num(0)
      BY <2>3 DEF Default
    <3>2. Num(0) \in [is : {"int"}, int : -IntMax - 1..IntMax]
      BY IntMaxAssumption DEF Num
    <3>3. QED BY <2>1, <2>3, <3>1, <3>2, ValueOfIs
  <2>4. CASE Types[p] = "bool"
    <3>1. Default[p] = Num(-1)
      BY <2>4 DEF Default
    <3>2. Num(-1) \in [is : {"int"}, int : -1..1]
      BY DEF Num
    <3>3. QED BY <2>1, <2>4, <3>1, <3>2, ValueOfIs
  <2>5. CASE Types[p] = "list"
    <3>1. Default[p] = List(<<>>)
      BY <2>5 DEF Default
    <3>2. List(<<>>) \in [is : {"list"}, list : Seq(Strings)]
      BY DEF List
    <3>3. QED BY <2>1, <2>5, <3>1, <3>2, ValueOfIs
  <2>6. CASE Types[p] = "float"
    <3>1. Default[p] = Real(<<>>, Places(<<>>, DigitsKept))
      BY <2>6 DEF Default
    <3>2. <<>> \in Strings
      BY DEF Strings
    <3>3. Places(<<>>, DigitsKept) \in Strings
      BY <3>2, PlacesType, FractionAssumption
    <3>4. Default[p] \in [is : {"float"}, whole : Strings, fraction : Strings]
      BY <3>1, <3>2, <3>3 DEF Real
    <3>5. QED BY <2>1, <2>6, <3>4, ValueOfIs
  <2>7. QED BY <2>1, <2>2, <2>3, <2>4, <2>5, <2>6 DEF KindsOfValue
<1>2. Default \in [Params -> Value]
  <2> DEFINE D(p) == CASE Types[p] = "string" -> Null
                       [] Types[p] = "int"    -> Num(0)
                       [] Types[p] = "float"  -> Real(<<>>, Places(<<>>, DigitsKept))
                       [] Types[p] = "bool"   -> Num(-1)
                       [] Types[p] = "list"   -> List(<<>>)
  <2>1. Default = [p \in Params |-> D(p)]
    BY DEF Default
  <2> HIDE DEF D
  <2>2. \A p \in Params : D(p) \in Value
    <3>1. \A p \in Params : Default[p] = D(p)
      BY <2>1
    <3>2. QED BY <1>1, <3>1
  <2>3. QED BY <2>1, <2>2
<1>3. QED BY <1>1, <1>2 DEF Settings

LEMMA StoredType ==
  ASSUME NEW p \in Strings, NEW word \in Strings, Accepted(p, word),
         NEW old \in ValueOf(Types[Fold(p)])
  PROVE  /\ Fold(p) \in Params
         /\ Stored(Fold(p), old, word) \in ValueOf(Types[Fold(p)])
<1> DEFINE q == Fold(p)
<1>1. q \in Params /\ Types[q] \in KindsOfValue
  BY TypesIs DEF Accepted
<1>2. /\ Types[q] = "int" => IsNumber(word) /\ Number(word) \in -IntMax - 1..IntMax
      /\ Types[q] = "bool" => Fold(word) \in True \cup False
  BY DEF Accepted
<1> HIDE DEF q
<1>3. CASE Types[q] = "string"
  <2>1. Stored(q, old, word) = Text(word)
    BY <1>3 DEF Stored
  <2>2. Text(word) \in [is : {"string"}, string : Strings]
    BY DEF Text
  <2>3. QED BY <1>1, <1>3, <2>1, <2>2, ValueOfIs DEF q
<1>4. CASE Types[q] = "int"
  <2>1. Stored(q, old, word) = Num(Number(word))
    BY <1>4 DEF Stored
  <2>2. Number(word) \in -IntMax - 1..IntMax
    BY <1>2, <1>4
  <2>3. Num(Number(word)) \in [is : {"int"}, int : -IntMax - 1..IntMax]
    BY <2>2 DEF Num
  <2>4. QED BY <1>1, <1>4, <2>1, <2>3, ValueOfIs DEF q
<1>5. CASE Types[q] = "bool"
  <2>1. Stored(q, old, word) = Num(IF Fold(word) \in True THEN 1 ELSE 0)
    BY <1>5 DEF Stored
  <2>2. Num(IF Fold(word) \in True THEN 1 ELSE 0) \in [is : {"int"}, int : -1..1]
    BY DEF Num
  <2>3. QED BY <1>1, <1>5, <2>1, <2>2, ValueOfIs DEF q
<1>6. CASE Types[q] = "list"
  <2>1. Stored(q, old, word) = List(Append(old.list, word))
    BY <1>6 DEF Stored
  <2>2. old \in [is : {"list"}, list : Seq(Strings)]
    BY <1>6, ValueOfIs DEF q
  <2>3. Append(old.list, word) \in Seq(Strings)
    BY <2>2, AppendProperties
  <2>4. List(Append(old.list, word)) \in [is : {"list"}, list : Seq(Strings)]
    BY <2>3 DEF List
  <2>5. QED BY <1>1, <1>6, <2>1, <2>4, ValueOfIs DEF q
<1>7. CASE Types[q] = "float"
  <2>1. Stored(q, old, word) = RealOf(word)
    BY <1>7 DEF Stored
  <2>2. QED BY <1>1, <1>7, <2>1, RealType, ValueOfIs DEF q
<1>8. QED BY <1>1, <1>3, <1>4, <1>5, <1>6, <1>7 DEF KindsOfValue, q

LEMMA StoreType ==
  ASSUME NEW p \in Strings, NEW word \in Strings, NEW s \in 1..Len(values),
         values \in Seq(Settings), Accepted(p, word), StoreValue(p, word, s)
  PROVE  /\ values' \in Seq(Settings) /\ Len(values') = Len(values)
         /\ Fold(p) \in Params
         /\ values'[s] = [values[s] EXCEPT ![Fold(p)] = Stored(Fold(p), values[s][Fold(p)], word)]
         /\ \A i \in 1..Len(values) : i # s => values'[i] = values[i]
<1> DEFINE q == Fold(p)
           v == values[s]
           w == [v EXCEPT ![q] = Stored(q, v[q], word)]
<1>1. v \in Settings
  BY ElementOfSeq
<1>2. v \in [Params -> Value] /\ \A r \in Params : v[r] \in ValueOf(Types[r])
  BY <1>1 DEF Settings
<1>3. q \in Params /\ Types[q] \in KindsOfValue
  BY TypesIs DEF Accepted
<1>4. Stored(q, v[q], word) \in ValueOf(Types[q])
  BY <1>2, <1>3, StoredType
<1>5. Stored(q, v[q], word) \in Value
  BY <1>3, <1>4, ValueOfIs
<1> HIDE DEF q, v
<1>6. w \in Settings
  BY <1>2, <1>3, <1>4, <1>5 DEF Settings
<1>7. values' = [values EXCEPT ![s] = w]
  BY DEF StoreValue, q, v
<1> HIDE DEF w
<1>8. QED BY <1>3, <1>6, <1>7, ExceptSeq DEF q, v, w

LEMMA AllocType ==
  ASSUME NEW n \in 0..Len(values), values \in Seq(Settings), AllocForNewSection(n)
  PROVE  /\ values' \in Seq(Settings) /\ Len(values') = n + 1
         /\ \A i \in 1..n : values'[i] = values[i]
         /\ values'[n + 1] = Default
  BY DefaultType, Started DEF AllocForNewSection

-----------------------------------------------------------------------------
(* What is written to a file are lines. *)
LEMMA QuotedType ==
  ASSUME NEW str \in Strings
  PROVE  Quoted(str) \in Strings
<1> DEFINE c == SingleOrDoubleQuote(str)
<1>1. c = <<"'">> \/ c = <<"\"">> \/ c = <<>>
  BY DEF SingleOrDoubleQuote
<1>2. c \in Seq(Letters)
  <2> HIDE DEF c
  <2>1. <<>> \in Seq(Letters)
    OBVIOUS
  <2>2. <<"'">> \in Seq(Letters) /\ <<"\"">> \in Seq(Letters)
    BY Written, Zenon DEF Strings
  <2>3. QED BY <1>1, <2>1, <2>2, Zenon
<1>3. str \in Seq(Letters)
  BY DEF Strings
<1> HIDE DEF c
<1>4. c \o str \in Seq(Letters)
  BY <1>2, <1>3, ConcatProperties
<1>5. c \o str \o c \in Seq(Letters)
  BY <1>2, <1>4, ConcatProperties
<1>6. QED BY <1>5 DEF Quoted, c, Strings

LEMMA EqualsType ==
  ASSUME NEW p \in Strings, NEW word \in Strings
  PROVE  Equals(p, word) \in Strings
<1> DEFINE e == <<"\t", "=", " ">>
<1>1. e \in Seq(Letters) /\ p \in Seq(Letters) /\ word \in Seq(Letters)
  BY Written, Zenon DEF Strings
<1> HIDE DEF e
<1>2. p \o e \in Seq(Letters)
  BY <1>1, ConcatProperties
<1>3. p \o e \o word \in Seq(Letters)
  BY <1>1, <1>2, ConcatProperties
<1>4. QED BY <1>3 DEF Equals, e, Strings

LEMMA DumpValueType ==
  ASSUME NEW name \in Strings, Fold(name) \in Params, NEW value \in ValueOf(Types[Fold(name)])
  PROVE  DumpValue(name, value) \in Seq(Strings)
<1> DEFINE p == Fold(name)
<1>1. p \in Strings /\ Types[p] \in KindsOfValue
  BY TypesIs
<1>2. CASE Types[p] = "string"
  <2>1. CASE value = Null
    <3>1. DumpValue(name, value) = <<>>
      BY <2>1 DEF DumpValue, Null
    <3>2. QED BY <3>1
  <2>2. CASE value \in [is : {"string"}, string : Strings]
    <3>1. DumpValue(name, value) = <<Equals(name, Quoted(value.string))>>
      BY <2>2 DEF DumpValue
    <3>2. value.string \in Strings
      BY <2>2
    <3>3. Equals(name, Quoted(value.string)) \in Strings
      BY <1>1, <3>2, QuotedType, EqualsType
    <3>4. QED BY <3>1, <3>3
  <2>3. QED BY <1>2, <2>1, <2>2, ValueOfIs
<1>3. CASE Types[p] = "int"
  <2>1. value \in [is : {"int"}, int : -IntMax - 1..IntMax]
    BY <1>3, ValueOfIs
  <2>2. value.is = "int" /\ value.int \in -9..9
    BY <2>1, IntMaxAssumption
  <2>3. DumpValue(name, value) = <<Equals(name, Decimal(value.int))>>
    BY <1>3, <2>2 DEF DumpValue
  <2>4. Equals(name, Decimal(value.int)) \in Strings
    BY <2>2, DecimalType, EqualsType
  <2>5. QED BY <2>3, <2>4
<1>4. CASE Types[p] = "bool"
  <2> DEFINE word == IF value.int # 0 THEN <<"T", "r", "u", "e">>
                                      ELSE <<"F", "a", "l", "s", "e">>
  <2>1. value \in [is : {"int"}, int : -1..1]
    BY <1>4, ValueOfIs
  <2>2. DumpValue(name, value) = <<Equals(name, word)>>
    BY <1>4, <2>1 DEF DumpValue
  <2>3. word \in Strings
    BY Written, Zenon
  <2> HIDE DEF word
  <2>4. Equals(name, word) \in Strings
    BY <1>1, <2>3, EqualsType
  <2>5. QED BY <2>2, <2>4
<1>5. CASE Types[p] = "list"
  <2>1. value \in [is : {"list"}, list : Seq(Strings)]
    BY <1>5, ValueOfIs
  <2>2. DumpValue(name, value) = [i \in DOMAIN value.list |-> Equals(name, Quoted(value.list[i]))]
    BY <2>1 DEF DumpValue
  <2> DEFINE n == Len(value.list)
  <2>3. n \in Nat /\ DOMAIN value.list = 1..n /\ \A i \in 1..n : value.list[i] \in Strings
    BY <2>1
  <2> HIDE DEF n
  <2>4. \A i \in 1..n : Equals(name, Quoted(value.list[i])) \in Strings
    BY <1>1, <2>3, QuotedType, EqualsType
  <2>5. [i \in 1..n |-> Equals(name, Quoted(value.list[i]))] \in [1..n -> Strings]
    BY <2>4
  <2>6. QED BY <2>2, <2>3, <2>5, SeqDef
<1>6. CASE Types[p] = "float"
  <2>1. value \in [is : {"float"}, whole : Strings, fraction : Strings]
    BY <1>6, ValueOfIs
  <2>2. value.is = "float"
    BY <2>1
  <2>3. DumpValue(name, value) = <<Equals(name, Printed(value))>>
    BY <2>2 DEF DumpValue
  <2>4. Equals(name, Printed(value)) \in Strings
    BY <2>1, PrintedType, EqualsType
  <2>5. QED BY <2>3, <2>4
<1>7. QED BY <1>1, <1>2, <1>3, <1>4, <1>5, <1>6 DEF KindsOfValue

LEMMA DumpSectionType ==
  ASSUME NEW s \in 1..Len(values), values \in Seq(Settings), names[s] \in Strings
  PROVE  DumpSection(s) \in Seq(Strings)
<1> DEFINE head == <<<<"[">> \o Quoted(names[s]) \o <<"]">>>>
           body == [i \in DOMAIN Table |-> DumpValue(Table[i].name, values[s][Fold(Table[i].name)])]
           foot == <<<<>>>>
<1>1. head \in Seq(Strings)
  <2>1. Quoted(names[s]) \in Seq(Letters) /\ <<"[">> \in Seq(Letters) /\ <<"]">> \in Seq(Letters)
    BY QuotedType, Written, Zenon DEF Strings
  <2>2. <<"[">> \o Quoted(names[s]) \in Seq(Letters)
    BY <2>1, ConcatProperties
  <2>3. <<"[">> \o Quoted(names[s]) \o <<"]">> \in Strings
    BY <2>1, <2>2, ConcatProperties DEF Strings
  <2>4. QED BY <2>3
<1>2. values[s] \in Settings
  BY ElementOfSeq
<1>3. \A i \in DOMAIN Table :
        DumpValue(Table[i].name, values[s][Fold(Table[i].name)]) \in Seq(Strings)
  <2> TAKE i \in DOMAIN Table
  <2>1. Table[i].name \in Strings /\ Fold(Table[i].name) \in Params
    BY TypesIs
  <2>2. values[s][Fold(Table[i].name)] \in ValueOf(Types[Fold(Table[i].name)])
    BY <1>2, <2>1 DEF Settings
  <2>3. QED BY <2>1, <2>2, DumpValueType
<1>4. body \in Seq(Seq(Strings))
  <2> DEFINE n == Len(Table)
  <2>1. n \in Nat /\ DOMAIN Table = 1..n
    BY TableAssumption
  <2> HIDE DEF n
  <2>2. body \in [1..n -> Seq(Strings)]
    BY <1>3, <2>1
  <2> HIDE DEF body
  <2>3. QED BY <2>1, <2>2, SeqDef
<1>5. foot \in Seq(Strings)
  BY DEF Strings
<1>6. DumpSection(s) = head \o FlattenSeq(body) \o foot
  BY DEF DumpSection
<1> HIDE DEF head, body, foot
<1>7. FlattenSeq(body) \in Seq(Strings)
  BY <1>4, FlattenType
<1>8. head \o FlattenSeq(body) \in Seq(Strings)
  BY <1>1, <1>7, ConcatProperties
<1>9. QED BY <1>5, <1>6, <1>8, ConcatProperties

(* The lines of a text are made of its letters. *)
LEMMA SplitLinesType ==
  ASSUME NEW text \in Strings
  PROVE  SplitLines(text) \in Seq(Strings)
<1> DEFINE n == Len(text)
           Some == Seq(Strings) \ {<<>>}
           next(lines, c) == IF c = Newline THEN Append(lines, <<>>)
                             ELSE [lines EXCEPT ![Len(lines)] = Append(@, c)]
           g == [e \in (1..n) \X Some |-> next(e[2], text[e[1]])]
           Rec(h) == h = [i \in 0..n |-> IF i = 0 THEN <<<<>>>>
                                         ELSE IF text[i] = Newline THEN Append(h[i - 1], <<>>)
                                         ELSE [h[i - 1] EXCEPT ![Len(h[i - 1])] = Append(@, text[i])]]
<1>1. n \in Nat /\ \A i \in 1..n : text[i] \in Letters
  BY DEF Strings
<1> HIDE DEF n
<1>2. <<>> \in Strings /\ <<<<>>>> \in Some
  BY DEF Strings
<1>3. ASSUME NEW lines \in Some, NEW c \in Letters PROVE next(lines, c) \in Some
  <2>1. CASE c = Newline
    <3>1. Append(lines, <<>>) \in Seq(Strings) /\ Append(lines, <<>>) # <<>>
      BY <1>2, AppendProperties
    <3>2. QED BY <2>1, <3>1
  <2>2. CASE c # Newline
    <3> DEFINE k == Len(lines)
               last1 == Append(lines[k], c)
    <3>1. lines \in Seq(Strings) /\ k \in 1..Len(lines)
      BY EmptySeq, LenProperties
    <3>2. lines[k] \in Seq(Letters)
      BY <3>1, ElementOfSeq DEF Strings
    <3>3. last1 \in Strings
      BY <3>2, AppendProperties DEF Strings
    <3> HIDE DEF last1, k
    <3>4. /\ [lines EXCEPT ![k] = last1] \in Seq(Strings)
          /\ Len([lines EXCEPT ![k] = last1]) = Len(lines)
      BY <3>1, <3>3, ExceptSeq
    <3>5. [lines EXCEPT ![k] = last1] # <<>>
      BY <3>1, <3>4
    <3>6. next(lines, c) = [lines EXCEPT ![k] = last1]
      BY <2>2 DEF last1, k
    <3> DEFINE y == [lines EXCEPT ![k] = last1]
    <3>7. y \in Some
      BY <3>4, <3>5
    <3> HIDE DEF next, y, Some
    <3>8. QED BY <3>6, <3>7 DEF y
  <2>3. QED BY <2>1, <2>2
<1>4. g \in [(1..n) \X Some -> Some]
  <2> HIDE DEF next, Some
  <2>1. \A e \in (1..n) \X Some : next(e[2], text[e[1]]) \in Some
    BY <1>1, <1>3
  <2>2. QED BY <2>1
<1>5. PICK f \in [0..n -> Some] :
        f[0] = <<<<>>>> /\ \A i \in 1..n : f[i] = g[<<i, f[i - 1]>>]
  <2> HIDE DEF g, Some
  <2>1. 0 \in Nat /\ 1 \in Nat /\ 1 = 0 + 1 /\ 0 <= n
    BY <1>1
  <2>2. \E f : Follows(f, 0, 1, n, Some, <<<<>>>>, g)
    BY <1>1, <1>2, <1>4, <2>1, Recursion
  <2>3. QED BY <2>2 DEF Follows
<1>6. \A i \in 1..n : f[i] = next(f[i - 1], text[i])
  <2> TAKE i \in 1..n
  <2> HIDE DEF next, Some
  <2>1. i - 1 \in 0..n
    BY <1>1
  <2>2. <<i, f[i - 1]>> \in (1..n) \X Some
    BY <1>5, <2>1
  <2>3. QED BY <1>5, <2>2
<1>7. Rec(f)
  <2>1. \A i \in 0..n : f[i] = IF i = 0 THEN <<<<>>>> ELSE next(f[i - 1], text[i])
    <3> TAKE i \in 0..n
    <3> HIDE DEF next
    <3>1. i # 0 => i \in 1..n
      BY <1>1
    <3>2. QED BY <1>5, <1>6, <3>1
  <2>2. f = [i \in 0..n |-> IF i = 0 THEN <<<<>>>> ELSE next(f[i - 1], text[i])]
    <3> HIDE DEF next, Some
    <3>1. QED BY <1>5, <2>1
  <2>3. QED BY <2>2
<1>8. SplitLines(text) = (CHOOSE h : Rec(h))[n]
  BY DEF SplitLines, n
<1>9. Rec(CHOOSE h : Rec(h))
  <2> HIDE DEF Rec
  <2>1. QED BY <1>7
<1>10. ASSUME NEW h, Rec(h) PROVE h[n] \in Some
  <2> DEFINE U == {i \in 0..n : h[i] \in Some}
  <2>1. \A i \in 0..n : h[i] = IF i = 0 THEN <<<<>>>> ELSE next(h[i - 1], text[i])
    BY <1>10
  <2> HIDE DEF next, Some
  <2>2. 0 \in U
    BY <1>1, <1>2, <2>1
  <2>3. ASSUME NEW i \in 0 + 1..n, i - 1 \in U PROVE i \in U
    <3>1. i \in 0..n /\ i \in 1..n /\ i # 0 /\ h[i - 1] \in Some
      BY <1>1, <2>3
    <3>2. h[i] = next(h[i - 1], text[i])
      <4> HIDE DEF Rec
      <4>1. QED BY <2>1, <3>1
    <3>3. QED BY <1>1, <1>3, <3>1, <3>2
  <2>4. \A i \in 0..n : i \in U
    <3> HIDE DEF U
    <3>1. QED BY <1>1, <2>2, <2>3, Upward
  <2>5. n \in 0..n
    BY <1>1
  <2>6. QED BY <2>4, <2>5
<1>11. QED
  <2> HIDE DEF Rec
  <2>1. QED BY <1>8, <1>9, <1>10

-----------------------------------------------------------------------------
(* Passwords: the digits of a code are those of a line, and PassDecode     *)
(* undoes PassCode.                                                        *)
HexLetters == Range(HexDigits)

LEMMA HexIs ==
  /\ HexLetters \subseteq Letters
  /\ \A n \in Int : Hex(n) \in HexLetters /\ FromHex(Hex(n)) = n % 16
  /\ \A c \in HexLetters : FromHex(c) \in 0..15
<1>1. DOMAIN HexDigits = 1..16
  BY DEF HexDigits
<1>2. \A i, j \in 1..16 : HexDigits[i] = HexDigits[j] => i = j
  BY DEF HexDigits
<1>3. HexLetters \subseteq Letters
  <2>1. \A i \in 1..16 : HexDigits[i] \in Range(Digits) \cup {"a", "b", "c", "d", "e", "f"}
    <3>1. \A i \in 1..10 : HexDigits[i] = Digits[i]
      BY DEF HexDigits, Digits
    <3>2. DOMAIN Digits = 1..10
      BY DEF Digits
    <3>3. \A i \in 1..10 : HexDigits[i] \in Range(Digits)
      BY <3>1, <3>2 DEF Range
    <3>4. \A i \in 11..16 : HexDigits[i] \in {"a", "b", "c", "d", "e", "f"}
      BY DEF HexDigits
    <3>5. QED BY <3>3, <3>4
  <2>2. Range(Digits) \cup {"a", "b", "c", "d", "e", "f"} \subseteq Letters
    BY Written, Zenon
  <2>3. QED BY <1>1, <2>1, <2>2 DEF HexLetters, Range
<1>4. ASSUME NEW n \in Int PROVE Hex(n) \in HexLetters /\ FromHex(Hex(n)) = n % 16
  <2> DEFINE d == n % 16
  <2>1. d + 1 \in 1..16 /\ d \in 0..15
    OBVIOUS
  <2> HIDE DEF d
  <2>2. Hex(n) = HexDigits[d + 1]
    BY DEF Hex, d
  <2> DEFINE i == CHOOSE i \in DOMAIN HexDigits : HexDigits[i] = Hex(n)
  <2>3. \E j \in DOMAIN HexDigits : HexDigits[j] = Hex(n)
    BY <1>1, <2>1, <2>2
  <2>4. i \in DOMAIN HexDigits /\ HexDigits[i] = Hex(n)
    BY <2>3
  <2>5. FromHex(Hex(n)) = i - 1
    BY DEF FromHex
  <2> HIDE DEF i
  <2>6. i = d + 1
    BY <1>1, <1>2, <2>1, <2>2, <2>4
  <2>7. FromHex(Hex(n)) = d
    BY <2>1, <2>5, <2>6
  <2>8. QED BY <1>1, <2>1, <2>2, <2>7 DEF HexLetters, Range, d
<1>5. ASSUME NEW c \in HexLetters PROVE FromHex(c) \in 0..15
  <2>1. \E i \in 1..16 : HexDigits[i] = c
    BY <1>1 DEF HexLetters, Range
  <2>2. (CHOOSE i \in 1..16 : HexDigits[i] = c) \in 1..16
    <3> HIDE DEF HexLetters
    <3>1. QED BY <2>1
  <2>3. QED BY <1>1, <2>2 DEF FromHex
<1>6. QED BY <1>3, <1>4, <1>5

LEMMA Digits2Is ==
  ASSUME NEW x \in Int
  PROVE  /\ Digits2(x) \in Seq(HexLetters) /\ Len(Digits2(x)) >= 2
         /\ x \in 0..255 => /\ Len(Digits2(x)) = 2
                            /\ 16 * FromHex(Digits2(x)[1]) + FromHex(Digits2(x)[2]) = x
<1> DEFINE f == [k \in 1..6 |-> "f"]
           h == Hex((x % 256) \div 16)
           l == Hex(x % 16)
<1>1. (x % 256) \div 16 \in Int /\ x % 16 \in Int
  OBVIOUS
<1>2. h \in HexLetters /\ l \in HexLetters
  BY <1>1, HexIs
<1>3. FromHex(h) = ((x % 256) \div 16) % 16 /\ FromHex(l) = (x % 16) % 16
  BY <1>1, HexIs
<1>4. f \in Seq(HexLetters) /\ Len(f) = 6
  <2>1. "f" \in HexLetters
    BY DEF HexLetters, HexDigits, Range
  <2>2. QED BY <2>1
<1> DEFINE e == IF x < 0 THEN f ELSE <<>>
<1> HIDE DEF f, h, l
<1>5. <<h, l>> \in Seq(HexLetters) /\ Len(<<h, l>>) = 2 /\ <<h, l>>[1] = h /\ <<h, l>>[2] = l
  BY <1>2
<1>6. Digits2(x) = e \o <<h, l>>
  BY DEF Digits2, f, h, l
<1>7. e \in Seq(HexLetters) /\ Len(e) \in Nat /\ (x >= 0 => e = <<>> /\ Len(e) = 0)
  BY <1>4
<1> HIDE DEF e
<1>8. /\ e \o <<h, l>> \in Seq(HexLetters) /\ Len(e \o <<h, l>>) = Len(e) + 2
      /\ (e \o <<h, l>>)[Len(e) + 1] = h /\ (e \o <<h, l>>)[Len(e) + 2] = l
  <2>1. 1 \in 1..2 /\ 2 \in 1..2
    OBVIOUS
  <2>2. QED BY <1>5, <1>7, <2>1, Joined
<1>9. x \in 0..255 => 16 * FromHex(h) + FromHex(l) = x
  <2>1. x \in 0..255 => 16 * (((x % 256) \div 16) % 16) + ((x % 16) % 16) = x
    OBVIOUS
  <2>2. QED BY <1>3, <2>1
<1>10. QED
  <2>1. Digits2(x) \in Seq(HexLetters) /\ Len(Digits2(x)) >= 2
    BY <1>6, <1>7, <1>8
  <2>2. ASSUME x \in 0..255
        PROVE  Len(Digits2(x)) = 2 /\ Digits2(x)[1] = h /\ Digits2(x)[2] = l
    BY <2>2, <1>6, <1>7, <1>8
  <2>3. QED BY <2>1, <2>2, <1>9

LEMMA EncodedIs ==
  ASSUME NEW src \in Seq(Char), NEW magic \in Nat
  PROVE  \E f \in [0..Len(src) -> Seq(HexLetters)] :
           /\ f[0] = <<>>
           /\ \A i \in 1..Len(src) : f[i] = f[i - 1] \o Digits2(src[i] + Shift(magic, i))
           /\ Encoded(src, magic) = f[Len(src)]
<1> DEFINE n == Len(src)
           D(i) == Digits2(src[i] + Shift(magic, i))
           g == [e \in (1..n) \X Seq(HexLetters) |-> e[2] \o D(e[1])]
           Rec(h) == h = [i \in 0..n |-> IF i = 0 THEN <<>> ELSE h[i - 1] \o D(i)]
<1>1. n \in Nat /\ \A i \in 1..n : D(i) \in Seq(HexLetters)
  <2>1. \A i \in 1..n : src[i] \in Int
    <3>1. \A i \in 1..n : src[i] \in Char
      BY ElementOfSeq
    <3>2. Char \subseteq Int
      BY DEF Char
    <3>3. QED BY <3>1, <3>2
  <2>2. magic % 49 \in Nat
    OBVIOUS
  <2>3. \A i \in 1..n : src[i] + Shift(magic, i) \in Int
    BY <2>1, <2>2 DEF Shift
  <2>4. n \in Nat
    OBVIOUS
  <2>5. QED BY <2>3, <2>4, Digits2Is
<1> HIDE DEF n, D
<1>2. g \in [(1..n) \X Seq(HexLetters) -> Seq(HexLetters)]
  <2>1. \A i \in 1..n, t \in Seq(HexLetters) : t \o D(i) \in Seq(HexLetters)
    BY <1>1, ConcatProperties
  <2>2. QED BY <2>1
<1>3. PICK f \in [0..n -> Seq(HexLetters)] :
        f[0] = <<>> /\ \A i \in 1..n : f[i] = g[<<i, f[i - 1]>>]
  <2> HIDE DEF g
  <2>1. 0 \in Nat /\ 1 \in Nat /\ 1 = 0 + 1 /\ 0 <= n /\ <<>> \in Seq(HexLetters)
    BY <1>1
  <2>2. \E f : Follows(f, 0, 1, n, Seq(HexLetters), <<>>, g)
    BY <1>1, <1>2, <2>1, Recursion
  <2>3. QED BY <2>2 DEF Follows
<1>4. \A i \in 1..n : f[i] = f[i - 1] \o D(i)
  <2> TAKE i \in 1..n
  <2>1. i - 1 \in 0..n
    BY <1>1
  <2>2. <<i, f[i - 1]>> \in (1..n) \X Seq(HexLetters)
    BY <1>3, <2>1
  <2>3. QED BY <1>3, <2>1, <2>2
<1>5. Rec(f)
  <2>1. \A i \in 0..n : f[i] = IF i = 0 THEN <<>> ELSE f[i - 1] \o D(i)
    <3> TAKE i \in 0..n
    <3>1. i # 0 => i \in 1..n
      BY <1>1
    <3>2. QED BY <1>3, <1>4, <3>1
  <2>2. QED BY <1>3, <2>1
<1>6. ASSUME NEW h, Rec(h) PROVE h[n] = f[n]
  <2> DEFINE U == {i \in 0..n : h[i] = f[i]}
  <2>1. \A i \in 0..n : h[i] = IF i = 0 THEN <<>> ELSE h[i - 1] \o D(i)
    BY <1>6
  <2>2. 0 \in U
    BY <1>1, <1>3, <2>1
  <2>3. ASSUME NEW i \in 0 + 1..n, i - 1 \in U PROVE i \in U
    <3>1. i \in 0..n /\ i \in 1..n /\ i # 0 /\ h[i - 1] = f[i - 1]
      BY <1>1, <2>3
    <3>2. h[i] = h[i - 1] \o D(i)
      <4> HIDE DEF Rec
      <4>1. QED BY <2>1, <3>1
    <3>3. QED BY <1>4, <3>1, <3>2
  <2>4. \A i \in 0..n : i \in U
    <3> HIDE DEF U
    <3>1. QED BY <1>1, <2>2, <2>3, Upward
  <2>5. n \in 0..n
    BY <1>1
  <2>6. QED BY <2>4, <2>5
<1>7. Encoded(src, magic) = (CHOOSE h : Rec(h))[n]
  BY DEF Encoded, n, D
<1>8. Rec(CHOOSE h : Rec(h))
  <2> HIDE DEF Rec
  <2>1. QED BY <1>5
<1>9. Encoded(src, magic) = f[n]
  <2> HIDE DEF Rec
  <2>1. QED BY <1>6, <1>7, <1>8
<1>10. QED BY <1>3, <1>4, <1>9 DEF n, D

(* What the digits are, if no character is negative. *)
LEMMA EncodedType ==
  ASSUME NEW src \in Seq(Char), NEW magic \in Nat
  PROVE  Encoded(src, magic) \in Seq(HexLetters) /\ Len(Encoded(src, magic)) >= 2 * Len(src)
<1> DEFINE n == Len(src)
<1>1. n \in Nat
  OBVIOUS
<1>2. PICK f \in [0..n -> Seq(HexLetters)] :
        /\ f[0] = <<>> /\ \A i \in 1..n : f[i] = f[i - 1] \o Digits2(src[i] + Shift(magic, i))
        /\ Encoded(src, magic) = f[n]
  BY EncodedIs
<1>3. \A i \in 1..n : src[i] + Shift(magic, i) \in Int
  <2>1. \A i \in 1..n : src[i] \in Int
    <3>1. \A i \in 1..n : src[i] \in Char
      BY ElementOfSeq
    <3>2. Char \subseteq Int
      BY DEF Char
    <3>3. QED BY <3>1, <3>2
  <2>2. magic % 49 \in Nat
    OBVIOUS
  <2>3. QED BY <2>1, <2>2 DEF Shift
<1> HIDE DEF n
<1> DEFINE U == {i \in 0..n : Len(f[i]) >= 2 * i}
<1>4. 0 \in U
  BY <1>1, <1>2
<1>5. ASSUME NEW i \in 0 + 1..n, i - 1 \in U PROVE i \in U
  <2> DEFINE d == Digits2(src[i] + Shift(magic, i))
             h == f[i - 1]
  <2>1. i \in 1..n /\ i \in 0..n /\ i - 1 \in 0..n /\ Len(h) >= 2 * (i - 1)
    BY <1>1, <1>5
  <2>2. d \in Seq(HexLetters) /\ Len(d) >= 2
    BY <1>3, <2>1, Digits2Is
  <2>3. f[i] = h \o d /\ h \in Seq(HexLetters)
    BY <1>2, <2>1
  <2> HIDE DEF d, h
  <2>4. Len(f[i]) = Len(h) + Len(d)
    BY <2>2, <2>3, Joined
  <2>5. QED BY <2>1, <2>2, <2>3, <2>4
<1>6. \A i \in 0..n : i \in U
  <2> HIDE DEF U
  <2>1. QED BY <1>1, <1>4, <1>5, Upward
<1>7. n \in U
  BY <1>1, <1>6
<1>8. QED BY <1>1, <1>2, <1>7 DEF n

LEMMA EncodedPlain ==
  ASSUME NEW src \in Seq(Char), NEW magic \in Nat,
         \A i \in 1..Len(src) : src[i] + Shift(magic, i) \in 0..255
  PROVE  /\ Len(Encoded(src, magic)) = 2 * Len(src)
         /\ \A i \in 1..Len(src) :
              16 * FromHex(Encoded(src, magic)[2 * i - 1]) + FromHex(Encoded(src, magic)[2 * i])
                = src[i] + Shift(magic, i)
<1> DEFINE n == Len(src)
           x(i) == src[i] + Shift(magic, i)
           Two(e, i) == 16 * FromHex(e[2 * i - 1]) + FromHex(e[2 * i])
<1>1. n \in Nat
  OBVIOUS
<1>2. PICK f \in [0..n -> Seq(HexLetters)] :
        /\ f[0] = <<>> /\ \A i \in 1..n : f[i] = f[i - 1] \o Digits2(x(i))
        /\ Encoded(src, magic) = f[n]
  BY EncodedIs
<1>3. \A i \in 1..n : x(i) \in 0..255
  OBVIOUS
<1> HIDE DEF n, x
<1> DEFINE U == {i \in 0..n : Len(f[i]) = 2 * i /\ \A j \in 1..i : Two(f[i], j) = x(j)}
<1>4. 0 \in U
  BY <1>1, <1>2
<1>5. ASSUME NEW i \in 0 + 1..n, i - 1 \in U PROVE i \in U
  <2> DEFINE d == Digits2(x(i))
             h == f[i - 1]
             m == i - 1
  <2>1. /\ i \in 1..n /\ i \in 0..n /\ m \in Nat /\ m \in 0..n /\ i = m + 1
        /\ Len(h) = 2 * m /\ \A j \in 1..m : Two(h, j) = x(j)
    <3> HIDE DEF Two
    <3>1. QED BY <1>1, <1>5
  <2>2. h \in Seq(HexLetters) /\ f[i] = h \o d
    BY <1>2, <2>1
  <2>3. x(i) \in 0..255 /\ x(i) \in Int
    <3>1. x(i) \in 0..255
      BY <1>3, <2>1, Zenon
    <3>2. 0..255 \subseteq Int
      OBVIOUS
    <3>3. QED BY <3>1, <3>2, Zenon
  <2>4. /\ d \in Seq(HexLetters) /\ Len(d) = 2
        /\ 16 * FromHex(d[1]) + FromHex(d[2]) = x(i)
    BY <2>3, Digits2Is
  <2> HIDE DEF d, h, m
  <2> DEFINE e == h \o d
  <2>5. /\ Len(e) = Len(h) + 2 /\ \A j \in 1..Len(h) : e[j] = h[j]
        /\ e[Len(h) + 1] = d[1] /\ e[Len(h) + 2] = d[2]
    <3>1. 1 \in 1..Len(d) /\ 2 \in 1..Len(d)
      BY <2>4
    <3>2. /\ Len(e) = Len(h) + Len(d) /\ \A j \in 1..Len(h) : e[j] = h[j]
          /\ \A j \in 1..Len(d) : e[Len(h) + j] = d[j]
      <4>1. h \in Seq(HexLetters) /\ d \in Seq(HexLetters)
        BY <2>2, <2>4
      <4>2. Len(h \o d) = Len(h) + Len(d)
        BY <4>1, Joined
      <4>3. \A j \in 1..Len(h) : (h \o d)[j] = h[j]
        BY <4>1, Joined
      <4>4. \A j \in 1..Len(d) : (h \o d)[Len(h) + j] = d[j]
        BY <4>1, Joined
      <4>5. QED BY <4>2, <4>3, <4>4
    <3> HIDE DEF e
    <3>3. QED BY <2>4, <3>1, <3>2
  <2> HIDE DEF e
  <2>6. ASSUME NEW j \in 1..m PROVE Two(e, j) = x(j)
    <3>1. 2 * j - 1 \in 1..2 * m /\ 2 * j \in 1..2 * m
      BY <2>1
    <3>2. e[2 * j - 1] = h[2 * j - 1] /\ e[2 * j] = h[2 * j]
      BY <2>1, <2>5, <3>1
    <3>3. QED BY <2>1, <3>2
  <2>7. Two(e, i) = x(i)
    <3>1. 2 * i - 1 = Len(h) + 1 /\ 2 * i = Len(h) + 2
      BY <2>1
    <3>2. QED BY <2>4, <2>5, <3>1
  <2>8. \A j \in 1..i : Two(e, j) = x(j)
    <3> TAKE j \in 1..i
    <3>1. j = i \/ j \in 1..m
      BY <2>1
    <3>2. QED BY <2>6, <2>7, <3>1
  <2>9. Len(e) = 2 * i
    BY <2>1, <2>5
  <2>10. f[i] = e
    BY <2>2 DEF e
  <2> HIDE DEF Two
  <2>11. QED BY <2>1, <2>8, <2>9, <2>10
<1>6. \A i \in 0..n : i \in U
  <2> HIDE DEF U
  <2>1. QED BY <1>1, <1>4, <1>5, Upward
<1>7. n \in U
  BY <1>1, <1>6
<1>8. QED BY <1>1, <1>2, <1>7 DEF n, x

(* Both loops, over n of the digits, permute them. *)
LEMMA LoopsType ==
  ASSUME NEW T, NEW n \in Nat, NEW ds \in Seq(T), Len(ds) >= 2 * n
  PROVE  /\ Reverse2(ds, n) \in Seq(T) /\ Len(Reverse2(ds, n)) = Len(ds)
         /\ SwapHalves(ds, n) \in Seq(T) /\ Len(SwapHalves(ds, n)) = Len(ds)
<1> DEFINE l == Len(ds)
<1>1. l \in Nat /\ l >= 2 * n /\ DOMAIN ds = 1..l /\ \A i \in 1..l : ds[i] \in T
  BY ElementOfSeq
<1> HIDE DEF l
<1>2. Reverse2(ds, n) = [k \in 1..l |-> IF k <= n \/ k > l - n THEN ds[l + 1 - k] ELSE ds[k]]
  BY <1>1 DEF Reverse2, l
<1>3. \A k \in 1..l : /\ l + 1 - k \in 1..l
                     /\ (IF k <= n \/ k > l - n THEN ds[l + 1 - k] ELSE ds[k]) \in T
  BY <1>1
<1>4. SwapHalves(ds, n) = [k \in 1..l |-> IF k <= n THEN ds[n + k]
                                         ELSE IF k <= 2 * n THEN ds[k - n] ELSE ds[k]]
  BY <1>1 DEF SwapHalves
<1>5. \A k \in 1..l : (IF k <= n THEN ds[n + k]
                       ELSE IF k <= 2 * n THEN ds[k - n] ELSE ds[k]) \in T
  <2> TAKE k \in 1..l
  <2>1. (k <= n => n + k \in 1..l) /\ (~(k <= n) => k - n \in 1..l)
    BY <1>1
  <2>2. QED BY <1>1, <2>1
<1>6. Reverse2(ds, n) \in [1..l -> T] /\ SwapHalves(ds, n) \in [1..l -> T]
  BY <1>2, <1>3, <1>4, <1>5
<1>7. QED BY <1>1, <1>6 DEF l

LEMMA LoopsUndone ==
  ASSUME NEW T, NEW n \in Nat, NEW ds \in Seq(T), Len(ds) = 2 * n
  PROVE  Reverse2(SwapHalves(SwapHalves(Reverse2(ds, n), n), n), n) = ds
<1> DEFINE l == 2 * n
           r == Reverse2(ds, n)
           t == SwapHalves(r, n)
           u == SwapHalves(t, n)
           v == Reverse2(u, n)
<1>1. /\ r \in Seq(T) /\ Len(r) = l /\ t \in Seq(T) /\ Len(t) = l
      /\ u \in Seq(T) /\ Len(u) = l /\ v \in Seq(T) /\ Len(v) = l
  <2>1. Len(ds) >= 2 * n
    OBVIOUS
  <2>2. r \in Seq(T) /\ Len(r) = l
    BY <2>1, LoopsType
  <2> HIDE DEF r
  <2>3. Len(r) >= 2 * n
    BY <2>2
  <2>4. t \in Seq(T) /\ Len(t) = l
    BY <2>2, <2>3, LoopsType
  <2> HIDE DEF t
  <2>5. Len(t) >= 2 * n
    BY <2>4
  <2>6. u \in Seq(T) /\ Len(u) = l
    BY <2>4, <2>5, LoopsType
  <2> HIDE DEF u
  <2>7. Len(u) >= 2 * n
    BY <2>6
  <2>8. v \in Seq(T) /\ Len(v) = l
    BY <2>6, <2>7, LoopsType
  <2>9. QED BY <2>2, <2>4, <2>6, <2>8
<1>2. DOMAIN ds = 1..l /\ DOMAIN r = 1..l /\ DOMAIN t = 1..l /\ DOMAIN u = 1..l
  <2> HIDE DEF r, t, u, v
  <2>1. QED BY <1>1
<1>3. \A k \in 1..l : r[k] = ds[l + 1 - k]
  <2> TAKE k \in 1..l
  <2>1. r[k] = IF k <= n \/ k > l - n THEN ds[l + 1 - k] ELSE ds[k]
    BY <1>2 DEF Reverse2
  <2>2. QED BY <2>1
<1>4. \A k \in 1..l : t[k] = IF k <= n THEN r[n + k] ELSE r[k - n]
  <2> HIDE DEF r
  <2> TAKE k \in 1..l
  <2>1. t[k] = IF k <= n THEN r[n + k] ELSE IF k <= 2 * n THEN r[k - n] ELSE r[k]
    BY <1>2 DEF SwapHalves
  <2>2. QED BY <2>1
<1>5. \A k \in 1..l : u[k] = IF k <= n THEN t[n + k] ELSE t[k - n]
  <2> HIDE DEF t
  <2> TAKE k \in 1..l
  <2>1. u[k] = IF k <= n THEN t[n + k] ELSE IF k <= 2 * n THEN t[k - n] ELSE t[k]
    BY <1>2 DEF SwapHalves
  <2>2. QED BY <2>1
<1>6. \A k \in 1..l : v[k] = u[l + 1 - k]
  <2> HIDE DEF u
  <2> TAKE k \in 1..l
  <2>1. v[k] = IF k <= n \/ k > Len(u) - n THEN u[Len(u) + 1 - k] ELSE u[k]
    BY <1>2 DEF Reverse2
  <2>2. QED BY <1>1, <2>1
<1> HIDE DEF r, t, u, v
<1>7. \A k \in 1..l : u[k] = r[k]
  <2> TAKE k \in 1..l
  <2>1. CASE k <= n
    <3>1. n + k \in 1..l /\ ~(n + k <= n) /\ (n + k) - n = k
      BY <2>1
    <3>2. QED BY <1>4, <1>5, <2>1, <3>1
  <2>2. CASE ~(k <= n)
    <3>1. k - n \in 1..l /\ k - n <= n /\ n + (k - n) = k
      BY <2>2
    <3>2. QED BY <1>4, <1>5, <2>2, <3>1
  <2>3. QED BY <2>1, <2>2
<1>8. \A k \in 1..l : v[k] = ds[k]
  <2> TAKE k \in 1..l
  <2>1. l + 1 - k \in 1..l /\ l + 1 - (l + 1 - k) = k
    OBVIOUS
  <2>2. QED BY <1>3, <1>6, <1>7, <2>1
<1>9. v = ds
  BY <1>1, <1>8, SeqEqual
<1>10. QED BY <1>9 DEF r, t, u, v

LEMMA IsSeq ==
  ASSUME NEW T, NEW n \in Nat, NEW f \in [1..n -> T]
  PROVE  f \in Seq(T) /\ Len(f) = n
  OBVIOUS

FourDigits(q) ==
  1000 * FromHex(q[1]) + 100 * FromHex(q[2]) + 10 * FromHex(q[3]) + FromHex(q[4])

LEMMA PrefixIs ==
  ASSUME NEW magic \in Nat, magic < 10000
  PROVE  /\ Prefix(magic) \in Seq(HexLetters) /\ Len(Prefix(magic)) = 4
         /\ FourDigits(Prefix(magic)) = magic
<1> DEFINE d1 == (magic \div 1000) % 10
           d2 == (magic \div 100) % 10
           d3 == (magic \div 10) % 10
           d4 == (magic \div 1) % 10
<1>1. d1 \in 0..9 /\ d2 \in 0..9 /\ d3 \in 0..9 /\ d4 \in 0..9
  OBVIOUS
<1>2. 1000 * d1 + 100 * d2 + 10 * d3 + d4 = magic
  OBVIOUS
<1>3. /\ Prefix(magic)[1] = Hex(d1) /\ Prefix(magic)[2] = Hex(d2)
      /\ Prefix(magic)[3] = Hex(d3) /\ Prefix(magic)[4] = Hex(d4)
  BY DEF Prefix
<1>4. DOMAIN Prefix(magic) = 1..4 /\ Prefix(magic) = [k \in 1..4 |-> Prefix(magic)[k]]
  BY DEF Prefix
<1> HIDE DEF d1, d2, d3, d4
<1>5. /\ Hex(d1) \in HexLetters /\ Hex(d2) \in HexLetters
      /\ Hex(d3) \in HexLetters /\ Hex(d4) \in HexLetters
      /\ FromHex(Hex(d1)) = d1 % 16 /\ FromHex(Hex(d2)) = d2 % 16
      /\ FromHex(Hex(d3)) = d3 % 16 /\ FromHex(Hex(d4)) = d4 % 16
  BY <1>1, HexIs
<1>6. d1 % 16 = d1 /\ d2 % 16 = d2 /\ d3 % 16 = d3 /\ d4 % 16 = d4
  BY <1>1
<1>7. \A k \in 1..4 : Prefix(magic)[k] \in HexLetters
  <2> TAKE k \in 1..4
  <2>1. k = 1 \/ k = 2 \/ k = 3 \/ k = 4
    OBVIOUS
  <2>2. QED BY <1>3, <1>5, <2>1
<1>8. Prefix(magic) \in [1..4 -> HexLetters]
  BY <1>4, <1>7
<1>9. Prefix(magic) \in Seq(HexLetters) /\ Len(Prefix(magic)) = 4
  <2> DEFINE n == 4
  <2>1. n \in Nat /\ Prefix(magic) \in [1..n -> HexLetters]
    BY <1>8
  <2> HIDE DEF n
  <2>2. Prefix(magic) \in Seq(HexLetters) /\ Len(Prefix(magic)) = n
    BY <2>1, IsSeq
  <2>3. QED BY <2>2 DEF n
<1>10. FourDigits(Prefix(magic)) = magic
  BY <1>2, <1>3, <1>5, <1>6 DEF FourDigits
<1>11. QED BY <1>9, <1>10

LEMMA PassCodeType ==
  ASSUME NEW src \in Seq(Char), NEW magic \in Nat, magic < 10000
  PROVE  PassCode(src, magic) \in Seq(HexLetters) /\ PassCode(src, magic) \in Strings
<1> DEFINE n == Len(src)
           ds == Encoded(src, magic)
           r == Reverse2(ds, n)
           t == SwapHalves(r, n)
<1>1. n \in Nat
  OBVIOUS
<1>2. ds \in Seq(HexLetters) /\ Len(ds) >= 2 * n
  BY <1>1, EncodedType
<1> HIDE DEF n, ds
<1>3. r \in Seq(HexLetters) /\ Len(r) >= 2 * n
  BY <1>1, <1>2, LoopsType
<1> HIDE DEF r
<1>4. t \in Seq(HexLetters)
  BY <1>1, <1>3, LoopsType
<1>5. PassCode(src, magic) = Prefix(magic) \o t
  BY DEF PassCode, r, ds, n
<1> HIDE DEF t
<1>6. PassCode(src, magic) \in Seq(HexLetters)
  <2>1. Prefix(magic) \in Seq(HexLetters)
    BY PrefixIs
  <2>2. QED BY <1>4, <1>5, <2>1, ConcatProperties
<1>7. QED BY <1>6, HexIs, SeqMonotonic DEF Strings

(* PassDecode undoes PassCode, for a password of ASCII. *)
THEOREM RoundTrip ==
  ASSUME NEW src \in Seq(Char), NEW magic \in Nat, magic < 10000, Fits(src, magic),
         \A i \in 1..Len(src) : src[i] > 0
  PROVE  PassDecode(PassCode(src, magic)) = src
<1> DEFINE n == Len(src)
           ds == Encoded(src, magic)
           t == SwapHalves(Reverse2(ds, n), n)
           code == PassCode(src, magic)
<1>1. n \in Nat
  OBVIOUS
<1>2. ds \in Seq(HexLetters) /\ Len(ds) >= 2 * n
  BY <1>1, EncodedType
<1>3. n <= 29
  <2>1. 4 + Len(ds) + 1 <= BufSize
    BY DEF Fits
  <2> HIDE DEF n, ds
  <2>2. QED BY <1>1, <1>2, <2>1, BufSizeAssumption
<1>4. \A i \in 1..n : src[i] \in Int /\ 1 <= src[i] /\ src[i] <= 127
  <2> TAKE i \in 1..n
  <2>1. src[i] \in Char /\ src[i] > 0
    BY ElementOfSeq
  <2> DEFINE c == src[i]
  <2>2. c \in Char /\ c > 0
    BY <2>1
  <2> HIDE DEF c
  <2>3. c \in Int /\ 1 <= c /\ c <= 127
    BY <2>2 DEF Char
  <2>4. QED BY <2>3 DEF c
<1>5. \A i \in 1..n : Shift(magic, i) \in Nat /\ Shift(magic, i) <= 76
  <2>1. magic % 49 \in 0..48
    OBVIOUS
  <2> HIDE DEF n
  <2>2. QED BY <1>1, <1>3, <2>1 DEF Shift
<1>6. \A i \in 1..n : src[i] + Shift(magic, i) \in 0..255
  <2> TAKE i \in 1..n
  <2> DEFINE c == src[i]
             d == Shift(magic, i)
  <2>1. c \in Int /\ 1 <= c /\ c <= 127 /\ d \in Nat /\ d <= 76
    BY <1>4, <1>5
  <2> HIDE DEF c, d
  <2>2. c + d \in 0..255
    BY <2>1
  <2>3. QED BY <2>2 DEF c, d
<1>7. /\ Len(ds) = 2 * n
      /\ \A i \in 1..n : 16 * FromHex(ds[2 * i - 1]) + FromHex(ds[2 * i]) = src[i] + Shift(magic, i)
  BY <1>1, <1>6, EncodedPlain
<1> HIDE DEF n, ds
<1>8. t \in Seq(HexLetters) /\ Len(t) = 2 * n
  <2>1. Reverse2(ds, n) \in Seq(HexLetters) /\ Len(Reverse2(ds, n)) = 2 * n
    BY <1>1, <1>2, <1>7, LoopsType
  <2>2. Len(Reverse2(ds, n)) >= 2 * n
    BY <1>1, <2>1
  <2>3. QED BY <1>1, <2>1, <2>2, LoopsType
<1>9. Reverse2(SwapHalves(t, n), n) = ds
  BY <1>1, <1>2, <1>7, LoopsUndone
<1>10. code = Prefix(magic) \o t
  BY DEF PassCode, ds, n
<1> HIDE DEF t
<1> DEFINE p == Prefix(magic)
<1>11. p \in Seq(HexLetters) /\ Len(p) = 4 /\ FourDigits(p) = magic
  BY PrefixIs
<1> HIDE DEF p, code
<1>12. p \o t \in Seq(HexLetters) /\ Len(p \o t) = Len(p) + Len(t)
  <2>1. p \in Seq(HexLetters) /\ t \in Seq(HexLetters)
    BY <1>8, <1>11
  <2>2. QED BY <2>1, Joined
<1>13. /\ code \in Seq(HexLetters) /\ Len(code) = 4 + 2 * n
       /\ \A i \in 1..4 : code[i] = p[i]
       /\ \A i \in 1..2 * n : code[4 + i] = t[i]
  <2>1. code = p \o t
    BY <1>10 DEF p
  <2>2. p \in Seq(HexLetters) /\ t \in Seq(HexLetters)
    BY <1>8, <1>11
  <2>3. \A i \in 1..Len(p) : (p \o t)[i] = p[i]
    BY <2>2, Joined
  <2>4. \A i \in 1..Len(t) : (p \o t)[Len(p) + i] = t[i]
    BY <2>2, Joined
  <2>5. QED BY <1>8, <1>11, <1>12, <2>1, <2>3, <2>4
<1>14. SubSeq(code, 5, Len(code)) = t
  <2> DEFINE c == SubSeq(code, 4 + 1, Len(code))
  <2>1. 4 \in 0..Len(code) /\ Len(code) \in 4..Len(code) /\ Len(code) - 4 = 2 * n
    BY <1>1, <1>13
  <2>2. c \in Seq(HexLetters) /\ Len(c) = 2 * n /\ \A i \in 1..2 * n : c[i] = code[4 + i]
    BY <1>13, <2>1, Part
  <2>3. \A i \in 1..2 * n : c[i] = t[i]
    BY <1>13, <2>2
  <2>4. 4 + 1 = 5
    OBVIOUS
  <2> HIDE DEF c
  <2>5. c = t
    BY <1>8, <2>2, <2>3, SeqEqual
  <2>6. QED BY <2>4, <2>5 DEF c
<1> DEFINE rest == SubSeq(code, 5, Len(code))
           len == Len(rest) \div 2
           ds2 == Reverse2(SwapHalves(rest, len), len)
           dest == [i \in 1..len |->
                      Signed(16 * FromHex(ds2[2 * i - 1]) + FromHex(ds2[2 * i])
                               - Shift(FourDigits(code), i))]
           zeros == {i \in 1..len : dest[i] = 0}
<1>15. PassDecode(code) =
         IF zeros = {} THEN dest
         ELSE SubSeq(dest, 1, (CHOOSE i \in zeros : \A j \in zeros : i <= j) - 1)
  BY DEF PassDecode, FourDigits
<1>16. FourDigits(code) = magic
  <2>1. code[1] = p[1] /\ code[2] = p[2] /\ code[3] = p[3] /\ code[4] = p[4]
    BY <1>13
  <2>2. FourDigits(code) = FourDigits(p)
    BY <2>1 DEF FourDigits
  <2>3. QED BY <1>11, <2>2
<1>17. len = n
  <2>1. Len(rest) = 2 * n
    BY <1>8, <1>14
  <2> HIDE DEF rest
  <2>2. \A k \in Nat : (2 * k) \div 2 = k
    OBVIOUS
  <2>3. QED BY <1>1, <2>1, <2>2
<1> HIDE DEF len
<1>18. ds2 = ds
  <2>1. rest = t
    BY <1>14
  <2> HIDE DEF rest
  <2>2. QED BY <1>9, <1>17, <2>1
<1> HIDE DEF rest, ds2
<1>19. \A i \in 1..n : dest[i] = src[i]
  <2> TAKE i \in 1..n
  <2> DEFINE a(s) == FromHex(s[2 * i - 1])
             b(s) == FromHex(s[2 * i])
             c == src[i]
             d(m) == Shift(m, i)
  <2>1. dest[i] = Signed(16 * a(ds2) + b(ds2) - d(FourDigits(code)))
    BY <1>17
  <2>2. c \in Int /\ 1 <= c /\ c <= 127 /\ d(magic) \in Nat
    BY <1>4, <1>5
  <2>3. a(ds) \in Int /\ b(ds) \in Int
    <3>1. 2 * i - 1 \in 1..2 * n /\ 2 * i \in 1..2 * n
      BY <1>1
    <3>2. ds[2 * i - 1] \in HexLetters /\ ds[2 * i] \in HexLetters
      BY <1>2, <1>7, <3>1, ElementOfSeq
    <3>3. \A l \in HexLetters : FromHex(l) \in Int
      BY HexIs
    <3>4. QED BY <3>2, <3>3
  <2>4. 16 * a(ds) + b(ds) = c + d(magic)
    BY <1>7
  <2> HIDE DEF a, b, c, d, dest
  <2>5. dest[i] = Signed(16 * a(ds) + b(ds) - d(magic))
    <3>1. a(ds2) = a(ds) /\ b(ds2) = b(ds) /\ d(FourDigits(code)) = d(magic)
      BY <1>16, <1>18
    <3>2. QED BY <2>1, <3>1
  <2>6. 16 * a(ds) + b(ds) - d(magic) = c
    <3>1. \A u, v, w, x \in Int : 16 * u + v = w + x => 16 * u + (v - x) = w
      OBVIOUS
    <3>2. QED BY <2>2, <2>3, <2>4, <3>1
  <2>7. Signed(c) = c
    BY <2>2 DEF Signed
  <2>8. QED BY <2>5, <2>6, <2>7 DEF c
<1>20. dest = src
  <2>1. dest = [i \in 1..n |-> dest[i]]
    BY <1>17
  <2>2. src = [i \in 1..n |-> src[i]]
    BY DEF n
  <2> HIDE DEF dest
  <2>3. [i \in 1..n |-> dest[i]] = [i \in 1..n |-> src[i]]
    BY <1>19
  <2>4. QED BY <2>1, <2>2, <2>3
<1>21. zeros = {}
  <2> SUFFICES ASSUME NEW i \in 1..n, dest[i] = 0 PROVE FALSE
    BY <1>17
  <2> HIDE DEF dest
  <2>1. src[i] = 0 /\ 1 <= src[i]
    BY <1>4, <1>19
  <2>2. QED BY <2>1
<1> HIDE DEF zeros, dest
<1>22. PassDecode(code) = src
  BY <1>15, <1>20, <1>21
<1>23. QED BY <1>22 DEF code

-----------------------------------------------------------------------------
(* Types, and the names that are there: one lemma per action. *)
CfgInv == CfgTypeOK /\ Named

Names == Strings \cup {Dangling}

LEMMA NoName == Dangling \notin Strings
<1>1. SUFFICES ASSUME Dangling \in Strings PROVE FALSE
  OBVIOUS
<1>2. Dangling \in Seq(Letters) /\ Len(Dangling) = 1 /\ Dangling[1] = Freed
  BY <1>1 DEF Strings, Dangling
<1>3. Freed \in Letters
  <2>1. 1 \in 1..Len(Dangling)
    BY <1>2
  <2>2. QED BY <1>2, <2>1, ElementOfSeq
<1>4. QED BY <1>3, LettersAssumption

LEMMA LineType ==
  ASSUME CfgTypeOK, unread # <<>>
  PROVE  Line \in Strings /\ Tail(unread) \in Seq(Strings)
<1>1. unread \in Seq(Strings)
  BY DEF CfgTypeOK
<1>2. Head(unread) \in Strings /\ Tail(unread) \in Seq(Strings)
  BY <1>1, HeadTailProperties
<1>3. QED BY <1>2, RmFirstSpacesType DEF Line

LEMMA CfgInvInit == LoginInit => CfgInv
<1> SUFFICES ASSUME LoginInit PROVE CfgInv
  OBVIOUS
<1>1. CfgTypeOK
  BY DEF LoginInit, CfgInit, CfgTypeOK, Strings
<1>2. Named
  BY DEF LoginInit, CfgInit, Named, AllNamed, Parsed
<1>3. QED BY <1>1, <1>2 DEF CfgInv

(* How a step of cfgParse that handles a line ends. *)
LEMMA FailKeeps ==
  ASSUME CfgInv, pc # "idle", Fail, UNCHANGED <<usage, login>>,
         names' \in Seq(Names), values' \in Seq(Settings), Len(values') = Len(names'),
         section' \in Nat
  PROVE  CfgInv'
<1>1. /\ pc' = "idle" /\ result' = -1 /\ last' = "parse" /\ unread' = <<>> /\ parameter' = <<>>
      /\ UNCHANGED <<file, maximum, calls, saved>>
  BY DEF Fail
<1>2. CfgTypeOK'
  <2>1. <<>> \in Strings /\ <<>> \in Seq(Strings)
    BY DEF Strings
  <2>2. QED BY <1>1, <2>1 DEF CfgInv, CfgTypeOK, login, Names
<1>3. ~Parsed'
  BY <1>1 DEF Parsed
<1>4. "again" \notin usage' => maximum' = 0
  BY <1>1 DEF CfgInv, Named
<1>5. ("again" \notin usage \/ Parsed)' => AllNamed'
  <2>1. names' \in Seq(Names) => 0 <= Len(names')
    OBVIOUS
  <2>2. QED BY <1>3, <1>4, <2>1 DEF AllNamed
<1>6. QED BY <1>1, <1>2, <1>3, <1>5 DEF CfgInv, Named

LEMMA GoOnKeeps ==
  ASSUME CfgInv, pc # "idle", unread # <<>>, NEW where \in {"lines", "braces"}, GoOn(where),
         UNCHANGED <<usage, login>>,
         names' \in Seq(Names), values' \in Seq(Settings), Len(values') = Len(names'),
         parameter' \in Strings,
         section' \in Nat, section' <= Len(names'),
         \A s \in 1..section' : names'[s] # Dangling,
         where = "braces" => section' > 0
  PROVE  CfgInv'
<1>1. /\ pc' = where /\ unread' = Tail(unread) /\ pc' # "idle"
      /\ UNCHANGED <<file, maximum, result, history>>
  BY DEF GoOn
<1>2. Tail(unread) \in Seq(Strings)
  BY LineType DEF CfgInv
<1>3. CfgTypeOK'
  BY <1>1, <1>2 DEF CfgInv, CfgTypeOK, login, history, Names
<1>4. ~Parsed'
  BY <1>1 DEF Parsed
<1>5. "again" \notin usage' => maximum' = 0
  BY <1>1 DEF CfgInv, Named
<1>6. QED BY <1>1, <1>3, <1>4, <1>5 DEF CfgInv, Named

(* What the store holds between two steps. *)
LEMMA StoreIs ==
  ASSUME CfgInv
  PROVE  /\ names \in Seq(Names) /\ values \in Seq(Settings) /\ Len(values) = Len(names)
         /\ section \in Nat /\ parameter \in Strings
         /\ pc # "idle" => section <= Len(names) /\ \A s \in 1..section : names[s] # Dangling
         /\ pc = "braces" => section > 0
  BY DEF CfgInv, CfgTypeOK, Named, Names

LEMMA ParseKeeps ==
  ASSUME CfgInv, Parse, UNCHANGED <<usage, login>>
  PROVE  CfgInv'
<1>1. /\ pc = "idle"
      /\ names # <<>> => "again" \in usage
      /\ pc' = "lines" /\ unread' = file /\ section' = 0
      /\ UNCHANGED <<file, names, values, maximum, parameter, result, last, calls, saved>>
  BY DEF Parse, store, history
<1>2. CfgTypeOK'
  BY <1>1 DEF CfgInv, CfgTypeOK, login
<1>3. ~Parsed'
  BY <1>1 DEF Parsed
<1>4. "again" \notin usage => maximum = 0
  <2> SUFFICES ASSUME "again" \notin usage PROVE maximum = 0
    OBVIOUS
  <2>1. names = <<>>
    BY <1>1
  <2>2. maximum <= Len(names)
    BY <1>1 DEF CfgInv, Named, AllNamed
  <2>3. maximum \in Nat
    BY DEF CfgInv, CfgTypeOK
  <2>4. QED BY <2>1, <2>2, <2>3
<1>5. names \in Seq(Names) => section' <= Len(names') /\ 1..section' = {}
  BY <1>1
<1>6. Named'
  BY <1>1, <1>3, <1>4, <1>5, StoreIs DEF Named
<1>7. QED BY <1>2, <1>6 DEF CfgInv

LEMMA SkipKeeps ==
  ASSUME CfgInv, Skip, UNCHANGED <<usage, login>>
  PROVE  CfgInv'
<1>1. pc \in {"lines", "braces"} /\ unread # <<>> /\ GoOn(pc)
      /\ UNCHANGED <<names, values, section, parameter>>
  BY DEF Skip
<1>2. QED BY <1>1, StoreIs, GoOnKeeps

LEMMA HeaderKeeps ==
  ASSUME CfgInv, Header, UNCHANGED <<usage, login>>
  PROVE  CfgInv'
<1> DEFINE word == ParseWord(RmFirstSpaces(Tail(Line)), "section")
           others == SubSeq(names, 1, section)
           used == \E i \in DOMAIN others : SameName(others[i], word.word)
           kept == ~word.ok /\ ~word.freed /\ section < Len(names)
           name == IF word.ok THEN word.word
                   ELSE IF kept THEN names[section + 1] ELSE Dangling
           good == word.ok /\ ~used /\ Ends(Tail(word.rest))
<1>1. /\ pc = "lines" /\ unread # <<>> /\ At(Line) = "["
      /\ names' = Append(others, name)
      /\ IF good THEN GoOn("lines") ELSE Fail
      /\ AllocForNewSection(section) /\ section' = section + 1 /\ UNCHANGED parameter
  BY Zenon DEF Header, Reading
<1>2. word.ok => word.word \in Strings
  <2>1. Line \in Strings
    BY <1>1, LineType DEF CfgInv
  <2>2. Line # <<>>
    BY <1>1 DEF At, Zero
  <2>3. RmFirstSpaces(Tail(Line)) \in Strings
    BY <2>1, <2>2, TailType, RmFirstSpacesType
  <2>4. QED BY <2>3, ParseWordType DEF WordTypes
<1> HIDE DEF word, used, good
<1>3. name \in Names
  <2>1. kept => section + 1 \in 1..Len(names)
    BY StoreIs
  <2>2. kept => names[section + 1] \in Names
    BY <2>1, StoreIs, ElementOfSeq
  <2>3. QED BY <1>2, <2>2 DEF Names
<1>4. section \in 0..Len(names) /\ section \in 0..Len(values)
  BY <1>1, StoreIs
<1>5. /\ names' \in Seq(Names) /\ Len(names') = section + 1
      /\ \A i \in 1..section : names'[i] = names[i]
      /\ names'[section + 1] = name
  <2> HIDE DEF name
  <2>1. QED BY <1>1, <1>3, <1>4, StoreIs, Started
<1>6. values' \in Seq(Settings) /\ Len(values') = section + 1
  BY <1>1, <1>4, StoreIs, AllocType
<1>7. section' \in Nat /\ parameter' \in Strings
  BY <1>1, StoreIs
<1>8. CASE good
  <2>1. word.ok
    BY <1>8 DEF good
  <2>2. name \in Strings
    BY <1>2, <2>1
  <2>3. name # Dangling
    BY <2>2, NoName
  <2>4. \A s \in 1..section' : names'[s] # Dangling
    <3> TAKE s \in 1..section'
    <3>1. s = section + 1 \/ s \in 1..section
      BY <1>1, StoreIs
    <3> HIDE DEF name
    <3>2. QED BY <1>1, <1>5, <2>3, <3>1, StoreIs
  <2>5. GoOn("lines")
    BY <1>1, <1>8
  <2>6. section' <= Len(names')
    BY <1>1, <1>5, <1>7
  <2>7. QED BY <1>1, <1>5, <1>6, <1>7, <2>4, <2>5, <2>6, GoOnKeeps
<1>9. CASE ~good
  BY <1>1, <1>5, <1>6, <1>7, <1>9, FailKeeps
<1>10. QED BY <1>8, <1>9

LEMMA AssignKeeps ==
  ASSUME CfgInv, Assign, UNCHANGED <<usage, login>>
  PROVE  CfgInv'
<1> DEFINE name == ParseWord(Line, "parameter")
           value == ParseWord(name.rest, "value")
           good == section > 0 /\ name.ok /\ value.ok /\ Accepted(name.word, value.word)
<1>1. /\ pc = "lines" /\ unread # <<>> /\ UNCHANGED <<names, section, parameter>>
      /\ IF good THEN StoreValue(name.word, value.word, section) /\ GoOn("lines")
                 ELSE UNCHANGED values /\ Fail
  BY Zenon DEF Assign, Reading
<1>2. Line \in Strings
  BY <1>1, LineType DEF CfgInv
<1>3. name.ok => name.word \in Strings /\ name.rest \in Strings
  BY <1>2, ParseWordType DEF WordTypes
<1> HIDE DEF name
<1>4. name.ok /\ value.ok => value.word \in Strings
  BY <1>3, ParseWordType DEF WordTypes
<1> HIDE DEF value
<1>5. CASE good
  <2>1. section \in 1..Len(values)
    BY <1>1, <1>5, StoreIs
  <2>2. values' \in Seq(Settings) /\ Len(values') = Len(values)
    BY <1>1, <1>3, <1>4, <1>5, <2>1, StoreIs, StoreType
  <2>3. GoOn("lines")
    BY <1>1, <1>5
  <2>4. QED BY <1>1, <2>2, <2>3, StoreIs, GoOnKeeps
<1>6. CASE ~good
  <2>1. Fail /\ UNCHANGED values
    BY <1>1, <1>6
  <2>2. QED BY <1>1, <2>1, StoreIs, FailKeeps
<1>7. QED BY <1>5, <1>6

LEMMA OpenKeeps ==
  ASSUME CfgInv, Open, UNCHANGED <<usage, login>>
  PROVE  CfgInv'
<1> DEFINE name == ParseWord(Line, "parameter")
<1>1. /\ pc = "lines" /\ unread # <<>> /\ section > 0 /\ name.ok
      /\ UNCHANGED <<names, values, section>>
      /\ IF Ends(Tail(name.rest)) THEN parameter' = name.word /\ GoOn("braces") ELSE Fail
  BY Zenon DEF Open, Reading
<1>2. Line \in Strings
  BY <1>1, LineType DEF CfgInv
<1>3. name.word \in Strings
  BY <1>1, <1>2, ParseWordType DEF WordTypes
<1> HIDE DEF name
<1>4. CASE Ends(Tail(name.rest))
  <2>1. parameter' \in Strings /\ GoOn("braces")
    BY <1>1, <1>3, <1>4
  <2>2. QED BY <1>1, <2>1, StoreIs, GoOnKeeps
<1>5. CASE ~Ends(Tail(name.rest))
  BY <1>1, <1>5, StoreIs, FailKeeps
<1>6. QED BY <1>4, <1>5

LEMMA ItemKeeps ==
  ASSUME CfgInv, Item, UNCHANGED <<usage, login>>
  PROVE  CfgInv'
<1> DEFINE value == ParseWord(Line, "value")
           good == value.ok /\ Accepted(parameter, value.word)
<1>1. /\ pc = "braces" /\ unread # <<>> /\ UNCHANGED <<names, section>>
      /\ IF good THEN /\ StoreValue(parameter, value.word, section)
                      /\ GoOn("braces") /\ UNCHANGED parameter
                 ELSE UNCHANGED values /\ Fail
  BY Zenon DEF Item, Reading
<1>2. Line \in Strings
  BY <1>1, LineType DEF CfgInv
<1>3. value.ok => value.word \in Strings
  BY <1>2, ParseWordType DEF WordTypes
<1> HIDE DEF value
<1>4. section \in 1..Len(values)
  BY <1>1, StoreIs
<1>5. CASE good
  <2>1. values' \in Seq(Settings) /\ Len(values') = Len(values)
    BY <1>1, <1>3, <1>4, <1>5, StoreIs, StoreType
  <2>2. GoOn("braces") /\ UNCHANGED parameter
    BY <1>1, <1>5
  <2>3. QED BY <1>1, <2>1, <2>2, StoreIs, GoOnKeeps
<1>6. CASE ~good
  <2>1. Fail /\ UNCHANGED values
    BY <1>1, <1>6
  <2>2. QED BY <1>1, <2>1, StoreIs, FailKeeps
<1>7. QED BY <1>5, <1>6

LEMMA CloseKeeps ==
  ASSUME CfgInv, Close, UNCHANGED <<usage, login>>
  PROVE  CfgInv'
<1>1. /\ pc = "braces" /\ unread # <<>> /\ UNCHANGED <<names, values, section>>
      /\ IF Ends(Tail(Line)) THEN GoOn("lines") /\ parameter' = <<>> ELSE Fail
  BY Zenon DEF Close, Reading
<1>2. <<>> \in Strings
  BY DEF Strings
<1>3. CASE Ends(Tail(Line))
  <2>1. parameter' \in Strings /\ GoOn("lines")
    BY <1>1, <1>2, <1>3
  <2>2. QED BY <1>1, <2>1, StoreIs, GoOnKeeps
<1>4. CASE ~Ends(Tail(Line))
  BY <1>1, <1>4, StoreIs, FailKeeps
<1>5. QED BY <1>3, <1>4

LEMMA EofKeeps ==
  ASSUME CfgInv, Eof, UNCHANGED <<usage, login>>
  PROVE  CfgInv'
<1>1. pc \in {"lines", "braces"} /\ UNCHANGED <<names, values, section>>
  BY DEF Eof
<1>2. CASE pc = "braces" /\ Fail
  BY <1>1, <1>2, StoreIs, FailKeeps
<1>3. CASE /\ pc = "lines" /\ pc' = "idle"
           /\ maximum' = section /\ result' = section /\ last' = "parse"
           /\ UNCHANGED <<file, unread, parameter, calls, saved>>
  <2>1. CfgTypeOK'
    BY <1>1, <1>3 DEF CfgInv, CfgTypeOK, login
  <2>2. section <= Len(names) /\ \A s \in 1..section : names[s] # Dangling
    BY <1>3, StoreIs
  <2>3. AllNamed'
    BY <1>1, <1>3, <2>2 DEF AllNamed
  <2>4. QED BY <1>3, <2>1, <2>3 DEF CfgInv, Named, Parsed
<1>4. QED BY <1>2, <1>3 DEF Eof

(* Calls, which are made while no file is parsed, change neither section    *)
(* nor what the parser has still to read.                                  *)
LEMMA AllocKeeps ==
  ASSUME CfgInv, NEW name \in NewNames, CfgAllocForNewSection(name), UNCHANGED login
  PROVE  CfgInv'
<1>1. /\ AllNamed /\ AllocForNewSection(maximum) /\ calls' = calls + 1
      /\ names' = Append(SubSeq(names, 1, maximum), name) /\ maximum' = maximum + 1
      /\ pc = "idle" /\ last' = "alloc" /\ pc' = pc
      /\ UNCHANGED <<file, saved, unread, section, parameter, result, usage>>
  BY DEF CfgAllocForNewSection, Counted, Call, parser
<1>2. maximum \in 0..Len(names) /\ maximum \in 0..Len(values)
  BY <1>1, StoreIs DEF AllNamed, CfgInv, CfgTypeOK
<1>3. name \in Names /\ name # Dangling
  BY CallsAssumption, NoName DEF Names
<1>4. /\ names' \in Seq(Names) /\ Len(names') = maximum + 1
      /\ \A i \in 1..maximum : names'[i] = names[i]
      /\ names'[maximum + 1] = name
  BY <1>1, <1>2, <1>3, StoreIs, Started
<1>5. values' \in Seq(Settings) /\ Len(values') = maximum + 1
  BY <1>1, <1>2, StoreIs, AllocType
<1>6. maximum \in Nat /\ maximum + 1 \in Nat /\ calls + 1 \in Nat
  BY DEF CfgInv, CfgTypeOK
<1>7. CfgTypeOK'
  BY <1>1, <1>4, <1>5, <1>6 DEF CfgInv, CfgTypeOK, login, Names
<1>8. AllNamed'
  <2>1. \A s \in 1..maximum' : names'[s] # Dangling
    <3> TAKE s \in 1..maximum'
    <3>1. s = maximum + 1 \/ s \in 1..maximum
      BY <1>1, <1>6
    <3>2. \A i \in 1..maximum : names[i] # Dangling
      BY <1>1 DEF AllNamed
    <3>3. QED BY <1>3, <1>4, <3>1, <3>2
  <2>2. maximum' <= Len(names')
    BY <1>1, <1>4, <1>6
  <2>3. QED BY <2>1, <2>2 DEF AllNamed
<1>9. ~Parsed'
  BY <1>1 DEF Parsed
<1>10. QED BY <1>1, <1>7, <1>8, <1>9 DEF CfgInv, Named

(* A call that leaves the names of all sections as they were. *)
LEMMA CallKeeps ==
  ASSUME CfgInv, CfgTypeOK', pc = "idle", pc' = "idle", last' # "parse",
         UNCHANGED <<names, maximum, usage>>, AllNamed \/ last # "parse"
  PROVE  CfgInv'
<1>1. ~Parsed'
  BY DEF Parsed
<1>2. "again" \notin usage => AllNamed
  BY DEF CfgInv, Named
<1>3. AllNamed' = AllNamed
  BY DEF AllNamed
<1>4. QED BY <1>1, <1>2, <1>3 DEF CfgInv, Named

LEMMA StoreKeeps ==
  ASSUME CfgInv, NEW p \in Params, NEW word \in NewWords, NEW s \in 1..MaxSections,
         CfgStoreValue(p, word, s), UNCHANGED login
  PROVE  CfgInv'
<1>1. /\ s \in DOMAIN values /\ s <= maximum /\ Accepted(p, word) /\ StoreValue(p, word, s)
      /\ calls' = calls + 1 /\ pc = "idle" /\ last' = "store" /\ pc' = pc
      /\ UNCHANGED <<file, names, maximum, saved, unread, section, parameter, result, usage>>
  BY DEF CfgStoreValue, Counted, Call, parser
<1>2. p \in Strings /\ word \in Strings
  BY TypesIs, CallsAssumption
<1>3. s \in 1..Len(values)
  BY <1>1, StoreIs
<1>4. values' \in Seq(Settings) /\ Len(values') = Len(values)
  BY <1>1, <1>2, <1>3, StoreIs, StoreType
<1>5. CfgTypeOK'
  <2>1. calls + 1 \in Nat
    BY DEF CfgInv, CfgTypeOK
  <2>2. QED BY <1>1, <1>4, <2>1 DEF CfgInv, CfgTypeOK, login
<1>6. ~Parsed'
  BY <1>1 DEF Parsed
<1>7. AllNamed' = AllNamed
  BY <1>1 DEF AllNamed
<1>8. QED BY <1>1, <1>5, <1>6, <1>7 DEF CfgInv, Named

LEMMA DumpKeeps ==
  ASSUME CfgInv, CfgDump, UNCHANGED login
  PROVE  CfgInv'
<1> DEFINE parts == [s \in 1..maximum |-> DumpSection(s)]
           texts == FlattenSeq(parts)
           split == [i \in DOMAIN texts |-> SplitLines(texts[i])]
           dump == [dumped |-> TRUE, names |-> SubSeq(names, 1, maximum),
                    values |-> SubSeq(values, 1, maximum)]
<1>1. /\ AllNamed /\ file' = FlattenSeq(split) /\ saved' = dump
      /\ pc = "idle" /\ last' = "dump" /\ pc' = pc
      /\ UNCHANGED <<names, values, maximum, calls, unread, section, parameter, result, usage>>
  BY DEF CfgDump, Call, store, parser
<1>2. maximum \in Nat /\ maximum \in 0..Len(names) /\ maximum \in 0..Len(values)
  BY <1>1, StoreIs DEF AllNamed, CfgInv, CfgTypeOK
<1>3. \A s \in 1..maximum : names[s] \in Strings
  <2> TAKE s \in 1..maximum
  <2>1. s \in 1..Len(names)
    BY <1>2, StoreIs
  <2>2. names[s] \in Names /\ names[s] # Dangling
    BY <1>1, <2>1, StoreIs, ElementOfSeq DEF AllNamed
  <2>3. QED BY <2>2 DEF Names
<1>4. parts \in Seq(Seq(Strings))
  <2>1. \A s \in 1..maximum : DumpSection(s) \in Seq(Strings)
    <3> TAKE s \in 1..maximum
    <3>1. s \in 1..Len(values)
      BY <1>2, StoreIs
    <3>2. QED BY <1>3, <3>1, StoreIs, DumpSectionType
  <2>2. parts \in [1..maximum -> Seq(Strings)]
    BY <2>1
  <2> HIDE DEF parts
  <2>3. QED BY <1>2, <2>2, IsSeq
<1> HIDE DEF parts
<1>5. FlattenSeq(split) \in Seq(Strings)
  <2>1. texts \in Seq(Strings)
    BY <1>4, FlattenType
  <2> DEFINE n == Len(texts)
  <2> HIDE DEF texts
  <2>2. n \in Nat /\ DOMAIN texts = 1..n /\ \A i \in 1..n : texts[i] \in Strings
    BY <2>1
  <2> HIDE DEF n
  <2>3. \A i \in 1..n : SplitLines(texts[i]) \in Seq(Strings)
    BY <2>2, SplitLinesType
  <2>4. split \in [1..n -> Seq(Strings)]
    BY <2>2, <2>3
  <2> HIDE DEF split
  <2>5. QED BY <2>2, <2>4, IsSeq, FlattenType
<1>6. SubSeq(names, 1, maximum) \in Seq(Strings)
  <2>1. SubSeq(names, 1, maximum) \in [1..maximum -> Strings]
    <3>1. /\ SubSeq(names, 1, maximum) \in Seq(Names)
          /\ Len(SubSeq(names, 1, maximum)) = maximum
          /\ \A i \in 1..maximum : SubSeq(names, 1, maximum)[i] = names[i]
      <4>1. 0 \in 0..Len(names) /\ maximum \in 0..Len(names) /\ 0 + 1 = 1 /\ maximum - 0 = maximum
            /\ \A i \in 1..maximum : 0 + i = i
        BY <1>2
      <4>2. QED BY <4>1, StoreIs, Part
    <3> DEFINE t == SubSeq(names, 1, maximum)
    <3> HIDE DEF t
    <3>2. DOMAIN t = 1..maximum /\ t = [i \in DOMAIN t |-> t[i]]
      BY <3>1 DEF t
    <3>3. \A i \in 1..maximum : t[i] \in Strings
      BY <1>3, <3>1 DEF t
    <3>4. t \in [1..maximum -> Strings]
      BY <3>2, <3>3
    <3>5. QED BY <3>4 DEF t
  <2>2. QED BY <1>2, <2>1, IsSeq
<1>7. SubSeq(values, 1, maximum) \in Seq(Settings)
  <2>1. 0 \in 0..Len(values) /\ maximum \in 0..Len(values) /\ 0 + 1 = 1
    BY <1>2
  <2>2. QED BY <2>1, StoreIs, Part
<1>8. dump \in [dumped : {TRUE}, names : Seq(Strings), values : Seq(Settings)]
  BY <1>6, <1>7
<1> HIDE DEF dump, split, texts
<1>9. CfgTypeOK'
  BY <1>1, <1>5, <1>8 DEF CfgInv, CfgTypeOK, login
<1>10. QED BY <1>1, <1>9, CallKeeps

LEMMA FreeKeeps ==
  ASSUME CfgInv, CfgFree, UNCHANGED login
  PROVE  CfgInv'
<1>1. /\ names' = <<>> /\ values' = <<>> /\ maximum' = 0
      /\ pc = "idle" /\ last' = "free" /\ pc' = pc
      /\ UNCHANGED <<file, calls, saved, unread, section, parameter, result, usage>>
  BY DEF CfgFree, DeallocForSections, Call, parser
<1>2. CfgTypeOK'
  <2>1. <<>> \in Seq(Names) /\ <<>> \in Seq(Settings) /\ 0 \in Nat
    OBVIOUS
  <2>2. QED BY <1>1, <2>1 DEF CfgInv, CfgTypeOK, login, Names
<1>3. AllNamed'
  BY <1>1 DEF AllNamed
<1>4. ~Parsed'
  BY <1>1 DEF Parsed
<1>5. QED BY <1>1, <1>2, <1>3, <1>4 DEF CfgInv, Named

LEMMA LinesAreStrings ==
  ASSUME NEW f \in Seq(Lines)
  PROVE  f \in Seq(Strings)
<1>1. Lines \subseteq Strings
  BY DEF Lines, Strings
<1> DEFINE n == Len(f)
<1>2. n \in Nat /\ f \in [1..n -> Lines]
  OBVIOUS
<1> HIDE DEF n
<1>3. f \in [1..n -> Strings]
  BY <1>1, <1>2
<1>4. QED BY <1>2, <1>3, IsSeq

LEMMA WriteKeeps ==
  ASSUME CfgInv, NEW f \in Files \cup Rewrites, WriteFile(f), UNCHANGED login
  PROVE  CfgInv'
<1>1. /\ file' = f /\ saved' = NotDumped /\ calls' = calls + 1
      /\ pc = "idle" /\ last' = "edit" /\ pc' = pc
      /\ UNCHANGED <<names, values, maximum, unread, section, parameter, result, usage>>
  BY DEF WriteFile, Counted, Call, parser, store
<1>2. f \in Seq(Strings)
  <2>1. f \in Seq(Lines)
    BY FilesAssumption
  <2>2. QED BY <2>1, LinesAreStrings
<1>3. CfgTypeOK'
  BY <1>1, <1>2 DEF CfgInv, CfgTypeOK, login
<1>4. ~Parsed' /\ AllNamed' = AllNamed
  BY <1>1 DEF Parsed, AllNamed
<1>5. QED BY <1>1, <1>3, <1>4 DEF CfgInv, Named

LEMMA WritePasswordKeeps ==
  ASSUME CfgInv, NEW password \in Passwords, NEW magic \in Magics,
         WritePassword(password, magic)
  PROVE  CfgInv'
<1> DEFINE code == PassCode(password, magic)
<1>1. /\ Len(typed) < Len(Headers)
      /\ file' = file \o <<Headers[Len(typed) + 1], Equals(Pass, code)>>
      /\ typed' = Append(typed, password) /\ pc = "idle" /\ last' = "edit" /\ pc' = pc
      /\ UNCHANGED <<names, values, maximum, calls, saved, cfg, sent, unread, section,
                     parameter, result, usage>>
  BY DEF WritePassword, Call, parser, store
<1>2. password \in Seq(Char) /\ magic \in Nat /\ magic < 10000
  BY TypedAssumption
<1>3. code \in Strings
  BY <1>2, PassCodeType
<1>4. Headers[Len(typed) + 1] \in Strings
  <2>1. Len(typed) + 1 \in 1..Len(Headers) /\ Headers \in Seq(Strings)
    BY <1>1, HeadersAssumption, LinesAreStrings DEF CfgInv, CfgTypeOK
  <2>2. QED BY <2>1, ElementOfSeq
<1>5. Equals(Pass, code) \in Strings
  BY <1>3, PassAssumption, TypesIs, EqualsType
<1> HIDE DEF code
<1>6. <<Headers[Len(typed) + 1], Equals(Pass, code)>> \in Seq(Strings)
  BY <1>4, <1>5
<1>7. file' \in Seq(Strings)
  BY <1>1, <1>6, ConcatProperties DEF CfgInv, CfgTypeOK
<1>8. typed' \in Seq(Seq(Char))
  BY <1>1, <1>2, AppendProperties DEF CfgInv, CfgTypeOK
<1>9. CfgTypeOK'
  BY <1>1, <1>7, <1>8 DEF CfgInv, CfgTypeOK
<1>10. ~Parsed' /\ AllNamed' = AllNamed
  BY <1>1 DEF Parsed, AllNamed
<1>11. QED BY <1>1, <1>9, <1>10 DEF CfgInv, Named

LEMMA ReadKeeps ==
  ASSUME CfgInv, ReadCfg
  PROVE  CfgInv'
<1>1. /\ pc = "idle" /\ last = "parse" /\ result >= 0 /\ last' = "read"
      /\ cfg' = [s \in 1..result |-> [section |-> names[s], password |-> values[s][Pass]]]
      /\ sent' = [s \in 1..result |-> Nothing]
      /\ UNCHANGED <<file, names, values, maximum, unread, section, parameter, pc, result,
                     calls, saved, usage, typed>>
  BY DEF ReadCfg, store, parser
<1>2. AllNamed /\ result = maximum /\ maximum \in Nat
  BY <1>1 DEF CfgInv, CfgTypeOK, Named, Parsed
<1>3. ASSUME NEW s \in 1..maximum
      PROVE  [section |-> names[s], password |-> values[s][Pass]]
               \in [section : Strings, password : ValueOf("string")]
  <2>1. s \in 1..Len(names) /\ s \in 1..Len(values)
    BY <1>2, StoreIs DEF AllNamed
  <2>2. names[s] \in Names /\ names[s] # Dangling
    BY <1>2, <2>1, StoreIs, ElementOfSeq DEF AllNamed
  <2>3. values[s] \in Settings
    BY <2>1, StoreIs, ElementOfSeq
  <2>4. values[s][Pass] \in ValueOf("string")
    BY <2>3, PassAssumption DEF Settings
  <2>5. QED BY <2>2, <2>4 DEF Names
<1>4. cfg' \in [1..maximum -> [section : Strings, password : ValueOf("string")]]
  BY <1>1, <1>2, <1>3
<1>5. /\ cfg' \in Seq([section : Strings, password : ValueOf("string")])
      /\ DOMAIN sent' = DOMAIN cfg'
  BY <1>1, <1>2, <1>4, IsSeq
<1>6. CfgTypeOK'
  BY <1>1, <1>5 DEF CfgInv, CfgTypeOK
<1>7. QED BY <1>1, <1>2, <1>6, CallKeeps

LEMMA SetupKeeps ==
  ASSUME CfgInv, NEW s \in DOMAIN cfg, SetupFtpEnv(s)
  PROVE  CfgInv'
<1>1. DOMAIN sent' = DOMAIN sent /\ UNCHANGED <<cfgvars, typed, cfg>>
  BY DEF SetupFtpEnv
<1>2. UNCHANGED <<file, names, values, maximum, unread, section, parameter, pc, last, result,
                  calls, saved, usage, typed, cfg>>
  BY <1>1 DEF cfgvars, store, parser, history
<1>3. CfgTypeOK'
  BY <1>1, <1>2 DEF CfgInv, CfgTypeOK
<1>4. Named'
  BY <1>2 DEF CfgInv, Named, AllNamed, Parsed
<1>5. QED BY <1>3, <1>4 DEF CfgInv

LEMMA CfgInvNext == CfgInv /\ [LoginNext]_allvars => CfgInv'
<1> SUFFICES ASSUME CfgInv, [LoginNext]_allvars PROVE CfgInv'
  OBVIOUS
<1>1. CASE CfgParse /\ UNCHANGED login
  BY <1>1, ParseKeeps, SkipKeeps, HeaderKeeps, AssignKeeps, OpenKeeps, ItemKeeps, CloseKeeps,
     EofKeeps DEF CfgParse
<1>2. CASE Calls /\ UNCHANGED login
  <2>1. CASE \E name \in NewNames : CfgAllocForNewSection(name)
    BY <1>2, <2>1, AllocKeeps
  <2>2. CASE \E p \in Params, word \in NewWords, s \in 1..MaxSections : CfgStoreValue(p, word, s)
    BY <1>2, <2>2, StoreKeeps
  <2>3. CASE CfgDump
    BY <1>2, <2>3, DumpKeeps
  <2>4. CASE CfgFree
    BY <1>2, <2>4, FreeKeeps
  <2>5. CASE \E f \in IF calls = 0 THEN Files ELSE Rewrites : WriteFile(f)
    <3>1. PICK f \in Files \cup Rewrites : WriteFile(f)
      BY <2>5
    <3>2. QED BY <1>2, <3>1, WriteKeeps
  <2>6. QED BY <1>2, <2>1, <2>2, <2>3, <2>4, <2>5 DEF Calls
<1>3. CASE \E password \in Passwords, magic \in Magics : WritePassword(password, magic)
  BY <1>3, WritePasswordKeeps
<1>4. CASE ReadCfg
  BY <1>4, ReadKeeps
<1>5. CASE \E s \in DOMAIN cfg : SetupFtpEnv(s)
  BY <1>5, SetupKeeps
<1>6. CASE UNCHANGED allvars
  BY <1>6 DEF allvars, cfgvars, store, parser, history, login, CfgInv, CfgTypeOK, Named,
              AllNamed, Parsed
<1>7. QED BY <1>1, <1>2, <1>3, <1>4, <1>5, <1>6 DEF LoginNext, CfgNext

(* Every variable of the configuration and the login has its type. *)
THEOREM CfgTypeCorrect == LoginSpec => []CfgTypeOK
<1>1. CfgInv => CfgTypeOK
  BY DEF CfgInv
<1>2. QED BY <1>1, CfgInvInit, CfgInvNext, PTL DEF LoginSpec

(* Every number below parsecfg_maximum_section has a name and values. *)
THEOREM SectionsThere == LoginSpec => []NamesThere
<1>1. CfgInv => NamesThere
  <2> SUFFICES ASSUME CfgInv, pc = "idle", "again" \notin usage, NEW s \in 1..maximum
               PROVE  s \in DOMAIN names \cap DOMAIN values /\ names[s] # Dangling
    BY DEF NamesThere
  <2>1. AllNamed /\ maximum \in Nat
    BY DEF CfgInv, CfgTypeOK, Named
  <2>2. s \in 1..Len(names) /\ names[s] # Dangling
    BY <2>1, StoreIs DEF AllNamed
  <2>3. QED BY <2>2, StoreIs
<1>2. QED BY <1>1, CfgInvInit, CfgInvNext, PTL DEF LoginSpec

-----------------------------------------------------------------------------
(* How cfgParse reads the line that holds a code. *)
LEMMA BlanksGone ==
  ASSUME NEW ptr \in Strings, NEW k \in 0..Len(ptr), \A i \in 1..k : ptr[i] \in Blanks,
         k < Len(ptr) => ptr[k + 1] \notin Blanks
  PROVE  RmFirstSpaces(ptr) = From(ptr, k + 1)
<1>1. PICK j \in 0..Len(ptr) : /\ RmFirstSpaces(ptr) = From(ptr, j + 1)
                               /\ \A i \in 1..j : ptr[i] \in Blanks
                               /\ j < Len(ptr) => ptr[j + 1] \notin Blanks
  BY RmFirstSpacesIs
<1>2. Len(ptr) \in Nat
  BY DEF Strings
<1>3. ~(j < k)
  <2> SUFFICES ASSUME j < k PROVE FALSE
    OBVIOUS
  <2>1. j + 1 \in 1..k /\ j < Len(ptr)
    BY <1>2
  <2>2. QED BY <1>1, <2>1
<1>4. ~(k < j)
  <2> SUFFICES ASSUME k < j PROVE FALSE
    OBVIOUS
  <2>1. k + 1 \in 1..j /\ k < Len(ptr)
    BY <1>2
  <2>2. QED BY <1>1, <2>1
<1>5. j = k
  BY <1>2, <1>3, <1>4
<1>6. QED BY <1>1, <1>5

LEMMA BeforeExactly ==
  ASSUME NEW ptr \in Strings, NEW stop, NEW k \in 0..Len(ptr),
         \A i \in 1..k : ptr[i] \notin stop, k < Len(ptr) => ptr[k + 1] \in stop
  PROVE  Before(ptr, stop) = k
<1> DEFINE j == Before(ptr, stop)
<1>1. /\ j \in 0..Len(ptr) /\ \A i \in 1..j : ptr[i] \notin stop
      /\ j < Len(ptr) => ptr[j + 1] \in stop
  BY BeforeIs
<1>2. Len(ptr) \in Nat
  BY DEF Strings
<1> HIDE DEF j
<1>3. ~(j < k)
  <2> SUFFICES ASSUME j < k PROVE FALSE
    OBVIOUS
  <2>1. j + 1 \in 1..k /\ j < Len(ptr)
    BY <1>1, <1>2
  <2>2. QED BY <1>1, <2>1
<1>4. ~(k < j)
  <2> SUFFICES ASSUME k < j PROVE FALSE
    OBVIOUS
  <2>1. k + 1 \in 1..j /\ k < Len(ptr)
    BY <1>1, <1>2
  <2>2. QED BY <1>1, <2>1
<1>5. j = k
  BY <1>1, <1>2, <1>3, <1>4
<1>6. QED BY <1>5 DEF j

LEMMA PlainLetters ==
  /\ \A c \in HexLetters : c \notin Blanks /\ c \notin Quotes /\ c # "#" /\ c # "{"
  /\ \A c \in Range(Pass) :
        c \notin Blanks /\ c \notin Quotes /\ c # "#" /\ c # "=" /\ c # "["
  /\ "=" \notin Blanks /\ "\t" \in Blanks /\ " " \in Blanks
<1>1. HexLetters \subseteq {"0", "1", "2", "3", "4", "5", "6", "7", "8", "9",
                            "a", "b", "c", "d", "e", "f"}
  BY DEF HexLetters, HexDigits, Range
<1>2. ASSUME NEW c \in HexLetters
      PROVE  c \notin Blanks /\ c \notin Quotes /\ c # "#" /\ c # "{"
  BY <1>1, Zenon DEF Blanks, Quotes
<1>3. ASSUME NEW c \in Range(Pass)
      PROVE  c \notin Blanks /\ c \notin Quotes /\ c # "#" /\ c # "=" /\ c # "["
  BY PassAssumption, Zenon
<1>4. "=" \notin Blanks /\ "\t" \in Blanks /\ " " \in Blanks
  BY Zenon DEF Blanks
<1>5. QED BY <1>2, <1>3, <1>4, Zenon

LEMMA StopsAre ==
  /\ \A c \in Blanks : c \in Stops("parameter")
  /\ \A c : c \notin Blanks /\ c # "#" => /\ c \notin Stops("value")
                                          /\ c # "=" => c \notin Stops("parameter")
  BY DEF Stops

LEMMA Triple ==
  ASSUME NEW x, NEW y, NEW z
  PROVE  /\ <<x, y, z>>[1] = x /\ <<x, y, z>>[2] = y /\ <<x, y, z>>[3] = z
         /\ Len(<<x, y, z>>) = 3
  OBVIOUS

LEMMA PassIs == Pass \in Strings /\ Len(Pass) > 0 /\ \A i \in 1..Len(Pass) : Pass[i] \in Range(Pass)
<1>1. Pass \in Strings /\ Pass # <<>>
  BY PassAssumption, TypesIs
<1>2. QED BY <1>1 DEF Strings, Range

LEMMA EqualsIs ==
  ASSUME NEW code \in Strings
  PROVE  LET line == Equals(Pass, code)
             p == Len(Pass)
         IN  /\ line \in Strings /\ Len(line) = p + 3 + Len(code)
             /\ \A i \in 1..p : line[i] = Pass[i]
             /\ line[p + 1] \in Blanks /\ line[p + 2] = "=" /\ line[p + 3] \in Blanks
             /\ \A i \in 1..Len(code) : line[p + 3 + i] = code[i]
<1> DEFINE e == <<"\t", "=", " ">>
           p == Len(Pass)
           pe == Pass \o e
           line == pe \o code
<1>1. e \in Strings /\ Pass \in Strings /\ p \in Nat
  <2>1. e \in Strings /\ Pass \in Strings
    BY Written, PassIs, Zenon
  <2> HIDE DEF e
  <2>2. QED BY <2>1 DEF Strings
<1>2. Len(e) = 3 /\ e[1] \in Blanks /\ e[2] = "=" /\ e[3] \in Blanks
  BY Triple, PlainLetters, Zenon
<1> HIDE DEF e
<1>3. e \in Seq(Letters) /\ Pass \in Seq(Letters) /\ code \in Seq(Letters) /\ p \in Nat
  BY <1>1 DEF Strings
<1>4. pe \in Seq(Letters) /\ Len(pe) = p + Len(e)
  BY <1>3, Joined
<1>5. \A i \in 1..p : pe[i] = Pass[i]
  BY <1>3, Joined
<1>6. \A i \in 1..Len(e) : pe[p + i] = e[i]
  BY <1>3, Joined
<1> HIDE DEF pe, p
<1>7. line \in Seq(Letters) /\ Len(line) = Len(pe) + Len(code)
  BY <1>3, <1>4, Joined
<1>8. \A i \in 1..Len(pe) : line[i] = pe[i]
  BY <1>3, <1>4, Joined
<1>9. \A i \in 1..Len(code) : line[Len(pe) + i] = code[i]
  BY <1>3, <1>4, Joined
<1> HIDE DEF line
<1>10. Len(pe) = p + 3
  BY <1>2, <1>4
<1>11. /\ \A i \in 1..p : line[i] = Pass[i]
       /\ line[p + 1] = e[1] /\ line[p + 2] = e[2] /\ line[p + 3] = e[3]
  <2>1. 1 \in 1..Len(e) /\ 2 \in 1..Len(e) /\ 3 \in 1..Len(e)
    BY <1>2
  <2>2. pe[p + 1] = e[1] /\ pe[p + 2] = e[2] /\ pe[p + 3] = e[3]
    BY <1>6, <2>1
  <2>3. /\ p + 1 \in 1..Len(pe) /\ p + 2 \in 1..Len(pe) /\ p + 3 \in 1..Len(pe)
        /\ \A i \in 1..p : i \in 1..Len(pe)
    BY <1>1, <1>10
  <2>4. QED BY <1>5, <1>8, <2>2, <2>3
<1>12. line = Equals(Pass, code)
  BY DEF line, pe, e, Equals
<1>13. QED BY <1>2, <1>7, <1>9, <1>10, <1>11, <1>12 DEF p, Strings

LEMMA CodeLine ==
  ASSUME NEW code \in Seq(HexLetters), code # <<>>
  PROVE  LET line == Equals(Pass, code)
         IN  /\ RmFirstSpaces(line) = line /\ At(line) # "[" /\ ~Ends(line)
             /\ ParseWord(line, "parameter") = Word(Pass, code)
<1> DEFINE line == Equals(Pass, code)
           p == Len(Pass)
           n == Len(code)
           rest == From(line, p + 1)
           equal == From(rest, 2)
           word == SubSeq(line, 1, p)
           after == Tail(equal)
<1>1. code \in Strings /\ n \in Nat /\ n > 0 /\ \A i \in 1..n : code[i] \in HexLetters
  BY HexIs, SeqMonotonic, ElementOfSeq DEF Strings
<1>2. p \in Nat /\ p > 0 /\ Pass \in Strings /\ \A i \in 1..p : Pass[i] \in Range(Pass)
  BY PassIs DEF Strings
<1>3. /\ line \in Strings /\ Len(line) = p + 3 + n
      /\ \A i \in 1..p : line[i] = Pass[i]
      /\ line[p + 1] \in Blanks /\ line[p + 2] = "=" /\ line[p + 3] \in Blanks
      /\ \A i \in 1..n : line[p + 3 + i] = code[i]
  BY <1>1, EqualsIs
<1> HIDE DEF line, p, n
<1>4. \A i \in 1..p : /\ line[i] \notin Blanks /\ line[i] \notin Quotes
                      /\ line[i] # "#" /\ line[i] # "=" /\ line[i] # "["
  BY <1>2, <1>3, PlainLetters, Zenon
<1>5. 1 \in 1..p /\ Len(line) > 0 /\ 0 \in 0..Len(line) /\ 0 + 1 = 1 /\ 1..0 = {}
  BY <1>1, <1>2, <1>3
<1>6. At(line) = line[1]
  BY <1>3, <1>5, AtIs
<1>7. RmFirstSpaces(line) = line
  <2>1. RmFirstSpaces(line) = From(line, 0 + 1)
    BY <1>3, <1>4, <1>5, BlanksGone
  <2>2. From(line, 1) = line
    <3>1. From(line, 0 + 1) \in Strings /\ Len(From(line, 0 + 1)) = Len(line) - 0
          /\ \A i \in 1..Len(line) - 0 : From(line, 0 + 1)[i] = line[0 + i]
      BY <1>3, <1>5, FromIs
    <3> DEFINE f == From(line, 0 + 1)
    <3> HIDE DEF f
    <3>2. f \in Strings /\ Len(f) = Len(line) /\ \A i \in 1..Len(f) : f[i] = line[i]
      BY <1>1, <1>2, <1>3, <3>1 DEF f
    <3>3. f = line
      BY <1>3, <3>2, SeqEqual DEF Strings
    <3>4. QED BY <1>5, <3>3 DEF f
  <2>3. QED BY <1>5, <2>1, <2>2
<1>8. At(line) \in Letters /\ At(line) # Zero
  <2>1. line[1] \in Letters
    <3>1. 1 \in 1..Len(line) /\ line \in Seq(Letters)
      BY <1>1, <1>2, <1>3 DEF Strings
    <3>2. QED BY <3>1, ElementOfSeq
  <2>2. QED BY <1>6, <2>1, LettersAssumption
<1>9. At(line) # "[" /\ ~Ends(line) /\ At(line) \notin Quotes
  BY <1>4, <1>5, <1>6, <1>7, <1>8 DEF Ends
<1>10. Before(line, Stops("parameter")) = p
  <2>1. \A i \in 1..p : line[i] \notin Stops("parameter")
    BY <1>4, StopsAre
  <2>2. line[p + 1] \in Stops("parameter")
    BY <1>3, StopsAre
  <2>3. p \in 0..Len(line)
    BY <1>1, <1>2, <1>3
  <2>4. QED BY <1>3, <2>1, <2>2, <2>3, BeforeExactly
<1>11. word = Pass
  <2>1. 0 \in 0..Len(line) /\ p \in 0..Len(line) /\ 0 + 1 = 1 /\ p - 0 = p
        /\ \A i \in 1..p : 0 + i = i
    BY <1>1, <1>2, <1>3
  <2>2. word \in Seq(Letters) /\ Len(word) = p /\ \A i \in 1..p : word[i] = line[i]
    BY <1>3, <2>1, Part DEF Strings
  <2> HIDE DEF word
  <2>3. \A i \in 1..p : word[i] = Pass[i]
    BY <1>3, <2>2
  <2>4. QED BY <1>2, <2>2, <2>3, SeqEqual DEF p, Strings
<1>12. /\ rest \in Strings /\ Len(rest) = 3 + n
       /\ rest[1] \in Blanks /\ rest[2] = "=" /\ rest[3] \in Blanks
       /\ \A i \in 1..n : rest[3 + i] = code[i]
  <2>1. p \in 0..Len(line) /\ Len(line) - p = 3 + n
    BY <1>1, <1>2, <1>3
  <2>2. rest \in Strings /\ Len(rest) = 3 + n /\ \A i \in 1..3 + n : rest[i] = line[p + i]
    BY <1>3, <2>1, FromIs
  <2> HIDE DEF rest
  <2>3. 1 \in 1..3 + n /\ 2 \in 1..3 + n /\ 3 \in 1..3 + n
    BY <1>1
  <2>4. \A i \in 1..n : 3 + i \in 1..3 + n /\ p + (3 + i) = p + 3 + i
    BY <1>1, <1>2
  <2>5. QED BY <1>3, <2>2, <2>3, <2>4
<1> HIDE DEF rest
<1>13. RmFirstSpaces(rest) = equal
  <2>1. 1 \in 0..Len(rest) /\ 1 + 1 = 2 /\ 1..1 = {1}
    BY <1>1, <1>12
  <2>2. \A i \in 1..1 : rest[i] \in Blanks
    BY <1>12, <2>1
  <2>3. rest[1 + 1] \notin Blanks
    BY <1>12, <2>1, PlainLetters, Zenon
  <2>4. RmFirstSpaces(rest) = From(rest, 1 + 1)
    BY <1>12, <2>1, <2>2, <2>3, BlanksGone
  <2>5. QED BY <2>1, <2>4
<1>14. /\ equal \in Strings /\ Len(equal) = 2 + n
       /\ equal[1] = "=" /\ equal[2] \in Blanks
       /\ \A i \in 1..n : equal[2 + i] = code[i]
  <2> DEFINE f == From(rest, 1 + 1)
  <2>1. 1 \in 0..Len(rest) /\ Len(rest) - 1 = 2 + n
    BY <1>1, <1>12
  <2>2. f \in Strings /\ Len(f) = 2 + n /\ \A i \in 1..2 + n : f[i] = rest[1 + i]
    BY <1>12, <2>1, FromIs
  <2> HIDE DEF f
  <2>3. /\ 1 \in 1..2 + n /\ 2 \in 1..2 + n
        /\ \A i \in 1..n : 2 + i \in 1..2 + n /\ 1 + (2 + i) = 3 + i
    BY <1>1
  <2>4. /\ f[1] = rest[2] /\ f[2] = rest[3] /\ \A i \in 1..n : f[2 + i] = rest[3 + i]
    BY <2>2, <2>3
  <2>5. equal = f
    BY DEF f
  <2> HIDE DEF equal
  <2>6. QED BY <1>12, <2>2, <2>4, <2>5
<1> HIDE DEF equal
<1>15. At(equal) = "=" /\ equal # <<>>
  BY <1>1, <1>14, AtIs
<1>16. /\ after \in Strings /\ Len(after) = 1 + n /\ after[1] \in Blanks
       /\ \A i \in 1..n : after[1 + i] = code[i]
  <2>1. after \in Strings
    BY <1>14, <1>15, TailType
  <2>2. Len(after) = 1 + n /\ \A i \in 1..1 + n : after[i] = equal[i + 1]
    BY <1>1, <1>14, <1>15, HeadTailProperties DEF Strings
  <2> HIDE DEF after
  <2>3. 1 \in 1..1 + n /\ \A i \in 1..n : 1 + i \in 1..1 + n /\ (1 + i) + 1 = 2 + i
    BY <1>1
  <2>4. QED BY <1>14, <2>1, <2>2, <2>3
<1> HIDE DEF after
<1>17. RmFirstSpaces(after) = code
  <2> DEFINE f == From(after, 1 + 1)
  <2>1. 1 \in 0..Len(after) /\ 1 + 1 = 2 /\ 1..1 = {1} /\ Len(after) - 1 = n /\ 1 \in 1..n
    BY <1>1, <1>16
  <2>2. \A i \in 1..1 : after[i] \in Blanks
    BY <1>16, <2>1
  <2>3. after[1 + 1] \notin Blanks
    BY <1>1, <1>16, <2>1, PlainLetters, Zenon
  <2>4. RmFirstSpaces(after) = f
    BY <1>16, <2>1, <2>2, <2>3, BlanksGone
  <2>5. f \in Strings /\ Len(f) = n /\ \A i \in 1..n : f[i] = after[1 + i]
    BY <1>16, <2>1, FromIs
  <2> HIDE DEF f
  <2>6. \A i \in 1..n : f[i] = code[i]
    BY <1>16, <2>5
  <2>7. f = code
    BY <1>1, <2>5, <2>6, SeqEqual DEF n, Strings
  <2>8. QED BY <2>4, <2>7
<1>18. ParseWord(line, "parameter") = Word(Pass, code)
  <2>1. RmFirstSpaces(From(line, p + 1)) = equal
    BY <1>13 DEF rest
  <2>2. SubSeq(line, 1, p) = Pass
    BY <1>11
  <2>3. RmFirstSpaces(Tail(equal)) = code
    BY <1>17 DEF after
  <2>4. ParseWord(line, "parameter") = Word(SubSeq(line, 1, p), RmFirstSpaces(Tail(equal)))
    BY <1>9, <1>10, <1>15, <2>1 DEF ParseWord
  <2>5. QED BY <2>2, <2>3, <2>4
<1>19. QED BY <1>7, <1>9, <1>18 DEF line

LEMMA CodeWord ==
  ASSUME NEW code \in Seq(HexLetters), code # <<>>
  PROVE  /\ At(code) # "{"
         /\ ParseWord(code, "value").ok /\ ParseWord(code, "value").word = code
<1> DEFINE n == Len(code)
           word == SubSeq(code, 1, n)
           rest == From(code, n + 1)
<1>1. code \in Strings /\ n \in Nat /\ n > 0 /\ \A i \in 1..n : code[i] \in HexLetters
  BY HexIs, SeqMonotonic, ElementOfSeq DEF Strings
<1>2. At(code) = code[1] /\ 1 \in 1..n
  BY <1>1, AtIs
<1>3. At(code) # "{" /\ At(code) \notin Quotes
  BY <1>1, <1>2, PlainLetters, Zenon
<1>4. Before(code, Stops("value")) = n
  <2>1. \A i \in 1..n : code[i] \notin Stops("value")
    BY <1>1, StopsAre, PlainLetters, Zenon
  <2>2. n \in 0..Len(code) /\ ~(n < Len(code))
    BY <1>1
  <2>3. QED BY <1>1, <2>1, <2>2, BeforeExactly
<1>5. word = code
  <2>1. 0 \in 0..Len(code) /\ n \in 0..Len(code) /\ 0 + 1 = 1 /\ n - 0 = n
        /\ \A i \in 1..n : 0 + i = i
    BY <1>1
  <2>2. word \in Seq(Letters) /\ Len(word) = n /\ \A i \in 1..n : word[i] = code[i]
    BY <1>1, <2>1, Part DEF Strings
  <2> HIDE DEF word
  <2>3. QED BY <1>1, <2>2, SeqEqual DEF Strings
<1>6. rest = <<>>
  <2>1. n \in 0..Len(code) /\ Len(code) - n = 0
    BY <1>1
  <2>2. rest \in Strings /\ Len(rest) = 0
    BY <1>1, <2>1, FromIs
  <2> HIDE DEF rest
  <2>3. QED BY <2>2 DEF Strings
<1>7. RmFirstSpaces(<<>>) = <<>>
  <2>1. <<>> \in Strings /\ 0 \in 0..Len(<<>>) /\ 1..0 = {} /\ ~(0 < Len(<<>>))
    BY DEF Strings
  <2>2. RmFirstSpaces(<<>>) = From(<<>>, 0 + 1)
    BY <2>1, BlanksGone
  <2>3. Len(<<>>) - 0 = 0
    OBVIOUS
  <2>4. From(<<>>, 0 + 1) \in Strings /\ Len(From(<<>>, 0 + 1)) = 0
    BY <2>1, <2>3, FromIs
  <2>5. From(<<>>, 0 + 1) = <<>>
    BY <2>4 DEF Strings
  <2>6. QED BY <2>2, <2>5
<1>8. Ends(<<>>)
  BY <1>7 DEF Ends, At
<1> HIDE DEF n, word, rest
<1>9. ParseWord(code, "value") = Word(SubSeq(code, 1, n), <<>>)
  <2>1. From(code, n + 1) = <<>>
    BY <1>6 DEF rest
  <2> DEFINE r == RmFirstSpaces(From(code, n + 1))
  <2>2. r = <<>> /\ Ends(r)
    BY <1>7, <1>8, <2>1
  <2>3. ParseWord(code, "value") =
          CASE "value" = "parameter" /\ At(r) = "=" ->
                  Word(SubSeq(code, 1, n), RmFirstSpaces(Tail(r)))
            [] "value" = "section" /\ At(r) = "]" -> Word(SubSeq(code, 1, n), r)
            [] "value" = "value" /\ Ends(r) -> Word(SubSeq(code, 1, n), r)
            [] OTHER -> Failed(TRUE)
    BY <1>3, <1>4 DEF ParseWord
  <2> HIDE DEF r
  <2>4. ParseWord(code, "value") = Word(SubSeq(code, 1, n), r)
    BY <2>2, <2>3
  <2>5. QED BY <2>2, <2>4
<1>10. ParseWord(code, "value") = Word(code, <<>>)
  BY <1>5, <1>9 DEF word
<1>11. Word(code, <<>>).ok /\ Word(code, <<>>).word = code
  BY DEF Word
<1>12. QED BY <1>3, <1>10, <1>11

(* The codes stay where they are put: one lemma per action. *)
Alone == usage \cap {"file", "calls", "error"} = {}

LEMMA CodesAre ==
  ASSUME NEW s, s \in DOMAIN typed, CfgTypeOK, NEW code \in Codes(s)
  PROVE  /\ code \in Seq(HexLetters) /\ code # <<>>
         /\ (\A i \in DOMAIN typed[s] : typed[s][i] > 0) => PassDecode(code) = typed[s]
<1>1. PICK magic \in Magics : Fits(typed[s], magic) /\ code = PassCode(typed[s], magic)
  BY DEF Codes
<1>2. typed[s] \in Seq(Char)
  BY ElementOfSeq DEF CfgTypeOK
<1>3. magic \in Nat /\ magic < 10000
  BY TypedAssumption
<1>4. code \in Seq(HexLetters)
  BY <1>1, <1>2, <1>3, PassCodeType
<1>5. code # <<>>
  <2> DEFINE t == SwapHalves(Reverse2(Encoded(typed[s], magic), Len(typed[s])), Len(typed[s]))
  <2>1. t \in Seq(HexLetters)
    <3> DEFINE n == Len(typed[s])
               ds == Encoded(typed[s], magic)
               r == Reverse2(ds, n)
    <3>1. n \in Nat
      BY <1>2
    <3>2. ds \in Seq(HexLetters) /\ Len(ds) >= 2 * n
      BY <1>2, <1>3, EncodedType
    <3> HIDE DEF n, ds
    <3>3. r \in Seq(HexLetters) /\ Len(r) >= 2 * n
      BY <3>1, <3>2, LoopsType
    <3> HIDE DEF r
    <3>4. SwapHalves(r, n) \in Seq(HexLetters)
      BY <3>1, <3>3, LoopsType
    <3>5. QED BY <3>4 DEF r, ds, n
  <2>2. code = Prefix(magic) \o t
    BY <1>1 DEF PassCode
  <2> HIDE DEF t
  <2>3. Prefix(magic) \in Seq(HexLetters) /\ Len(Prefix(magic)) = 4
    BY <1>3, PrefixIs
  <2>4. Len(code) = 4 + Len(t)
    <3> DEFINE p == Prefix(magic)
    <3>1. p \in Seq(HexLetters) /\ Len(p) = 4 /\ code = p \o t
      BY <2>2, <2>3
    <3> HIDE DEF p
    <3>2. Len(p \o t) = Len(p) + Len(t)
      BY <2>1, <3>1, Joined
    <3>3. QED BY <3>1, <3>2
  <2>5. QED BY <2>1, <2>4
<1>6. (\A i \in DOMAIN typed[s] : typed[s][i] > 0) => PassDecode(code) = typed[s]
  <2>1. DOMAIN typed[s] = 1..Len(typed[s])
    BY <1>2
  <2>2. QED BY <1>1, <1>2, <1>3, <2>1, RoundTrip
<1>7. QED BY <1>4, <1>5, <1>6

(* Where the parser is in the file. *)
LEMMA NextLine ==
  ASSUME CfgTypeOK, CodesWritten, CodesRead, pc # "idle", unread # <<>>
  PROVE  /\ section \in Nat /\ LinesRead \in Nat
         /\ Head(unread) = file[LinesRead + 1]
         /\ LinesRead = 2 * section =>
              /\ section + 1 \in DOMAIN typed /\ section + 1 \in DOMAIN Headers
              /\ Line = RmFirstSpaces(Headers[section + 1]) /\ At(Line) = "["
         /\ LinesRead = 2 * section - 1 =>
              /\ section \in DOMAIN typed
              /\ \E code \in Codes(section) : Line = RmFirstSpaces(Equals(Pass, code))
<1> DEFINE k == LinesRead
           n == Len(typed)
<1>1. /\ unread \in Seq(Strings) /\ file \in Seq(Strings) /\ typed \in Seq(Seq(Char))
      /\ section \in Nat
  BY DEF CfgTypeOK
<1>2. /\ k \in {2 * section - 1, 2 * section} /\ k >= 0
      /\ \A i \in DOMAIN unread : unread[i] = file[k + i]
  BY DEF CodesRead
<1>3. /\ n <= Len(Headers) /\ Len(file) = 2 * n /\ n \in Nat
      /\ \A s \in 1..n : /\ file[2 * s - 1] = Headers[s]
                         /\ \E code \in Codes(s) : file[2 * s] = Equals(Pass, code)
  <2>1. n \in Nat /\ DOMAIN typed = 1..n
    BY <1>1
  <2>2. n <= Len(Headers) /\ Len(file) = 2 * n
    BY DEF CodesWritten
  <2>3. \A s \in DOMAIN typed : /\ file[2 * s - 1] = Headers[s]
                                /\ \E code \in Codes(s) : file[2 * s] = Equals(Pass, code)
    BY DEF CodesWritten
  <2>4. QED BY <2>1, <2>2, <2>3
<1>4. k \in Nat /\ k = Len(file) - Len(unread) /\ Len(unread) \in Nat /\ Len(unread) > 0
  BY <1>1, <1>2 DEF LinesRead
<1>5. k < 2 * n
  BY <1>3, <1>4
<1>6. Head(unread) = file[k + 1]
  <2>1. 1 \in DOMAIN unread
    BY <1>1, <1>4
  <2>2. Head(unread) = unread[1]
    BY <1>1
  <2>3. QED BY <1>2, <2>1, <2>2
<1> HIDE DEF k, n
<1>7. ASSUME k = 2 * section
      PROVE  /\ section + 1 \in 1..n /\ section + 1 \in DOMAIN Headers
             /\ Line = RmFirstSpaces(Headers[section + 1]) /\ At(Line) = "["
  <2>1. section + 1 \in 1..n /\ k + 1 = 2 * (section + 1) - 1
    BY <1>1, <1>3, <1>5, <1>7
  <2>2. section + 1 \in DOMAIN Headers
    BY <1>3, <2>1, HeadersAssumption
  <2>3. Line = RmFirstSpaces(Headers[section + 1])
    BY <1>3, <1>6, <2>1 DEF Line
  <2>4. QED BY <2>1, <2>2, <2>3, HeadersAssumption
<1>8. ASSUME k = 2 * section - 1
      PROVE  /\ section \in 1..n
             /\ \E code \in Codes(section) : Line = RmFirstSpaces(Equals(Pass, code))
  <2>1. section \in 1..n /\ k + 1 = 2 * section
    <3>1. section \in Nat /\ n \in Nat /\ k \in Nat /\ k < 2 * n
      BY <1>1, <1>3, <1>4, <1>5
    <3>2. QED BY <1>8, <3>1
  <2>2. QED BY <1>3, <1>6, <2>1 DEF Line
<1>9. DOMAIN typed = 1..n
  BY <1>1 DEF n
<1>10. QED BY <1>1, <1>4, <1>6, <1>7, <1>8, <1>9 DEF k

Coded == CodesWritten /\ CodesRead /\ CodesKept

LEMMA NoBlanks ==
  ASSUME NEW ptr \in Strings, ptr # <<>>, At(ptr) \notin Blanks
  PROVE  RmFirstSpaces(ptr) = ptr
<1>1. Len(ptr) \in Nat /\ Len(ptr) > 0 /\ 0 \in 0..Len(ptr) /\ 1..0 = {} /\ 0 + 1 = 1
  BY DEF Strings
<1>2. At(ptr) = ptr[1]
  BY <1>1, AtIs
<1>3. RmFirstSpaces(ptr) = From(ptr, 0 + 1)
  BY <1>1, <1>2, BlanksGone
<1> DEFINE f == From(ptr, 0 + 1)
<1>4. Len(ptr) - 0 = Len(ptr) /\ \A i \in 1..Len(ptr) : 0 + i = i
  BY <1>1
<1>5. f \in Strings /\ Len(f) = Len(ptr) /\ \A i \in 1..Len(ptr) : f[i] = ptr[i]
  BY <1>1, <1>4, FromIs
<1> HIDE DEF f
<1>6. f = ptr
  BY <1>5, SeqEqual DEF Strings
<1>7. QED BY <1>3, <1>6 DEF f

(* The codes stay the same while no password is typed. *)
LEMMA SameCodes ==
  ASSUME typed' = typed
  PROVE  /\ \A s : Codes(s)' = Codes(s)
         /\ \A s : values'[s] = values[s] /\ CodeStored(s) => CodeStored(s)'
<1>1. ASSUME NEW s PROVE Codes(s)' = Codes(s)
  BY DEF Codes
<1>2. ASSUME NEW s, values'[s] = values[s], CodeStored(s) PROVE CodeStored(s)'
  BY <1>1, <1>2 DEF CodeStored
<1>3. QED BY <1>1, <1>2

LEMMA FailCodes ==
  ASSUME Coded, Fail, UNCHANGED login
  PROVE  Coded'
<1>1. /\ pc' = "idle" /\ result' = -1 /\ UNCHANGED <<file, typed, cfg>>
  BY DEF Fail, login
<1>2. CodesWritten'
  BY <1>1, SameCodes DEF Coded, CodesWritten
<1>3. CodesRead'
  BY <1>1 DEF CodesRead
<1>4. ~Parsed'
  BY <1>1 DEF Parsed
<1>5. CodesKept'
  BY <1>1, <1>4, SameCodes DEF Coded, CodesKept
<1>6. QED BY <1>2, <1>3, <1>5 DEF Coded

LEMMA GoOnCodes ==
  ASSUME CfgInv, Coded, pc # "idle", unread # <<>>, GoOn("lines"), UNCHANGED login,
         LinesRead + 1 \in {2 * section' - 1, 2 * section'},
         \A s \in 1..section' : 2 * s <= LinesRead + 1 => CodeStored(s)'
  PROVE  Coded'
<1>1. /\ pc' = "lines" /\ unread' = Tail(unread) /\ UNCHANGED <<file, typed, cfg>>
  BY DEF GoOn, login
<1>2. CodesWritten'
  BY <1>1, SameCodes DEF Coded, CodesWritten
<1>3. CodesRead'
  <2>1. /\ unread \in Seq(Strings) /\ file \in Seq(Strings)
    BY DEF CfgInv, CfgTypeOK
  <2>2. /\ Len(unread') = Len(unread) - 1 /\ Len(unread) \in Nat /\ Len(file) \in Nat
        /\ \A i \in 1..Len(unread) - 1 : unread'[i] = unread[i + 1]
    BY <1>1, <2>1, HeadTailProperties
  <2>3. LinesRead \in Int /\ LinesRead' = LinesRead + 1
    BY <1>1, <2>2 DEF LinesRead
  <2>4. LinesRead >= 0 /\ \A i \in DOMAIN unread : unread[i] = file[LinesRead + i]
    BY DEF Coded, CodesRead
  <2>5. \A i \in DOMAIN unread' : unread'[i] = file[LinesRead' + i]
    <3> TAKE i \in DOMAIN unread'
    <3>1. unread' \in Seq(Strings)
      BY <1>1, <2>1, HeadTailProperties
    <3>2. i \in 1..Len(unread) - 1 /\ i + 1 \in DOMAIN unread
      BY <2>1, <2>2, <3>1
    <3>3. unread'[i] = file[LinesRead + (i + 1)]
      BY <2>2, <2>4, <3>2
    <3>4. LinesRead + (i + 1) = LinesRead' + i
      BY <2>3, <3>2
    <3>5. QED BY <3>3, <3>4
  <2> HIDE DEF LinesRead
  <2>6. /\ LinesRead' \in {2 * section' - 1, 2 * section'} /\ LinesRead' >= 0
        /\ \A s \in 1..section' : 2 * s <= LinesRead' => CodeStored(s)'
    BY <2>3, <2>4
  <2>7. \A i \in DOMAIN unread' : unread'[i] = file'[LinesRead' + i]
    BY <1>1, <2>5
  <2>8. QED BY <1>1, <2>6, <2>7 DEF CodesRead
<1>4. ~Parsed'
  BY <1>1 DEF Parsed
<1>5. CodesKept'
  BY <1>1, <1>4, SameCodes DEF Coded, CodesKept
<1>6. QED BY <1>2, <1>3, <1>5 DEF Coded

(* A line that cfgParse reads is a header, or holds a code: it is neither   *)
(* passed over nor does it begin a list.                                   *)
LEMMA LineThere ==
  ASSUME CfgInv, Coded, pc # "idle", unread # <<>>
  PROVE  /\ pc = "lines" /\ ~Ends(Line)
         /\ At(Line) = "[" => LinesRead = 2 * section
         /\ At(Line) # "[" =>
              /\ LinesRead = 2 * section - 1 /\ section \in DOMAIN typed
              /\ \E code \in Codes(section) : ParseWord(Line, "parameter") = Word(Pass, code)
<1>1. /\ CfgTypeOK /\ CodesWritten /\ CodesRead
  BY DEF CfgInv, Coded
<1>2. pc = "lines" /\ LinesRead \in {2 * section - 1, 2 * section}
  BY <1>1 DEF CodesRead
<1>3. section \in Nat
  BY <1>1, NextLine
<1>4. CASE LinesRead = 2 * section
  <2>1. At(Line) = "["
    BY <1>1, <1>4, NextLine
  <2>2. Line \in Strings
    BY <1>1, LineType
  <2>3. Line # <<>> /\ At(Line) \notin Blanks
    BY <2>1, Zenon DEF At, Zero, Blanks
  <2>4. RmFirstSpaces(Line) = Line
    BY <2>2, <2>3, NoBlanks
  <2>5. ~Ends(Line)
    BY <2>1, <2>4 DEF Ends, Zero
  <2>6. QED BY <1>2, <1>4, <2>1, <2>5
<1>5. CASE LinesRead = 2 * section - 1
  <2>1. /\ section \in DOMAIN typed
        /\ \E code \in Codes(section) : Line = RmFirstSpaces(Equals(Pass, code))
    BY <1>1, <1>5, NextLine
  <2>2. PICK code \in Codes(section) : Line = RmFirstSpaces(Equals(Pass, code))
    BY <2>1
  <2>3. code \in Seq(HexLetters) /\ code # <<>>
    BY <1>1, <2>1, CodesAre
  <2>4. /\ At(Line) # "[" /\ ~Ends(Line) /\ ParseWord(Line, "parameter") = Word(Pass, code)
    BY <2>2, <2>3, CodeLine
  <2>5. QED BY <1>2, <1>5, <2>1, <2>4
<1>6. QED BY <1>2, <1>4, <1>5

(* The codes on their way through one step. *)
LEMMA ParseCodes ==
  ASSUME CfgInv, Coded, Parse, UNCHANGED login
  PROVE  Coded'
<1>1. /\ pc' = "lines" /\ unread' = file /\ section' = 0 /\ UNCHANGED <<file, typed, cfg>>
  BY DEF Parse, login
<1>2. CodesWritten'
  BY <1>1, SameCodes DEF Coded, CodesWritten
<1>3. CodesRead'
  <2>1. Len(file) \in Nat
    BY DEF CfgInv, CfgTypeOK
  <2>2. LinesRead' = 0
    BY <1>1, <2>1 DEF LinesRead
  <2> HIDE DEF LinesRead
  <2>3. LinesRead' \in {2 * section' - 1, 2 * section'} /\ LinesRead' >= 0 /\ 1..section' = {}
    BY <1>1, <2>2
  <2>4. \A i \in DOMAIN unread' : unread'[i] = file'[LinesRead' + i]
    <3>1. \A i \in DOMAIN file : LinesRead' + i = i
      BY <2>2 DEF CfgInv, CfgTypeOK
    <3>2. QED BY <1>1, <3>1
  <2>5. QED BY <1>1, <2>3, <2>4 DEF CodesRead
<1>4. ~Parsed'
  BY <1>1 DEF Parsed
<1>5. CodesKept'
  BY <1>1, <1>4, SameCodes DEF Coded, CodesKept
<1>6. QED BY <1>2, <1>3, <1>5 DEF Coded

LEMMA HeaderCodes ==
  ASSUME CfgInv, Coded, Header, UNCHANGED login
  PROVE  Coded'
<1> DEFINE good == GoOn("lines")
<1>1. /\ pc = "lines" /\ unread # <<>> /\ At(Line) = "[" /\ (good \/ Fail)
      /\ AllocForNewSection(section) /\ section' = section + 1
  BY Zenon DEF Header, Reading
<1>2. LinesRead = 2 * section
  BY <1>1, LineThere
<1>3. section \in Nat /\ section \in 0..Len(values)
  BY <1>1, StoreIs
<1>4. \A i \in 1..section : values'[i] = values[i]
  BY <1>1, <1>3, StoreIs, AllocType
<1>5. CASE good
  <2>1. LinesRead + 1 \in {2 * section' - 1, 2 * section'}
    BY <1>1, <1>2, <1>3
  <2>2. ASSUME NEW s \in 1..section', 2 * s <= LinesRead + 1
        PROVE  CodeStored(s)'
    <3>1. s \in 1..section /\ 2 * s <= LinesRead
      BY <1>1, <1>2, <1>3, <2>2
    <3>2. CodeStored(s)
      BY <1>1, <3>1 DEF Coded, CodesRead
    <3>3. values'[s] = values[s] /\ typed' = typed
      BY <1>4, <3>1 DEF login
    <3>4. QED BY <3>2, <3>3, SameCodes
  <2>3. QED BY <1>1, <1>5, <2>1, <2>2, GoOnCodes
<1>6. CASE Fail
  BY <1>6, FailCodes
<1>7. QED BY <1>1, <1>5, <1>6

LEMMA AssignCodes ==
  ASSUME CfgInv, Coded, Assign, UNCHANGED login
  PROVE  Coded'
<1> DEFINE name == ParseWord(Line, "parameter")
           value == ParseWord(name.rest, "value")
<1>1. /\ pc = "lines" /\ unread # <<>> /\ At(Line) # "[" /\ section' = section
      /\ \/ /\ section > 0 /\ Accepted(name.word, value.word)
            /\ StoreValue(name.word, value.word, section) /\ GoOn("lines")
         \/ Fail
  BY Zenon DEF Assign, Reading
<1>2. PICK code \in Codes(section) : name = Word(Pass, code)
  BY <1>1, LineThere
<1>3. LinesRead = 2 * section - 1 /\ section \in DOMAIN typed
  BY <1>1, LineThere
<1>4. code \in Seq(HexLetters) /\ code # <<>> /\ CfgTypeOK
  BY <1>3, CodesAre DEF CfgInv
<1>5. name.word = Pass /\ name.rest = code
  BY <1>2 DEF Word
<1> HIDE DEF name
<1>6. value.word = code
  BY <1>4, <1>5, CodeWord
<1> HIDE DEF value
<1>7. CASE Fail
  BY <1>7, FailCodes
<1>8. CASE /\ section > 0 /\ Accepted(Pass, code)
           /\ StoreValue(Pass, code, section) /\ GoOn("lines")
  <2>1. section \in Nat /\ section \in 1..Len(values) /\ values \in Seq(Settings)
    BY <1>1, <1>8, StoreIs
  <2>2. Pass \in Strings /\ code \in Strings
    BY <1>4, PassIs, HexIs, SeqMonotonic DEF Strings
  <2>3. /\ values'[section] = [values[section] EXCEPT ![Fold(Pass)] =
                                 Stored(Fold(Pass), values[section][Fold(Pass)], code)]
        /\ \A i \in 1..Len(values) : i # section => values'[i] = values[i]
    BY <1>8, <2>1, <2>2, StoreType
  <2>4. values'[section][Pass] = Text(code)
    <3> DEFINE v == values[section]
               t == Stored(Pass, v[Pass], code)
    <3>1. v \in [Params -> Value]
      BY <2>1, ElementOfSeq DEF Settings
    <3>2. t = Text(code)
      BY PassAssumption DEF Stored
    <3> HIDE DEF v, t
    <3>3. [v EXCEPT ![Pass] = t][Pass] = t
      BY <3>1, PassAssumption
    <3>4. values'[section] = [v EXCEPT ![Pass] = t]
      BY <2>3, PassAssumption, TypesIs DEF v, t
    <3>5. QED BY <3>2, <3>3, <3>4
  <2>5. LinesRead + 1 \in {2 * section' - 1, 2 * section'}
    BY <1>1, <1>3, <2>1
  <2>6. ASSUME NEW s \in 1..section', 2 * s <= LinesRead + 1
        PROVE  CodeStored(s)'
    <3>1. typed' = typed
      BY DEF login
    <3>2. CASE s = section
      <4>1. code \in Codes(s)'
        <5>1. Codes(s)' = Codes(s)
          BY <3>1, SameCodes
        <5>2. QED BY <3>2, <5>1
      <4>2. s \in DOMAIN typed' /\ values'[s][Pass] = Text(code)
        BY <1>3, <2>4, <3>1, <3>2
      <4>3. QED BY <4>1, <4>2 DEF CodeStored
    <3>3. CASE s # section
      <4>1. s \in 1..section /\ s \in 1..Len(values) /\ 2 * s <= LinesRead
        BY <1>1, <1>3, <2>1, <2>6, <3>3
      <4>2. CodeStored(s)
        BY <1>1, <4>1 DEF Coded, CodesRead
      <4>3. values'[s] = values[s]
        BY <2>3, <3>3, <4>1
      <4>4. QED BY <3>1, <4>2, <4>3, SameCodes
    <3>4. QED BY <3>2, <3>3
  <2>7. QED BY <1>1, <1>8, <2>5, <2>6, GoOnCodes
<1>9. QED BY <1>1, <1>5, <1>6, <1>7, <1>8

(* No line is passed over, and none opens, holds or closes a list. *)
LEMMA NoOtherLines ==
  ASSUME CfgInv, Coded
  PROVE  ~Skip /\ ~Open /\ ~Item /\ ~Close
<1>1. ~Skip
  BY LineThere DEF Skip
<1>2. pc # "braces"
  BY DEF Coded, CodesRead
<1>3. ~Item /\ ~Close
  BY <1>2 DEF Item, Close, Reading
<1>4. ~Open
  <2> SUFFICES ASSUME Open PROVE FALSE
    OBVIOUS
  <2>1. /\ pc = "lines" /\ unread # <<>> /\ At(Line) # "["
        /\ At(ParseWord(Line, "parameter").rest) = "{"
    BY Zenon DEF Open, Reading
  <2>2. PICK code \in Codes(section) : ParseWord(Line, "parameter") = Word(Pass, code)
    BY <2>1, LineThere
  <2>3. section \in DOMAIN typed /\ CfgTypeOK
    BY <2>1, LineThere DEF CfgInv
  <2>4. code \in Seq(HexLetters) /\ code # <<>>
    BY <2>3, CodesAre
  <2>5. At(code) = "{"
    <3>1. Word(Pass, code).rest = code
      BY DEF Word
    <3>2. QED BY <2>1, <2>2, <3>1
  <2>6. QED BY <2>4, <2>5, CodeWord
<1>5. QED BY <1>1, <1>3, <1>4

LEMMA EofCodes ==
  ASSUME CfgInv, Alone, Coded, Eof, UNCHANGED login
  PROVE  Coded'
<1>1. pc = "lines" /\ unread = <<>> /\ UNCHANGED <<values, section>>
  <2>1. "error" \notin usage
    BY DEF Alone
  <2>2. QED BY <2>1, Zenon DEF Eof, Coded, CodesRead
<1>2. /\ pc' = "idle" /\ maximum' = section /\ UNCHANGED <<file, typed, cfg>>
  BY <1>1 DEF Eof, login
<1>3. \A s \in 1..section : CodeStored(s)
  <2>1. Len(unread) = 0 /\ Len(file) = 2 * Len(typed) /\ Len(typed) \in Nat /\ section \in Nat
    BY <1>1 DEF CfgInv, CfgTypeOK, Coded, CodesWritten
  <2>2. LinesRead = 2 * Len(typed)
    BY <2>1 DEF LinesRead
  <2>3. LinesRead \in {2 * section - 1, 2 * section}
    BY <1>1 DEF Coded, CodesRead
  <2>4. LinesRead = 2 * section
    BY <2>1, <2>2, <2>3
  <2> HIDE DEF LinesRead
  <2>5. \A s \in 1..section : 2 * s <= LinesRead
    BY <2>1, <2>4
  <2>6. QED BY <1>1, <2>5 DEF Coded, CodesRead
<1>4. CodesWritten'
  BY <1>2, SameCodes DEF Coded, CodesWritten
<1>5. CodesRead'
  BY <1>2 DEF CodesRead
<1>6. CodesKept'
  <2>1. \A s \in 1..maximum' : CodeStored(s)'
    BY <1>1, <1>2, <1>3, SameCodes
  <2>2. \A s \in DOMAIN cfg' : /\ s \in DOMAIN typed'
                               /\ \E code \in Codes(s)' : cfg'[s].password = Text(code)
    BY <1>2, SameCodes DEF Coded, CodesKept
  <2>3. QED BY <2>1, <2>2 DEF CodesKept
<1>7. QED BY <1>4, <1>5, <1>6 DEF Coded

LEMMA WritePasswordCodes ==
  ASSUME CfgInv, Coded, NEW password \in Passwords, NEW magic \in Magics,
         WritePassword(password, magic)
  PROVE  /\ Coded'
         /\ \A s \in DOMAIN typed : s \in DOMAIN typed' /\ typed'[s] = typed[s]
<1> DEFINE n == Len(typed)
           new == Equals(Pass, PassCode(password, magic))
           lines == <<Headers[n + 1], new>>
<1>1. /\ pc = "idle" /\ pc' = "idle" /\ last' = "edit" /\ Fits(password, magic)
      /\ n < Len(Headers) /\ file' = file \o lines /\ typed' = Append(typed, password)
      /\ UNCHANGED cfg
  BY DEF WritePassword, Call, parser
<1> HIDE DEF new
<1>2. /\ n \in Nat /\ typed \in Seq(Seq(Char)) /\ DOMAIN typed = 1..n /\ file \in Seq(Strings)
      /\ Len(file) = 2 * n /\ Len(Headers) \in Nat
      /\ \A s \in 1..n : /\ file[2 * s - 1] = Headers[s]
                         /\ \E code \in Codes(s) : file[2 * s] = Equals(Pass, code)
  <2>1. n \in Nat /\ typed \in Seq(Seq(Char)) /\ DOMAIN typed = 1..n /\ file \in Seq(Strings)
    BY DEF CfgInv, CfgTypeOK
  <2>2. CodesWritten
    BY DEF Coded
  <2>3. Len(file) = 2 * n
    BY <2>2 DEF CodesWritten
  <2>4. \A s \in DOMAIN typed : /\ file[2 * s - 1] = Headers[s]
                                /\ \E code \in Codes(s) : file[2 * s] = Equals(Pass, code)
    BY <2>2 DEF CodesWritten
  <2>5. Len(Headers) \in Nat
    BY HeadersAssumption
  <2> HIDE DEF n
  <2>6. QED BY <2>1, <2>3, <2>4, <2>5
<1>3. password \in Seq(Char)
  BY TypedAssumption
<1>4. /\ Len(typed') = n + 1 /\ typed' \in Seq(Seq(Char)) /\ DOMAIN typed' = 1..n + 1
      /\ \A s \in 1..n : typed'[s] = typed[s]
      /\ typed'[n + 1] = password
  BY <1>1, <1>2, <1>3, AppendProperties
<1> HIDE DEF n
<1>5. \A s \in 1..n : s \in DOMAIN typed' /\ typed'[s] = typed[s] /\ Codes(s)' = Codes(s)
  <2> TAKE s \in 1..n
  <2>1. s \in DOMAIN typed' /\ typed'[s] = typed[s]
    BY <1>2, <1>4
  <2>2. QED BY <2>1 DEF Codes
<1>6. CodesWritten'
  <2> DEFINE all == file \o lines
  <2>1. lines \in Seq(Strings) /\ Len(lines) = 2 /\ lines[1] = Headers[n + 1] /\ lines[2] = new
    <3>1. Headers[n + 1] \in Strings
      <4>1. n + 1 \in 1..Len(Headers) /\ Headers \in Seq(Strings)
        BY <1>1, <1>2, HeadersAssumption, LinesAreStrings
      <4>2. QED BY <4>1, ElementOfSeq
    <3>2. new \in Strings
      <4>1. magic \in Nat /\ magic < 10000
        BY TypedAssumption
      <4>2. PassCode(password, magic) \in Strings
        BY <1>3, <4>1, PassCodeType
      <4>3. QED BY <4>2, EqualsIs DEF new
    <3>3. QED BY <3>1, <3>2
  <2> HIDE DEF lines
  <2>2. Len(all) = 2 * n + 2 /\ (\A i \in 1..2 * n : all[i] = file[i])
    <3>1. Len(all) = Len(file) + Len(lines)
      BY <1>2, <2>1, Joined
    <3>2. \A i \in 1..Len(file) : all[i] = file[i]
      BY <1>2, <2>1, Joined
    <3> HIDE DEF all
    <3>3. QED BY <1>2, <2>1, <3>1, <3>2
  <2>3. all[2 * n + 1] = Headers[n + 1] /\ all[2 * n + 2] = new
    <3>1. \A i \in 1..Len(lines) : all[Len(file) + i] = lines[i]
      BY <1>2, <2>1, Joined
    <3> HIDE DEF all
    <3>2. 1 \in 1..Len(lines) /\ 2 \in 1..Len(lines)
      BY <2>1
    <3>3. QED BY <1>2, <2>1, <3>1, <3>2
  <2> HIDE DEF all
  <2>4. file' = all
    BY <1>1 DEF all
  <2>5. Len(file') = 2 * Len(typed') /\ Len(typed') <= Len(Headers)
    BY <1>1, <1>2, <1>4, <2>2, <2>4 DEF n
  <2>6. ASSUME NEW s \in DOMAIN typed'
        PROVE  /\ file'[2 * s - 1] = Headers[s]
               /\ \E code \in Codes(s)' : file'[2 * s] = Equals(Pass, code)
    <3>1. CASE s \in 1..n
      <4>1. 2 * s - 1 \in 1..2 * n /\ 2 * s \in 1..2 * n
        BY <1>2, <3>1
      <4>2. file'[2 * s - 1] = file[2 * s - 1] /\ file'[2 * s] = file[2 * s]
        BY <2>2, <2>4, <4>1
      <4>3. Codes(s)' = Codes(s)
        BY <1>5, <3>1
      <4>4. QED BY <1>2, <3>1, <4>2, <4>3
    <3>2. CASE s \notin 1..n
      <4>1. s = n + 1 /\ 2 * s - 1 = 2 * n + 1 /\ 2 * s = 2 * n + 2
        BY <1>2, <1>4, <3>2
      <4>2. typed'[s] = password
        BY <1>4, <4>1
      <4>3. PassCode(password, magic) \in Codes(s)'
        BY <1>1, <4>2 DEF Codes
      <4>4. file'[2 * s - 1] = Headers[s] /\ file'[2 * s] = new
        BY <2>3, <2>4, <4>1
      <4>5. QED BY <4>3, <4>4 DEF new
    <3>3. QED BY <3>1, <3>2
  <2>7. QED BY <2>5, <2>6 DEF CodesWritten
<1>7. CodesRead'
  BY <1>1 DEF CodesRead
<1>8. ~Parsed'
  BY <1>1 DEF Parsed
<1>9. CodesKept'
  <2>1. \A s \in DOMAIN cfg : /\ s \in 1..n
                              /\ \E code \in Codes(s) : cfg[s].password = Text(code)
    BY <1>2 DEF Coded, CodesKept
  <2>2. \A s \in DOMAIN cfg' : /\ s \in DOMAIN typed'
                               /\ \E code \in Codes(s)' : cfg'[s].password = Text(code)
    BY <1>1, <1>5, <2>1
  <2>3. QED BY <1>8, <2>2 DEF CodesKept
<1>10. QED BY <1>2, <1>5, <1>6, <1>7, <1>9 DEF Coded

LEMMA ReadCodes ==
  ASSUME CfgInv, Coded, ReadCfg
  PROVE  Coded' /\ typed' = typed /\ \A s \in DOMAIN sent' : sent'[s] = Nothing
<1>1. /\ pc = "idle" /\ last = "parse" /\ result >= 0 /\ last' = "read"
      /\ cfg' = [s \in 1..result |-> [section |-> names[s], password |-> values[s][Pass]]]
      /\ sent' = [s \in 1..result |-> Nothing]
      /\ pc' = pc /\ UNCHANGED <<file, typed>>
  BY DEF ReadCfg, parser
<1>2. \A s \in 1..result : CodeStored(s)
  <2>1. Parsed
    BY <1>1 DEF Parsed
  <2>2. result = maximum
    BY <2>1 DEF CfgInv, Named
  <2>3. QED BY <2>1, <2>2 DEF Coded, CodesKept
<1>3. CodesWritten'
  BY <1>1, SameCodes DEF Coded, CodesWritten
<1>4. CodesRead'
  BY <1>1 DEF CodesRead
<1>5. ~Parsed'
  BY <1>1 DEF Parsed
<1>6. ASSUME NEW s \in DOMAIN cfg'
      PROVE  /\ s \in DOMAIN typed'
             /\ \E code \in Codes(s)' : cfg'[s].password = Text(code)
  <2>1. s \in 1..result /\ cfg'[s].password = values[s][Pass]
    BY <1>1
  <2>2. s \in DOMAIN typed /\ \E code \in Codes(s) : values[s][Pass] = Text(code)
    BY <1>2, <2>1 DEF CodeStored
  <2>3. Codes(s)' = Codes(s)
    BY <1>1, SameCodes
  <2>4. QED BY <1>1, <2>1, <2>2, <2>3
<1>7. CodesKept'
  BY <1>5, <1>6 DEF CodesKept
<1>8. QED BY <1>1, <1>3, <1>4, <1>7 DEF Coded

LEMMA SetupCodes ==
  ASSUME CfgInv, Coded, NEW s \in DOMAIN cfg, SetupFtpEnv(s)
  PROVE  /\ Coded' /\ typed' = typed
         /\ \A r \in DOMAIN sent' : r # s => r \in DOMAIN sent /\ sent'[r] = sent[r]
         /\ (\A i \in DOMAIN typed[s] : typed[s][i] > 0) => sent'[s] = Typed(typed[s])
<1>1. /\ sent' = [sent EXCEPT ![s] = Typed(PassDecode(cfg[s].password.string))]
      /\ UNCHANGED <<file, values, maximum, unread, section, pc, last, result, typed, cfg>>
  BY DEF SetupFtpEnv, cfgvars, store, parser, history
<1>2. Coded'
  <2>1. CodesWritten'
    BY <1>1, SameCodes DEF Coded, CodesWritten
  <2>2. LinesRead' = LinesRead
    BY <1>1 DEF LinesRead
  <2>3. CodesRead'
    <3> HIDE DEF LinesRead
    <3>1. CodesRead
      BY DEF Coded
    <3>2. \A r : CodeStored(r) => CodeStored(r)'
      BY <1>1, SameCodes
    <3>3. QED BY <1>1, <2>2, <3>1, <3>2 DEF CodesRead
  <2>4. Parsed' = Parsed
    BY <1>1 DEF Parsed
  <2>5. CodesKept'
    <3>1. \A r : CodeStored(r) => CodeStored(r)'
      BY <1>1, SameCodes
    <3>2. \A r : Codes(r)' = Codes(r)
      BY <1>1, SameCodes
    <3>3. CodesKept
      BY DEF Coded
    <3>4. QED BY <1>1, <2>4, <3>1, <3>2, <3>3 DEF CodesKept
  <2>6. QED BY <2>1, <2>3, <2>5 DEF Coded
<1>3. PICK code \in Codes(s) : cfg[s].password = Text(code)
  BY DEF Coded, CodesKept
<1>4. s \in DOMAIN typed /\ s \in DOMAIN sent /\ CfgTypeOK
  BY DEF Coded, CodesKept, CfgInv, CfgTypeOK
<1>5. cfg[s].password.string = code
  BY <1>3 DEF Text
<1>6. (\A i \in DOMAIN typed[s] : typed[s][i] > 0) => PassDecode(code) = typed[s]
  BY <1>4, CodesAre
<1>7. sent'[s] = Typed(PassDecode(code))
  BY <1>1, <1>4, <1>5
<1>8. QED BY <1>1, <1>2, <1>6, <1>7

(* With nothing but passwords, parses and logins no other step is taken. *)
LEMMA CodesNext ==
  ASSUME CfgInv, Alone, Coded, PasswordArrives, LoginNext
  PROVE  Alone' /\ Coded' /\ PasswordArrives'
<1>1. DOMAIN sent = DOMAIN cfg /\ \A s \in DOMAIN cfg : s \in DOMAIN typed
  BY DEF CfgInv, CfgTypeOK, Coded, CodesKept
<1>2. \A s \in DOMAIN sent :
         sent[s] # Nothing /\ (\A i \in DOMAIN typed[s] : typed[s][i] > 0)
           => sent[s] = Typed(typed[s])
  BY DEF PasswordArrives, Alone
<1>3. CASE CfgParse /\ UNCHANGED login
  <2>1. usage' = usage /\ sent' = sent /\ typed' = typed
    BY <1>3 DEF CfgParse, login
  <2>2. Parse \/ Header \/ Assign \/ Eof
    BY <1>3, NoOtherLines DEF CfgParse
  <2>3. Coded'
    BY <1>3, <2>2, ParseCodes, HeaderCodes, AssignCodes, EofCodes
  <2>4. QED BY <2>1, <2>3 DEF PasswordArrives, Alone
<1>4. ~Calls
  BY DEF Calls, CfgAllocForNewSection, CfgStoreValue, CfgDump, CfgFree, WriteFile, Alone
<1>5. CASE \E password \in Passwords, magic \in Magics : WritePassword(password, magic)
  <2>1. PICK password \in Passwords, magic \in Magics : WritePassword(password, magic)
    BY <1>5
  <2>2. usage' = usage /\ sent' = sent
    BY <2>1 DEF WritePassword, Call
  <2>3. Coded' /\ \A s \in DOMAIN typed : s \in DOMAIN typed' /\ typed'[s] = typed[s]
    BY <2>1, WritePasswordCodes
  <2>4. PasswordArrives'
    BY <1>1, <1>2, <2>2, <2>3 DEF PasswordArrives
  <2>5. QED BY <2>2, <2>3, <2>4 DEF Alone
<1>6. CASE ReadCfg
  <2>1. usage' = usage
    BY <1>6 DEF ReadCfg
  <2>2. Coded' /\ \A s \in DOMAIN sent' : sent'[s] = Nothing
    BY <1>6, ReadCodes
  <2>3. PasswordArrives'
    BY <2>2 DEF PasswordArrives
  <2>4. QED BY <2>1, <2>2, <2>3 DEF Alone
<1>7. CASE \E s \in DOMAIN cfg : SetupFtpEnv(s)
  <2>1. PICK s \in DOMAIN cfg : SetupFtpEnv(s)
    BY <1>7
  <2>2. usage' = usage
    BY <2>1 DEF SetupFtpEnv, cfgvars
  <2>3. /\ Coded' /\ typed' = typed
        /\ \A r \in DOMAIN sent' : r # s => r \in DOMAIN sent /\ sent'[r] = sent[r]
        /\ (\A i \in DOMAIN typed[s] : typed[s][i] > 0) => sent'[s] = Typed(typed[s])
    BY <2>1, SetupCodes
  <2>4. PasswordArrives'
    BY <1>2, <2>3 DEF PasswordArrives
  <2>5. QED BY <2>2, <2>3, <2>4 DEF Alone
<1>8. QED BY <1>3, <1>4, <1>5, <1>6, <1>7 DEF LoginNext, CfgNext

CodesInv == CfgInv /\ CodesThere /\ PasswordArrives

LEMMA CodesInvInit == LoginInit => CodesInv
<1> SUFFICES ASSUME LoginInit PROVE CodesInv
  OBVIOUS
<1>1. /\ file = <<>> /\ typed = <<>> /\ cfg = <<>> /\ sent = <<>> /\ pc = "idle" /\ last = "none"
  BY DEF LoginInit, CfgInit
<1>2. CodesWritten
  <2>1. Len(<<>>) = 0 /\ DOMAIN <<>> = {} /\ Len(Headers) \in Nat
    BY HeadersAssumption
  <2>2. QED BY <1>1, <2>1 DEF CodesWritten
<1>3. CodesRead /\ CodesKept
  BY <1>1 DEF CodesRead, CodesKept, Parsed
<1>4. PasswordArrives
  BY <1>1 DEF PasswordArrives
<1>5. QED BY <1>2, <1>3, <1>4, CfgInvInit DEF CodesInv, CodesThere

LEMMA CodesInvNext == CodesInv /\ [LoginNext]_allvars => CodesInv'
<1> SUFFICES ASSUME CodesInv, [LoginNext]_allvars PROVE CodesInv'
  OBVIOUS
<1>1. CfgInv'
  BY CfgInvNext DEF CodesInv
<1>2. usage' = usage
  <2>1. CASE LoginNext
    BY <2>1 DEF LoginNext, CfgNext, CfgParse, Calls, CfgAllocForNewSection, CfgStoreValue,
       CfgDump, CfgFree, WriteFile, Call, WritePassword, ReadCfg, SetupFtpEnv, cfgvars
  <2>2. CASE UNCHANGED allvars
    BY <2>2 DEF allvars, cfgvars
  <2>3. QED BY <2>1, <2>2
<1>3. CASE ~Alone
  BY <1>1, <1>2, <1>3 DEF CodesInv, CodesThere, PasswordArrives, Alone
<1>4. CASE Alone /\ LoginNext
  <2>1. CfgInv /\ Coded /\ PasswordArrives
    BY <1>4 DEF CodesInv, CodesThere, Coded, Alone
  <2>2. Coded' /\ PasswordArrives'
    BY <1>4, <2>1, CodesNext
  <2>3. QED BY <1>1, <2>2 DEF CodesInv, CodesThere, Coded
<1>5. CASE UNCHANGED allvars
  <2>1. UNCHANGED <<file, values, maximum, unread, section, pc, last, result, typed, cfg, sent>>
    BY <1>5 DEF allvars, cfgvars, store, parser, history, login
  <2>2. /\ \A s : Codes(s)' = Codes(s)
        /\ \A s : CodeStored(s) => CodeStored(s)'
        /\ LinesRead' = LinesRead /\ Parsed' = Parsed
    BY <2>1, SameCodes DEF LinesRead, Parsed
  <2> HIDE DEF LinesRead, Parsed
  <2>3. CodesWritten => CodesWritten'
    BY <2>1, <2>2 DEF CodesWritten
  <2>4. CodesRead => CodesRead'
    BY <2>1, <2>2 DEF CodesRead
  <2>5. CodesKept => CodesKept'
    BY <2>1, <2>2 DEF CodesKept
  <2>6. PasswordArrives => PasswordArrives'
    BY <1>2, <2>1 DEF PasswordArrives
  <2>7. QED BY <1>1, <1>2, <2>3, <2>4, <2>5, <2>6 DEF CodesInv, CodesThere
<1>6. QED BY <1>3, <1>4, <1>5

(* The password that a section logs in with is the one that was typed for   *)
(* it, for every number of sections, all their headers and all passwords    *)
(* of ASCII characters.                                                     *)
THEOREM PasswordsArrive == LoginSpec => []PasswordArrives
<1>1. CodesInv => PasswordArrives
  BY DEF CodesInv
<1>2. QED BY <1>1, CodesInvInit, CodesInvNext, PTL DEF LoginSpec

-----------------------------------------------------------------------------
(* Counting the members of a set of numbers up to one of them. *)
Bounded(S) == \E L \in Nat : S \subseteq 1..L

LEMMA UpToHas ==
  ASSUME NEW S, Bounded(S)
  PROVE  /\ IsFiniteSet(S) /\ \A i \in S : i \in Nat /\ i > 0
         /\ \A n, i : i \in UpTo(S, n) <=> i \in S /\ i <= n
<1>1. PICK L \in Nat : S \subseteq 1..L
  BY DEF Bounded
<1>2. IsFiniteSet(S)
  <2>1. 1 \in Int /\ L \in Int
    OBVIOUS
  <2>2. IsFiniteSet(1..L)
    BY <2>1, FS_Interval
  <2>3. S \in SUBSET (1..L)
    BY <1>1
  <2>4. QED BY <2>2, <2>3, FS_Subset
<1>3. QED BY <1>1, <1>2 DEF UpTo

LEMMA UpToIs ==
  ASSUME NEW S, Bounded(S), NEW n \in Nat
  PROVE  /\ IsFiniteSet(UpTo(S, n)) /\ Cardinality(UpTo(S, n)) \in Nat
         /\ UpTo(S, 0) = {} /\ Cardinality(UpTo(S, 0)) = 0
         /\ (\A i \in S : i <= n) => UpTo(S, n) = S
<1>1. UpTo(S, n) \subseteq S
  BY UpToHas
<1>2. UpTo(S, 0) = {}
  <2>1. \A i \in S : ~(i <= 0)
    BY UpToHas
  <2>2. \A i : i \notin UpTo(S, 0)
    BY <2>1, UpToHas
  <2>3. QED BY <2>2
<1>3. IsFiniteSet(UpTo(S, n))
  BY <1>1, UpToHas, FS_Subset
<1>4. Cardinality(UpTo(S, n)) \in Nat
  BY <1>3, FS_CardinalityType
<1>5. Cardinality({}) = 0
  BY FS_EmptySet
<1>6. ASSUME \A i \in S : i <= n PROVE UpTo(S, n) = S
  <2>1. \A i : i \in UpTo(S, n) <=> i \in S
    BY <1>6, UpToHas
  <2>2. QED BY <2>1
<1>7. QED BY <1>2, <1>3, <1>4, <1>5, <1>6

LEMMA UpToNext ==
  ASSUME NEW S, Bounded(S), NEW n \in Nat, NEW m \in Nat, m = n + 1
  PROVE  /\ m \in S => /\ UpTo(S, m) = UpTo(S, n) \cup {m}
                        /\ Cardinality(UpTo(S, m)) = Cardinality(UpTo(S, n)) + 1
         /\ m \notin S => UpTo(S, m) = UpTo(S, n)
<1>1. CASE m \in S
  <2>1. UpTo(S, m) = UpTo(S, n) \cup {m} /\ m \notin UpTo(S, n)
    <3>1. ~(m <= n) /\ m <= m /\ \A i \in S : i <= m <=> i <= n \/ i = m
      BY UpToHas
    <3>2. \A i : i \in UpTo(S, m) <=> i \in UpTo(S, n) \/ i = m
      BY <1>1, <3>1, UpToHas
    <3>3. QED BY <3>1, <3>2, UpToHas
  <2>2. IsFiniteSet(UpTo(S, n))
    BY UpToIs
  <2>3. Cardinality(UpTo(S, n) \cup {m}) = Cardinality(UpTo(S, n)) + 1
    BY <2>1, <2>2, FS_AddElement
  <2>4. QED BY <1>1, <2>1, <2>3
<1>2. CASE m \notin S
  <2>1. \A i \in S : i <= m <=> i <= n
    BY <1>2, UpToHas
  <2>2. \A i : i \in UpTo(S, m) <=> i \in UpTo(S, n)
    BY <2>1, UpToHas
  <2>3. UpTo(S, m) = UpTo(S, n)
    BY <2>2
  <2>4. QED BY <1>2, <2>3
<1>3. QED BY <1>1, <1>2

LEMMA UpToGrows ==
  ASSUME NEW S, Bounded(S), NEW n \in Nat, NEW k \in 0..n
  PROVE  /\ Cardinality(UpTo(S, k)) <= Cardinality(UpTo(S, n))
         /\ k # n /\ n \in S => Cardinality(UpTo(S, k)) < Cardinality(UpTo(S, n))
<1> DEFINE K == UpTo(S, k)
           N == UpTo(S, n)
<1>1. IsFiniteSet(N) /\ IsFiniteSet(K) /\ Cardinality(N) \in Nat /\ Cardinality(K) \in Nat
  <2>1. k \in Nat
    OBVIOUS
  <2>2. QED BY <2>1, UpToIs
<1>2. K \subseteq N /\ (k # n /\ n \in S => n \in N /\ n \notin K)
  <2>1. \A i \in S : i <= k => i <= n
    BY UpToHas
  <2>2. K \subseteq N
    BY <2>1, UpToHas
  <2>3. k # n => ~(n <= k)
    OBVIOUS
  <2>4. QED BY <2>2, <2>3, UpToHas
<1> HIDE DEF K, N
<1>3. Cardinality(K) <= Cardinality(N) /\ (Cardinality(N) = Cardinality(K) => N = K)
  BY <1>1, <1>2, FS_Subset
<1>4. QED BY <1>1, <1>2, <1>3 DEF K, N

LEMMA NthIs ==
  ASSUME NEW S, Bounded(S), NEW m \in S
  PROVE  Nth(S, Cardinality(UpTo(S, m))) = m
<1> DEFINE c(i) == Cardinality(UpTo(S, i))
           k == Nth(S, c(m))
<1>1. k \in S /\ c(k) = c(m)
  <2>1. \E i \in S : c(i) = c(m)
    OBVIOUS
  <2> HIDE DEF c
  <2>2. (CHOOSE i \in S : c(i) = c(m)) \in S /\ c(CHOOSE i \in S : c(i) = c(m)) = c(m)
    BY <2>1
  <2>3. k = CHOOSE i \in S : c(i) = c(m)
    BY DEF Nth, c
  <2>4. QED BY <2>2, <2>3
<1> HIDE DEF k
<1>2. k \in Nat /\ m \in Nat
  BY <1>1, UpToHas
<1>3. c(m) \in Nat /\ c(k) \in Nat
  BY <1>2, UpToIs
<1>4. ~(k < m)
  <2> SUFFICES ASSUME k < m PROVE FALSE
    OBVIOUS
  <2>1. k \in 0..m /\ k # m
    BY <1>2
  <2>2. c(k) < c(m)
    BY <1>2, <2>1, UpToGrows
  <2> HIDE DEF c
  <2>3. QED BY <1>1, <1>3, <2>2
<1>5. ~(m < k)
  <2> SUFFICES ASSUME m < k PROVE FALSE
    OBVIOUS
  <2>1. m \in 0..k /\ k # m
    BY <1>2
  <2>2. c(m) < c(k)
    BY <1>1, <1>2, <2>1, UpToGrows
  <2> HIDE DEF c
  <2>3. QED BY <1>1, <1>3, <2>2
<1>6. k = m
  BY <1>2, <1>4, <1>5
<1>7. QED BY <1>6 DEF k

LEMMA NthThere ==
  ASSUME NEW S, Bounded(S), NEW k \in 1..Cardinality(S)
  PROVE  Nth(S, k) \in S /\ Cardinality(UpTo(S, Nth(S, k))) = k
<1> DEFINE c(i) == Cardinality(UpTo(S, i))
<1>1. PICK L \in Nat : S \subseteq 1..L
  BY DEF Bounded
<1> DEFINE T == {n \in 0..L : \A j \in 1..c(n) : \E i \in S : c(i) = j}
<1>2. 0 \in T
  <2>1. c(0) = 0
    BY UpToIs
  <2> HIDE DEF c
  <2>2. 1..c(0) = {} /\ 0 \in 0..L
    BY <2>1
  <2>3. QED BY <2>2
<1>3. ASSUME NEW n \in 0 + 1..L, n - 1 \in T PROVE n \in T
  <2>1. PICK m \in Nat : m = n - 1
    OBVIOUS
  <2>2. n \in Nat /\ n = m + 1 /\ n \in 0..L
    BY <2>1
  <2>3. \A j \in 1..c(m) : \E i \in S : c(i) = j
    BY <1>3, <2>1
  <2> HIDE DEF T
  <2>4. c(n) \in Nat /\ c(m) \in Nat
    BY <2>2, UpToIs
  <2>5. n \in S => c(n) = c(m) + 1
    BY <2>2, UpToNext
  <2>6. n \notin S => c(n) = c(m)
    <3>1. n \notin S => UpTo(S, n) = UpTo(S, m)
      BY <2>2, UpToNext
    <3>2. QED BY <3>1
  <2> HIDE DEF c
  <2>7. ASSUME NEW j \in 1..c(n) PROVE \E i \in S : c(i) = j
    <3>1. CASE j \in 1..c(m)
      BY <2>3, <3>1
    <3>2. CASE j \notin 1..c(m)
      <4>1. n \in S /\ j = c(n)
        BY <2>4, <2>5, <2>6, <3>2
      <4>2. QED BY <4>1
    <3>3. QED BY <3>1, <3>2
  <2>8. QED BY <2>2, <2>7 DEF T
<1>4. L \in T
  <2> HIDE DEF T
  <2>1. L \in 0..L /\ 0 \in Nat
    OBVIOUS
  <2>2. \A n \in 0..L : n \in T
    BY <1>2, <1>3, <2>1, Upward
  <2>3. QED BY <2>1, <2>2
<1>5. c(L) = Cardinality(S)
  <2>1. \A i \in S : i <= L
    BY <1>1
  <2>2. UpTo(S, L) = S
    BY <2>1, UpToIs
  <2>3. QED BY <2>2
<1>6. \E i \in S : c(i) = k
  <2> HIDE DEF c
  <2>1. QED BY <1>4, <1>5
<1>7. Nth(S, k) = CHOOSE i \in S : c(i) = k
  BY DEF Nth
<1>8. QED
  <2> HIDE DEF c
  <2>1. Nth(S, k) \in S /\ c(Nth(S, k)) = k
    BY <1>6, <1>7
  <2>2. QED BY <2>1 DEF c

(* What a number more, above all others, is to a set. *)
LEMMA NthMore ==
  ASSUME NEW S, Bounded(S), NEW m \in Nat, m > 0, \A i \in S : i < m
  PROVE  LET T == S \cup {m}
             c == Cardinality(S)
         IN  /\ c \in Nat /\ Cardinality(T) = c + 1
             /\ Nth(T, c + 1) = m /\ \A k \in 1..c : Nth(T, k) = Nth(S, k) /\ Nth(S, k) \in S
<1> DEFINE T == S \cup {m}
           c == Cardinality(S)
<1>1. m \in T /\ m \notin S /\ \A i \in T : i <= m
  <2>1. \A i \in S : i \in Nat
    BY UpToHas
  <2>2. QED BY <2>1
<1>2. Bounded(T)
  <2>1. \A i \in T : i \in 1..m
    <3>1. \A i \in S : i \in Nat /\ i > 0
      BY UpToHas
    <3>2. QED BY <3>1
  <2> HIDE DEF T
  <2>2. QED BY <2>1 DEF Bounded
<1>3. IsFiniteSet(S) /\ c \in Nat
  BY UpToHas, FS_CardinalityType
<1>4. Cardinality(T) = c + 1
  BY <1>1, <1>3, FS_AddElement
<1>5. Nth(T, c + 1) = m
  <2> HIDE DEF T
  <2>1. UpTo(T, m) = T
    BY <1>1, <1>2, UpToIs
  <2>2. Nth(T, Cardinality(UpTo(T, m))) = m
    BY <1>1, <1>2, NthIs
  <2>3. QED BY <1>4, <2>1, <2>2
<1>6. ASSUME NEW k \in 1..c PROVE Nth(T, k) = Nth(S, k) /\ Nth(S, k) \in S
  <2> DEFINE i == Nth(S, k)
  <2>1. i \in S /\ Cardinality(UpTo(S, i)) = k
    BY NthThere
  <2> HIDE DEF i
  <2>2. i \in T /\ i < m
    BY <2>1
  <2>3. UpTo(T, i) = UpTo(S, i)
    <3>1. i \in Nat /\ ~(m <= i)
      BY <2>1, <2>2, UpToHas
    <3>2. \A j : j \in T <=> j \in S \/ j = m
      OBVIOUS
    <3> HIDE DEF T
    <3>3. \A j : j \in UpTo(T, i) <=> j \in UpTo(S, i)
      BY <1>2, <3>1, <3>2, UpToHas
    <3>4. QED BY <3>3
  <2> HIDE DEF T
  <2>4. Nth(T, Cardinality(UpTo(T, i))) = i
    BY <1>2, <2>2, NthIs
  <2>5. QED BY <2>1, <2>3, <2>4 DEF i
<1>7. QED BY <1>3, <1>4, <1>5, <1>6

-----------------------------------------------------------------------------
(* Braces, sections and what lines give, from one line to the next. *)
Beyond(lines, i, before) ==
  CASE before # 0 /\ At(lines[i - 1]) = "}" -> 0
    [] before # 0 /\ At(lines[i - 1]) # "}" -> before
    [] before = 0 /\ At(lines[i - 1]) # "[" /\ Opens(lines[i - 1]) -> i - 1
    [] OTHER -> 0

LEMMA AroundIs ==
  ASSUME NEW lines \in Seq(Strings)
  PROVE  LET brace == Around(lines)
         IN  /\ brace[1] = 0
             /\ \A i \in 1..Len(lines) : /\ brace[i] \in 0..Len(lines)
                                         /\ brace[i + 1] = Beyond(lines, i + 1, brace[i])
<1> DEFINE L == Len(lines)
           n == L + 1
           g == [e \in (2..n) \X (0..L) |-> Beyond(lines, e[1], e[2])]
           Rec(h) == h = [i \in 1..n |->
                            IF i = 1 THEN 0
                            ELSE LET before == h[i - 1]
                                 IN  CASE before # 0 /\ At(lines[i - 1]) = "}" -> 0
                                       [] before # 0 /\ At(lines[i - 1]) # "}" -> before
                                       [] before = 0 /\ At(lines[i - 1]) # "["
                                            /\ Opens(lines[i - 1]) -> i - 1
                                       [] OTHER -> 0]
           Is(h) == h = [i \in 1..n |-> IF i = 1 THEN 0 ELSE Beyond(lines, i, h[i - 1])]
<1>1. L \in Nat
  OBVIOUS
<1>2. Around(lines) = CHOOSE h : Rec(h)
  BY DEF Around
<1>3. ASSUME NEW h PROVE Rec(h) <=> Is(h)
  BY DEF Beyond
<1> HIDE DEF L, Rec
<1>4. g \in [(2..n) \X (0..L) -> 0..L]
  <2>1. ASSUME NEW i \in 2..n, NEW b \in 0..L PROVE Beyond(lines, i, b) \in 0..L
    <3>1. i - 1 \in 0..L /\ 0 \in 0..L
      BY <1>1
    <3>2. Beyond(lines, i, b) \in {0, b, i - 1}
      BY Zenon DEF Beyond
    <3>3. QED BY <3>1, <3>2
  <2>2. QED BY <2>1
<1>5. PICK f \in [1..n -> 0..L] :
        f[1] = 0 /\ \A i \in 2..n : f[i] = g[<<i, f[i - 1]>>]
  <2> HIDE DEF g
  <2>1. 1 \in Nat /\ 2 \in Nat /\ 2 = 1 + 1 /\ 0 \in 0..L /\ n \in Nat /\ 1 <= n
    BY <1>1
  <2> HIDE DEF n
  <2>2. \E f : Follows(f, 1, 2, n, 0..L, 0, g)
    BY <1>4, <2>1, Recursion
  <2>3. QED BY <2>2 DEF Follows
<1>6. \A i \in 2..n : f[i] = Beyond(lines, i, f[i - 1])
  <2> TAKE i \in 2..n
  <2>1. i - 1 \in 1..n
    BY <1>1
  <2>2. <<i, f[i - 1]>> \in (2..n) \X (0..L)
    BY <1>5, <2>1
  <2>3. QED BY <1>5, <2>1, <2>2
<1> HIDE DEF g
<1>7. Is(f)
  <2>1. \A i \in 1..n : f[i] = IF i = 1 THEN 0 ELSE Beyond(lines, i, f[i - 1])
    <3> TAKE i \in 1..n
    <3>1. i # 1 => i \in 2..n
      BY <1>1
    <3>2. QED BY <1>5, <1>6, <3>1
  <2>2. QED BY <1>5, <2>1
<1>8. ASSUME NEW h, Is(h) PROVE \A i \in 1..n : h[i] = f[i]
  <2> DEFINE U == {i \in 1..n : h[i] = f[i]}
  <2>1. \A i \in 1..n : h[i] = IF i = 1 THEN 0 ELSE Beyond(lines, i, h[i - 1])
    BY <1>8
  <2>2. 1 \in U /\ 1 \in Nat /\ n \in Nat
    <3>1. 1 \in 1..n /\ n \in Nat
      BY <1>1
    <3>2. h[1] = 0 /\ f[1] = 0
      BY <1>5, <2>1, <3>1
    <3>3. QED BY <3>1, <3>2
  <2>3. ASSUME NEW i \in 1 + 1..n, i - 1 \in U PROVE i \in U
    <3>1. i \in 1..n /\ i \in 2..n /\ i # 1 /\ h[i - 1] = f[i - 1]
      BY <1>1, <2>3
    <3>2. h[i] = Beyond(lines, i, h[i - 1])
      BY <2>1, <3>1
    <3>3. QED BY <1>6, <3>1, <3>2
  <2>4. \A i \in 1..n : i \in U
    <3> HIDE DEF U, n
    <3>1. QED BY <2>2, <2>3, Upward
  <2>5. QED BY <2>4
<1> DEFINE brace == Around(lines)
<1>9. \A i \in 1..n : brace[i] = f[i]
  <2> HIDE DEF Is
  <2>1. Rec(f)
    BY <1>3, <1>7
  <2>2. Rec(CHOOSE h : Rec(h))
    BY <2>1
  <2>3. Is(brace)
    BY <1>2, <1>3, <2>2
  <2> HIDE DEF brace
  <2>4. QED BY <1>8, <2>3
<1> HIDE DEF brace
<1>10. brace[1] = 0
  BY <1>1, <1>5, <1>9
<1>11. ASSUME NEW i \in 1..L
       PROVE  brace[i] \in 0..L /\ brace[i + 1] = Beyond(lines, i + 1, brace[i])
  <2>1. i \in 1..n /\ i + 1 \in 1..n /\ i + 1 \in 2..n /\ (i + 1) - 1 = i
    BY <1>1
  <2>2. brace[i] = f[i] /\ brace[i + 1] = f[i + 1]
    BY <1>9, <2>1
  <2>3. f[i] \in 0..L
    BY <1>5, <2>1
  <2>4. f[i + 1] = Beyond(lines, i + 1, f[i])
    <3>1. \E j \in 2..n : j = i + 1 /\ j - 1 = i
      BY <2>1
    <3>2. QED BY <1>6, <3>1
  <2>5. QED BY <2>2, <2>3, <2>4
<1>12. QED BY <1>10, <1>11 DEF L, brace

(* The lines of the file, as cfgParse gets them. *)
LEMMA StrippedTwice ==
  ASSUME NEW ptr \in Strings
  PROVE  RmFirstSpaces(RmFirstSpaces(ptr)) = RmFirstSpaces(ptr)
<1> DEFINE r == RmFirstSpaces(ptr)
<1>1. PICK j \in 0..Len(ptr) : /\ r = From(ptr, j + 1)
                               /\ j < Len(ptr) => ptr[j + 1] \notin Blanks
  BY RmFirstSpacesIs
<1>2. r \in Strings /\ Len(r) = Len(ptr) - j /\ \A i \in 1..Len(ptr) - j : r[i] = ptr[j + i]
  BY <1>1, FromIs
<1> HIDE DEF r
<1>3. Len(ptr) \in Nat /\ Len(r) \in Nat
  BY <1>2 DEF Strings
<1>4. CASE r = <<>>
  <2>1. 0 \in 0..Len(r) /\ 1..0 = {} /\ ~(0 < Len(r)) /\ Len(r) - 0 = 0
    BY <1>4
  <2>2. RmFirstSpaces(r) = From(r, 0 + 1)
    BY <1>2, <2>1, BlanksGone
  <2>3. From(r, 0 + 1) \in Strings /\ Len(From(r, 0 + 1)) = 0
    BY <1>2, <2>1, FromIs
  <2>4. From(r, 0 + 1) = <<>>
    BY <2>3 DEF Strings
  <2>5. QED BY <1>4, <2>2, <2>4 DEF r
<1>5. CASE r # <<>>
  <2>1. Len(r) > 0 /\ At(r) = r[1]
    BY <1>2, <1>5, AtIs
  <2>2. j < Len(ptr) /\ 1 \in 1..Len(ptr) - j
    BY <1>2, <1>3, <2>1
  <2>3. At(r) = ptr[j + 1]
    BY <1>2, <2>1, <2>2
  <2>4. At(r) \notin Blanks
    BY <1>1, <2>2, <2>3
  <2>5. QED BY <1>2, <1>5, <2>4, NoBlanks DEF r
<1>6. QED BY <1>4, <1>5

LEMMA StrippedIs ==
  ASSUME CfgTypeOK
  PROVE  /\ Stripped \in Seq(Strings) /\ Len(Stripped) = Len(file) /\ Len(file) \in Nat
         /\ \A i \in 1..Len(file) : /\ Stripped[i] = RmFirstSpaces(file[i])
                                    /\ RmFirstSpaces(Stripped[i]) = Stripped[i]
<1> DEFINE n == Len(file)
<1>1. n \in Nat /\ DOMAIN file = 1..n /\ \A i \in 1..n : file[i] \in Strings
  BY DEF CfgTypeOK
<1> HIDE DEF n
<1>2. \A i \in 1..n : RmFirstSpaces(file[i]) \in Strings
  BY <1>1, RmFirstSpacesType
<1>3. Stripped = [i \in 1..n |-> RmFirstSpaces(file[i])]
  BY <1>1 DEF Stripped
<1>4. Stripped \in [1..n -> Strings]
  BY <1>2, <1>3
<1>5. Stripped \in Seq(Strings) /\ Len(Stripped) = n
  BY <1>1, <1>4, IsSeq
<1>6. QED BY <1>1, <1>3, <1>5, StrippedTwice DEF n

LEMMA LineStripped ==
  ASSUME CfgTypeOK, unread # <<>>
  PROVE  /\ Line \in Strings /\ RmFirstSpaces(Line) = Line
<1>1. Head(unread) \in Strings
  BY HeadTailProperties DEF CfgTypeOK
<1>2. QED BY <1>1, RmFirstSpacesType, StrippedTwice DEF Line

(* The line that a section begins with, and the section of a line. *)
LEMMA SectionsAre ==
  ASSUME NEW lines \in Seq(Strings)
  PROVE  /\ Bounded(Begins(lines)) /\ SectionOf(lines, 0) = 0
         /\ SectionOf(lines, Len(lines)) = Cardinality(Begins(lines))
         /\ \A i \in Nat : SectionOf(lines, i) \in Nat
         /\ \A i \in Begins(lines) : Nth(Begins(lines), SectionOf(lines, i)) = i
<1> DEFINE B == Begins(lines)
<1>1. Len(lines) \in Nat /\ \A i \in B : i \in 1..Len(lines)
  BY DEF Begins
<1> HIDE DEF B
<1>2. Bounded(B)
  <2>1. B \subseteq 1..Len(lines)
    BY <1>1
  <2>2. QED BY <1>1, <2>1 DEF Bounded
<1>3. Cardinality(UpTo(B, 0)) = 0 /\ \A i \in Nat : Cardinality(UpTo(B, i)) \in Nat
  BY <1>2, UpToIs
<1>4. UpTo(B, Len(lines)) = B
  <2>1. \A i \in B : i <= Len(lines)
    BY <1>1
  <2>2. QED BY <1>1, <1>2, <2>1, UpToIs
<1>5. \A i \in B : Nth(B, Cardinality(UpTo(B, i))) = i
  BY <1>2, NthIs
<1>6. QED BY <1>2, <1>3, <1>4, <1>5 DEF B, SectionOf

LEMMA SectionOfNext ==
  ASSUME NEW lines \in Seq(Strings), NEW n \in Nat, NEW m \in Nat, m = n + 1
  PROVE  /\ m \in Begins(lines) => SectionOf(lines, m) = SectionOf(lines, n) + 1
         /\ m \notin Begins(lines) => SectionOf(lines, m) = SectionOf(lines, n)
         /\ \A i \in 1..n : SectionOf(lines, i) <= SectionOf(lines, n)
<1> DEFINE B == Begins(lines)
<1>1. Bounded(B)
  BY SectionsAre
<1> HIDE DEF B
<1>2. m \in B => Cardinality(UpTo(B, m)) = Cardinality(UpTo(B, n)) + 1
  BY <1>1, UpToNext
<1>3. m \notin B => Cardinality(UpTo(B, m)) = Cardinality(UpTo(B, n))
  <2>1. m \notin B => UpTo(B, m) = UpTo(B, n)
    BY <1>1, UpToNext
  <2>2. QED BY <2>1
<1>4. \A i \in 1..n : Cardinality(UpTo(B, i)) <= Cardinality(UpTo(B, n))
  <2> TAKE i \in 1..n
  <2>1. i \in 0..n
    OBVIOUS
  <2>2. QED BY <1>1, <2>1, UpToGrows
<1>5. QED BY <1>2, <1>3, <1>4 DEF B, SectionOf

Succ(n, m) == m = n + 1

LEMMA HereNext ==
  ASSUME NEW lines \in Seq(Strings), NEW n \in Nat, NEW m \in Nat, Succ(n, m), NEW s \in Nat, NEW p
  PROVE  /\ Bounded(Here(lines, n, s, p)) /\ \A i \in Here(lines, n, s, p) : i < m
         /\ SectionOf(lines, m) = s /\ Gives(lines, m, p)
              => Here(lines, m, s, p) = Here(lines, n, s, p) \cup {m}
         /\ SectionOf(lines, m) # s \/ ~Gives(lines, m, p)
              => Here(lines, m, s, p) = Here(lines, n, s, p)
         /\ SectionOf(lines, n) < s => Here(lines, n, s, p) = {}
<1>0. m = n + 1
  BY DEF Succ
<1> DEFINE In(i) == SectionOf(lines, i) = s /\ Gives(lines, i, p)
<1>1. /\ Here(lines, n, s, p) = {i \in 1..n : In(i)}
      /\ Here(lines, m, s, p) = {i \in 1..m : In(i)}
  BY DEF Here
<1>2. SectionOf(lines, n) < s => \A i \in 1..n : ~In(i)
  <2> SUFFICES ASSUME SectionOf(lines, n) < s, NEW i \in 1..n, SectionOf(lines, i) = s PROVE FALSE
    OBVIOUS
  <2>1. SectionOf(lines, i) <= SectionOf(lines, n) /\ SectionOf(lines, n) \in Nat
    BY <1>0, SectionOfNext, SectionsAre
  <2>2. QED BY <2>1
<1>3. In(m) <=> SectionOf(lines, m) = s /\ Gives(lines, m, p)
  OBVIOUS
<1> HIDE DEF In
<1>4. Bounded(Here(lines, n, s, p))
  BY <1>1 DEF Bounded
<1>5. \A i \in Here(lines, n, s, p) : i < m
  BY <1>0, <1>1
<1>6. m \in 1..m /\ \A i : i \in 1..m <=> i \in 1..n \/ i = m
  BY <1>0
<1>7. In(m) => Here(lines, m, s, p) = Here(lines, n, s, p) \cup {m}
  BY <1>1, <1>6
<1>8. ~In(m) => Here(lines, m, s, p) = Here(lines, n, s, p)
  BY <1>1, <1>6
<1>9. SectionOf(lines, n) < s => Here(lines, n, s, p) = {}
  BY <1>1, <1>2
<1>10. QED BY <1>3, <1>4, <1>5, <1>7, <1>8, <1>9

(* The values that the lines of a set give. *)
LEMMA WordsNext ==
  ASSUME NEW lines, NEW H, Bounded(H), NEW m \in Nat, m > 0, \A i \in H : i < m
  PROVE  /\ WordsAt(lines, {}) = <<>>
         /\ WordsAt(lines, H \cup {m}) = Append(WordsAt(lines, H), Given(lines, m))
         /\ WordsAt(lines, H \cup {m}) # <<>>
         /\ Last(WordsAt(lines, H \cup {m})) = Given(lines, m)
<1> DEFINE c == Cardinality(H)
           J == H \cup {m}
           w == WordsAt(lines, H)
           v == WordsAt(lines, J)
           e == Given(lines, m)
           T == {Given(lines, i) : i \in J}
<1>1. /\ c \in Nat /\ Cardinality(J) = c + 1
      /\ Nth(J, c + 1) = m /\ \A k \in 1..c : Nth(J, k) = Nth(H, k) /\ Nth(H, k) \in H
  BY NthMore
<1>2. w = [k \in 1..c |-> Given(lines, Nth(H, k))]
  BY DEF WordsAt
<1>3. v = [k \in 1..c + 1 |-> Given(lines, Nth(J, k))]
  BY <1>1 DEF WordsAt
<1>4. e \in T /\ \A i \in H : Given(lines, i) \in T
  OBVIOUS
<1> HIDE DEF c, J, w, v, e, T
<1>5. w \in [1..c -> T]
  BY <1>1, <1>2, <1>4
<1>6. w \in Seq(T) /\ Len(w) = c
  BY <1>1, <1>5, IsSeq
<1>7. \A k \in 1..c + 1 : v[k] = IF k <= c THEN w[k] ELSE e
  <2> TAKE k \in 1..c + 1
  <2>1. v[k] = Given(lines, Nth(J, k))
    BY <1>3
  <2>2. CASE k <= c
    <3>1. k \in 1..c
      BY <1>1, <2>2
    <3>2. Nth(J, k) = Nth(H, k) /\ w[k] = Given(lines, Nth(H, k))
      BY <1>1, <1>2, <3>1
    <3>3. QED BY <2>1, <2>2, <3>2
  <2>3. CASE ~(k <= c)
    <3>1. k = c + 1
      BY <1>1, <2>3
    <3>2. QED BY <1>1, <2>1, <2>3, <3>1 DEF e
  <2>4. QED BY <2>2, <2>3
<1>8. /\ Append(w, e) \in Seq(T) /\ Len(Append(w, e)) = c + 1
      /\ \A k \in 1..c + 1 : Append(w, e)[k] = IF k <= c THEN w[k] ELSE e
  BY <1>1, <1>4, <1>6, AppendProperties
<1>9. v = Append(w, e)
  <2> DEFINE a == Append(w, e)
  <2>1. a \in Seq(T) /\ Len(a) = c + 1
    BY <1>8
  <2>2. \A k \in 1..c + 1 : a[k] = v[k]
    BY <1>7, <1>8
  <2> HIDE DEF a
  <2>3. DOMAIN a = 1..c + 1 /\ a = [k \in DOMAIN a |-> a[k]]
    BY <2>1
  <2>4. v = [k \in 1..c + 1 |-> v[k]]
    BY <1>3
  <2>5. v = a
    BY <2>2, <2>3, <2>4
  <2>6. QED BY <2>5 DEF a
<1>10. v \in Seq(T) /\ Len(v) = c + 1 /\ v # <<>> /\ v[c + 1] = e
  BY <1>1, <1>7, <1>8, <1>9
<1>11. Last(v) = e
  BY <1>10 DEF Last
<1>12. WordsAt(lines, {}) = <<>>
  <2>1. Cardinality({}) = 0
    BY FS_EmptySet
  <2>2. WordsAt(lines, {}) = [k \in 1..0 |-> Given(lines, Nth({}, k))]
    BY <2>1 DEF WordsAt
  <2>3. QED BY <2>2
<1>13. QED BY <1>9, <1>10, <1>11, <1>12 DEF J, v, w, e

(* Another value of a parameter is stored as store_value does it. *)
LEMMA MeantNext ==
  ASSUME NEW lines \in Seq(Strings), NEW n \in Nat, NEW m \in Nat, Succ(n, m), NEW s \in Nat,
         NEW p \in Params
  PROVE  /\ SectionOf(lines, m) = s /\ Gives(lines, m, p)
              => Meant(lines, m, s, p) = Stored(p, Meant(lines, n, s, p), Given(lines, m))
         /\ SectionOf(lines, m) # s \/ ~Gives(lines, m, p)
              => Meant(lines, m, s, p) = Meant(lines, n, s, p)
         /\ SectionOf(lines, n) < s => Meant(lines, n, s, p) = Default[p]
<1> DEFINE H == Here(lines, n, s, p)
           J == Here(lines, m, s, p)
           w == WordsAt(lines, H)
           v == WordsAt(lines, J)
           e == Given(lines, m)
<1>1. m > 0 /\ Types[p] \in KindsOfValue
  BY TypesIs DEF Succ
<1>2. /\ Bounded(H) /\ \A i \in H : i < m
      /\ SectionOf(lines, m) = s /\ Gives(lines, m, p) => J = H \cup {m}
      /\ SectionOf(lines, m) # s \/ ~Gives(lines, m, p) => J = H
      /\ SectionOf(lines, n) < s => H = {}
  BY HereNext
<1>6. Meant(lines, n, s, p) = CASE w = <<>> -> Default[p]
                                [] w # <<>> /\ Types[p] = "list" -> List(w)
                                [] OTHER -> Stored(p, Null, Last(w))
  BY DEF Meant
<1>7. Meant(lines, m, s, p) = CASE v = <<>> -> Default[p]
                                [] v # <<>> /\ Types[p] = "list" -> List(v)
                                [] OTHER -> Stored(p, Null, Last(v))
  BY DEF Meant
<1> HIDE DEF H, J
<1>8. /\ WordsAt(lines, {}) = <<>>
      /\ J = H \cup {m} => v = Append(w, e) /\ v # <<>> /\ Last(v) = e
  <2>1. /\ WordsAt(lines, {}) = <<>>
        /\ WordsAt(lines, H \cup {m}) = Append(WordsAt(lines, H), Given(lines, m))
        /\ WordsAt(lines, H \cup {m}) # <<>>
        /\ Last(WordsAt(lines, H \cup {m})) = Given(lines, m)
    BY <1>1, <1>2, WordsNext
  <2>2. QED BY <2>1, Zenon
<1> HIDE DEF w, v, e
<1>9. ASSUME SectionOf(lines, m) = s /\ Gives(lines, m, p)
      PROVE  Meant(lines, m, s, p) = Stored(p, Meant(lines, n, s, p), e)
  <2>1. v = Append(w, e) /\ v # <<>> /\ Last(v) = e
    BY <1>2, <1>8, <1>9
  <2>2. CASE Types[p] = "list"
    <3>1. Meant(lines, m, s, p) = List(v)
      BY <1>7, <2>1, <2>2
    <3>2. Meant(lines, n, s, p) = List(w)
      <4>1. Default[p] = List(<<>>)
        BY <2>2 DEF Default
      <4>2. QED BY <1>6, <2>2, <4>1
    <3>3. Meant(lines, n, s, p).list = w
      BY <3>2 DEF List
    <3>4. Stored(p, Meant(lines, n, s, p), e) = List(Append(w, e))
      BY <2>2, <3>3 DEF Stored
    <3>5. QED BY <2>1, <3>1, <3>4
  <2>3. CASE Types[p] # "list"
    <3>1. Meant(lines, m, s, p) = Stored(p, Null, e)
      BY <1>7, <2>1, <2>3
    <3>2. Stored(p, Null, e) = Stored(p, Meant(lines, n, s, p), e)
      BY <1>1, <2>3 DEF Stored, KindsOfValue
    <3>3. QED BY <3>1, <3>2
  <2>4. QED BY <2>2, <2>3
<1>10. ASSUME SectionOf(lines, m) # s \/ ~Gives(lines, m, p)
       PROVE  Meant(lines, m, s, p) = Meant(lines, n, s, p)
  BY <1>2, <1>6, <1>7, <1>10 DEF v, w
<1>11. ASSUME SectionOf(lines, n) < s PROVE Meant(lines, n, s, p) = Default[p]
  BY <1>2, <1>6, <1>8, <1>11 DEF w
<1>12. QED BY <1>9, <1>10, <1>11 DEF e

(* What a line between two braces, or outside of them, does to the braces,  *)
(* and what it gives.                                                      *)
LEMMA LineMeans ==
  ASSUME NEW lines \in Seq(Strings), NEW m \in 1..Len(lines), NEW b \in Nat, b = Around(lines)[m]
  PROVE  /\ m \in Begins(lines) <=> At(lines[m]) = "[" /\ b = 0
         /\ b # 0 /\ At(lines[m]) = "}" => Around(lines)[m + 1] = 0
         /\ b # 0 /\ At(lines[m]) # "}" => Around(lines)[m + 1] = b
         /\ b = 0 /\ At(lines[m]) # "[" /\ Opens(lines[m]) => Around(lines)[m + 1] = m
         /\ b = 0 /\ (At(lines[m]) = "[" \/ ~Opens(lines[m])) => Around(lines)[m + 1] = 0
<1>1. PICK k \in 1..Len(lines) + 1 : k = m + 1 /\ k - 1 = m
  OBVIOUS
<1>2. Around(lines)[k] = Beyond(lines, k, b)
  BY <1>1, AroundIs
<1>3. DOMAIN lines = 1..Len(lines)
  OBVIOUS
<1>4. m \in Begins(lines) <=> At(lines[m]) = "[" /\ b = 0
  BY <1>3 DEF Begins
<1>5. Beyond(lines, k, b) = CASE b # 0 /\ At(lines[m]) = "}" -> 0
                             [] b # 0 /\ At(lines[m]) # "}" -> b
                             [] b = 0 /\ At(lines[m]) # "[" /\ Opens(lines[m]) -> m
                             [] OTHER -> 0
  BY <1>1, Zenon DEF Beyond
<1>6. /\ b # 0 /\ At(lines[m]) = "}" => Around(lines)[k] = 0
      /\ b # 0 /\ At(lines[m]) # "}" => Around(lines)[k] = b
      /\ b = 0 /\ At(lines[m]) # "[" /\ Opens(lines[m]) => Around(lines)[k] = m
      /\ b = 0 /\ (At(lines[m]) = "[" \/ ~Opens(lines[m])) => Around(lines)[k] = 0
  BY <1>2, <1>5
<1>7. QED BY <1>1, <1>4, <1>6

LEMMA BetweenBraces ==
  ASSUME NEW lines \in Seq(Strings), NEW m \in 1..Len(lines)
  PROVE  Around(lines)[m] # 0 /\ At(lines[m]) # "}" =>
           m \notin Begins(lines) /\ Around(lines)[m + 1] = Around(lines)[m]
<1>1. PICK b \in 0..Len(lines) : b = Around(lines)[m]
  BY AroundIs
<1>2. b \in Nat
  OBVIOUS
<1>3. b # 0 => m \notin Begins(lines)
  BY <1>1 DEF Begins
<1>4. b # 0 /\ At(lines[m]) # "}" => Around(lines)[m + 1] = b
  BY <1>1, <1>2, LineMeans
<1>5. QED BY <1>1, <1>3, <1>4

(* Where cfgParse stands when it has read n lines and gets line m. *)
Stands(lines, n, m, b) ==
  /\ lines = Stripped /\ n = LinesRead /\ Succ(n, m) /\ b = Around(lines)[m]
  /\ Len(file) = Len(lines) /\ m \in 1..Len(lines) /\ lines[m] = Line
  /\ pc # "idle" /\ (pc = "braces" <=> b # 0)
  /\ b # 0 => parameter = Name(lines[b]).word
  /\ section = SectionOf(lines, n) /\ Holds(lines, n, section)
  /\ Len(unread) = Len(file) - n /\ \A i \in DOMAIN unread : unread[i] = file[n + i]

LEMMA Standing ==
  ASSUME CfgInv, ReadSoFar, pc # "idle", unread # <<>>
  PROVE  \E lines \in Seq(Strings), m \in Nat, n \in Nat, b \in Nat : Stands(lines, n, m, b)
<1> DEFINE l == Stripped
           k == LinesRead
<1>1. CfgTypeOK
  BY DEF CfgInv
<1>2. /\ l \in Seq(Strings) /\ Len(l) = Len(file) /\ Len(file) \in Nat
      /\ \A i \in 1..Len(file) : l[i] = RmFirstSpaces(file[i])
  BY <1>1, StrippedIs
<1>3. Len(unread) \in Nat /\ Len(unread) > 0 /\ DOMAIN unread = 1..Len(unread)
  BY <1>1 DEF CfgTypeOK
<1>4. k = Len(file) - Len(unread)
  BY DEF LinesRead
<1>5. /\ k >= 0 /\ \A i \in DOMAIN unread : unread[i] = file[k + i]
      /\ pc = "braces" <=> Around(l)[k + 1] # 0
      /\ pc = "braces" => parameter = Name(l[Around(l)[k + 1]]).word
      /\ section = SectionOf(l, k)
      /\ Holds(l, k, section)
  BY DEF ReadSoFar
<1> HIDE DEF l, k
<1>6. k \in Nat /\ k + 1 \in 1..Len(l)
  BY <1>2, <1>3, <1>4, <1>5
<1>7. Around(l)[k + 1] \in 0..Len(l)
  BY <1>2, <1>6, AroundIs
<1>8. l[k + 1] = Line
  <2>1. unread[1] = file[k + 1] /\ Head(unread) = unread[1]
    BY <1>3, <1>5
  <2>2. QED BY <1>2, <1>6, <2>1 DEF Line
<1>9. Len(unread) = Len(file) - k
  BY <1>2, <1>3, <1>4, <1>6
<1>10. PICK n \in Nat : n = k
  BY <1>6
<1>11. PICK m \in Nat : m = n + 1 /\ m = k + 1 /\ m \in 1..Len(l)
  BY <1>6, <1>10
<1>12. PICK b \in Nat : b = Around(l)[m]
  BY <1>2, <1>7, <1>11
<1>13. PICK lines \in Seq(Strings) : lines = l
  BY <1>2
<1>14. Succ(n, m)
  BY <1>11 DEF Succ
<1>15. lines = Stripped /\ n = LinesRead
  BY <1>10, <1>13 DEF l, k
<1>16. Stands(lines, n, m, b)
  BY <1>2, <1>5, <1>8, <1>9, <1>10, <1>11, <1>12, <1>13, <1>14, <1>15 DEF Stands
<1>17. QED BY <1>13, <1>16

(* A line that is handled without an error leads to the next one. *)
LEMMA GoesOn ==
  ASSUME CfgTypeOK, unread # <<>>, NEW lines \in Seq(Strings), NEW m \in Nat,
         NEW n \in Nat, NEW b \in Nat, Stands(lines, n, m, b),
         NEW where \in {"lines", "braces"}, GoOn(where),
         NEW c, Around(lines)[m + 1] = c, where = "braces" <=> c # 0,
         c # 0 => parameter' = Name(lines[c]).word,
         section' = SectionOf(lines, m), Holds(lines, m, section)'
  PROVE  ReadSoFar' /\ MeansFile'
<1>1. /\ pc' = where /\ unread' = Tail(unread) /\ file' = file
      /\ where = "braces" <=> c # 0
  BY DEF GoOn
<1>2. m = n + 1 /\ lines = Stripped /\ lines = Stripped'
  BY <1>1 DEF Stands, Succ, Stripped
<1>3. /\ Len(unread) = Len(file) - n /\ Len(file) \in Nat /\ Len(unread) \in Nat
      /\ \A i \in DOMAIN unread : unread[i] = file[n + i]
  BY DEF Stands, CfgTypeOK
<1>4. /\ Len(unread') = Len(unread) - 1 /\ Len(unread) > 0 /\ DOMAIN unread = 1..Len(unread)
      /\ DOMAIN unread' = 1..Len(unread) - 1
      /\ \A i \in 1..Len(unread) - 1 : unread'[i] = unread[i + 1]
  BY <1>1, HeadTailProperties DEF CfgTypeOK
<1>5. LinesRead' = m
  <2>1. LinesRead' = Len(file) - Len(unread')
    BY <1>1 DEF LinesRead
  <2>2. QED BY <1>2, <1>3, <1>4, <2>1
<1>6. \A i \in DOMAIN unread' : unread'[i] = file'[m + i]
  <2> TAKE i \in DOMAIN unread'
  <2>1. i \in 1..Len(unread) - 1 /\ i + 1 \in DOMAIN unread
    BY <1>3, <1>4
  <2>2. n + (i + 1) = m + i
    BY <1>2, <1>3, <2>1
  <2>3. unread'[i] = unread[i + 1] /\ unread[i + 1] = file[n + (i + 1)]
    BY <1>3, <1>4, <2>1
  <2>4. QED BY <1>1, <2>2, <2>3
<1>7. m >= 0
  OBVIOUS
<1> HIDE DEF LinesRead, Stripped
<1>8. ReadSoFar'
  BY <1>1, <1>2, <1>5, <1>6, <1>7 DEF ReadSoFar
<1>9. MeansFile'
  BY <1>1 DEF MeansFile, Parsed
<1>10. QED BY <1>8, <1>9

LEMMA FailMeans ==
  ASSUME Fail
  PROVE  ReadSoFar' /\ MeansFile'
<1>1. pc' = "idle" /\ result' = -1
  BY DEF Fail
<1>2. ~(-1 >= 0)
  OBVIOUS
<1>3. QED BY <1>1, <1>2 DEF ReadSoFar, MeansFile, Parsed

(* A line that gives nothing. *)
LEMMA HoldsStill ==
  ASSUME NEW lines \in Seq(Strings), NEW m \in Nat, NEW n \in Nat,
         NEW b \in Nat, Stands(lines, n, m, b), section \in Nat,
         m \notin Begins(lines), \A p \in Params : ~Gives(lines, m, p),
         UNCHANGED <<names, values, section>>
  PROVE  section' = SectionOf(lines, m) /\ Holds(lines, m, section)'
<1>1. m = n + 1 /\ Succ(n, m) /\ section = SectionOf(lines, n) /\ m \in Nat
  BY DEF Stands, Succ
<1>2. SectionOf(lines, m) = section
  BY <1>1, SectionOfNext
<1>3. ASSUME NEW s \in 1..section
      PROVE  /\ names[s] = NameOf(lines[Nth(Begins(lines), s)])
             /\ \A p \in Params : values[s][p] = Meant(lines, m, s, p)
  <2>1. /\ names[s] = NameOf(lines[Nth(Begins(lines), s)])
        /\ \A p \in Params : values[s][p] = Meant(lines, n, s, p)
    BY DEF Stands, Holds
  <2>2. \A p \in Params : Meant(lines, m, s, p) = Meant(lines, n, s, p)
    BY <1>1, MeantNext
  <2>3. QED BY <2>1, <2>2
<1>4. QED BY <1>2, <1>3 DEF Holds

(* A line that gives a parameter a value. *)
LEMMA HoldsStored ==
  ASSUME CfgInv, NEW lines \in Seq(Strings), NEW m \in Nat, NEW n \in Nat,
         NEW b \in Nat, Stands(lines, n, m, b), section > 0,
         m \notin Begins(lines), NEW p \in Strings, NEW word \in Strings, Accepted(p, word),
         StoreValue(p, word, section), Given(lines, m) = word,
         \A q \in Params : Gives(lines, m, q) <=> q = Fold(p),
         UNCHANGED <<names, section>>
  PROVE  section' = SectionOf(lines, m) /\ Holds(lines, m, section)'
<1>1. m = n + 1 /\ Succ(n, m) /\ section = SectionOf(lines, n) /\ m \in Nat /\ pc # "idle"
  BY DEF Stands, Succ
<1>2. SectionOf(lines, m) = section
  BY <1>1, SectionOfNext
<1>3. section \in 1..Len(values) /\ values \in Seq(Settings)
  BY <1>1, StoreIs
<1>4. /\ Fold(p) \in Params
      /\ values'[section] = [values[section] EXCEPT
                               ![Fold(p)] = Stored(Fold(p), values[section][Fold(p)], word)]
      /\ \A i \in 1..Len(values) : i # section => values'[i] = values[i]
  BY <1>3, StoreType
<1>5. DOMAIN values[section] = Params
  BY <1>3, ElementOfSeq DEF Settings
<1>6. ASSUME NEW s \in 1..section
      PROVE  /\ names[s] = NameOf(lines[Nth(Begins(lines), s)])
             /\ \A q \in Params : values'[s][q] = Meant(lines, m, s, q)
  <2>1. /\ names[s] = NameOf(lines[Nth(Begins(lines), s)])
        /\ \A q \in Params : values[s][q] = Meant(lines, n, s, q)
    BY DEF Stands, Holds
  <2>2. ASSUME NEW q \in Params PROVE values'[s][q] = Meant(lines, m, s, q)
    <3>1. CASE s = section /\ q = Fold(p)
      <4>1. values'[s][q] = Stored(q, values[s][q], word)
        BY <1>4, <1>5, <3>1
      <4>2. Meant(lines, m, s, q) = Stored(q, Meant(lines, n, s, q), word)
        BY <1>1, <1>2, <3>1, MeantNext
      <4>3. QED BY <2>1, <4>1, <4>2
    <3>2. CASE s = section /\ q # Fold(p)
      <4>1. values'[s][q] = values[s][q]
        BY <1>4, <1>5, <3>2
      <4>2. ~Gives(lines, m, q)
        BY <3>2
      <4>3. Meant(lines, m, s, q) = Meant(lines, n, s, q)
        BY <1>1, <4>2, MeantNext
      <4>4. QED BY <2>1, <4>1, <4>3
    <3>3. CASE s # section
      <4>1. s \in 1..Len(values) /\ s \in Nat
        BY <1>3
      <4>2. values'[s] = values[s]
        BY <1>4, <3>3, <4>1
      <4>3. Meant(lines, m, s, q) = Meant(lines, n, s, q)
        BY <1>1, <1>2, <3>3, <4>1, MeantNext
      <4>4. QED BY <2>1, <4>2, <4>3
    <3>4. QED BY <3>1, <3>2, <3>3
  <2>3. QED BY <2>1, <2>2
<1>7. QED BY <1>2, <1>6 DEF Holds

(* The marks that lines begin with differ. *)
LEMMA Marked ==
  ASSUME NEW line \in Strings, RmFirstSpaces(line) = line, Ends(line)
  PROVE  At(line) # "[" /\ At(line) # "}" /\ ~Opens(line)
<1>1. At(line) \in {Zero, "#"}
  BY DEF Ends
<1>2. Zero # "[" /\ Zero # "}"
  BY DEF Zero
<1>3. QED BY <1>1, <1>2 DEF Opens

(* Each step of cfgParse: what the lines read so far mean is there after    *)
(* it, and at the end of the file, or after an error, what MeansFile says. *)
ParseInv == CfgInv /\ ReadSoFar /\ MeansFile

LEMMA ParseReads ==
  ASSUME ParseInv, Parse
  PROVE  ReadSoFar' /\ MeansFile'
<1>1. pc' = "lines" /\ unread' = file /\ section' = 0 /\ UNCHANGED <<file, names, values>>
  BY DEF Parse, store
<1>2. CfgTypeOK
  BY DEF ParseInv, CfgInv
<1>3. PICK lines \in Seq(Strings) : lines = Stripped
  BY <1>2, StrippedIs
<1>4. lines = Stripped'
  BY <1>1, <1>3 DEF Stripped
<1>5. Len(file) - Len(file) = 0 /\ \A i \in DOMAIN file : 0 + i = i
  BY <1>2 DEF CfgTypeOK
<1>6. LinesRead' = 0
  BY <1>1, <1>5 DEF LinesRead
<1>7. Around(lines)[1] = 0
  BY AroundIs
<1>8. SectionOf(lines, 0) = 0
  BY SectionsAre
<1>9. Holds(lines, 0, 0)'
  BY DEF Holds
<1>10. 0 >= 0 /\ 0 + 1 = 1
  OBVIOUS
<1> HIDE DEF LinesRead, Stripped
<1>11. ReadSoFar'
  BY <1>1, <1>4, <1>5, <1>6, <1>7, <1>8, <1>9, <1>10 DEF ReadSoFar
<1>12. MeansFile'
  BY <1>1 DEF MeansFile, Parsed
<1>13. QED BY <1>11, <1>12

LEMMA SkipReads ==
  ASSUME ParseInv, Skip
  PROVE  ReadSoFar' /\ MeansFile'
<1>1. /\ pc \in {"lines", "braces"} /\ unread # <<>> /\ Ends(Line) /\ GoOn(pc)
      /\ UNCHANGED <<names, values, section, parameter>>
  BY DEF Skip
<1>2. CfgInv /\ CfgTypeOK /\ ReadSoFar /\ section \in Nat
  <2>1. CfgInv /\ ReadSoFar
    BY DEF ParseInv
  <2>2. section \in Nat
    BY <2>1, StoreIs
  <2>3. CfgTypeOK
    BY <2>1 DEF CfgInv
  <2>4. QED BY <2>1, <2>2, <2>3
<1>3. PICK lines \in Seq(Strings), m \in Nat, n \in Nat, b \in Nat :
        Stands(lines, n, m, b)
  <2>1. pc # "idle" /\ unread # <<>>
    BY <1>1
  <2>2. QED BY <1>2, <2>1, Standing
<1>4. m \in 1..Len(lines) /\ lines[m] = Line /\ (pc = "braces" <=> b # 0) /\ b = Around(lines)[m]
      /\ (b # 0 => parameter = Name(lines[b]).word)
  BY <1>3 DEF Stands
<1>5. Line \in Strings /\ RmFirstSpaces(Line) = Line
  BY <1>1, <1>2, LineStripped
<1>6. At(lines[m]) # "[" /\ At(lines[m]) # "}" /\ ~Opens(lines[m])
  BY <1>1, <1>4, <1>5, Marked
<1>7. Around(lines)[m + 1] = b /\ m \notin Begins(lines)
  <2>1. CASE b = 0
    BY <1>4, <1>6, <2>1, LineMeans
  <2>2. CASE b # 0
    BY <1>4, <1>6, <2>2, LineMeans
  <2>3. QED BY <2>1, <2>2
<1>8. \A p \in Params : ~Gives(lines, m, p)
  BY <1>1, <1>4 DEF Gives
<1>9. section' = SectionOf(lines, m) /\ Holds(lines, m, section)'
  BY <1>1, <1>2, <1>3, <1>7, <1>8, HoldsStill
<1>10. pc = "braces" <=> b # 0
  BY <1>4
<1>11. b # 0 => parameter' = Name(lines[b]).word
  BY <1>1, <1>4
<1>12. PICK where \in {"lines", "braces"} : where = pc
  BY <1>1
<1>13. QED BY <1>1, <1>2, <1>3, <1>7, <1>9, <1>10, <1>11, <1>12, GoesOn

LEMMA HeaderReads ==
  ASSUME ParseInv, Header
  PROVE  ReadSoFar' /\ MeansFile'
<1> DEFINE word == ParseWord(RmFirstSpaces(Tail(Line)), "section")
           others == SubSeq(names, 1, section)
           used == \E i \in DOMAIN others : SameName(others[i], word.word)
           kept == ~word.ok /\ ~word.freed /\ section < Len(names)
           name == IF word.ok THEN word.word
                   ELSE IF kept THEN names[section + 1] ELSE Dangling
           good == word.ok /\ ~used /\ Ends(Tail(word.rest))
<1>1. /\ pc = "lines" /\ unread # <<>> /\ ~Ends(Line) /\ At(Line) = "["
      /\ names' = Append(others, name)
      /\ IF good THEN GoOn("lines") ELSE Fail
      /\ AllocForNewSection(section) /\ section' = section + 1
  BY DEF Header, Reading
<1>2. CfgInv /\ ReadSoFar
  BY DEF ParseInv
<1>3. CASE ~good
  BY <1>1, <1>3, FailMeans
<1>4. CASE good
  <2>1. PICK lines \in Seq(Strings), m \in Nat, n \in Nat, b \in Nat :
          Stands(lines, n, m, b)
    BY <1>1, <1>2, Standing
  <2>2. /\ m \in 1..Len(lines) /\ lines[m] = Line /\ b = 0 /\ b = Around(lines)[m]
        /\ m = n + 1 /\ Succ(n, m)
        /\ section = SectionOf(lines, n) /\ Holds(lines, n, section)
    BY <1>1, <2>1 DEF Stands, Succ
  <2>3. m \in Begins(lines) /\ Around(lines)[m + 1] = 0
    BY <1>1, <2>2, LineMeans
  <2>4. m \in Nat /\ SectionOf(lines, m) = section + 1
    BY <2>2, <2>3, SectionOfNext
  <2>5. /\ section \in 0..Len(names) /\ section \in 0..Len(values) /\ section \in Nat
        /\ names \in Seq(Names) /\ values \in Seq(Settings) /\ CfgTypeOK
    BY <1>1, <1>2, StoreIs DEF CfgInv
  <2>6. values'[section + 1] = Default /\ \A i \in 1..section : values'[i] = values[i]
    BY <1>1, <2>5, AllocType
  <2>7. name = NameOf(lines[m]) /\ name \in Names
    <3>1. name = word.word
      BY <1>4
    <3>2. word.word = NameOf(lines[m])
      BY <2>2 DEF NameOf
    <3>3. word.word \in Strings
      <4>1. Line \in Strings /\ Line # <<>>
        <5>1. Line \in Strings
          BY <1>1, <2>5, LineType
        <5>2. Line = <<>> => At(Line) = Zero
          BY <5>1, AtIs
        <5>3. Zero # "["
          BY DEF Zero
        <5>4. QED BY <1>1, <5>1, <5>2, <5>3
      <4>2. Tail(Line) \in Strings
        BY <4>1, TailType
      <4>3. RmFirstSpaces(Tail(Line)) \in Strings
        BY <4>2, RmFirstSpacesType
      <4>4. "section" \in WordTypes /\ word.ok
        BY <1>4 DEF WordTypes
      <4> HIDE DEF word
      <4>5. QED BY <4>3, <4>4, ParseWordType DEF word
    <3>4. QED BY <3>1, <3>2, <3>3 DEF Names
  <2> HIDE DEF name, good
  <2>8. names'[section + 1] = name /\ \A i \in 1..section : names'[i] = names[i]
    BY <1>1, <2>5, <2>7, Started
  <2>9. Nth(Begins(lines), section + 1) = m
    BY <2>3, <2>4, SectionsAre
  <2>10. Holds(lines, m, section)'
    <3>1. ASSUME NEW s \in 1..section + 1
          PROVE  /\ names'[s] = NameOf(lines[Nth(Begins(lines), s)])
                 /\ \A p \in Params : values'[s][p] = Meant(lines, m, s, p)
      <4>1. CASE s \in 1..section
        <5>1. s # section + 1
          BY <2>5, <4>1
        <5>2. \A p \in Params : Meant(lines, m, s, p) = Meant(lines, n, s, p)
          BY <2>2, <2>4, <5>1, MeantNext
        <5>3. /\ names[s] = NameOf(lines[Nth(Begins(lines), s)])
              /\ \A p \in Params : values[s][p] = Meant(lines, n, s, p)
          BY <2>2, <4>1 DEF Holds
        <5>4. QED BY <2>6, <2>8, <4>1, <5>2, <5>3
      <4>2. CASE s \notin 1..section
        <5>1. s = section + 1 /\ s \in Nat /\ section < s
          BY <2>5, <4>2
        <5>2. \A p \in Params : ~Gives(lines, m, p)
          BY <2>3 DEF Gives
        <5>3. \A p \in Params : Meant(lines, m, s, p) = Meant(lines, n, s, p)
          BY <2>2, <2>4, <5>1, <5>2, MeantNext
        <5>4. \A p \in Params : Meant(lines, n, s, p) = Default[p]
          BY <2>2, <2>4, <5>1, MeantNext
        <5>5. QED BY <2>6, <2>7, <2>8, <2>9, <5>1, <5>3, <5>4
      <4>3. QED BY <4>1, <4>2
    <3>2. QED BY <1>1, <3>1 DEF Holds
  <2>11. GoOn("lines") /\ section' = SectionOf(lines, m)
    BY <1>1, <1>4, <2>4
  <2>12. QED BY <1>1, <2>1, <2>3, <2>5, <2>10, <2>11, GoesOn
<1>5. QED BY <1>3, <1>4

LEMMA AssignReads ==
  ASSUME ParseInv, Assign
  PROVE  ReadSoFar' /\ MeansFile'
<1> DEFINE name == ParseWord(Line, "parameter")
           value == ParseWord(name.rest, "value")
           good == section > 0 /\ name.ok /\ value.ok /\ Accepted(name.word, value.word)
<1>1. /\ pc = "lines" /\ unread # <<>> /\ ~Ends(Line) /\ At(Line) # "["
      /\ ~(section > 0 /\ name.ok /\ At(name.rest) = "{")
      /\ IF good THEN StoreValue(name.word, value.word, section) /\ GoOn("lines")
                 ELSE UNCHANGED values /\ Fail
      /\ UNCHANGED <<names, section>>
  BY DEF Assign, Reading
<1>2. CfgInv /\ ReadSoFar
  BY DEF ParseInv
<1>3. CASE ~good
  BY <1>1, <1>3, FailMeans
<1>4. CASE good
  <2>1. PICK lines \in Seq(Strings), m \in Nat, n \in Nat, b \in Nat :
          Stands(lines, n, m, b)
    BY <1>1, <1>2, Standing
  <2>2. m \in 1..Len(lines) /\ lines[m] = Line /\ b = 0 /\ b = Around(lines)[m]
    BY <1>1, <2>1 DEF Stands
  <2>3. ~Opens(lines[m])
    BY <1>1, <1>4, <2>2 DEF Opens, Name
  <2>4. m \notin Begins(lines) /\ Around(lines)[m + 1] = 0
    BY <1>1, <2>2, <2>3, LineMeans
  <2>5. Line \in Strings /\ CfgTypeOK
    BY <1>1, <1>2, LineType DEF CfgInv
  <2>6. name.word \in Strings /\ name.rest \in Strings
    <3>1. "parameter" \in WordTypes /\ name.ok
      BY <1>4 DEF WordTypes
    <3> HIDE DEF name
    <3>2. QED BY <2>5, <3>1, ParseWordType DEF name
  <2>7. value.word \in Strings
    <3>1. "value" \in WordTypes /\ value.ok
      BY <1>4 DEF WordTypes
    <3> HIDE DEF value
    <3>2. QED BY <2>6, <3>1, ParseWordType DEF value
  <2>8. Given(lines, m) = value.word
    BY <2>2 DEF Given, Name
  <2>9. \A q \in Params : Gives(lines, m, q) <=> q = Fold(name.word)
    <3> TAKE q \in Params
    <3>1. Fold(q) = q
      BY TypesIs
    <3>2. Gives(lines, m, q) <=> SameName(name.word, q)
      BY <1>1, <2>2, <2>3, <2>4 DEF Gives, Name
    <3>3. QED BY <3>1, <3>2 DEF SameName
  <2>10. /\ section > 0 /\ Accepted(name.word, value.word)
         /\ StoreValue(name.word, value.word, section) /\ GoOn("lines")
    BY <1>1, <1>4
  <2> HIDE DEF name, value
  <2>11. section' = SectionOf(lines, m) /\ Holds(lines, m, section)'
    BY <1>1, <1>2, <2>1, <2>4, <2>6, <2>7, <2>8, <2>9, <2>10, HoldsStored
  <2>12. QED BY <1>1, <2>1, <2>4, <2>5, <2>10, <2>11, GoesOn
<1>5. QED BY <1>3, <1>4

LEMMA OpenReads ==
  ASSUME ParseInv, Open
  PROVE  ReadSoFar' /\ MeansFile'
<1> DEFINE name == ParseWord(Line, "parameter")
<1>1. /\ pc = "lines" /\ unread # <<>> /\ ~Ends(Line) /\ At(Line) # "["
      /\ name.ok /\ At(name.rest) = "{"
      /\ IF Ends(Tail(name.rest)) THEN parameter' = name.word /\ GoOn("braces") ELSE Fail
      /\ UNCHANGED <<names, values, section>>
  BY DEF Open, Reading
<1>2. CfgInv /\ ReadSoFar
  BY DEF ParseInv
<1>3. CASE Fail
  BY <1>3, FailMeans
<1>4. CASE parameter' = name.word /\ GoOn("braces")
  <2>1. PICK lines \in Seq(Strings), m \in Nat, n \in Nat, b \in Nat :
          Stands(lines, n, m, b)
    <3>1. pc # "idle" /\ unread # <<>>
      BY <1>1
    <3>2. QED BY <1>2, <3>1, Standing
  <2>2. m \in 1..Len(lines) /\ lines[m] = Line /\ b = 0 /\ b = Around(lines)[m]
    BY <1>1, <2>1 DEF Stands
  <2>3. Opens(lines[m])
    BY <1>1, <2>2 DEF Opens, Name
  <2>4. m \notin Begins(lines) /\ Around(lines)[m + 1] = m /\ m # 0
    <3>1. At(lines[m]) # "["
      BY <1>1, <2>2, Zenon
    <3> HIDE DEF name
    <3>2. m \notin Begins(lines)
      BY <2>2, <3>1, LineMeans
    <3>3. Around(lines)[m + 1] = m
      BY <2>2, <2>3, <3>1, LineMeans
    <3>4. m # 0
      BY <2>2
    <3>5. QED BY <3>2, <3>3, <3>4
  <2>5. CfgTypeOK /\ section \in Nat
    BY <1>2, StoreIs DEF CfgInv
  <2>6. \A p \in Params : ~Gives(lines, m, p)
    BY <2>2, <2>3 DEF Gives
  <2>7. section' = SectionOf(lines, m) /\ Holds(lines, m, section)'
    BY <1>1, <2>1, <2>4, <2>5, <2>6, HoldsStill
  <2>8. parameter' = Name(lines[m]).word
    BY <1>4, <2>2 DEF Name
  <2> HIDE DEF name
  <2>9. QED BY <1>1, <1>4, <2>1, <2>4, <2>5, <2>7, <2>8, GoesOn
<1>5. QED BY <1>1, <1>3, <1>4

LEMMA ItemReads ==
  ASSUME ParseInv, Item
  PROVE  ReadSoFar' /\ MeansFile'
<1> DEFINE value == ParseWord(Line, "value")
           good == value.ok /\ Accepted(parameter, value.word)
<1>1. /\ pc = "braces" /\ unread # <<>> /\ ~Ends(Line) /\ At(Line) # "}"
      /\ IF good THEN /\ StoreValue(parameter, value.word, section)
                      /\ GoOn("braces") /\ UNCHANGED parameter
                 ELSE UNCHANGED values /\ Fail
      /\ UNCHANGED <<names, section>>
  BY DEF Item, Reading
<1>2. CfgInv /\ ReadSoFar
  BY DEF ParseInv
<1>3. CASE ~good
  BY <1>1, <1>3, FailMeans
<1>4. CASE good
  <2>1. PICK lines \in Seq(Strings), m \in Nat, n \in Nat, b \in Nat :
          Stands(lines, n, m, b)
    BY <1>1, <1>2, Standing
  <2>2. m \in 1..Len(lines) /\ lines[m] = Line /\ b # 0 /\ b = Around(lines)[m]
    BY <1>1, <2>1 DEF Stands
  <2>3. parameter = Name(lines[b]).word
    BY <2>1, <2>2 DEF Stands
  <2>4. m \notin Begins(lines) /\ Around(lines)[m + 1] = b
    <3>1. At(lines[m]) # "}"
      BY <1>1, <2>2, Zenon
    <3>2. Around(lines)[m] # 0
      BY <2>2
    <3> HIDE DEF value
    <3>3. QED BY <2>2, <3>1, <3>2, BetweenBraces
  <2>5. Line \in Strings /\ CfgTypeOK /\ parameter \in Strings /\ section > 0
    <3>1. CfgTypeOK
      BY <1>2 DEF CfgInv
    <3>2. Line \in Strings
      BY <1>1, <3>1, LineType
    <3>3. QED BY <1>1, <1>2, <3>1, <3>2, StoreIs
  <2>6. value.word \in Strings
    <3>1. "value" \in WordTypes /\ value.ok
      BY <1>4 DEF WordTypes
    <3> HIDE DEF value
    <3>2. QED BY <2>5, <3>1, ParseWordType DEF value
  <2>7. Given(lines, m) = value.word
    BY <2>2 DEF Given
  <2>8. \A q \in Params : Gives(lines, m, q) <=> q = Fold(parameter)
    <3> TAKE q \in Params
    <3>1. Fold(q) = q
      BY TypesIs
    <3>2. Gives(lines, m, q) <=> SameName(parameter, q)
      BY <1>1, <2>2, <2>3, <2>4 DEF Gives
    <3>3. QED BY <3>1, <3>2 DEF SameName
  <2>9. /\ Accepted(parameter, value.word)
        /\ StoreValue(parameter, value.word, section) /\ GoOn("braces") /\ UNCHANGED parameter
    BY <1>1, <1>4
  <2> HIDE DEF value
  <2>10. section' = SectionOf(lines, m) /\ Holds(lines, m, section)'
    BY <1>1, <1>2, <2>1, <2>4, <2>5, <2>6, <2>7, <2>8, <2>9, HoldsStored
  <2>11. parameter' = Name(lines[b]).word
    BY <2>2, <2>3, <2>9
  <2>12. QED BY <1>1, <2>1, <2>2, <2>4, <2>5, <2>9, <2>10, <2>11, GoesOn
<1>5. QED BY <1>3, <1>4

LEMMA CloseReads ==
  ASSUME ParseInv, Close
  PROVE  ReadSoFar' /\ MeansFile'
<1>1. /\ pc = "braces" /\ unread # <<>> /\ ~Ends(Line) /\ At(Line) = "}"
      /\ GoOn("lines") \/ Fail
      /\ UNCHANGED <<names, values, section>>
  BY DEF Close, Reading
<1>2. CfgInv /\ ReadSoFar
  BY DEF ParseInv
<1>3. CASE Fail
  BY <1>3, FailMeans
<1>4. CASE GoOn("lines")
  <2>1. PICK lines \in Seq(Strings), m \in Nat, n \in Nat, b \in Nat :
          Stands(lines, n, m, b)
    BY <1>1, <1>2, Standing
  <2>2. m \in 1..Len(lines) /\ lines[m] = Line /\ b # 0 /\ b = Around(lines)[m]
    BY <1>1, <2>1 DEF Stands
  <2>3. m \notin Begins(lines) /\ Around(lines)[m + 1] = 0
    BY <1>1, <2>2, LineMeans
  <2>4. CfgTypeOK /\ section \in Nat
    BY <1>2, StoreIs DEF CfgInv
  <2>5. \A p \in Params : ~Gives(lines, m, p)
    BY <1>1, <2>2 DEF Gives
  <2>6. section' = SectionOf(lines, m) /\ Holds(lines, m, section)'
    BY <1>1, <2>1, <2>3, <2>4, <2>5, HoldsStill
  <2>7. QED BY <1>1, <1>4, <2>1, <2>3, <2>4, <2>6, GoesOn
<1>5. QED BY <1>1, <1>3, <1>4

LEMMA EofReads ==
  ASSUME ParseInv, Eof, UNCHANGED usage
  PROVE  ReadSoFar' /\ MeansFile'
<1>1. CASE Fail
  BY <1>1, FailMeans
<1>2. CASE ~Fail
  <2>1. /\ pc = "lines" /\ (unread # <<>> => "error" \in usage) /\ pc' = "idle"
        /\ maximum' = section /\ result' = section
        /\ UNCHANGED <<file, unread, names, values, usage>>
    BY <1>2 DEF Eof
  <2>2. section = SectionOf(Stripped, LinesRead) /\ Holds(Stripped, LinesRead, section)
    BY <2>1 DEF ParseInv, ReadSoFar
  <2>3. Stripped' = Stripped /\ LinesRead' = LinesRead
    BY <2>1 DEF Stripped, LinesRead
  <2> HIDE DEF Stripped, LinesRead
  <2>4. MeansFile'
    BY <2>1, <2>2, <2>3 DEF MeansFile, Holds
  <2>5. ReadSoFar'
    BY <2>1 DEF ReadSoFar
  <2>6. QED BY <2>4, <2>5
<1>3. QED BY <1>1, <1>2

LEMMA ParseInvInit == LoginInit => ParseInv
<1> SUFFICES ASSUME LoginInit PROVE ParseInv
  OBVIOUS
<1>1. pc = "idle" /\ last = "none"
  BY DEF LoginInit, CfgInit
<1>2. QED BY <1>1, CfgInvInit DEF ParseInv, ReadSoFar, MeansFile, Parsed

LEMMA ParseInvNext == ParseInv /\ [LoginNext]_allvars => ParseInv'
<1> SUFFICES ASSUME ParseInv, [LoginNext]_allvars PROVE ParseInv'
  OBVIOUS
<1>1. CfgInv'
  BY CfgInvNext DEF ParseInv
<1>2. CASE CfgParse
  <2>1. ReadSoFar' /\ MeansFile'
    BY <1>2, ParseReads, SkipReads, HeaderReads, AssignReads, OpenReads, ItemReads, CloseReads,
       EofReads DEF CfgParse
  <2>2. QED BY <1>1, <2>1 DEF ParseInv
<1>3. ASSUME pc' = "idle", last' # "parse" PROVE ParseInv'
  BY <1>1, <1>3 DEF ParseInv, ReadSoFar, MeansFile, Parsed
<1>4. CASE Calls
  <2>1. pc' = "idle" /\ last' # "parse"
    BY <1>4 DEF Calls, CfgAllocForNewSection, CfgStoreValue, CfgDump, CfgFree, WriteFile, Call,
                parser
  <2>2. QED BY <1>3, <2>1
<1>5. CASE \E password \in Passwords, magic \in Magics : WritePassword(password, magic)
  <2>1. pc' = "idle" /\ last' # "parse"
    BY <1>5 DEF WritePassword, Call, parser
  <2>2. QED BY <1>3, <2>1
<1>6. CASE ReadCfg
  <2>1. pc' = "idle" /\ last' # "parse"
    BY <1>6 DEF ReadCfg, parser
  <2>2. QED BY <1>3, <2>1
<1>7. ASSUME UNCHANGED cfgvars PROVE ParseInv'
  <2>1. UNCHANGED <<file, names, values, maximum, unread, section, parameter, pc, last, result,
                    usage>>
    BY <1>7 DEF cfgvars, store, parser, history
  <2>2. Stripped' = Stripped
    BY <2>1 DEF Stripped
  <2>3. LinesRead' = LinesRead
    BY <2>1 DEF LinesRead
  <2>4. \A lines, n, s : Holds(lines, n, s)' = Holds(lines, n, s)
    BY <2>1 DEF Holds
  <2>5. Parsed' = Parsed
    BY <2>1 DEF Parsed
  <2> HIDE DEF Stripped, LinesRead, Holds, Parsed
  <2>6. ReadSoFar'
    BY <2>1, <2>2, <2>3 DEF ParseInv, ReadSoFar, Holds
  <2>7. MeansFile'
    BY <2>1, <2>2, <2>3, <2>5 DEF ParseInv, MeansFile, Holds
  <2>8. QED BY <1>1, <2>6, <2>7 DEF ParseInv
<1>8. CASE \E s \in DOMAIN cfg : SetupFtpEnv(s)
  BY <1>7, <1>8 DEF SetupFtpEnv
<1>9. CASE UNCHANGED allvars
  BY <1>7, <1>9 DEF allvars
<1>10. QED BY <1>2, <1>4, <1>5, <1>6, <1>8, <1>9 DEF LoginNext, CfgNext

(* After a cfgParse that returns a number of sections the arrays hold what  *)
(* the lines it has read say, which are all lines of the file unless       *)
(* reading failed (parsecfg.c 1092-1096); for every file, every table of   *)
(* parameters and everything that the program did with the store before.   *)
THEOREM FileMeant == LoginSpec => []MeansFile
<1>1. ParseInv => MeansFile
  BY DEF ParseInv
<1>2. QED BY <1>1, ParseInvInit, ParseInvNext, PTL DEF LoginSpec

(* The process exists. *)
Lives(p) == gui[p] \notin {"none", "gone"}

(* A window process that lives is the one main knows; while the report of  *)
(* one is pending, main has not forgotten it and no other was made, so     *)
(* that reports which merge are reports of the same process.               *)
IInv ==
  /\ TypeOK
  /\ \A p \in Pids : Lives(p) => guiPid = p
  /\ "USR2" \in pending => guiPid # 0 /\ \A p \in Pids : ~Lives(p)
  /\ main = "start" => guiPid = 0
  /\ main = "exit" => \A p \in Pids : ~Lives(p)

USE MaxPidsAssumption

LEMMA ZeroIsNoPid == 0 \notin Pids /\ -1 \notin Pids /\ Pids \subseteq Nat
  BY DEF Pids

LEMMA InitHolds == Init => IInv
  BY ZeroIsNoPid
  DEF Init, IInv, TypeOK, Lives, Shown, Ended, Signals

(* CheckDisplay and process_gui, called when main has no window. *)
LEMMA TryGuiStep ==
  ASSUME IInv, TryGui, guiPid = 0, main # "exit",
         pending' \subseteq pending, main' # "start", main' # "exit"
  PROVE  /\ guiPid' \in Pids \cup {0, -1}
         /\ gui' \in [Pids -> {"none", "gone", "yes", "backend", "failed"} \cup Shown]
         /\ stale' \in BOOLEAN
         /\ guiPid' \in Pids => gui'[guiPid'] # "none"
         /\ \A p \in Pids : Lives(p)' => guiPid' = p
         /\ "USR2" \notin pending'
<1>1. "USR2" \notin pending' /\ \A p \in Pids : ~Lives(p)
  BY ZeroIsNoPid DEF IInv
<1>2. stale' \in BOOLEAN
  BY DEF TryGui, IInv, TypeOK
<1>3. CASE UNCHANGED <<guiPid, gui>>
  BY <1>1, <1>2, <1>3 DEF IInv, TypeOK, Lives
<1>4. CASE Fork
  <2>1. CASE \E p \in Pids : /\ gui[p] = "none"
                             /\ gui' = [gui EXCEPT ![p] = "init"]
                             /\ guiPid' = p
    BY <2>1, <1>1, <1>2 DEF IInv, TypeOK, Lives, Shown
  <2>2. CASE guiPid' = -1 /\ UNCHANGED gui
    BY <2>2, <1>1, <1>2, ZeroIsNoPid DEF IInv, TypeOK, Lives
  <2>3. QED BY <1>4, <2>1, <2>2 DEF Fork
<1>5. QED BY <1>3, <1>4 DEF TryGui

LEMMA StartStep == ASSUME IInv, Start PROVE IInv'
<1>1. guiPid = 0 /\ TryGui /\ main' = "forked" /\ pending' = pending
  BY DEF IInv, Start
<1>2. QED BY <1>1, TryGuiStep DEF Start, IInv, TypeOK, Ended

LEMMA SigSetStep == ASSUME IInv, SigSet PROVE IInv'
  BY DEF IInv, TypeOK, SigSet, Lives, Ended

(* A signal that main finds when it waits. *)
LEMMA SigCatcherStep ==
  ASSUME IInv, NEW sig \in Signals, SigCatcher(sig) PROVE IInv'
<1>1. /\ main = "wait" /\ sig \in pending /\ pending' = pending \ {sig}
      /\ UNCHANGED displayFile
  BY DEF SigCatcher
<1>2. CASE sig = "USR1"
  <2>1. main' = "wait" /\ Reopen
    BY <1>1, <1>2 DEF SigCatcher
  <2>2. CASE guiPid = 0
    BY <2>1, <2>2, <1>1, TryGuiStep DEF Reopen, IInv, TypeOK
  <2>3. CASE guiPid # 0
    BY <2>1, <2>3, <1>1 DEF Reopen, IInv, TypeOK, Lives
  <2>4. QED BY <2>2, <2>3
<1>3. CASE sig = "USR2"
  <2>1. main' = "wait" /\ guiPid' = 0 /\ UNCHANGED <<gui, stale>>
    BY <1>1, <1>3 DEF SigCatcher, Forget
  <2>2. \A p \in Pids : ~Lives(p)
    BY <1>1, <1>3 DEF IInv
  <2>3. QED BY <2>1, <2>2, <1>1, <1>3, ZeroIsNoPid DEF IInv, TypeOK, Lives
<1>4. CASE sig = "TERM"
  <2>1. main' = "exit" /\ KillGui
    BY <1>1, <1>4 DEF SigCatcher
  <2>2. \A p \in Pids : ~Lives(p)'
    BY <2>1 DEF KillGui, IInv, TypeOK, Lives
  <2>3. TypeOK'
    BY <2>1, <1>1 DEF KillGui, IInv, TypeOK, Ended
  <2>4. guiPid' = guiPid
    BY <2>1 DEF KillGui
  <2>5. QED BY <2>1, <2>2, <2>3, <2>4, <1>1 DEF IInv
<1>5. QED BY <1>2, <1>3, <1>4 DEF Signals

(* The steps of a window process before it reports, and its death. *)
LEMMA WindowStep ==
  ASSUME IInv, NEW p \in Pids, StartGui(p) \/ Click(p) \/ GuiDies(p) PROVE IInv'
<1>1. Lives(p) /\ UNCHANGED <<main, guiPid, pending, displayFile, stale>>
  BY DEF StartGui, Click, GuiDies, Lives
<1>2. PICK s \in {"open", "failed", "yes", "backend", "gone"} :
         gui' = [gui EXCEPT ![p] = s]
  BY DEF StartGui, Click, GuiDies
<1>3. "USR2" \notin pending /\ main # "exit"
  BY <1>1 DEF IInv
<1>4. QED BY <1>1, <1>2, <1>3 DEF IInv, TypeOK, Lives, Shown

LEMMA GuiExitStep == ASSUME IInv, NEW p \in Pids, GuiExit(p) PROVE IInv'
<1>1. /\ Lives(p) /\ guiPid = p
      /\ gui' = [gui EXCEPT ![p] = "gone"]
      /\ UNCHANGED <<guiPid, displayFile, stale>>
  BY DEF GuiExit, Lives, IInv
<1>2. \A q \in Pids : ~Lives(q)'
  BY <1>1 DEF IInv, TypeOK, Lives
<1>3. /\ main' \in {main, "killed"}
      /\ pending' \in SUBSET Signals
  BY DEF GuiExit, Report, Kill, IInv, TypeOK, Signals
<1>4. TypeOK' /\ guiPid' # 0 /\ (main' = "start" => main = "start")
  BY <1>1, <1>3, ZeroIsNoPid DEF IInv, TypeOK, Ended
<1>5. main # "start"
  BY <1>1, ZeroIsNoPid DEF IInv
<1>6. QED BY <1>2, <1>4, <1>5 DEF IInv

LEMMA UserStep ==
  ASSUME IInv, NEW sig \in {"TERM", "USR1"}, User(sig) PROVE IInv'
  BY DEF IInv, TypeOK, User, Kill, Lives, Signals, Ended

LEMMA InvNext == IInv /\ [Next]_vars => IInv'
<1> SUFFICES ASSUME IInv, [Next]_vars PROVE IInv'
  OBVIOUS
<1>1. CASE Main
  BY <1>1, StartStep, SigSetStep, SigCatcherStep DEF Main
<1>2. CASE \E p \in Pids : Gui(p)
  BY <1>2, WindowStep, GuiExitStep DEF Gui
<1>3. CASE \E sig \in {"TERM", "USR1"} : User(sig)
  BY <1>3, UserStep
<1>4. CASE DisplayFile
  BY <1>4 DEF DisplayFile, IInv, TypeOK, Lives
<1>5. CASE UNCHANGED vars
  BY <1>5 DEF vars, IInv, TypeOK, Lives
<1>6. QED BY <1>1, <1>2, <1>3, <1>4, <1>5 DEF Next

-----------------------------------------------------------------------------
(* The invariant behind the two theorems holds in every state. *)
THEOREM Inductive == Spec => []IInv
  BY InitHolds, InvNext, PTL DEF Spec

(* main's guiPid and the window processes are what their types say. *)
THEOREM TypeCorrect == Spec => []TypeOK
<1>1. IInv => TypeOK
  BY DEF IInv
<1>2. QED BY Inductive, <1>1, PTL

(* A window that is shown, or about to be, is the one main keeps the number *)
(* of, in whatever order requests and reports arrive (fexp.c 127-143).     *)
THEOREM OneWindow == Spec => []Known
<1>1. IInv => Known
  BY DEF IInv, Known, Lives, Shown
<1>2. QED BY Inductive, <1>1, PTL

(* When main leaves its loop no window stays behind (fexp.c 144-147). *)
THEOREM NoneLeft == Spec => []NoOrphan
<1>1. IInv => NoOrphan
  BY DEF IInv, NoOrphan, Lives, Shown
<1>2. QED BY Inductive, <1>1, PTL
=============================================================================
