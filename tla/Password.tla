------------------------------ MODULE Password -------------------------------
(***************************************************************************)
(* fexp.c 901-1001: fexp -password prints a password as the code that the  *)
(* user writes into the configuration file (PassCode), and the login turns *)
(* it back (PassDecode).  A password is a sequence of signed characters    *)
(* other than 0, a code one of digits.  MagicNum is any number of four     *)
(* digits.                                                                 *)
(***************************************************************************)
EXTENDS Integers, Sequences

CONSTANT BufSize              \* sizeof(buf), 64 in the code

ASSUME BufSizeAssumption == BufSize \in 0..64

Char == (-128..127) \ {0}
HexDigits == <<"0", "1", "2", "3", "4", "5", "6", "7", "8", "9",
               "a", "b", "c", "d", "e", "f">>
Hex(n) == HexDigits[(n % 16) + 1]
FromHex(c) == (CHOOSE i \in DOMAIN HexDigits : HexDigits[i] = c) - 1

(* sprintf(buf, "%04u", magic) *)
Prefix(magic) == [k \in 1..4 |-> Hex((magic \div <<1000, 100, 10, 1>>[k]) % 10)]

(* sprintf(ptr, "%02x", x): eight digits of a number below 0. *)
Digits2(x) == (IF x < 0 THEN [k \in 1..6 |-> "f"] ELSE <<>>)
              \o <<Hex((x % 256) \div 16), Hex(x % 16)>>

(* Both loops run over half of the digits of a password without negative   *)
(* numbers: n digits are reversed, and the halves change places.           *)
Reverse2(ds, len) ==
  [k \in DOMAIN ds |-> IF k <= len \/ k > Len(ds) - len
                         THEN ds[Len(ds) + 1 - k] ELSE ds[k]]
SwapHalves(ds, len) ==
  [k \in DOMAIN ds |-> IF k <= len THEN ds[len + k]
                       ELSE IF k <= 2 * len THEN ds[k - len] ELSE ds[k]]

Shift(magic, i) == (magic % 49) + i - 1

(* The digits of src[0..len-1]. *)
Encoded(src, magic) ==
  LET digits[i \in 0..Len(src)] ==
        IF i = 0 THEN <<>>
        ELSE digits[i - 1] \o Digits2(src[i] + Shift(magic, i))
  IN  digits[Len(src)]

TooLong(src) == 2 * Len(src) > BufSize        \* PassCode returns

(* It has no more than BufSize bytes for the prefix, the digits and a 0:   *)
(* beyond them it writes over what lies behind.                            *)
Fits(src, magic) == 4 + Len(Encoded(src, magic)) + 1 <= BufSize

PassCode(src, magic) ==
  Prefix(magic)
    \o SwapHalves(Reverse2(Encoded(src, magic), Len(src)), Len(src))

Signed(x) == ((x + 128) % 256) - 128

(* Of a code with four digits of prefix: strcpy(buf, src + 4), both loops   *)
(* backwards, and a character from every two digits, up to the first 0.    *)
PassDecode(src) ==
  LET magic == 1000 * FromHex(src[1]) + 100 * FromHex(src[2])
                 + 10 * FromHex(src[3]) + FromHex(src[4])
      code == SubSeq(src, 5, Len(src))
      len == Len(code) \div 2
      ds == Reverse2(SwapHalves(code, len), len)
      dest == [i \in 1..len |->
                 Signed(16 * FromHex(ds[2 * i - 1]) + FromHex(ds[2 * i])
                          - Shift(magic, i))]
      zeros == {i \in 1..len : dest[i] = 0}
  IN  IF zeros = {} THEN dest
      ELSE SubSeq(dest, 1, (CHOOSE i \in zeros : \A j \in zeros : i <= j) - 1)
=============================================================================
