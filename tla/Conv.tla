-------------------------------- MODULE Conv --------------------------------
(***************************************************************************)
(* The number conversions of libc/conv.c, on words of 32 bits.  A          *)
(* character is its code; a string is the sequence of its characters       *)
(* without the terminating zero.                                           *)
(***************************************************************************)
EXTENDS Integers, Sequences, SequencesExt

CONSTANT Half      \* 2^31: an int is at least -Half and less than Half

ASSUME HalfAssumption == Half \in Nat \ {0}

Word   == 0 .. (2 * Half - 1)
INTMIN == -Half

(* A word taken for an int, and what an int becomes when it does not fit.  *)
Signed(w) == IF w >= Half THEN w - 2 * Half ELSE w
Fit(n)    == Signed(n % (2 * Half))

(* C's division truncates, and the remainder has the dividend's sign.      *)
Quot(n, d) == IF n < 0 THEN -((-n) \div d) ELSE n \div d
Rem(n, d)  == n - d * Quot(n, d)

(* The value of a place.                                                   *)
Power(b, k) ==
  LET f[j \in Nat] == IF j = 0 THEN 1 ELSE b * f[j - 1]
  IN  f[k]

ZERO  == 48
MINUS == 45
PLUS  == 43
HEXA  == 65

strrev(s) == Reverse(s)

(* A bug for the properties: while(n) for do ... while(n/=10).             *)
DigitsWhile(n) ==
  LET f[k \in Int] ==
        IF k = 0 THEN <<>> ELSE <<Rem(k, 10) + ZERO>> \o f[Quot(k, 10)]
  IN  f[n]

(* The loop of itoa() and utoa(): the digits, last one first.              *)
Digits(n) ==
  LET f[k \in Int] ==
        <<Rem(k, 10) + ZERO>> \o (IF Quot(k, 10) = 0 THEN <<>> ELSE f[Quot(k, 10)])
  IN  f[n]

(* n=-n leaves the smallest int as it is.                                  *)
itoa(n) ==
  IF n < 0 THEN strrev(Digits(Fit(-n)) \o <<MINUS>>) ELSE strrev(Digits(n))

utoa(n) == strrev(Digits(n))

num_hex_digits(n) ==
  LET f[k \in Nat] == IF k = 0 THEN 0 ELSE 1 + f[k \div 16]
  IN  IF n = 0 THEN 1 ELSE f[n]

hex_lookup(d) == IF d < 10 THEN ZERO + d ELSE HEXA + d - 10

(* A zero in front makes the number of digits even.                        *)
itoh(n) ==
  LET len == num_hex_digits(n)
  IN  (IF len % 2 = 1 THEN <<ZERO>> ELSE <<>>)
      \o [j \in 1 .. len |-> hex_lookup((n \div Power(16, len - j)) % 16)]

(* atoi() of a string of digits and perhaps a sign.                        *)
atoi(s) ==
  LET first == IF s = <<>> THEN 0 ELSE s[1]
      sign  == IF first = MINUS THEN -1 ELSE 1
      x     == IF first \in {MINUS, PLUS} THEN Tail(s) ELSE s
      f[k \in 0 .. Len(x)] == IF k = 0 THEN 0 ELSE Fit(f[k - 1] * 10 + x[k] - ZERO)
  IN  Fit(sign * f[Len(x)])

(* What a numeral should be: as many digits as it takes, by their places.  *)
Numeral(n, b) ==
  LET k == CHOOSE k \in 1 .. (n + 1) : n < Power(b, k) /\ (k = 1 \/ Power(b, k - 1) <= n)
  IN  [j \in 1 .. k |-> hex_lookup((n \div Power(b, k - j)) % b)]

=============================================================================
