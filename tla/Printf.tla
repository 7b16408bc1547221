------------------------------- MODULE Printf -------------------------------
(***************************************************************************)
(* Number conversion in the guest's C library: %d and %x of vsprintf       *)
(* (abstract-machine/klib/src/stdio.c) and atoi (stdlib.c), for words of   *)
(* 2 * Half values.  A character is its distance from '0', and a           *)
(* hexadecimal digit its value.                                            *)
(***************************************************************************)
EXTENDS Integers, Sequences

CONSTANTS
  Half,               \* 2^31 for an int and for a long: they are the same on RV32
  MaxWidth            \* bound on the field width

ASSUME HalfAssumption == Half \in Nat \ {0} /\ MaxWidth \in Nat

Modulus == 2 * Half
MIN     == -Half
Ints    == MIN..(-MIN - 1)

VARIABLES
  fmt,                \* conversion, pad character and width
  value,              \* the argument
  out                 \* what vsprintf has written

printfVars == <<fmt, value, out>>

Minus == -3
Space == -16

\* A number of that many bits, as a signed one.
Wrap(n) == ((n - MIN) % Modulus) + MIN

\* C division truncates towards zero.
Quotient(a, b)  == IF a >= 0 THEN a \div b ELSE -((-a) \div b)
Remainder(a, b) == a - b * Quotient(a, b)

\* The do loop, its buffer read backwards: one digit at least, and more as long
\* as the quotient is positive.
Digits(v, base) ==
  LET rest[n \in 0..v] == IF n = 0 THEN << >> ELSE Append(rest[n \div base], n % base)
  IN  IF v > 0 THEN rest[v] ELSE <<Remainder(v, base)>>

\* while (len < width) { *out++ = pad; width--; }
Padding(len, width, pad) ==
  [i \in 1..(IF len < width THEN width - len ELSE 0) |-> pad]

\* Mutation of Magnitude: the value keeps its sign.
Magnitude_same(v) == v

\* value = -value, which leaves MIN as it is
Magnitude(v) == IF v < 0 THEN Wrap(-v) ELSE v

\* case 'd': the sign goes before the padding.
Decimal(v, pad, width) ==
  LET digits == Digits(Magnitude(v), 10)
  IN  (IF v < 0 THEN <<Minus>> ELSE << >>) \o Padding(Len(digits), width, pad) \o digits

\* Mutation of Unsigned: an arithmetic shift.
Unsigned_signed(v) == IF v < 0 THEN -(v + 1) ELSE v

\* The argument of %x.
Unsigned(v) == v % Modulus

\* case 'x': the same loop, nibble by nibble
Nibbles(v) == Digits(Unsigned(v), 16)

Hex(v, pad, width) == Padding(Len(Nibbles(v)), width, pad) \o Nibbles(v)

vsprintf ==
  /\ out = << >>
  /\ out' = IF fmt.conv = "d" THEN Decimal(value, fmt.pad, fmt.width)
            ELSE Hex(value, fmt.pad, fmt.width)
  /\ UNCHANGED <<fmt, value>>

PrintfInit ==
  /\ fmt \in [conv : {"d", "x"}, pad : {Space, 0}, width : 0..MaxWidth]
  /\ value \in Ints
  /\ out = << >>

PrintfSpec == PrintfInit /\ [][vsprintf]_printfVars

----------------------------------------------------------------------------
(* Reading back *)

\* The number a sequence of digits stands for.
Number(s, base) ==
  LET upto[i \in 0..Len(s)] == IF i = 0 THEN 0 ELSE upto[i - 1] * base + s[i]
  IN  upto[Len(s)]

\* The first place of s past the characters of S.
Past(s, S) ==
  CHOOSE k \in 1..(Len(s) + 1) :
    (k = Len(s) + 1 \/ s[k] \notin S) /\ \A j \in 1..(k - 1) : s[j] \in S

\* while (*nptr == ' ') nptr++
Skipped(s) == SubSeq(s, Past(s, {Space}), Len(s))

\* atoi: spaces, then digits up to the first other character.
atoi(s) ==
  LET t == Skipped(s)
  IN  Number(SubSeq(t, 1, Past(t, 0..9) - 1), 10)

\* A number in a field of w characters, or in a longer one if it has no room.
FillsField(t, w) == Len(t) = w \/ (Len(t) > w /\ (Len(t) = 1 \/ t[1] # 0))

(* atoi gives back what sprintf("%d") wrote of a number that is not        *)
(* negative, whatever the padding, and the field is as wide as asked for.  *)
RoundTrip ==
  out # << >> /\ fmt.conv = "d" /\ value >= 0 => atoi(out) = value /\ FillsField(out, fmt.width)

(* A negative number is its sign, and the digits of its magnitude in a     *)
(* field of the width asked for: the sign goes before the padding and is   *)
(* not counted (stdio.c:63, 74), so that the whole is one character wider. *)
(* The least number has no magnitude, and its text reads as 0.             *)
SignAndMagnitude ==
  out # << >> /\ fmt.conv = "d" /\ value < 0 =>
    /\ out[1] = Minus
    /\ atoi(Tail(out)) = IF value = MIN THEN 0 ELSE -value
    /\ FillsField(Tail(out), fmt.width)

(* %x writes the word as an unsigned number, without leading zeros but     *)
(* those of the padding.                                                   *)
HexIsUnsigned ==
  LET digits == Skipped(out)
  IN  out # << >> /\ fmt.conv = "x" =>
        /\ \A i \in DOMAIN digits : digits[i] \in 0..15
        /\ Number(digits, 16) = value % Modulus
        /\ FillsField(out, fmt.width)

(* What vsprintf writes reads back as the number it was given, for every   *)
(* conversion, width and padding, the least number excepted, in a field    *)
(* that is as wide as asked for but for a sign.                            *)
PrintsNumber == RoundTrip /\ SignAndMagnitude /\ HexIsUnsigned
=============================================================================
