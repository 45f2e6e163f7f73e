------------------------------- MODULE Types -------------------------------
(***************************************************************************)
(* The scalar types of type.c, and integers of their widths.  A byte has   *)
(* ByteBits bits, so that a register of 8 bytes holds few values.          *)
(***************************************************************************)
EXTENDS Integers

CONSTANT ByteBits

ASSUME TypesAssumption == ByteBits \in Nat /\ ByteBits > 1

size ==
  [bool |-> 1, char |-> 1, uchar |-> 1, short |-> 2, ushort |-> 2, int |-> 4, uint |-> 4,
   long |-> 8, ulong |-> 8, double |-> 8, ptr |-> 8]

is_unsigned(ty) == ty \in {"uchar", "ushort", "uint", "ulong"}
IsFlo(ty) == ty = "double"
is_integer(ty) ==
  ty \in {"bool", "char", "uchar", "short", "ushort", "int", "uint", "long", "ulong"}
-----------------------------------------------------------------------------
(* What n bytes hold of an integer, read without and with a sign.          *)

Low(v, n) == v % 2 ^ (n * ByteBits)
SignExtended(v, n) ==
  LET half == 2 ^ (n * ByteBits - 1) IN ((v + half) % (2 * half)) - half
Extended(v, n, uns) == IF uns THEN Low(v, n) ELSE SignExtended(v, n)

\* A register, as a signed number.
Reg(v) == SignExtended(v, 8)
Truth(b) == IF b THEN 1 ELSE 0
\* Division rounds to zero.
Quotient(a, b) ==
  LET abs(x) == IF x < 0 THEN -x ELSE x
      q == abs(a) \div abs(b)
  IN  IF (a < 0) # (b < 0) THEN -q ELSE q
Remainder(a, b) == a - b * Quotient(a, b)
-----------------------------------------------------------------------------
(* A double is a number of halves; what is finer is lost.                  *)

ToDouble(v) == 2 * v
ToInteger(d) == Quotient(d, 2)
TimesDouble(a, b) == Quotient(a * b, 2)
OverDouble(a, b) == IF b = 0 THEN 0 ELSE Quotient(2 * a, b)
=============================================================================
