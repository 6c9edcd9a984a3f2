------------------------------ MODULE Convert ------------------------------
(***************************************************************************)
(* convert::to, to_bool, to_oct and to_hex (convert.hpp), app::trim        *)
(* (string.hpp) and net::address (net/address.cpp).  A text is a sequence  *)
(* of characters; the streams of the standard library are external.        *)
(***************************************************************************)
EXTENDS Integers, Sequences, SequencesExt

DigitChars == <<"0", "1", "2", "3", "4", "5", "6", "7", "8", "9", "a", "b", "c", "d", "e", "f">>
Chars == {"0", "1", "9", "f", "x", "-", " "}
Truths == { <<"true">>, <<" ", "false">>, <<"true", " ", "1">>, <<"false", " ">> }
Digit(c) == SelectInSeq(DigitChars, LAMBDA d : d = c) - 1   \* -1: not a digit

Failed == [is |-> "throws", n |-> 0]
Number(n) == [is |-> "number", n |-> n]

(* trim: whence says at which ends. *)
trim(source, whence) ==
  LET first == SelectInSeq(source, LAMBDA c : c # " ")
      last == SelectLastInSeq(source, LAMBDA c : c # " ")
  IN  IF first = 0 THEN IF whence.head \/ whence.tail THEN <<>> ELSE source
      ELSE SubSeq(source, IF whence.head THEN first ELSE 1,
                          IF whence.tail THEN last ELSE Len(source))

Both == [head |-> TRUE, tail |-> TRUE]

(* stream >> value, for an int up to max or an unsigned of its width: an   *)
(* optional sign, the prefix of a base that has one (base 0 goes by the    *)
(* prefix), digits to the end.  An unsigned number with a minus sign is    *)
(* taken modulo the number of unsigned values.                             *)
Values(max) == 2 * (max + 1)
Extracted(s, base, signed, max) ==
  LET minus == s # <<>> /\ s[1] = "-"
      t == IF minus THEN Tail(s) ELSE s
      hex == Len(t) > 1 /\ t[1] = "0" /\ t[2] = "x" /\ base \in {0, 16}
      radix == CASE hex -> 16
                 [] ~hex /\ base = 0 -> IF t # <<>> /\ t[1] = "0" THEN 8 ELSE 10
                 [] OTHER -> base
      digits == IF hex THEN SubSeq(t, 3, Len(t)) ELSE t
      size == FoldLeft(LAMBDA n, c : n * radix + Digit(c), 0, digits)
      most == CASE signed /\ minus -> max + 1 [] signed /\ ~minus -> max
                [] ~signed -> Values(max) - 1
  IN  IF digits = <<>> \/ size > most
         \/ \E i \in DOMAIN digits : Digit(digits[i]) \notin 0 .. radix - 1
      THEN Failed
      ELSE Number(IF ~minus THEN size ELSE IF signed THEN -size ELSE (Values(max) - size) % Values(max))

(* _M_convert of an integer: spaces around it, and nothing else.           *)
to_int(source, base, signed, max) == Extracted(trim(source, Both), base, signed, max)

(* to_bool: text is true or false, a number is 0 or 1. *)
to_bool(source, text, max) ==
  LET s == trim(source, Both)
      n == Extracted(s, 10, TRUE, max)
  IN  IF text THEN CASE s = <<"true">> -> Number(1) [] s = <<"false">> -> Number(0)
                     [] OTHER -> Failed
      ELSE IF n.n \in {0, 1} THEN n ELSE Failed

(* stream << std::hex or std::oct << n: a negative number modulo Values.   *)
Written(n, base) ==
  LET digits[k \in Nat] ==
        IF k < base THEN <<DigitChars[k + 1]>>
        ELSE Append(digits[k \div base], DigitChars[(k % base) + 1])
  IN  digits[n]

(* to_oct and to_hex, base 8 and 16. *)
to_base(source, base, max) ==
  LET n == to_int(source, 0, TRUE, max)
  IN  IF n = Failed THEN <<>> ELSE Written(n.n % Values(max), base)

----------------------------------------------------------------------------
(* net::address keeps four bytes, the most significant one first, which is *)
(* how inet_ntoa writes them; an integer is in the order of the host.      *)
address(x) ==
  LET y == x \div 256  z == y \div 256 IN << z \div 256, z % 256, y % 256, x % 256 >>
address_value(a) == ((a[1] * 256 + a[2]) * 256 + a[3]) * 256 + a[4]
loopback == 127 * (256 * 256 * 256) + 1

----------------------------------------------------------------------------
(* Reference: what a sequence of digits with an optional minus denotes.    *)
Denotes(s, base) ==
  LET minus == s[1] = "-"
      digits == IF minus THEN Tail(s) ELSE s
      size == FoldLeft(LAMBDA z, c : [sum |-> z.sum + Digit(c) * z.weight, weight |-> z.weight * base],
                       [sum |-> 0, weight |-> 1], Reverse(digits)).sum
  IN  IF minus THEN -size ELSE size
=============================================================================
