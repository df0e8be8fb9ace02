--------------------------------- MODULE Printf ---------------------------------
(***************************************************************************)
(* printf of c/common.c, with ints of Bits bits: the loop over the format, *)
(* the conversions %s, %x and %%, and the two loops of %d step by step.    *)
(*                                                                         *)
(* A format is a sequence of characters.  An argument has the value that   *)
(* va_arg would read as an int and the one it would read as a string; no   *)
(* format has more conversions than arguments.                             *)
(***************************************************************************)
EXTENDS Integers, Sequences

CONSTANTS
  Bits,     \* the width of int, a multiple of 4; 32 in the kernel
  MaxLen,   \* bound: the length of a format
  Values    \* the ints among the arguments

MinInt == -(2^(Bits - 1))

MaxInt == 2^(Bits - 1) - 1

ASSUME PrintfAssumption ==
  /\ Bits \in Nat \ {0} /\ Bits % 4 = 0
  /\ MaxLen \in Nat
  /\ Values \subseteq MinInt..MaxInt

FormatChar == {"a", "%", "d", "x", "s"}

Text == <<"p", "q">>   \* the string among the arguments

Digits == <<"0", "1", "2", "3", "4", "5", "6", "7", "8", "9",
            "a", "b", "c", "d", "e", "f">>

VARIABLES
  fmt, args,       \* what is left of the format and of the arguments
  out,             \* what putchar has written
  val, divisor,    \* the locals value and divisor of %d
  phase,           \* "format", "grow" or "digits" (the loops of %d), "end"
  call             \* the arguments of the call, kept to state the properties

printf_vars == <<fmt, args, out, val, divisor, phase, call>>

PrintfInit ==
  /\ fmt \in UNION {[1..n -> FormatChar] : n \in 0..MaxLen}
  /\ args \in [1..(MaxLen \div 2) -> Values]
  /\ out = <<>> /\ val = 0 /\ divisor = 0
  /\ phase = "format"
  /\ call = [fmt |-> fmt, args |-> args]

-----------------------------------------------------------------------------

End ==
  /\ phase = "format" /\ fmt = <<>>
  /\ phase' = "end"
  /\ UNCHANGED <<fmt, args, out, val, divisor, call>>

Plain ==
  /\ phase = "format" /\ fmt # <<>> /\ Head(fmt) # "%"
  /\ out' = Append(out, Head(fmt))
  /\ fmt' = Tail(fmt)
  /\ UNCHANGED <<args, val, divisor, phase, call>>

(* A '%' at the end of the format. *)
LastPercent ==
  /\ phase = "format" /\ fmt = <<"%">>
  /\ out' = Append(out, "%")
  /\ phase' = "end"
  /\ UNCHANGED <<fmt, args, val, divisor, call>>

Conversion(c) == phase = "format" /\ Len(fmt) > 1 /\ Head(fmt) = "%" /\ fmt[2] = c

Skip2 == SubSeq(fmt, 3, Len(fmt))

Percent ==
  /\ Conversion("%")
  /\ out' = Append(out, "%")
  /\ fmt' = Skip2
  /\ UNCHANGED <<args, val, divisor, phase, call>>

String ==
  /\ Conversion("s")
  /\ out' = out \o Text
  /\ fmt' = Skip2 /\ args' = Tail(args)
  /\ UNCHANGED <<val, divisor, phase, call>>

(* (value >> (i * 4)) & 0xf for i from the highest nibble down. *)
Nibbles(v) == [i \in 1..(Bits \div 4) |-> Digits[((v \div 2^(Bits - 4 * i)) % 16) + 1]]

Hex ==
  /\ Conversion("x")
  /\ out' = out \o Nibbles(Head(args))
  /\ fmt' = Skip2 /\ args' = Tail(args)
  /\ UNCHANGED <<val, divisor, phase, call>>

(* A '%' before any other character prints nothing. *)
Unknown ==
  /\ Conversion("a")
  /\ fmt' = Skip2
  /\ UNCHANGED <<args, out, val, divisor, phase, call>>

(* The negation of the least int overflows: clang -O2 may take the result
   for any int. *)
Negated(v) == IF v = MinInt THEN MinInt..MaxInt ELSE {-v}

Decimal ==
  /\ Conversion("d")
  /\ IF Head(args) < 0
       THEN out' = Append(out, "-") /\ val' \in Negated(Head(args))
       ELSE out' = out /\ val' = Head(args)
  /\ divisor' = 1
  /\ phase' = "grow"
  /\ UNCHANGED <<fmt, args, call>>

(* C's division truncates towards 0. *)
Quotient(a, b) == IF a < 0 THEN -((-a) \div b) ELSE a \div b

Larger_Off == Quotient(val, divisor) > 10

(* value / divisor > 9 *)
Larger == Quotient(val, divisor) > 9

Grow ==
  /\ phase = "grow"
  /\ IF Larger
       THEN divisor' = divisor * 10 /\ UNCHANGED phase
       ELSE phase' = "digits" /\ UNCHANGED divisor
  /\ UNCHANGED <<fmt, args, out, val, call>>

(* '0' + q; other than for a digit it is some other character. *)
DigitOf(q) == IF q \in 0..9 THEN Digits[q + 1] ELSE "?"

EmitDigit ==
  /\ phase = "digits"
  /\ IF divisor > 0
       THEN /\ out' = Append(out, DigitOf(Quotient(val, divisor)))
            /\ val' = val - divisor * Quotient(val, divisor)
            /\ divisor' = Quotient(divisor, 10)
            /\ UNCHANGED <<fmt, args, phase>>
       ELSE /\ phase' = "format"
            /\ fmt' = Skip2 /\ args' = Tail(args)
            /\ UNCHANGED <<out, val, divisor>>
  /\ UNCHANGED call

Done == phase = "end" /\ UNCHANGED printf_vars

PrintfNext ==
  \/ End \/ Plain \/ LastPercent \/ Percent \/ String \/ Hex \/ Unknown
  \/ Decimal \/ Grow \/ EmitDigit \/ Done

PrintfSpec == PrintfInit /\ [][PrintfNext]_printf_vars

-----------------------------------------------------------------------------
(* Properties *)

(* The shortest numeral of a number of Bits bits. *)
Numeral(v, base) ==
  LET numeral[n \in 0..(2^Bits - 1)] ==
        IF n < base THEN <<Digits[n + 1]>>
        ELSE Append(numeral[n \div base], Digits[(n % base) + 1])
  IN  numeral[v]

(* The hexadecimal numeral is the one of the two's complement, padded with
   zeros. *)
DecimalText(v) == IF v < 0 THEN <<"-">> \o Numeral(-v, 10) ELSE Numeral(v, 10)

HexText(v) ==
  LET h == Numeral(IF v < 0 THEN v + 2^Bits ELSE v, 16)
  IN  [k \in 1..(Bits \div 4 - Len(h)) |-> "0"] \o h

(* What a conversion prints, and whether it takes an argument. *)
Converted(c, v) ==
  CASE c = "%" -> <<"%">>
    [] c = "s" -> Text
    [] c = "x" -> HexText(v)
    [] c = "d" -> DecimalText(v)
    [] OTHER   -> <<>>

Takes(c) == IF c \in {"s", "x", "d"} THEN 1 ELSE 0

(* What the last m characters of the format f stand for, when the j-th argument
   is the next one. *)
Meaning(f, a) ==
  LET meaning[m \in 0..Len(f)] ==
        [j \in Nat |->
           LET c == f[Len(f) - m + 1]
               d == f[Len(f) - m + 2]
           IN  IF m = 0 THEN <<>>
               ELSE IF c # "%" THEN <<c>> \o meaning[m - 1][j]
               ELSE IF m = 1 THEN <<"%">>
               ELSE Converted(d, a[j]) \o meaning[m - 2][j + Takes(d)]]
  IN  meaning

Reference(f, a) == Meaning(f, a)[Len(f)][1]

(* printf prints what its format says, for every mixture of text, conversions
   and stray percent signs, and for every int but the least, whose negation
   %d cannot represent.  On the way "divisor *= 10" never exceeds the range of
   an int, whatever came out of an overflowing negation. *)
PrintsReference ==
  /\ divisor <= MaxInt
  /\ phase = "end" /\ (\A k \in DOMAIN call.args : call.args[k] # MinInt) =>
       out = Reference(call.fmt, call.args)

=============================================================================
