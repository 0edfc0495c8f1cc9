------------------------------- MODULE Printf -------------------------------
(***************************************************************************)
(* vsprintf of libs/klibc.cpp, one directive of the format per step.       *)
(*                                                                         *)
(* A directive is what follows a `%': flag characters, width, precision,   *)
(* qualifier and conversion.  The local variables of vsprintf keep what    *)
(* the directive before left in them (and start with what the stack held), *)
(* so that the order of formats matters unless each is set anew.           *)
(* Characters outside of directives are copied and need no action.         *)
(***************************************************************************)
EXTENDS Integers, Sequences, FiniteSets, SequencesExt, FiniteSetsExt

CONSTANTS
    LongBits,   \* width of a long, and of a pointer
    IntBits,    \* width of an int
    ShortBits,  \* width of a short
    Directives, \* the directives that occur in formats
    Strings,    \* the arguments for %s, without their NUL
    Longs       \* the arguments for numbers, as signed longs

ASSUME BitsAssumption ==
    /\ {ShortBits, IntBits, LongBits} \subseteq Nat
    /\ 1 < ShortBits /\ ShortBits <= IntBits /\ IntBits <= LongBits
    /\ LongBits % 4 = 0
    /\ Longs \subseteq -(2 ^ (LongBits - 1)) .. 2 ^ (LongBits - 1) - 1

(* A long has at most as many digits as Digits counts.                     *)
ASSUME DigitsAssumption ==
    /\ \A b \in 0 .. LongBits : 2 ^ b \in Nat \ {0}
    /\ \A base \in {8, 10, 16} :
          \E k \in 1 .. (LongBits + 2) \div 3 : base ^ k \in Nat /\ 2 ^ LongBits <= base ^ k

VARIABLES
    reg,    \* flags, field_width and precision
    field   \* the directive just done: what it was, its argument, its text

vars == <<reg, field>>

(* A width or a precision is absent, written in digits, or an argument.    *)
Absent == [from |-> "none"]
Literal(digits) == [from |-> "digits", digits |-> digits]
Star(n) == [from |-> "star", arg |-> n]

Numeric == {"d", "i", "u", "o", "x", "X", "p"}
Signs == {"d", "i"}
NoField == [directive |-> Absent]

-----------------------------------------------------------------------------
(* number()                                                                *)

Unsigned(n, bits) == n % 2 ^ bits
Signed(n, bits) ==
    LET u == Unsigned(n, bits)
    IN  IF u >= 2 ^ (bits - 1) THEN u - 2 ^ bits ELSE u

Capital == <<"0", "1", "2", "3", "4", "5", "6", "7", "8", "9", "A", "B", "C", "D", "E", "F">>
Small == <<"0", "1", "2", "3", "4", "5", "6", "7", "8", "9", "a", "b", "c", "d", "e", "f">>

Repeat(c, n) == [i \in 1 .. n |-> c]

(* The digits of u, the first one first; one 0 for 0.  No base is below 8. *)
Digits(u, base, small) ==
    LET count == Min({k \in 1 .. (LongBits + 2) \div 3 : u < base ^ k})
        set   == IF small THEN Small ELSE Capital
    IN  [i \in 1 .. count |-> set[((u \div base ^ (count - i)) % base) + 1]]

(* -num of the smallest long is that long again; the division takes it for *)
(* unsigned, which makes it its own absolute value.                        *)
Magnitude(num, type) ==
    Unsigned(IF "SIGN" \in type /\ num < 0 THEN Signed(-num, LongBits) ELSE num, LongBits)

Sign(num, type) ==
    IF "SIGN" \notin type THEN <<>>
    ELSE CASE num < 0                                -> <<"-">>
           [] num >= 0 /\ "+" \in type               -> <<"+">>
           [] num >= 0 /\ "+" \notin type /\ " " \in type -> <<" ">>
           [] OTHER                                  -> <<>>

Prefix(base, type) ==
    CASE "#" \in type /\ base = 8  -> <<"0">>
      [] "#" \in type /\ base = 16 -> <<"0", IF "SMALL" \in type THEN "x" ELSE "X">>
      [] OTHER                     -> <<>>

(* Slip: the prefix is not counted in the field's width.                   *)
RoomWithoutPrefix(size, sign, prefix, body) == Max({0, size - Len(sign) - Len(body)})

(* What is left of the field.                                              *)
Room(size, sign, prefix, body) == Max({0, size - Len(sign) - Len(prefix) - Len(body)})

number(num, base, size, precision, type) ==
    LET sign   == Sign(num, type)
        prefix == Prefix(base, type)
        digits == Digits(Magnitude(num, type), base, "SMALL" \in type)
        body   == Repeat("0", precision - Len(digits)) \o digits
        room   == Room(size, sign, prefix, body)
    IN  CASE "-" \in type                    -> sign \o prefix \o body \o Repeat(" ", room)
          [] "-" \notin type /\ "0" \in type -> sign \o prefix \o Repeat("0", room) \o body
          [] OTHER                           -> Repeat(" ", room) \o sign \o prefix \o body

-----------------------------------------------------------------------------
(* vsprintf                                                                *)

skip_atoi(digits) == FoldLeft(LAMBDA i, d : i * 10 + d, 0, digits)

LengthOK(x) ==
    \/ x.from = "none" /\ x = Absent
    \/ x.from = "digits" /\ x = Literal(x.digits) /\ skip_atoi(x.digits) \in Nat
    \/ x.from = "star" /\ x = Star(x.arg) /\ x.arg \in Int

DirectiveOK(d) ==
    /\ d = [flags |-> d.flags, width |-> d.width, precision |-> d.precision,
            qualifier |-> d.qualifier, conversion |-> d.conversion]
    /\ LengthOK(d.width) /\ LengthOK(d.precision)

ASSUME DirectivesAssumption ==
    (\A d \in Directives : DirectiveOK(d)) /\ Strings \subseteq Seq(STRING)

(* The arguments of a directive, as the caller lists them.                 *)
ValuesFor(d) ==
    CASE d.conversion \in Numeric -> Longs
      [] d.conversion = "s"       -> Strings
      [] d.conversion = "c"       -> {"k"}
      [] OTHER                    -> {"-"}

Passed(d, value) ==
    (IF d.width.from = "star" THEN <<d.width.arg>> ELSE <<>>)
    \o (IF d.precision.from = "star" THEN <<d.precision.arg>> ELSE <<>>)
    \o <<value>>

(* Slip: the flags are not cleared.                                        *)
AddFlags(r, d) == r.flags \cup d.flags

(* flags = 0, then the loop of `repeat'.                                   *)
Flags(r, d) == d.flags

(* A negative width among the arguments asks for left justification.  It   *)
(* is not the least int, whose negation is undefined.                      *)
FieldWidth(r, d, args) ==
    LET flags == Flags(r, d)
        n     == Head(args)
    IN  CASE d.width.from = "none"   -> [r EXCEPT !.flags = flags, !.field_width = -1]
          [] d.width.from = "digits" ->
                [r EXCEPT !.flags = flags, !.field_width = skip_atoi(d.width.digits)]
          [] OTHER ->
                IF n < 0 THEN [r EXCEPT !.flags = flags \cup {"-"}, !.field_width = -n]
                ELSE [r EXCEPT !.flags = flags, !.field_width = n]

(* A `.' without digits, and a negative argument, mean 0.                  *)
Precision(r, d, args) ==
    CASE d.precision.from = "none"   -> [r EXCEPT !.precision = -1]
      [] d.precision.from = "digits" -> [r EXCEPT !.precision = skip_atoi(d.precision.digits)]
      [] OTHER                       -> [r EXCEPT !.precision = Max({Head(args), 0})]

(* What the conversion adds: %p without a width is as wide as a pointer    *)
(* and padded with zeros.                                                  *)
ConversionFlags(r, d) ==
    CASE d.conversion = "x"    -> [r EXCEPT !.flags = @ \cup {"SMALL"}]
      [] d.conversion \in Signs -> [r EXCEPT !.flags = @ \cup {"SIGN"}]
      [] d.conversion = "p"    ->
            IF r.field_width = -1
            THEN [r EXCEPT !.field_width = LongBits \div 4, !.flags = @ \cup {"0"}]
            ELSE r
      [] OTHER -> r

Base(d) ==
    CASE d.conversion = "o"               -> 8
      [] d.conversion \in {"x", "X", "p"} -> 16
      [] OTHER                            -> 10

(* Slip: an int is not sign-extended.                                      *)
FetchUnsigned(d, arg) ==
    Unsigned(arg, CASE d.qualifier = "l" \/ d.conversion = "p" -> LongBits
                    [] d.qualifier = "h"                       -> ShortBits
                    [] OTHER                                   -> IntBits)

(* va_arg and the conversions to the unsigned long num; `L' reads an int.  *)
Fetch(d, arg) ==
    LET bits == CASE d.qualifier = "l" \/ d.conversion = "p" -> LongBits
                  [] d.qualifier = "h"                       -> ShortBits
                  [] OTHER                                   -> IntBits
    IN  IF d.conversion \in Signs
        THEN Unsigned(Signed(arg, bits), LongBits) ELSE Unsigned(arg, bits)

strnlen(s, maxlen) == Min({Len(s), maxlen})

Justify(r, text) ==
    LET pad == Repeat(" ", Max({0, r.field_width - Len(text)}))
    IN  IF "-" \in r.flags THEN text \o pad ELSE pad \o text

(* A precision of -1 is the largest size_t to strnlen.  %n stores how much *)
(* was written and writes nothing; an unknown conversion is copied, and a  *)
(* `%' at the end of the format stands for itself.                         *)
Text(r, d, value) ==
    CASE d.conversion \in Numeric ->
            number(Signed(Fetch(d, value), LongBits), Base(d), r.field_width, r.precision, r.flags)
      [] d.conversion = "c" -> Justify(r, <<value>>)
      [] d.conversion = "s" ->
            Justify(r, SubSeq(value, 1, IF r.precision = -1 THEN Len(value)
                                        ELSE strnlen(value, r.precision)))
      [] d.conversion = "n"        -> <<>>
      [] d.conversion \in {"%", "end"} -> <<"%">>
      [] OTHER                     -> <<"%", d.conversion>>

(* One round of the loop: arguments are taken in the order of the format.  *)
Round(r, d, args) ==
    LET rest1 == IF d.width.from = "star" THEN Tail(args) ELSE args
        rest2 == IF d.precision.from = "star" THEN Tail(rest1) ELSE rest1
        regs  == ConversionFlags(Precision(FieldWidth(r, d, args), d, rest1), d)
    IN  [reg |-> regs, text |-> Text(regs, d, Head(rest2))]

Init ==
    /\ reg \in [flags : {{}, {"-", "SIGN"}}, field_width : {-1, 3}, precision : {-1, 2}]
    /\ field = NoField

vsprintf(d, value) ==
    LET round == Round(reg, d, Passed(d, value))
    IN  /\ field = NoField
        /\ reg' = round.reg
        /\ field' = [directive |-> d, value |-> value, text |-> round.text]

(* The text is behind str and is not looked at again.                      *)
NextCharacter == field # NoField /\ field' = NoField /\ UNCHANGED reg

Next == NextCharacter \/ \E d \in Directives : \E v \in ValuesFor(d) : vsprintf(d, v)

Spec == Init /\ [][Next]_vars

-----------------------------------------------------------------------------
(* Properties                                                              *)

(* What a C programmer means by the argument of d.                         *)
Meant(d, value) ==
    LET bits == CASE d.qualifier = "l" \/ d.conversion = "p" -> LongBits
                  [] d.qualifier = "h"                       -> ShortBits
                  [] OTHER                                   -> IntBits
    IN  IF d.conversion \in Signs THEN Signed(value, bits) ELSE Unsigned(value, bits)

DigitValue(c) == (CHOOSE i \in 1 .. 16 : c \in {Capital[i], Small[i]}) - 1

(* Reads a number back: blanks skipped, a sign, a prefix, digits.          *)
Read(d, text) ==
    LET dense  == SelectSeq(text, LAMBDA c : c # " ")
        sign   == IF Head(dense) \in {"+", "-"} THEN 1 ELSE 0
        prefix == IF "#" \notin d.flags \/ Base(d) = 10 THEN 0 ELSE IF Base(d) = 8 THEN 1 ELSE 2
        digits == SubSeq(dense, sign + prefix + 1, Len(dense))
        value  == FoldLeft(LAMBDA n, c : n * Base(d) + DigitValue(c), 0, digits)
    IN  IF Head(dense) = "-" THEN -value ELSE value

(* Whatever the flags, width, precision and qualifier, the number that is  *)
(* printed is the argument, the most negative long and truncated shorts    *)
(* included (klibc.cpp:119-150, 358-369).                                  *)
ReadsBack ==
    (field # NoField /\ field.directive.conversion \in Numeric) =>
        Read(field.directive, field.text) = Meant(field.directive, field.value)

WidthOf(d) ==
    CASE d.width.from = "digits" -> skip_atoi(d.width.digits)
      [] d.width.from = "star"   -> IF d.width.arg < 0 THEN -d.width.arg ELSE d.width.arg
      [] OTHER                   -> IF d.conversion = "p" THEN LongBits \div 4 ELSE 0

(* A field is as wide as asked and wider only if the value needs it: sign, *)
(* prefix and padding together never overrun the columns of dump_regs.     *)
FieldFilled ==
    (field # NoField /\ field.directive.conversion \in Numeric \cup {"c", "s"}) =>
        LET d      == field.directive
            narrow == [d EXCEPT !.width = Star(0)]
            bare   == Round(reg, narrow, Passed(narrow, field.value)).text
        IN  Len(field.text) = Max({WidthOf(d), Len(bare)})

Fresh == [flags |-> {}, field_width |-> -1, precision |-> -1]

(* What a directive writes does not depend on the directives before it, or *)
(* on what the stack held.                                                 *)
DirectivesIndependent ==
    field # NoField =>
        field.text = Round(Fresh, field.directive, Passed(field.directive, field.value)).text
=============================================================================
