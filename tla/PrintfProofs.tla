---------------------------- MODULE PrintfProofs ----------------------------
(***************************************************************************)
(* vsprintf for any set of directives and any arguments: what a directive  *)
(* writes does not depend on what the local variables held before, and it  *)
(* fills the field that the directive asks for.                            *)
(***************************************************************************)
EXTENDS Printf, Recursion, TLAPS

Reg(flags, width, precision) ==
    [flags |-> flags, field_width |-> width, precision |-> precision]

(* r has the three local variables, whatever their values.                 *)
IsReg(r) == \E f, w, p : r = Reg(f, w, p)

(* The width and the flags are set in every round.                         *)
LEMMA WidthSet ==
    ASSUME NEW f1, NEW w1, NEW p1, NEW f2, NEW w2, NEW p2, NEW d, NEW args
    PROVE  \E f, w : /\ FieldWidth(Reg(f1, w1, p1), d, args) = Reg(f, w, p1)
                     /\ FieldWidth(Reg(f2, w2, p2), d, args) = Reg(f, w, p2)
  <1>1. CASE d.width.from = "none"
    BY <1>1 DEF FieldWidth, Flags, Reg
  <1>2. CASE d.width.from = "digits"
    BY <1>2 DEF FieldWidth, Flags, Reg
  <1>3. CASE d.width.from # "none" /\ d.width.from # "digits" /\ Head(args) < 0
    BY <1>3 DEF FieldWidth, Flags, Reg
  <1>4. CASE d.width.from # "none" /\ d.width.from # "digits" /\ ~(Head(args) < 0)
    BY <1>4 DEF FieldWidth, Flags, Reg
  <1> QED
    BY <1>1, <1>2, <1>3, <1>4

(* So is the precision.                                                    *)
LEMMA PrecisionSet ==
    ASSUME NEW f, NEW w, NEW p1, NEW p2, NEW d, NEW args
    PROVE  \E p : /\ Precision(Reg(f, w, p1), d, args) = Reg(f, w, p)
                  /\ Precision(Reg(f, w, p2), d, args) = Reg(f, w, p)
  <1>1. CASE d.precision.from = "none"
    BY <1>1 DEF Precision, Reg
  <1>2. CASE d.precision.from = "digits"
    BY <1>2 DEF Precision, Reg
  <1>3. CASE d.precision.from # "none" /\ d.precision.from # "digits"
    BY <1>3 DEF Precision, Reg
  <1> QED
    BY <1>1, <1>2, <1>3

(* A conversion adds flags or a width, and keeps the three variables.      *)
LEMMA ConversionIsReg ==
    ASSUME NEW f, NEW w, NEW p, NEW d
    PROVE  IsReg(ConversionFlags(Reg(f, w, p), d))
  <1>1. CASE d.conversion = "x"
    BY <1>1 DEF ConversionFlags, Reg, IsReg
  <1>2. CASE d.conversion # "x" /\ d.conversion \in Signs
    BY <1>2 DEF ConversionFlags, Reg, IsReg, Signs
  <1>3. CASE d.conversion = "p"
    BY <1>3 DEF ConversionFlags, Reg, IsReg, Signs
  <1>4. CASE d.conversion \notin Signs \cup {"x", "p"}
    BY <1>4 DEF ConversionFlags, Reg, IsReg
  <1> QED
    BY <1>1, <1>2, <1>3, <1>4

(* A round of the loop forgets what the round before left, or the stack    *)
(* held.                                                                   *)
LEMMA RoundForgets ==
    ASSUME NEW r, NEW q, IsReg(r), IsReg(q), NEW d, NEW args
    PROVE  Round(r, d, args) = Round(q, d, args) /\ IsReg(Round(r, d, args).reg)
  <1>1. PICK f1, w1, p1 : r = Reg(f1, w1, p1)
    BY DEF IsReg
  <1>2. PICK f2, w2, p2 : q = Reg(f2, w2, p2)
    BY DEF IsReg
  <1> DEFINE rest == IF d.width.from = "star" THEN Tail(args) ELSE args
             last == IF d.precision.from = "star" THEN Tail(rest) ELSE rest
             Regs(x) == ConversionFlags(Precision(FieldWidth(x, d, args), d, rest), d)
  <1>3. PICK f, w : /\ FieldWidth(r, d, args) = Reg(f, w, p1)
                    /\ FieldWidth(q, d, args) = Reg(f, w, p2)
    BY <1>1, <1>2, WidthSet
  <1>4. PICK p : /\ Precision(Reg(f, w, p1), d, rest) = Reg(f, w, p)
                 /\ Precision(Reg(f, w, p2), d, rest) = Reg(f, w, p)
    BY PrecisionSet
  <1>5. Regs(r) = Regs(q) /\ IsReg(Regs(r))
    BY <1>3, <1>4, ConversionIsReg
  <1>6. \A x : Round(x, d, args) = [reg |-> Regs(x), text |-> Text(Regs(x), d, Head(last))]
    BY DEF Round
  <1> HIDE DEF Regs
  <1> QED
    BY <1>5, <1>6

(* What a directive writes depends neither on the directives before it nor *)
(* on what the stack held, for any formats and arguments.                  *)
THEOREM PrintfIndependent == Spec => []DirectivesIndependent
  <1> DEFINE Inv == IsReg(reg) /\ DirectivesIndependent
  <1>1. Init => Inv
    <2> SUFFICES ASSUME Init PROVE Inv
      OBVIOUS
    <2>1. reg = Reg(reg.flags, reg.field_width, reg.precision)
      BY DEF Init, Reg
    <2>2. IsReg(reg)
      BY <2>1 DEF IsReg
    <2> QED
      BY <2>2 DEF Init, DirectivesIndependent
  <1>2. Inv /\ [Next]_vars => Inv'
    <2> SUFFICES ASSUME Inv, [Next]_vars PROVE Inv'
      OBVIOUS
    <2>1. ASSUME NEW d, NEW v, vsprintf(d, v) PROVE Inv'
      <3>1. IsReg(Fresh)
        BY DEF IsReg, Fresh, Reg
      <3>2. /\ Round(reg, d, Passed(d, v)) = Round(Fresh, d, Passed(d, v))
            /\ IsReg(Round(reg, d, Passed(d, v)).reg)
        BY <3>1, RoundForgets
      <3>3. /\ reg' = Round(reg, d, Passed(d, v)).reg
            /\ field' = [directive |-> d, value |-> v, text |-> Round(reg, d, Passed(d, v)).text]
        BY <2>1 DEF vsprintf
      <3>4. field'.directive = d /\ field'.value = v
            /\ field'.text = Round(reg, d, Passed(d, v)).text
        BY <3>3
      <3> QED
        BY <3>2, <3>3, <3>4 DEF DirectivesIndependent
    <2>2. CASE NextCharacter
      BY <2>2 DEF NextCharacter, DirectivesIndependent
    <2>3. CASE UNCHANGED vars
      BY <2>3 DEF vars, DirectivesIndependent
    <2> QED
      BY <2>1, <2>2, <2>3 DEF Next
  <1> QED
    BY <1>1, <1>2, PTL DEF Spec

-----------------------------------------------------------------------------
(* Lengths                                                                 *)

IsSeq(s) == \E S : s \in Seq(S)
Wider(a, b) == IF a >= b THEN a ELSE b

(* The maximum of two numbers.                                             *)
LEMMA MaxTwo ==
    ASSUME NEW a \in Int, NEW b \in Int
    PROVE  Max({a, b}) = Wider(a, b)
  BY DEF Max, Wider

(* Lengths add up, whatever the elements.                                  *)
LEMMA ConcatLen ==
    ASSUME NEW s, NEW t, IsSeq(s), IsSeq(t)
    PROVE  IsSeq(s \o t) /\ Len(s \o t) = Len(s) + Len(t) /\ Len(s) \in Nat /\ Len(t) \in Nat
  <1>1. PICK S : s \in Seq(S)
    BY DEF IsSeq
  <1>2. PICK T : t \in Seq(T)
    BY DEF IsSeq
  <1> DEFINE U == S \cup T
  <1>3. s \in Seq(U) /\ t \in Seq(U)
    BY <1>1, <1>2
  <1> HIDE DEF U
  <1>4. s \o t \in Seq(U) /\ Len(s \o t) = Len(s) + Len(t) /\ Len(s) \in Nat /\ Len(t) \in Nat
    BY <1>3
  <1> QED
    BY <1>4 DEF IsSeq

(* A run of n characters, of none if n is negative.                        *)
LEMMA RepeatLen ==
    ASSUME NEW c, NEW n \in Int
    PROVE  IsSeq(Repeat(c, n)) /\ Len(Repeat(c, n)) = Wider(0, n)
  <1>1. CASE n >= 0
    <2>1. Repeat(c, n) \in Seq({c}) /\ Len(Repeat(c, n)) = n
      BY <1>1 DEF Repeat
    <2> QED
      BY <1>1, <2>1 DEF IsSeq, Wider
  <1>2. CASE ~(n >= 0)
    <2>1. Repeat(c, n) = <<>>
      BY <1>2 DEF Repeat
    <2> QED
      BY <1>2, <2>1 DEF IsSeq, Wider
  <1> QED
    BY <1>1, <1>2

(* Sequences written out.                                                  *)
LEMMA Short ==
    /\ IsSeq(<<>>) /\ Len(<<>>) = 0
    /\ \A x : IsSeq(<<x>>) /\ Len(<<x>>) = 1
    /\ \A x, y : IsSeq(<<x, y>>) /\ Len(<<x, y>>) = 2
  <1>1. IsSeq(<<>>) /\ Len(<<>>) = 0
    <2>1. <<>> \in Seq({}) /\ Len(<<>>) = 0
      OBVIOUS
    <2> QED
      BY <2>1 DEF IsSeq
  <1>2. ASSUME NEW x PROVE IsSeq(<<x>>) /\ Len(<<x>>) = 1
    <2>1. <<x>> \in Seq({x}) /\ Len(<<x>>) = 1
      OBVIOUS
    <2> QED
      BY <2>1 DEF IsSeq
  <1>3. ASSUME NEW x, NEW y PROVE IsSeq(<<x, y>>) /\ Len(<<x, y>>) = 2
    <2>1. <<x, y>> \in Seq({x, y}) /\ Len(<<x, y>>) = 2
      OBVIOUS
    <2> QED
      BY <2>1 DEF IsSeq
  <1> QED
    BY <1>1, <1>2, <1>3

(* The sign takes at most a character, and depends on three of the flags.  *)
LEMMA SignIs ==
    ASSUME NEW num \in Int, NEW g
    PROVE /\ IsSeq(Sign(num, g)) /\ Len(Sign(num, g)) \in Nat
          /\ \A f : ("SIGN" \in f <=> "SIGN" \in g) /\ ("+" \in f <=> "+" \in g)
                    /\ (" " \in f <=> " " \in g) => Sign(num, f) = Sign(num, g)
  <1>0. \A f : Sign(num, f) = IF "SIGN" \notin f THEN <<>>
                  ELSE IF num < 0 THEN <<"-">>
                  ELSE IF "+" \in f THEN <<"+">>
                  ELSE IF " " \in f THEN <<" ">> ELSE <<>>
    <2> TAKE f
    <2>1. CASE num < 0
      <3>1. ~(num >= 0)
        BY <2>1
      <3> QED
        BY <2>1, <3>1, Zenon DEF Sign
    <2>2. CASE ~(num < 0)
      <3>1. num >= 0
        BY <2>2
      <3> QED
        BY <2>2, <3>1, Zenon DEF Sign
    <2> QED
      BY <2>1, <2>2
  <1>1. \A f : ("SIGN" \in f <=> "SIGN" \in g) /\ ("+" \in f <=> "+" \in g)
                    /\ (" " \in f <=> " " \in g) => Sign(num, f) = Sign(num, g)
    BY <1>0, Zenon
  <1>2. Sign(num, g) = <<>> \/ \E x : Sign(num, g) = <<x>>
    BY <1>0, Zenon
  <1> QED
    BY <1>1, <1>2, Short

(* The digits are a sequence.                                              *)
LEMMA DigitsSeq ==
    ASSUME NEW u \in 0 .. 2 ^ LongBits - 1, NEW base \in {8, 10, 16}, NEW small
    PROVE  IsSeq(Digits(u, base, small)) /\ Len(Digits(u, base, small)) \in Nat
  <1> DEFINE S == {k \in 1 .. (LongBits + 2) \div 3 : u < base ^ k}
             count == Min(S)
             set == IF small THEN Small ELSE Capital
             E(i) == set[((u \div base ^ (count - i)) % base) + 1]
  <1>1. S # {}
    <2>1. PICK k \in 1 .. (LongBits + 2) \div 3 :
              base ^ k \in Nat /\ 2 ^ LongBits <= base ^ k
      BY DigitsAssumption
    <2>2. LongBits \in Nat
      BY BitsAssumption
    <2>3. 2 ^ LongBits \in Nat
      BY <2>2, DigitsAssumption
    <2>4. u < base ^ k
      BY <2>1, <2>3
    <2> QED
      BY <2>4
  <1>2. S \in SUBSET Nat
    OBVIOUS
  <1>3. count \in Nat
    BY <1>1, <1>2, MinIsLeast
  <1>4. Digits(u, base, small) = [i \in 1 .. count |-> E(i)]
    BY DEF Digits
  <1> HIDE DEF count, E
  <1>5. [i \in 1 .. count |-> E(i)] \in Seq({E(i) : i \in 1 .. count})
        /\ Len([i \in 1 .. count |-> E(i)]) = count
    BY <1>3
  <1> QED
    BY <1>3, <1>4, <1>5 DEF IsSeq

(* An unsigned number is within its width, a signed one is an integer.     *)
LEMMA Widths ==
    ASSUME NEW n \in Int, NEW bits \in 1 .. LongBits
    PROVE  Unsigned(n, bits) \in 0 .. 2 ^ bits - 1 /\ Unsigned(n, bits) \in Int /\ Signed(n, bits) \in Int
  <1>0. LongBits \in Nat
    BY BitsAssumption
  <1>1. 2 ^ bits \in Nat \ {0} /\ 2 ^ (bits - 1) \in Nat
    BY <1>0, DigitsAssumption
  <1>2. PICK m \in Nat \ {0} : m = 2 ^ bits
    BY <1>1
  <1>3. PICK h \in Nat : h = 2 ^ (bits - 1)
    BY <1>1
  <1>4. n % m \in 0 .. m - 1
    OBVIOUS
  <1>5. Unsigned(n, bits) = n % m
    BY <1>2 DEF Unsigned
  <1>6. Signed(n, bits) = IF n % m >= h THEN (n % m) - m ELSE n % m
    BY <1>2, <1>3, <1>5 DEF Signed
  <1> QED
    BY <1>2, <1>4, <1>5, <1>6

(* f has the flags of g, but for those that choose how a field is padded.  *)
Agree(f, g) == \A x \in {"SIGN", "SMALL", "+", " ", "#"} : x \in f <=> x \in g

NumberFills(num, base, precision, g) ==
    \E L \in Nat : \A f : \A size \in Int : Agree(f, g) =>
        Len(number(num, base, size, precision, f)) = Wider(size, L)

(* A number fills its field, and its own length depends neither on the     *)
(* width nor on the padding.                                               *)
LEMMA NumberLen ==
    ASSUME NEW num \in Int, NEW base \in {8, 10, 16}, NEW precision \in Int, NEW g
    PROVE  NumberFills(num, base, precision, g)
  <1> DEFINE sign == Sign(num, g)
             prefix == Prefix(base, g)
             digits == Digits(Magnitude(num, g), base, "SMALL" \in g)
             zeros == Repeat("0", precision - Len(digits))
             body == zeros \o digits
  <1>1. IsSeq(sign) /\ Len(sign) \in Nat
    BY SignIs
  <1>2. IsSeq(prefix) /\ Len(prefix) \in Nat
    <2>1. prefix = <<>> \/ (\E x : prefix = <<x>>) \/ (\E x, y : prefix = <<x, y>>)
      <3>1. ~("#" \in g /\ base = 8 /\ base = 16)
        OBVIOUS
      <3>2. CASE "#" \in g /\ base = 8
        BY <3>1, <3>2, Zenon DEF Prefix
      <3>3. CASE "#" \in g /\ base = 16
        BY <3>1, <3>3, Zenon DEF Prefix
      <3>4. CASE ~("#" \in g /\ base = 8) /\ ~("#" \in g /\ base = 16)
        BY <3>4, Zenon DEF Prefix
      <3> QED
        BY <3>2, <3>3, <3>4
    <2> HIDE DEF prefix
    <2> QED
      BY <2>1, Short
  <1>3. Magnitude(num, g) \in 0 .. 2 ^ LongBits - 1
    <2>1. LongBits \in 1 .. LongBits
      BY BitsAssumption
    <2>2. -num \in Int
      OBVIOUS
    <2>3. Signed(-num, LongBits) \in Int
      BY <2>1, <2>2, Widths
    <2> QED
      BY <2>1, <2>3, Widths DEF Magnitude
  <1>4. IsSeq(digits) /\ Len(digits) \in Nat
    BY <1>3, DigitsSeq
  <1>5. IsSeq(zeros)
    <2> HIDE DEF digits
    <2>1. precision - Len(digits) \in Int
      BY <1>4
    <2> QED
      BY <2>1, RepeatLen
  <1>6. IsSeq(body) /\ Len(body) \in Nat
    <2> HIDE DEF zeros, digits
    <2>1. IsSeq(body) /\ Len(body) = Len(zeros) + Len(digits) /\ Len(zeros) \in Nat
      BY <1>4, <1>5, ConcatLen
    <2> QED
      BY <1>4, <2>1
  <1> DEFINE L == Len(sign) + Len(prefix) + Len(body)
  <1>7. ASSUME NEW f, NEW size \in Int, Agree(f, g)
        PROVE  Len(number(num, base, size, precision, f)) = Wider(size, L)
    <2>1. \A x \in {"SIGN", "SMALL", "+", " ", "#"} : x \in f <=> x \in g
      BY <1>7 DEF Agree
    <2>2. Sign(num, f) = sign
      BY <2>1, SignIs
    <2>3. Prefix(base, f) = prefix
      BY <2>1 DEF Prefix
    <2>4. Digits(Magnitude(num, f), base, "SMALL" \in f) = digits
      <3>1. ("SMALL" \in f <=> "SMALL" \in g) /\ ("SIGN" \in f <=> "SIGN" \in g)
        BY <2>1
      <3>2. Magnitude(num, f) = Magnitude(num, g)
        BY <3>1 DEF Magnitude
      <3>3. (IF "SMALL" \in f THEN Small ELSE Capital) = (IF "SMALL" \in g THEN Small ELSE Capital)
        BY <3>1
      <3> QED
        BY <3>2, <3>3, Zenon DEF Digits
    <2> DEFINE room == Room(size, sign, prefix, body)
    <2>5. number(num, base, size, precision, f) =
              CASE "-" \in f                 -> sign \o prefix \o body \o Repeat(" ", room)
                [] "-" \notin f /\ "0" \in f -> sign \o prefix \o Repeat("0", room) \o body
                [] OTHER                     -> Repeat(" ", room) \o sign \o prefix \o body
      BY <2>2, <2>3, <2>4 DEF number
    <2> HIDE DEF sign, prefix, body
    <2>6. /\ room = Wider(0, size - Len(sign) - Len(prefix) - Len(body))
          /\ room \in Nat
          /\ L + room = Wider(size, L)
      <3>1. size - Len(sign) - Len(prefix) - Len(body) \in Int
        BY <1>1, <1>2, <1>6
      <3>2. room = Wider(0, size - Len(sign) - Len(prefix) - Len(body))
        BY <3>1, MaxTwo DEF Room
      <3>3. PICK a \in Nat, b \in Nat, c \in Nat :
                a = Len(sign) /\ b = Len(prefix) /\ c = Len(body)
        BY <1>1, <1>2, <1>6
      <3>4. room = Wider(0, size - a - b - c)
        BY <3>2, <3>3
      <3>5. room \in Nat /\ (a + b + c) + room = Wider(size, a + b + c)
        BY <3>4 DEF Wider
      <3> QED
        BY <3>2, <3>3, <3>5
    <2> HIDE DEF room
    <2>7. \A c : IsSeq(Repeat(c, room)) /\ Len(Repeat(c, room)) = room
      BY <2>6, RepeatLen DEF Wider
    <2>8. IsSeq(sign \o prefix) /\ Len(sign \o prefix) = Len(sign) + Len(prefix)
      BY <1>1, <1>2, ConcatLen
    <2>9. CASE "-" \in f
      <3>1. IsSeq((sign \o prefix) \o body)
            /\ Len((sign \o prefix) \o body) = Len(sign \o prefix) + Len(body)
        BY <1>6, <2>8, ConcatLen
      <3>2. Len(((sign \o prefix) \o body) \o Repeat(" ", room)) =
                Len((sign \o prefix) \o body) + Len(Repeat(" ", room))
        BY <2>7, <3>1, ConcatLen
      <3>3. number(num, base, size, precision, f) = ((sign \o prefix) \o body) \o Repeat(" ", room)
        BY <2>5, <2>9
      <3> QED
        BY <2>6, <2>7, <2>8, <3>1, <3>2, <3>3
    <2>10. CASE "-" \notin f /\ "0" \in f
      <3>1. IsSeq((sign \o prefix) \o Repeat("0", room))
            /\ Len((sign \o prefix) \o Repeat("0", room)) =
                  Len(sign \o prefix) + Len(Repeat("0", room))
        BY <2>7, <2>8, ConcatLen
      <3>2. Len(((sign \o prefix) \o Repeat("0", room)) \o body) =
                Len((sign \o prefix) \o Repeat("0", room)) + Len(body)
        BY <1>6, <3>1, ConcatLen
      <3>3. number(num, base, size, precision, f) = ((sign \o prefix) \o Repeat("0", room)) \o body
        BY <2>5, <2>10
      <3>4. Len(sign) + Len(prefix) + room + Len(body) = L + room
        BY <1>1, <1>2, <1>6, <2>6
      <3> QED
        BY <2>6, <2>7, <2>8, <3>1, <3>2, <3>3, <3>4
    <2>11. CASE "-" \notin f /\ "0" \notin f
      <3>1. IsSeq(Repeat(" ", room) \o sign)
            /\ Len(Repeat(" ", room) \o sign) = Len(Repeat(" ", room)) + Len(sign)
        BY <1>1, <2>7, ConcatLen
      <3>2. IsSeq((Repeat(" ", room) \o sign) \o prefix)
            /\ Len((Repeat(" ", room) \o sign) \o prefix) =
                  Len(Repeat(" ", room) \o sign) + Len(prefix)
        BY <1>2, <3>1, ConcatLen
      <3>3. Len(((Repeat(" ", room) \o sign) \o prefix) \o body) =
                Len((Repeat(" ", room) \o sign) \o prefix) + Len(body)
        BY <1>6, <3>2, ConcatLen
      <3>4. number(num, base, size, precision, f) =
                ((Repeat(" ", room) \o sign) \o prefix) \o body
        BY <2>5, <2>11
      <3>5. room + Len(sign) + Len(prefix) + Len(body) = L + room
        BY <1>1, <1>2, <1>6, <2>6
      <3> QED
        BY <2>6, <2>7, <3>1, <3>2, <3>3, <3>4, <3>5
    <2> QED
      BY <2>9, <2>10, <2>11
  <1>8. L \in Nat
    <2> HIDE DEF sign, prefix, body
    <2> QED
      BY <1>1, <1>2, <1>6
  <1> HIDE DEF L
  <1> QED
    BY <1>7, <1>8 DEF NumberFills

(* So does a string or a character.                                        *)
LEMMA JustifyLen ==
    ASSUME NEW f, NEW w \in Int, NEW p, NEW t, IsSeq(t), Len(t) \in Nat
    PROVE  Len(Justify(Reg(f, w, p), t)) = Wider(w, Len(t))
  <1>1. PICK n \in Nat : n = Len(t)
    OBVIOUS
  <1>2. PICK room \in Int : room = Wider(0, w - n)
    BY DEF Wider
  <1>3. room \in Nat /\ room + n = Wider(w, n)
    BY <1>2 DEF Wider
  <1>4. Max({0, Reg(f, w, p).field_width - Len(t)}) = room
    <2>1. Max({0, w - n}) = room
      BY <1>2, MaxTwo
    <2>2. Reg(f, w, p).field_width = w
      BY DEF Reg
    <2> QED
      BY <1>1, <2>1, <2>2
  <1>5. IsSeq(Repeat(" ", room)) /\ Len(Repeat(" ", room)) = room
    <2>1. Wider(0, room) = room
      BY <1>3 DEF Wider
    <2> QED
      BY <2>1, RepeatLen
  <1>6. /\ Len(t \o Repeat(" ", room)) = Len(t) + Len(Repeat(" ", room))
        /\ Len(Repeat(" ", room) \o t) = Len(Repeat(" ", room)) + Len(t)
    BY <1>5, ConcatLen
  <1>7. \/ Justify(Reg(f, w, p), t) = t \o Repeat(" ", room)
        \/ Justify(Reg(f, w, p), t) = Repeat(" ", room) \o t
    BY <1>4, Zenon DEF Justify
  <1>8. Len(Justify(Reg(f, w, p), t)) = room + n
    <2>1. Len(t \o Repeat(" ", room)) = room + n /\ Len(Repeat(" ", room) \o t) = room + n
      <3>1. PICK x, y, z : x = Len(t \o Repeat(" ", room)) /\ y = Len(Repeat(" ", room) \o t)
                           /\ z = Len(Repeat(" ", room))
        OBVIOUS
      <3>2. z = room /\ x = n + z /\ y = z + n
        BY <1>1, <1>5, <1>6, <3>1, Zenon
      <3>3. x = room + n /\ y = room + n
        BY <3>2
      <3> QED
        BY <3>1, <3>3, Zenon
    <2> QED
      BY <1>7, <2>1, Zenon
  <1> QED
    BY <1>1, <1>3, <1>8, Zenon

TextFills(d, v, p, g) ==
    \E L \in Nat : \A f : \A w \in Int :
        Agree(f, g) => Len(Text(Reg(f, w, p), d, v)) = Wider(w, L)

(* What a conversion prints has a length of its own, which the width and   *)
(* the padding flags leave alone; the field is the wider of both.          *)
LEMMA TextLen ==
    ASSUME NEW d, d.conversion \in Numeric \cup {"c", "s"}, NEW v \in ValuesFor(d),
           NEW p \in Int, p >= -1, NEW g
    PROVE  TextFills(d, v, p, g)
  <1>0. \A f, w : /\ Reg(f, w, p).flags = f
                  /\ Reg(f, w, p).field_width = w
                  /\ Reg(f, w, p).precision = p
    BY DEF Reg
  <1>1. CASE d.conversion \in Numeric
    <2> DEFINE num == Signed(Fetch(d, v), LongBits)
    <2>1. v \in Int
      <3>1. ValuesFor(d) = Longs
        BY <1>1, Zenon DEF ValuesFor, Numeric
      <3>2. Longs \subseteq Int
        BY BitsAssumption
      <3> QED
        BY <3>1, <3>2
    <2>2. num \in Int
      <3>1. {ShortBits, IntBits, LongBits} \subseteq 1 .. LongBits
        BY BitsAssumption
      <3>2. \A bits \in {ShortBits, IntBits, LongBits} : \A n \in Int :
                Unsigned(n, bits) \in Int /\ Signed(n, bits) \in Int
        BY <3>1, Widths
      <3>3. PICK bits \in {ShortBits, IntBits, LongBits} :
                \/ Fetch(d, v) = Unsigned(Signed(v, bits), LongBits)
                \/ Fetch(d, v) = Unsigned(v, bits)
        <4> DEFINE bits == CASE d.qualifier = "l" \/ d.conversion = "p" -> LongBits
                             [] d.qualifier = "h"                       -> ShortBits
                             [] OTHER                                   -> IntBits
        <4>1. bits \in {ShortBits, IntBits, LongBits}
          <5>1. CASE d.qualifier = "l" \/ d.conversion = "p"
            BY <5>1
          <5>2. CASE ~(d.qualifier = "l" \/ d.conversion = "p")
            BY <5>2
          <5> QED
            BY <5>1, <5>2
        <4>2. Fetch(d, v) = IF d.conversion \in Signs
                            THEN Unsigned(Signed(v, bits), LongBits) ELSE Unsigned(v, bits)
          BY DEF Fetch
        <4> HIDE DEF bits
        <4> QED
          BY <4>1, <4>2
      <3>4. Fetch(d, v) \in Int
        BY <2>1, <3>2, <3>3
      <3> QED
        BY <3>2, <3>4
    <2>3. Base(d) \in {8, 10, 16}
      BY DEF Base
    <2>4. \A f, w : Text(Reg(f, w, p), d, v) = number(num, Base(d), w, p, f)
      BY <1>0, <1>1, Zenon DEF Text, Numeric
    <2> HIDE DEF num
    <2> QED
      <3>1. PICK L \in Nat : \A f : \A w \in Int : Agree(f, g) =>
                Len(number(num, Base(d), w, p, f)) = Wider(w, L)
        <4>1. PICK base \in {8, 10, 16} : base = Base(d)
          BY <2>3
        <4>2. NumberFills(num, base, p, g)
          BY <2>2, NumberLen, Zenon
        <4> QED
          BY <4>1, <4>2, Zenon DEF NumberFills
      <3> QED
        BY <2>4, <3>1, Zenon DEF TextFills
  <1>2. CASE d.conversion = "c"
    <2>1. \A f, w : Text(Reg(f, w, p), d, v) = Justify(Reg(f, w, p), <<v>>)
      BY <1>2 DEF Text, Numeric
    <2> QED
      <3>1. PICK t : t = <<v>>
        OBVIOUS
      <3>2. IsSeq(t) /\ Len(t) \in Nat
        BY <3>1, Short
      <3>3. \A f : \A w \in Int : Len(Justify(Reg(f, w, p), t)) = Wider(w, Len(t))
        BY <3>2, JustifyLen
      <3>4. \A f, w : Text(Reg(f, w, p), d, v) = Justify(Reg(f, w, p), t)
        BY <2>1, <3>1, Zenon
      <3> QED
        BY <3>2, <3>3, <3>4, Zenon DEF TextFills
  <1>3. CASE d.conversion = "s"
    <2> DEFINE n == IF p = -1 THEN Len(v) ELSE strnlen(v, p)
               t == SubSeq(v, 1, n)
    <2>1. v \in Seq(STRING)
      BY <1>3, DirectivesAssumption DEF ValuesFor, Numeric
    <2>2. PICK S : v \in Seq(S)
      BY <2>1
    <2>3. Len(v) \in Nat
      BY <2>2
    <2>4. n \in 0 .. Len(v)
      <3>1. CASE p = -1
        BY <2>3, <3>1
      <3>2. CASE p # -1
        <4>1. p \in Nat
          BY <3>2
        <4>2. {Len(v), p} \in SUBSET Nat /\ {Len(v), p} # {}
          BY <2>3, <4>1
        <4>3. Min({Len(v), p}) \in {Len(v), p} /\ \A x \in {Len(v), p} : Min({Len(v), p}) <= x
          BY <4>2, MinIsLeast
        <4> QED
          BY <2>3, <3>2, <4>1, <4>3 DEF strnlen
      <3> QED
        BY <3>1, <3>2
    <2>5. \A f, w : Text(Reg(f, w, p), d, v) = Justify(Reg(f, w, p), t)
      BY <1>0, <1>3 DEF Text, Numeric
    <2>6. IsSeq(t) /\ Len(t) \in Nat
      <3> HIDE DEF n
      <3>1. SubSeq(v, 1, n) \in Seq(S) /\ Len(SubSeq(v, 1, n)) = n
        BY <2>2, <2>3, <2>4
      <3> QED
        BY <2>3, <2>4, <3>1 DEF IsSeq
    <2> HIDE DEF t
    <2>7. \A f : \A w \in Int : Len(Justify(Reg(f, w, p), t)) = Wider(w, Len(t))
      BY <2>6, JustifyLen
    <2> QED
      BY <2>5, <2>6, <2>7, Zenon DEF TextFills
  <1> QED
    BY <1>1, <1>2, <1>3

(* The width and the precision that a directive asks for.                  *)
AskedWidth(d) ==
    CASE d.width.from = "none"   -> IF d.conversion = "p" THEN LongBits \div 4 ELSE -1
      [] d.width.from = "digits" -> skip_atoi(d.width.digits)
      [] OTHER                   -> IF d.width.arg < 0 THEN -d.width.arg ELSE d.width.arg

AskedPrecision(d) ==
    CASE d.precision.from = "none"   -> -1
      [] d.precision.from = "digits" -> skip_atoi(d.precision.digits)
      [] OTHER                       -> Max({d.precision.arg, 0})

AskedFlags(d) ==
    d.flags \cup (IF d.conversion = "x" THEN {"SMALL"} ELSE {})
            \cup (IF d.conversion \in Signs THEN {"SIGN"} ELSE {})

(* The arguments arrive at the width, the precision and the conversion     *)
(* that they belong to.                                                    *)
LEMMA ArgumentsReach ==
    ASSUME NEW d, NEW v
    PROVE  LET args == Passed(d, v)
               rest == IF d.width.from = "star" THEN Tail(args) ELSE args
               last == IF d.precision.from = "star" THEN Tail(rest) ELSE rest
           IN  /\ d.width.from = "star" => Head(args) = d.width.arg
               /\ d.precision.from = "star" => Head(rest) = d.precision.arg
               /\ Head(last) = v
  <1>0. PICK a, b : a = d.width.arg /\ b = d.precision.arg
    OBVIOUS
  <1>1. CASE d.width.from = "star" /\ d.precision.from = "star"
    <2>1. Passed(d, v) = (<<a>> \o <<b>>) \o <<v>>
      BY <1>0, <1>1, Zenon DEF Passed
    <2> QED
      BY <1>0, <1>1, <2>1
  <1>2. CASE d.width.from = "star" /\ d.precision.from # "star"
    <2>1. Passed(d, v) = (<<a>> \o <<>>) \o <<v>>
      BY <1>0, <1>2, Zenon DEF Passed
    <2> QED
      BY <1>0, <1>2, <2>1
  <1>3. CASE d.width.from # "star" /\ d.precision.from = "star"
    <2>1. Passed(d, v) = (<<>> \o <<b>>) \o <<v>>
      BY <1>0, <1>3, Zenon DEF Passed
    <2> QED
      BY <1>0, <1>3, <2>1
  <1>4. CASE d.width.from # "star" /\ d.precision.from # "star"
    <2>1. Passed(d, v) = <<v>>
      BY <1>4 DEF Passed
    <2> QED
      BY <1>4, <2>1
  <1> QED
    BY <1>1, <1>2, <1>3, <1>4

(* A round prints its argument with the flags, the width and the precision *)
(* of its directive.                                                       *)
LEMMA RoundText ==
    ASSUME NEW d, DirectiveOK(d), NEW v
    PROVE  \E f : /\ Agree(f, AskedFlags(d))
                  /\ Round(Fresh, d, Passed(d, v)).text =
                        Text(Reg(f, AskedWidth(d), AskedPrecision(d)), d, v)
  <1> DEFINE args == Passed(d, v)
             rest == IF d.width.from = "star" THEN Tail(args) ELSE args
             last == IF d.precision.from = "star" THEN Tail(rest) ELSE rest
             w0 == IF d.width.from = "none" THEN -1 ELSE AskedWidth(d)
  <1>0. /\ d.width.from = "star" => Head(args) = d.width.arg
        /\ d.precision.from = "star" => Head(rest) = d.precision.arg
        /\ Head(last) = v
    BY ArgumentsReach
  <1>1. /\ d.width.from \in {"none", "digits", "star"}
        /\ d.precision.from \in {"none", "digits", "star"}
        /\ d.width.from = "digits" => skip_atoi(d.width.digits) \in Nat
        /\ d.width.from = "star" => d.width.arg \in Int
    BY DEF DirectiveOK, LengthOK
  <1>2. PICK f0 : Agree(f0, d.flags) /\ FieldWidth(Fresh, d, args) = Reg(f0, w0, -1)
    <2>1. CASE d.width.from = "none"
      BY <2>1 DEF FieldWidth, Flags, Fresh, Reg, Agree
    <2>2. CASE d.width.from = "digits"
      BY <2>2 DEF FieldWidth, Flags, Fresh, Reg, Agree, AskedWidth
    <2>3. CASE d.width.from = "star" /\ d.width.arg < 0
      <3>1. FieldWidth(Fresh, d, args) = Reg(d.flags \cup {"-"}, -d.width.arg, -1)
        BY <1>0, <2>3 DEF FieldWidth, Flags, Fresh, Reg
      <3>2. Agree(d.flags \cup {"-"}, d.flags)
        BY DEF Agree
      <3>3. w0 = -d.width.arg
        BY <2>3 DEF AskedWidth
      <3> QED
        BY <3>1, <3>2, <3>3
    <2>4. CASE d.width.from = "star" /\ ~(d.width.arg < 0)
      <3>1. FieldWidth(Fresh, d, args) = Reg(d.flags, d.width.arg, -1)
        BY <1>0, <2>4 DEF FieldWidth, Flags, Fresh, Reg
      <3>2. Agree(d.flags, d.flags)
        BY DEF Agree
      <3>3. w0 = d.width.arg
        BY <2>4 DEF AskedWidth
      <3> QED
        BY <3>1, <3>2, <3>3
    <2> QED
      BY <1>1, <2>1, <2>2, <2>3, <2>4
  <1>3. Precision(Reg(f0, w0, -1), d, rest) = Reg(f0, w0, AskedPrecision(d))
    <2> HIDE DEF w0, rest
    <2>1. CASE d.precision.from = "none"
      BY <2>1 DEF Precision, Reg, AskedPrecision
    <2>2. CASE d.precision.from = "digits"
      BY <2>2 DEF Precision, Reg, AskedPrecision
    <2>3. CASE d.precision.from = "star"
      BY <1>0, <2>3 DEF Precision, Reg, AskedPrecision
    <2> QED
      BY <1>1, <2>1, <2>2, <2>3
  <1>4. PICK f : /\ Agree(f, AskedFlags(d))
                 /\ ConversionFlags(Reg(f0, w0, AskedPrecision(d)), d) =
                       Reg(f, AskedWidth(d), AskedPrecision(d))
    <2> DEFINE p == AskedPrecision(d)
    <2> HIDE DEF p
    <2>1. CASE d.conversion = "x"
      <3>1. ConversionFlags(Reg(f0, w0, p), d) = Reg(f0 \cup {"SMALL"}, w0, p)
        BY <2>1 DEF ConversionFlags, Reg, Signs
      <3>2. Agree(f0 \cup {"SMALL"}, AskedFlags(d))
        BY <1>2, <2>1 DEF Agree, AskedFlags, Signs
      <3>3. w0 = AskedWidth(d)
        BY <2>1 DEF AskedWidth
      <3> QED
        BY <3>1, <3>2, <3>3 DEF p
    <2>2. CASE d.conversion \in Signs
      <3>1. ConversionFlags(Reg(f0, w0, p), d) = Reg(f0 \cup {"SIGN"}, w0, p)
        BY <2>2 DEF ConversionFlags, Reg, Signs
      <3>2. Agree(f0 \cup {"SIGN"}, AskedFlags(d))
        BY <1>2, <2>2 DEF Agree, AskedFlags, Signs
      <3>3. w0 = AskedWidth(d)
        BY <2>2 DEF AskedWidth, Signs
      <3> QED
        BY <3>1, <3>2, <3>3 DEF p
    <2>3. CASE d.conversion = "p"
      <3>1. CASE d.width.from = "none"
        <4>1. ConversionFlags(Reg(f0, w0, p), d) = Reg(f0 \cup {"0"}, LongBits \div 4, p)
          BY <2>3, <3>1 DEF ConversionFlags, Reg, Signs
        <4>2. Agree(f0 \cup {"0"}, AskedFlags(d))
          BY <1>2, <2>3 DEF Agree, AskedFlags, Signs
        <4>3. LongBits \div 4 = AskedWidth(d)
          BY <2>3, <3>1 DEF AskedWidth
        <4> QED
          BY <4>1, <4>2, <4>3 DEF p
      <3>2. CASE d.width.from # "none"
        <4>1. w0 = AskedWidth(d) /\ w0 # -1
          BY <1>1, <3>2 DEF AskedWidth
        <4>2. ConversionFlags(Reg(f0, w0, p), d) = Reg(f0, w0, p)
          <5> HIDE DEF w0
          <5> QED
            BY <2>3, <4>1 DEF ConversionFlags, Reg, Signs
        <4>3. Agree(f0, AskedFlags(d))
          BY <1>2, <2>3 DEF Agree, AskedFlags, Signs
        <4> QED
          BY <4>1, <4>2, <4>3 DEF p
      <3> QED
        BY <3>1, <3>2
    <2>4. CASE d.conversion \notin Signs \cup {"x", "p"}
      <3>1. ConversionFlags(Reg(f0, w0, p), d) = Reg(f0, w0, p)
        BY <2>4 DEF ConversionFlags
      <3>2. Agree(f0, AskedFlags(d))
        BY <1>2, <2>4 DEF Agree, AskedFlags
      <3>3. w0 = AskedWidth(d)
        BY <2>4 DEF AskedWidth
      <3> QED
        BY <3>1, <3>2, <3>3 DEF p
    <2> QED
      BY <2>1, <2>2, <2>3, <2>4
  <1>5. Round(Fresh, d, args).text =
            Text(ConversionFlags(Precision(FieldWidth(Fresh, d, args), d, rest), d), d, Head(last))
    BY Zenon DEF Round
  <1> HIDE DEF args, rest, last, w0
  <1> QED
    BY <1>0, <1>2, <1>3, <1>4, <1>5 DEF args

(* What two directives print that differ in their widths alone.            *)
LEMMA NarrowFills ==
    ASSUME NEW d, DirectiveOK(d), d.conversion \in Numeric \cup {"c", "s"},
           NEW v \in ValuesFor(d)
    PROVE  LET narrow == [d EXCEPT !.width = Star(0)]
           IN  Len(Round(Fresh, d, Passed(d, v)).text) =
                   Max({WidthOf(d), Len(Round(Fresh, narrow, Passed(narrow, v)).text)})
  <1> DEFINE narrow == [d EXCEPT !.width = Star(0)]
             p == AskedPrecision(d)
             g == AskedFlags(d)
             text == Round(Fresh, d, Passed(d, v)).text
             bare == Round(Fresh, narrow, Passed(narrow, v)).text
  <1>1. /\ narrow = [flags |-> d.flags, width |-> Star(0), precision |-> d.precision,
                     qualifier |-> d.qualifier, conversion |-> d.conversion]
        /\ narrow.flags = d.flags /\ narrow.width = Star(0) /\ narrow.precision = d.precision
        /\ narrow.qualifier = d.qualifier /\ narrow.conversion = d.conversion
    <2>1. d = [flags |-> d.flags, width |-> d.width, precision |-> d.precision,
               qualifier |-> d.qualifier, conversion |-> d.conversion]
      BY DEF DirectiveOK
    <2>2. narrow = [flags |-> d.flags, width |-> Star(0), precision |-> d.precision,
                    qualifier |-> d.qualifier, conversion |-> d.conversion]
      BY <2>1
    <2> HIDE DEF narrow
    <2> QED
      BY <2>2
  <1> HIDE DEF narrow
  <1>2. DirectiveOK(narrow)
    <2>1. LengthOK(Star(0))
      BY DEF LengthOK, Star
    <2>2. LengthOK(d.precision)
      BY DEF DirectiveOK
    <2> QED
      BY <1>1, <2>1, <2>2, Zenon DEF DirectiveOK
  <1>3. AskedWidth(narrow) = 0 /\ AskedPrecision(narrow) = p /\ AskedFlags(narrow) = g
    <2>1. AskedWidth(narrow) = 0
      BY <1>1 DEF AskedWidth, Star
    <2>2. AskedPrecision(narrow) = p /\ AskedFlags(narrow) = g
      BY <1>1, Zenon DEF AskedPrecision, AskedFlags
    <2> QED
      BY <2>1, <2>2
  <1>4. \A r : Text(r, narrow, v) = Text(r, d, v)
    <2>1. Fetch(narrow, v) = Fetch(d, v) /\ Base(narrow) = Base(d)
      <3>1. Base(narrow) = Base(d)
        BY <1>1, Zenon DEF Base
      <3>2. Fetch(narrow, v) = Fetch(d, v)
        BY <1>1 DEF Fetch
      <3> QED
        BY <3>1, <3>2
    <2> QED
      BY <1>1, <2>1, Zenon DEF Text
  <1>5. p \in Int /\ p >= -1
    <2>1. CASE d.precision.from = "none"
      BY <2>1 DEF AskedPrecision
    <2>2. CASE d.precision.from = "digits"
      BY <2>2 DEF AskedPrecision, DirectiveOK, LengthOK
    <2>3. CASE d.precision.from = "star"
      <3>1. d.precision.arg \in Int
        BY <2>3 DEF DirectiveOK, LengthOK
      <3>2. p = Wider(d.precision.arg, 0)
        BY <2>3, <3>1, MaxTwo DEF AskedPrecision
      <3> QED
        BY <3>1, <3>2 DEF Wider
    <2> QED
      BY <2>1, <2>2, <2>3 DEF DirectiveOK, LengthOK
  <1>6. PICK a \in Int, b \in Nat :
            a = AskedWidth(d) /\ b = WidthOf(d) /\ (a = b \/ (a = -1 /\ b = 0))
    <2>1. CASE d.width.from = "none"
      <3>1. LongBits \div 4 \in Nat
        BY BitsAssumption
      <3> QED
        <4>1. /\ AskedWidth(d) = IF d.conversion = "p" THEN LongBits \div 4 ELSE -1
              /\ WidthOf(d) = IF d.conversion = "p" THEN LongBits \div 4 ELSE 0
          BY <2>1, Zenon DEF AskedWidth, WidthOf
        <4> QED
          BY <3>1, <4>1
    <2>2. CASE d.width.from = "digits"
      <3>1. skip_atoi(d.width.digits) \in Nat
        BY <2>2 DEF DirectiveOK, LengthOK
      <3> QED
        <4>1. /\ AskedWidth(d) = skip_atoi(d.width.digits)
              /\ WidthOf(d) = skip_atoi(d.width.digits)
          BY <2>2, Zenon DEF AskedWidth, WidthOf
        <4> QED
          BY <3>1, <4>1
    <2>3. CASE d.width.from = "star"
      <3>1. d.width.arg \in Int
        BY <2>3 DEF DirectiveOK, LengthOK
      <3> QED
        <4>1. /\ AskedWidth(d) = IF d.width.arg < 0 THEN -d.width.arg ELSE d.width.arg
              /\ WidthOf(d) = AskedWidth(d)
          BY <2>3, Zenon DEF AskedWidth, WidthOf
        <4> QED
          BY <3>1, <4>1
    <2> QED
      BY <2>1, <2>2, <2>3 DEF DirectiveOK, LengthOK
  <1> HIDE DEF p, g
  <1>7. PICK f1 : Agree(f1, g) /\ text = Text(Reg(f1, AskedWidth(d), p), d, v)
    BY RoundText, Zenon DEF p, g
  <1>8. PICK f2 : Agree(f2, g) /\ bare = Text(Reg(f2, 0, p), d, v)
    <2>1. PICK f2 : /\ Agree(f2, AskedFlags(narrow))
                    /\ bare = Text(Reg(f2, AskedWidth(narrow), AskedPrecision(narrow)), narrow, v)
      BY <1>2, RoundText, Zenon
    <2> QED
      BY <1>3, <1>4, <2>1, Zenon
  <1>9. PICK L \in Nat : \A f : \A w \in Int :
            Agree(f, g) => Len(Text(Reg(f, w, p), d, v)) = Wider(w, L)
    <2>1. TextFills(d, v, p, g)
      BY <1>5, TextLen, Zenon
    <2> QED
      BY <2>1, Zenon DEF TextFills
  <1> HIDE DEF text, bare
  <1>10. Len(text) = Wider(AskedWidth(d), L)
    BY <1>6, <1>7, <1>9
  <1>11. Len(bare) = L
    <2>1. Len(bare) = Wider(0, L)
      BY <1>8, <1>9
    <2>2. Wider(0, L) = L
      BY DEF Wider
    <2> QED
      BY <2>1, <2>2
  <1>12. Len(text) = Max({WidthOf(d), Len(bare)})
    <2>1. Max({b, L}) = Wider(b, L)
      BY MaxTwo
    <2>2. Wider(a, L) = Wider(b, L)
      BY <1>6 DEF Wider
    <2> QED
      BY <1>6, <1>10, <1>11, <2>1, <2>2, Zenon
  <1> QED
    BY <1>12, Zenon DEF text, bare, narrow

(* A field is as wide as its directive asks, and wider only if the value   *)
(* itself is, for any set of directives and of arguments: number() counts  *)
(* sign, prefix and zeros in the width, and a width or a precision that an *)
(* argument gives is told from the value.                                  *)
THEOREM PrintfFieldFilled == Spec => []FieldFilled
  <1> DEFINE Known == field # NoField => /\ field.directive \in Directives
                                         /\ field.value \in ValuesFor(field.directive)
             Inv == IsReg(reg) /\ Known
  <1>1. Init => Inv
    <2> SUFFICES ASSUME Init PROVE Inv
      OBVIOUS
    <2>1. reg = Reg(reg.flags, reg.field_width, reg.precision)
      BY DEF Init, Reg
    <2> QED
      BY <2>1 DEF Init, IsReg
  <1>2. Inv /\ [Next]_vars => Inv'
    <2> SUFFICES ASSUME Inv, [Next]_vars PROVE Inv'
      OBVIOUS
    <2>1. ASSUME NEW d \in Directives, NEW v \in ValuesFor(d), vsprintf(d, v) PROVE Inv'
      <3>1. /\ reg' = Round(reg, d, Passed(d, v)).reg
            /\ field' = [directive |-> d, value |-> v, text |-> Round(reg, d, Passed(d, v)).text]
        BY <2>1 DEF vsprintf
      <3>2. field'.directive = d /\ field'.value = v
        BY <3>1
      <3>3. IsReg(Round(reg, d, Passed(d, v)).reg)
        BY RoundForgets
      <3> QED
        BY <3>1, <3>2, <3>3
    <2>2. CASE NextCharacter
      BY <2>2 DEF NextCharacter
    <2>3. CASE UNCHANGED vars
      BY <2>3 DEF vars
    <2> QED
      BY <2>1, <2>2, <2>3 DEF Next
  <1>3. Inv /\ DirectivesIndependent => FieldFilled
    <2> SUFFICES ASSUME Inv, DirectivesIndependent, field # NoField,
                        field.directive.conversion \in Numeric \cup {"c", "s"}
                 PROVE  LET d      == field.directive
                            narrow == [d EXCEPT !.width = Star(0)]
                            bare   == Round(reg, narrow, Passed(narrow, field.value)).text
                        IN  Len(field.text) = Max({WidthOf(d), Len(bare)})
      BY DEF FieldFilled
    <2> DEFINE d == field.directive
               v == field.value
               narrow == [d EXCEPT !.width = Star(0)]
    <2>0. IsReg(reg)
      OBVIOUS
    <2>1. d \in Directives /\ v \in ValuesFor(d) /\ DirectiveOK(d)
      BY DirectivesAssumption
    <2>2. IsReg(Fresh)
      BY DEF IsReg, Fresh, Reg
    <2>3. Round(reg, narrow, Passed(narrow, v)) = Round(Fresh, narrow, Passed(narrow, v))
      <3>1. ASSUME NEW x, NEW args PROVE Round(reg, x, args) = Round(Fresh, x, args)
        BY <2>0, <2>2, RoundForgets
      <3> QED
        BY <3>1, Zenon
    <2>4. field.text = Round(Fresh, d, Passed(d, v)).text
      BY DEF DirectivesIndependent
    <2>5. Len(Round(Fresh, d, Passed(d, v)).text) =
              Max({WidthOf(d), Len(Round(Fresh, narrow, Passed(narrow, v)).text)})
      BY <2>1, NarrowFills, Zenon
    <2> QED
      BY <2>3, <2>4, <2>5, Zenon
  <1> QED
    BY <1>1, <1>2, <1>3, PrintfIndependent, PTL DEF Spec
=============================================================================
