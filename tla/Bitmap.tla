------------------------------- MODULE Bitmap -------------------------------
(***************************************************************************)
(* libs/bitmap.cpp: the bit set behind the frame allocator, searched and   *)
(* filled a byte at a time where a byte is uniform.  A bitmap is a record  *)
(* of its bits (all that the memory behind `data` holds) and its `size`.   *)
(* A byte has W bits; the code's W is 8.                                   *)
(***************************************************************************)
EXTENDS Integers, FiniteSets

CONSTANT W

ASSUME WAssumption == W \in Nat \ {0}

NotFound == -1      \* (size_t)-1

Byte(m, b) == [i \in 0 .. W - 1 |-> m.bits[b * W + i]]
Uniform(v) == [i \in 0 .. W - 1 |-> v]

(* memset(data, 0, size / 8): the bits beyond keep what memory held.       *)
init(bits, size) ==
    [bits |-> [i \in DOMAIN bits |-> IF i < (size \div W) * W THEN FALSE ELSE bits[i]],
     size |-> size]

get(m, i) == m.bits[i]
set(m, i, v) == [m EXCEPT !.bits[i] = v]

(* `byte == !byte_match` compares with 0 when looking for set bits, and    *)
(* with 1 when looking for clear ones.                                     *)
Mismatch(value) == [i \in 0 .. W - 1 |-> ~value /\ i = 0]

(* Slip: a mismatch does not end the run.                                  *)
ScanBitNoReset(t, bit, i, value, length) ==
    LET start == IF t.count = 0 THEN i ELSE t.start
    IN  IF t.found # NotFound \/ bit # value THEN t
        ELSE [count |-> t.count + 1,
              start |-> start,
              found |-> IF t.count + 1 = length THEN start ELSE NotFound]

(* One bit of a mixed byte, at position i of the bitmap.                   *)
ScanBit(t, bit, i, value, length) ==
    LET start == IF t.count = 0 THEN i ELSE t.start
    IN  IF t.found # NotFound THEN t
        ELSE IF bit # value THEN [t EXCEPT !.count = 0]
        ELSE [count |-> t.count + 1,
              start |-> start,
              found |-> IF t.count + 1 = length THEN start ELSE NotFound]

(* A run may start in one byte and end in the next.                        *)
ScanBits(s, byte, at, value, length) ==
    LET after[k \in 0 .. W] ==
            IF k = 0 THEN s
            ELSE ScanBit(after[k - 1], byte[k - 1], at + k - 1, value, length)
    IN  after[W]

(* A byte that matches as a whole answers a short request on its own.      *)
ScanUniform(s, at, length) ==
    LET start == IF s.count = 0 THEN at ELSE s.start
    IN  [count |-> s.count + W,
         start |-> start,
         found |-> IF length < W THEN at
                   ELSE IF s.count + W >= length THEN start ELSE NotFound]

ScanByte(s, byte, at, value, length) ==
    CASE s.found # NotFound     -> s
      [] s.found = NotFound /\ byte = Mismatch(value)
                                -> [s EXCEPT !.count = 0]
      [] s.found = NotFound /\ byte # Mismatch(value) /\ byte = Uniform(value)
                                -> ScanUniform(s, at, length)
      [] OTHER                  -> ScanBits(s, byte, at, value, length)

(* Only the first size / 8 bytes are looked at.                            *)
find_range(m, value, length) ==
    LET after[b \in 0 .. m.size \div W] ==
            IF b = 0 THEN [count |-> 0, start |-> 0, found |-> NotFound]
            ELSE ScanByte(after[b - 1], Byte(m, b - 1), (b - 1) * W, value, length)
    IN  after[m.size \div W].found

(* Single bits up to a byte boundary, whole bytes, single bits again.      *)
Fill(m, first, end, value) ==
    [m EXCEPT !.bits = [i \in DOMAIN m.bits |->
        IF first <= i /\ i < end THEN value ELSE m.bits[i]]]

LeadIn(start, end) == LET s == ((start + W - 1) \div W) * W IN IF s < end THEN s ELSE end

(* Slip: the bits after the last whole byte are forgotten.                 *)
SetWholeBytes(m, start, end, value) ==
    LET startWord == (start + W - 1) \div W
        endWord   == end \div W
        lead      == Fill(m, start, LeadIn(start, end), value)
    IN  IF start >= end \/ start >= m.size THEN m
        ELSE IF startWord > endWord THEN lead
        ELSE Fill(lead, startWord * W, endWord * W, value)

set_range(m, start, end, value) ==
    LET startWord == (start + W - 1) \div W
        endWord   == end \div W
        lead      == Fill(m, start, LeadIn(start, end), value)
        bytes     == Fill(lead, startWord * W, endWord * W, value)
    IN  IF start >= end \/ start >= m.size THEN m
        ELSE IF startWord > endWord THEN lead
        ELSE Fill(bytes, endWord * W, end, value)

-----------------------------------------------------------------------------
(* Reference definitions                                                   *)

(* i starts a run of `length` bits equal to value in the searched part.    *)
RunAt(m, i, value, length) ==
    /\ i + length <= (m.size \div W) * W
    /\ \A j \in i .. i + length - 1 : m.bits[j] = value

(* find_range returns only real runs, and finds a run of set bits whenever *)
(* there is one, wherever byte boundaries fall.                            *)
FindsRuns(m, length) ==
    LET searched == 0 .. (m.size \div W) * W - 1
    IN  /\ \A v \in BOOLEAN :
             LET r == find_range(m, v, length)
             IN  r # NotFound => RunAt(m, r, v, length)
        /\ find_range(m, TRUE, length) = NotFound
             => \A i \in searched : ~RunAt(m, i, TRUE, length)

(* set_range changes exactly the bits of its half-open range.              *)
SetsExactly(m, start, end, v) ==
    start < m.size =>
        set_range(m, start, end, v).bits =
            [i \in DOMAIN m.bits |-> IF start <= i /\ i < end THEN v ELSE m.bits[i]]
=============================================================================
