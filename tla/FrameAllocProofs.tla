-------------------------- MODULE FrameAllocProofs --------------------------
(***************************************************************************)
(* The bitmap's search and fill for every bitmap, and the safety of the    *)
(* frame allocator for any memory map and any number of CPUs that ask for  *)
(* single frames.                                                          *)
(***************************************************************************)
EXTENDS FrameAlloc, Recursion, TLAPS

-----------------------------------------------------------------------------
(* Bytes and bits                                                          *)

(* A position is a bit of one byte.                                        *)
LEMMA ByteOf ==
    ASSUME NEW a \in Nat
    PROVE  /\ a \div W \in Nat /\ a % W \in 0 .. W - 1
           /\ a = (a \div W) * W + (a % W)
  <1>1. ASSUME NEW x \in Int, NEW w \in Int, w > 0
        PROVE  x = (x \div w) * w + (x % w)
    BY <1>1, Z3
  <1>2. a \div W \in Nat /\ a % W \in 0 .. W - 1
    BY WAssumption
  <1> QED
    BY <1>1, <1>2, WAssumption

(* Bytes do not overlap.                                                   *)
LEMMA ByteOrder ==
    ASSUME NEW a \in Nat, NEW b \in Nat
    PROVE  /\ a * W \in Nat /\ (a + 1) * W = a * W + W
           /\ a < b => a * W + W <= b * W
           /\ a <= b => a * W <= b * W
  <1>1. a * W \in Nat /\ b * W \in Nat /\ (a + 1) * W = a * W + W
    BY WAssumption
  <1>2. ASSUME NEW x \in Nat, NEW y \in Nat, x <= y PROVE x * W <= y * W
    <2>1. (y - x) * W >= 0
      BY <1>2, WAssumption
    <2>2. y * W = x * W + (y - x) * W
      BY WAssumption
    <2> QED
      BY <2>1, <2>2, WAssumption
  <1> QED
    BY <1>1, <1>2, WAssumption

(* The byte and the bit determine the position.                            *)
LEMMA ByteUnique ==
    ASSUME NEW b \in Nat, NEW i \in 0 .. W - 1
    PROVE  b * W + i \in Nat /\ (b * W + i) \div W = b /\ (b * W + i) % W = i
  <1> DEFINE a == b * W + i
             q == a \div W
  <1>1. a \in Nat
    BY WAssumption
  <1>2. q \in Nat /\ a % W \in 0 .. W - 1 /\ a = q * W + (a % W)
    BY <1>1, ByteOf
  <1>3. (q < b => q * W + W <= b * W) /\ (b < q => b * W + W <= q * W)
    BY <1>2, ByteOrder
  <1>4. PICK r \in 0 .. W - 1 : a % W = r /\ b * W + i = q * W + r
    BY <1>2
  <1> HIDE DEF q, a
  <1> DEFINE bw == b * W
             qw == q * W
  <1>5. bw \in Nat /\ qw \in Nat /\ bw + i = qw + r
        /\ (q < b => qw + W <= bw) /\ (b < q => bw + W <= qw)
    BY <1>2, <1>3, <1>4, WAssumption
  <1> HIDE DEF bw, qw
  <1>6. ~(q < b) /\ ~(b < q)
    BY <1>5, WAssumption
  <1>7. q = b
    BY <1>2, <1>6
  <1>8. i = r
    BY <1>5, <1>7 DEF bw, qw
  <1> QED
    BY <1>1, <1>4, <1>7, <1>8 DEF q, a

-----------------------------------------------------------------------------
(* set_range                                                               *)

Bitmap(bits, size) == [bits |-> bits, size |-> size]

(* The bits are a function on D; those from a up to b become v.            *)
BitsOn(bits, D) == bits = [i \in D |-> bits[i]]
Filled(bits, D, a, b, v) == [i \in D |-> IF a <= i /\ i < b THEN v ELSE bits[i]]

(* A loop that sets bits.                                                  *)
LEMMA FillSets ==
    ASSUME NEW D, NEW bits, BitsOn(bits, D), NEW size, NEW a, NEW b, NEW v
    PROVE  /\ Fill(Bitmap(bits, size), a, b, v) = Bitmap(Filled(bits, D, a, b, v), size)
           /\ BitsOn(Filled(bits, D, a, b, v), D)
  <1>1. DOMAIN bits = D
    BY DEF BitsOn
  <1>2. Fill(Bitmap(bits, size), a, b, v) = Bitmap(Filled(bits, D, a, b, v), size)
    BY <1>1 DEF Fill, Bitmap, Filled
  <1>3. BitsOn(Filled(bits, D, a, b, v), D)
    BY DEF BitsOn, Filled
  <1> QED
    BY <1>2, <1>3

(* Single bits, whole bytes and single bits again are together the bits    *)
(* from start up to end, wherever the byte boundaries fall.                *)
LEMMA SetRangeFills ==
    ASSUME NEW D \in SUBSET Nat, NEW bits, BitsOn(bits, D), NEW size \in Nat,
           NEW start \in Nat, NEW end \in Nat, NEW v
    PROVE  set_range(Bitmap(bits, size), start, end, v) =
               IF start < end /\ start < size
               THEN Bitmap(Filled(bits, D, start, end, v), size)
               ELSE Bitmap(bits, size)
  <1> DEFINE sw == (start + W - 1) \div W
             ew == end \div W
             s  == sw * W
             e  == ew * W
  <1>1. /\ sw \in Nat /\ ew \in Nat /\ s \in Nat /\ e \in Nat
        /\ start <= s /\ e <= end /\ end < e + W
    <2>1. start + W - 1 \in Nat
      BY WAssumption
    <2>2. sw \in Nat /\ (start + W - 1) % W \in 0 .. W - 1
          /\ start + W - 1 = sw * W + ((start + W - 1) % W)
      BY <2>1, ByteOf
    <2>3. ew \in Nat /\ end % W \in 0 .. W - 1 /\ end = ew * W + (end % W)
      BY ByteOf
    <2>4. s \in Nat /\ e \in Nat
      BY <2>2, <2>3, WAssumption
    <2>5. PICK r \in 0 .. W - 1 : start + W - 1 = s + r
      BY <2>2
    <2>6. PICK t \in 0 .. W - 1 : end = e + t
      BY <2>3
    <2>7. sw \in Nat /\ ew \in Nat
      BY <2>2, <2>3
    <2> HIDE DEF s, e, sw, ew
    <2> QED
      BY <2>4, <2>5, <2>6, <2>7, WAssumption
  <1>2. (sw > ew => e + W <= s) /\ (sw <= ew => s <= e)
    BY <1>1, ByteOrder
  <1> DEFINE m == Bitmap(bits, size)
             lead == Fill(m, start, LeadIn(start, end), v)
             bytes == Fill(lead, s, e, v)
             whole == Fill(bytes, e, end, v)
  <1>3. set_range(m, start, end, v) =
            IF start >= end \/ start >= size THEN m ELSE IF sw > ew THEN lead ELSE whole
    BY DEF set_range, Bitmap
  <1>4. LeadIn(start, end) = IF s < end THEN s ELSE end
    BY DEF LeadIn
  <1> DEFINE B1 == Filled(bits, D, start, LeadIn(start, end), v)
             B2 == Filled(B1, D, s, e, v)
             B3 == Filled(B2, D, e, end, v)
             goal == Filled(bits, D, start, end, v)
  <1>5. lead = Bitmap(B1, size) /\ BitsOn(B1, D)
    BY FillSets
  <1>6. bytes = Bitmap(B2, size) /\ BitsOn(B2, D)
    BY <1>5, FillSets
  <1>7. whole = Bitmap(B3, size) /\ BitsOn(B3, D)
    BY <1>6, FillSets
  <1> HIDE DEF lead, bytes, whole, s, e, sw, ew
  <1>8. CASE start < end /\ start < size /\ sw > ew
    <2>1. LeadIn(start, end) = end
      BY <1>1, <1>2, <1>4, <1>8, WAssumption
    <2>2. B1 = goal
      BY <2>1
    <2> QED
      BY <1>3, <1>5, <1>8, <2>2
  <1>9. CASE start < end /\ start < size /\ ~(sw > ew)
    <2>1. s <= e /\ s <= end
      BY <1>1, <1>2, <1>9
    <2>2. ASSUME NEW i \in D PROVE B3[i] = goal[i]
      <3>1. LeadIn(start, end) \in Nat /\ LeadIn(start, end) = s
        BY <1>1, <1>4, <2>1
      <3> QED
        BY <1>1, <2>1, <3>1 DEF Filled
    <2>3. B3 = goal
      BY <2>2 DEF Filled
    <2> QED
      BY <1>3, <1>7, <1>9, <2>3
  <1>10. CASE ~(start < end /\ start < size)
    BY <1>3, <1>10
  <1> QED
    BY <1>1, <1>8, <1>9, <1>10

-----------------------------------------------------------------------------
(* find_range                                                              *)

ScanState == [count : Nat, start : Nat, found : Nat \cup {NotFound}]

RunIn(bits, i, value, length) == \A j \in i .. i + length - 1 : bits[j] = value

(* The loop variables after the first p bits: count and start describe the *)
(* run that ends at p, and what was found is a run.                        *)
Sound(s, p, bits, value, length) ==
    /\ s \in ScanState
    /\ s.found = NotFound =>
          /\ s.count <= p /\ s.count < length
          /\ RunIn(bits, p - s.count, value, s.count)
          /\ s.count > 0 => s.start = p - s.count
    /\ s.found # NotFound => s.found + length <= p /\ RunIn(bits, s.found, value, length)

(* No run was passed over, and count is the whole of the run that ends at  *)
(* p.                                                                      *)
Complete(s, p, bits, value, length) ==
    s.found = NotFound =>
        /\ \A i \in 0 .. p : RunIn(bits, i, value, p - i) => p - i <= s.count
        /\ \A i \in Nat : i + length <= p => ~RunIn(bits, i, value, length)

(* A byte with none of the bits looked for is recognised as a whole only   *)
(* when they are set ones, so that only then the search is complete.       *)
Right(s, p, bits, value, length) ==
    /\ Sound(s, p, bits, value, length)
    /\ value = TRUE => Complete(s, p, bits, value, length)

(* One bit of a mixed byte.                                                *)
LEMMA ScanBitRight ==
    ASSUME NEW s, NEW p \in Nat, NEW bits, NEW value, NEW length \in Nat \ {0},
           Right(s, p, bits, value, length)
    PROVE  /\ Right(ScanBit(s, bits[p], p, value, length), p + 1, bits, value, length)
  <1> DEFINE t == ScanBit(s, bits[p], p, value, length)
  <1>0. Sound(s, p, bits, value, length) /\ s \in ScanState
    BY DEF Right, Sound
  <1>1. CASE s.found # NotFound
    <2>1. t = s
      BY <1>1 DEF ScanBit
    <2>2. s.found \in Nat
      BY <1>0, <1>1 DEF ScanState
    <2> QED
      BY <1>0, <1>1, <2>1, <2>2 DEF Right, Sound, Complete
  <1>2. CASE s.found = NotFound /\ bits[p] # value
    <2>1. t = [s EXCEPT !.count = 0]
      BY <1>2 DEF ScanBit
    <2>2. t \in ScanState /\ t.found = NotFound /\ t.count = 0
      BY <1>0, <1>2, <2>1 DEF ScanState
    <2>3. Sound(t, p + 1, bits, value, length)
      BY <2>2 DEF Sound, RunIn
    <2>4. ASSUME value = TRUE PROVE Complete(t, p + 1, bits, value, length)
      <3>1. Complete(s, p, bits, value, length)
        BY <2>4 DEF Right
      <3>2. ASSUME NEW i \in 0 .. p + 1, RunIn(bits, i, value, p + 1 - i)
            PROVE  p + 1 - i <= 0
        BY <1>2, <3>2 DEF RunIn
      <3>3. ASSUME NEW i \in Nat, i + length <= p + 1, RunIn(bits, i, value, length)
            PROVE  FALSE
        <4>1. i + length # p + 1
          BY <1>2, <3>3 DEF RunIn
        <4>2. i + length <= p
          BY <3>3, <4>1
        <4> QED
          BY <1>2, <3>1, <3>3, <4>2 DEF Complete
      <3> QED
        BY <2>2, <3>2, <3>3 DEF Complete
    <2> HIDE DEF t
    <2> QED
      BY <2>3, <2>4 DEF Right, t
  <1>3. CASE s.found = NotFound /\ bits[p] = value
    <2> DEFINE start == IF s.count = 0 THEN p ELSE s.start
    <2>1. t = [count |-> s.count + 1, start |-> start,
               found |-> IF s.count + 1 = length THEN start ELSE NotFound]
      BY <1>3 DEF ScanBit
    <2>2. s.count \in Nat /\ s.count <= p /\ s.count < length
          /\ RunIn(bits, p - s.count, value, s.count)
      BY <1>0, <1>3 DEF Sound, ScanState
    <2>3. start = p - s.count /\ start \in Nat
      BY <1>0, <1>3, <2>2 DEF Sound, ScanState
    <2>4. RunIn(bits, start, value, s.count + 1)
      BY <1>3, <2>2, <2>3 DEF RunIn
    <2>5. t \in ScanState /\ t.count = s.count + 1 /\ t.start = start
      BY <2>1, <2>2, <2>3 DEF ScanState
    <2>6. t.found = IF s.count + 1 = length THEN start ELSE NotFound
      BY <2>1
    <2> HIDE DEF t, start
    <2>7. Sound(t, p + 1, bits, value, length)
      <3>1. CASE s.count + 1 = length
        <4>1. t.found = start /\ t.found # NotFound
          BY <2>3, <2>6, <3>1 DEF NotFound
        <4> QED
          BY <2>2, <2>3, <2>4, <2>5, <3>1, <4>1 DEF Sound
      <3>2. CASE s.count + 1 # length
        <4>1. t.found = NotFound
          BY <2>6, <3>2
        <4>2. (p + 1) - t.count = start /\ t.count <= p + 1 /\ t.count < length
          BY <2>2, <2>3, <2>5, <3>2
        <4>3. RunIn(bits, (p + 1) - t.count, value, t.count)
          BY <2>4, <2>5, <4>2
        <4>4. t.start = (p + 1) - t.count
          BY <2>5, <4>2
        <4> QED
          BY <2>5, <4>1, <4>2, <4>3, <4>4 DEF Sound
      <3> QED
        BY <3>1, <3>2
    <2>8. ASSUME value = TRUE PROVE Complete(t, p + 1, bits, value, length)
      <3> SUFFICES ASSUME t.found = NotFound
                   PROVE  /\ \A i \in 0 .. p + 1 : RunIn(bits, i, value, p + 1 - i)
                                                       => p + 1 - i <= t.count
                          /\ \A i \in Nat : i + length <= p + 1
                                                       => ~RunIn(bits, i, value, length)
        BY DEF Complete
      <3>1. Complete(s, p, bits, value, length)
        BY <2>8 DEF Right
      <3>2. ASSUME NEW i \in 0 .. p + 1, RunIn(bits, i, value, p + 1 - i)
            PROVE  p + 1 - i <= t.count
        <4>1. CASE i = p + 1
          BY <2>2, <2>5, <4>1
        <4>2. CASE i # p + 1
          <5>1. i \in 0 .. p /\ RunIn(bits, i, value, p - i)
            BY <3>2, <4>2 DEF RunIn
          <5>2. p - i <= s.count
            BY <1>3, <3>1, <5>1 DEF Complete
          <5> QED
            BY <2>2, <2>5, <5>1, <5>2
        <4> QED
          BY <4>1, <4>2
      <3>3. ASSUME NEW i \in Nat, i + length <= p + 1, RunIn(bits, i, value, length)
            PROVE  FALSE
        <4>1. CASE i + length = p + 1
          <5>1. i \in 0 .. p + 1 /\ p + 1 - i = length
            BY <4>1
          <5>2. length <= t.count
            BY <3>2, <3>3, <5>1
          <5>3. t.count < length
            BY <2>7 DEF Sound
          <5> QED
            BY <2>2, <2>5, <5>2, <5>3
        <4>2. CASE i + length # p + 1
          <5>1. i + length <= p
            BY <3>3, <4>2
          <5> QED
            BY <1>3, <3>1, <3>3, <5>1 DEF Complete
        <4> QED
          BY <4>1, <4>2
      <3> QED
        BY <3>2, <3>3
    <2> QED
      BY <2>7, <2>8 DEF Right, t
  <1> QED
    BY <1>1, <1>2, <1>3

(* A byte all of whose bits match.                                         *)
LEMMA ScanUniformRight ==
    ASSUME NEW s, NEW p \in Nat, NEW bits, NEW value, NEW length \in Nat \ {0},
           Right(s, p, bits, value, length), s.found = NotFound, RunIn(bits, p, value, W)
    PROVE  Right(ScanUniform(s, p, length), p + W, bits, value, length)
  <1> USE WAssumption
  <1> DEFINE t == ScanUniform(s, p, length)
             start == IF s.count = 0 THEN p ELSE s.start
  <1>1. t = [count |-> s.count + W, start |-> start,
             found |-> IF length < W THEN p
                       ELSE IF s.count + W >= length THEN start ELSE NotFound]
    BY DEF ScanUniform
  <1>2. s \in ScanState /\ s.count \in Nat /\ s.count <= p /\ s.count < length
        /\ RunIn(bits, p - s.count, value, s.count)
    BY DEF Right, Sound, ScanState
  <1>3. start = p - s.count /\ start \in Nat
    BY <1>2 DEF Right, Sound, ScanState
  <1>4. RunIn(bits, start, value, s.count + W)
    BY <1>2, <1>3 DEF RunIn
  <1>5. t \in ScanState /\ t.count = s.count + W /\ t.start = start
    BY <1>1, <1>2, <1>3 DEF ScanState
  <1>6. t.found = IF length < W THEN p
                  ELSE IF s.count + W >= length THEN start ELSE NotFound
    BY <1>1
  <1> HIDE DEF t, start
  <1>7. Sound(t, p + W, bits, value, length)
    <2>1. CASE length < W
      <3>1. t.found = p /\ t.found # NotFound
        BY <1>6, <2>1 DEF NotFound
      <3>2. RunIn(bits, p, value, length)
        BY <2>1 DEF RunIn
      <3> QED
        BY <1>5, <2>1, <3>1, <3>2 DEF Sound
    <2>2. CASE ~(length < W) /\ s.count + W >= length
      <3>1. t.found = start /\ t.found # NotFound
        BY <1>3, <1>6, <2>2 DEF NotFound
      <3>2. RunIn(bits, start, value, length)
        BY <1>2, <1>3, <1>4, <2>2 DEF RunIn
      <3>3. start + length <= p + W
        BY <1>2, <1>3, <2>2
      <3> QED
        BY <1>5, <3>1, <3>2, <3>3 DEF Sound
    <2>3. CASE ~(length < W) /\ ~(s.count + W >= length)
      <3>1. t.found = NotFound
        BY <1>6, <2>3
      <3>2. (p + W) - t.count = start /\ t.count <= p + W /\ t.count < length
        BY <1>2, <1>3, <1>5, <2>3
      <3>3. RunIn(bits, (p + W) - t.count, value, t.count)
        BY <1>4, <1>5, <3>2
      <3>4. t.start = (p + W) - t.count
        BY <1>5, <3>2
      <3> QED
        BY <1>5, <3>1, <3>2, <3>3, <3>4 DEF Sound
    <2> QED
      BY <2>1, <2>2, <2>3
  <1>8. ASSUME value = TRUE PROVE Complete(t, p + W, bits, value, length)
    <2> SUFFICES ASSUME t.found = NotFound
                 PROVE  /\ \A i \in 0 .. p + W : RunIn(bits, i, value, p + W - i)
                                                     => p + W - i <= t.count
                        /\ \A i \in Nat : i + length <= p + W
                                                     => ~RunIn(bits, i, value, length)
      BY DEF Complete
    <2>1. Complete(s, p, bits, value, length)
      BY <1>8 DEF Right
    <2>2. length >= W /\ s.count + W < length
      BY <1>2, <1>3, <1>6 DEF NotFound
    <2>3. ASSUME NEW i \in 0 .. p, NEW n \in Nat, i + n >= p, RunIn(bits, i, value, n)
          PROVE  p - i <= s.count
      <3>1. RunIn(bits, i, value, p - i)
        BY <2>3 DEF RunIn
      <3> QED
        BY <2>1, <3>1 DEF Complete
    <2>4. ASSUME NEW i \in 0 .. p + W, RunIn(bits, i, value, p + W - i)
          PROVE  p + W - i <= t.count
      <3>1. CASE i <= p
        <4>1. i \in 0 .. p /\ p + W - i \in Nat /\ i + (p + W - i) >= p
          BY <3>1
        <4>2. p - i <= s.count
          BY <2>3, <2>4, <4>1
        <4> QED
          BY <1>2, <1>5, <4>2
      <3>2. CASE ~(i <= p)
        BY <1>2, <1>5, <3>2
      <3> QED
        BY <3>1, <3>2
    <2>5. ASSUME NEW i \in Nat, i + length <= p + W, RunIn(bits, i, value, length)
          PROVE  FALSE
      <3>1. CASE i + length <= p
        BY <2>1, <2>5, <3>1 DEF Complete
      <3>2. CASE ~(i + length <= p)
        <4>1. i \in 0 .. p /\ i + length >= p
          BY <2>2, <2>5, <3>2
        <4>2. p - i <= s.count
          BY <2>3, <2>5, <4>1
        <4> QED
          BY <1>2, <2>2, <2>5, <4>2
      <3> QED
        BY <3>1, <3>2
    <2> QED
      BY <2>4, <2>5
  <1> QED
    BY <1>7, <1>8 DEF Right, t

(* A byte without a matching bit, as far as the code notices.              *)
LEMMA ScanMismatchRight ==
    ASSUME NEW s, NEW p \in Nat, NEW bits, NEW value \in BOOLEAN, NEW length \in Nat \ {0},
           Right(s, p, bits, value, length), s.found = NotFound,
           value = TRUE => \A j \in p .. p + W - 1 : bits[j] # value
    PROVE  Right([s EXCEPT !.count = 0], p + W, bits, value, length)
  <1> USE WAssumption
  <1> DEFINE t == [s EXCEPT !.count = 0]
  <1>1. t \in ScanState /\ t.found = NotFound /\ t.count = 0
    BY DEF Right, Sound, ScanState
  <1> HIDE DEF t
  <1>2. Sound(t, p + W, bits, value, length)
    BY <1>1 DEF Sound, RunIn
  <1>3. ASSUME value = TRUE PROVE Complete(t, p + W, bits, value, length)
    <2>1. Complete(s, p, bits, value, length)
      BY <1>3 DEF Right
    <2>0. p + W - 1 \in p .. p + W - 1
      OBVIOUS
    <2>2. bits[p + W - 1] # value
      BY <1>3, <2>0
    <2>3. ASSUME NEW i \in 0 .. p + W, RunIn(bits, i, value, p + W - i)
          PROVE  p + W - i <= 0
      BY <2>2, <2>3 DEF RunIn
    <2>4. ASSUME NEW i \in Nat, i + length <= p + W, RunIn(bits, i, value, length)
          PROVE  FALSE
      <3>1. CASE i + length <= p
        BY <2>1, <2>4, <3>1 DEF Complete
      <3>2. CASE ~(i + length <= p)
        <4>1. i + length - 1 \in p .. p + W - 1 /\ i + length - 1 \in i .. i + length - 1
          BY <2>4, <3>2
        <4> QED
          BY <1>3, <2>4, <4>1 DEF RunIn
      <3> QED
        BY <3>1, <3>2
    <2> QED
      BY <1>1, <2>3, <2>4 DEF Complete
  <1> QED
    BY <1>2, <1>3 DEF Right, t

(* One bit leaves the loop variables of their types.                       *)
LEMMA ScanBitType ==
    ASSUME NEW t \in ScanState, NEW bit, NEW i \in Nat, NEW value, NEW length
    PROVE  ScanBit(t, bit, i, value, length) \in ScanState
  BY DEF ScanBit, ScanState

(* The values of the loop over the bits of a mixed byte after each bit.    *)
BitsLoop(after, s, byte, p, value, length) ==
    /\ after[0] = s
    /\ \A k \in 0 .. W - 1 : after[k + 1] = ScanBit(after[k], byte[k], p + k, value, length)
    /\ ScanBits(s, byte, p, value, length) = after[W]

(* The loop has them, and they are of their types.                         *)
LEMMA ScanBitsLoop ==
    ASSUME NEW s \in ScanState, NEW p \in Nat, NEW byte, NEW value, NEW length
    PROVE  \E after \in [0 .. W -> ScanState] : BitsLoop(after, s, byte, p, value, length)
  <1> USE WAssumption
  <1> DEFINE Round(t, k) == ScanBit(t, byte[k - 1], p + k - 1, value, length)
             F(g) == [k \in 0 .. W |-> IF k = 0 THEN s ELSE Round(g[k - 1], k)]
             after == CHOOSE g : g = F(g)
             step == [k \in 1 .. W |-> [t \in ScanState |-> Round(t, k)]]
  <1>1. ScanBits(s, byte, p, value, length) = after[W]
    BY DEF ScanBits
  <1>2. s \in ScanState /\ W \in Nat
    OBVIOUS
  <1>3. \A k \in 1 .. W : \A t \in ScanState :
            step[k][t] = Round(t, k) /\ step[k][t] \in ScanState
    <2> SUFFICES ASSUME NEW k \in 1 .. W, NEW t \in ScanState
                 PROVE  Round(t, k) \in ScanState
      BY Zenon
    <2>1. p + k - 1 \in Nat
      OBVIOUS
    <2> QED
      BY <2>1, ScanBitType
  <1> HIDE DEF Round, step
  <1>4. \E g : g = F(g)
    <2>1. StaysIn(ScanState, W, step)
      BY <1>3 DEF StaysIn
    <2>2. PICK g \in [0 .. W -> ScanState] : Rounds(g, W, s, step)
      <3> HIDE DEF F, after
      <3> QED
        BY <1>2, <2>1, LoopExists, Zenon
    <2>3. ASSUME NEW k \in 0 .. W PROVE g[k] = F(g)[k]
      <3>1. CASE k = 0
        BY <2>2, <3>1 DEF Rounds
      <3>2. CASE k # 0
        <4>1. k \in 1 .. W /\ k - 1 \in 0 .. W
          BY <3>2
        <4>2. step[k][g[k - 1]] = Round(g[k - 1], k)
          BY <1>3, <4>1
        <4> QED
          BY <2>2, <3>2, <4>1, <4>2 DEF Rounds
      <3> QED
        BY <3>1, <3>2
    <2> QED
      BY <2>3
  <1>5. after = F(after)
    BY <1>4
  <1> HIDE DEF after
  <1>6. after[0] = s
    BY <1>5
  <1>7. ASSUME NEW k \in 0 .. W - 1
        PROVE  after[k + 1] = ScanBit(after[k], byte[k], p + k, value, length)
    <2>1. k + 1 \in 0 .. W /\ k + 1 # 0 /\ (k + 1) - 1 = k /\ p + (k + 1) - 1 = p + k
      OBVIOUS
    <2>2. after[k + 1] = Round(after[k], k + 1)
      BY <1>5, <2>1
    <2> QED
      BY <2>1, <2>2 DEF Round
  <1>8. after \in [0 .. W -> ScanState]
    <2> DEFINE T == {k \in 0 .. W : after[k] \in ScanState}
    <2>1. 0 \in T
      BY <1>6
    <2>2. ASSUME NEW k \in 0 .. W - 1, k \in T PROVE k + 1 \in T
      <3>1. after[k] \in ScanState /\ p + k \in Nat
        BY <2>2
      <3> QED
        BY <1>7, <3>1, ScanBitType
    <2>3. 0 .. W \subseteq T
      <3> HIDE DEF T
      <3> QED
        BY <1>2, <2>1, <2>2, IntervalInduct
    <2>4. \A k \in 0 .. W : after[k] \in ScanState
      BY <2>3
    <2>5. after = [k \in 0 .. W |-> after[k]]
      BY <1>5
    <2> HIDE DEF T, F
    <2> QED
      BY <2>4, <2>5
  <1>9. BitsLoop(after, s, byte, p, value, length)
    BY <1>1, <1>6, <1>7 DEF BitsLoop
  <1> QED
    BY <1>8, <1>9

(* The bits of a mixed byte one by one.                                    *)
LEMMA ScanBitsRight ==
    ASSUME NEW s, NEW p \in Nat, NEW bits, NEW value, NEW length \in Nat \ {0},
           Right(s, p, bits, value, length),
           NEW byte, byte = [i \in 0 .. W - 1 |-> bits[p + i]]
    PROVE  Right(ScanBits(s, byte, p, value, length), p + W, bits, value, length)
  <1> USE WAssumption
  <1>1. s \in ScanState /\ W \in Nat
    BY DEF Right, Sound
  <1>2. PICK after \in [0 .. W -> ScanState] : BitsLoop(after, s, byte, p, value, length)
    BY <1>1, ScanBitsLoop, Zenon
  <1> DEFINE T == {k \in 0 .. W : Right(after[k], p + k, bits, value, length)}
  <1>3. 0 \in T
    BY <1>2 DEF BitsLoop
  <1>4. ASSUME NEW k \in 0 .. W - 1, k \in T PROVE k + 1 \in T
    <2>1. p + k \in Nat /\ Right(after[k], p + k, bits, value, length)
      BY <1>4
    <2>2. Right(ScanBit(after[k], bits[p + k], p + k, value, length), (p + k) + 1,
                bits, value, length)
      BY <2>1, ScanBitRight
    <2>3. byte[k] = bits[p + k] /\ (p + k) + 1 = p + (k + 1) /\ k + 1 \in 0 .. W
      OBVIOUS
    <2>4. Right(after[k + 1], p + (k + 1), bits, value, length)
      BY <1>2, <2>2, <2>3 DEF BitsLoop
    <2> QED
      BY <2>3, <2>4
  <1>5. 0 .. W \subseteq T
    <2> HIDE DEF T
    <2> QED
      BY <1>1, <1>3, <1>4, IntervalInduct
  <1>6. W \in T
    BY <1>5
  <1> QED
    BY <1>2, <1>6 DEF BitsLoop

(* One byte keeps the loop variables of their types.                       *)
LEMMA ScanByteType ==
    ASSUME NEW s \in ScanState, NEW byte, NEW p \in Nat, NEW value, NEW length
    PROVE  ScanByte(s, byte, p, value, length) \in ScanState
  <1>1. [s EXCEPT !.count = 0] \in ScanState
    BY DEF ScanState
  <1>2. ScanUniform(s, p, length) \in ScanState
    BY WAssumption DEF ScanUniform, ScanState
  <1>3. ScanBits(s, byte, p, value, length) \in ScanState
    <2>1. PICK after \in [0 .. W -> ScanState] : BitsLoop(after, s, byte, p, value, length)
      BY ScanBitsLoop, Zenon
    <2>2. W \in 0 .. W
      BY WAssumption
    <2> QED
      BY <2>1, <2>2 DEF BitsLoop
  <1> QED
    BY <1>1, <1>2, <1>3 DEF ScanByte

(* One byte, whichever way the code treats it.                             *)
LEMMA ScanByteRight ==
    ASSUME NEW s, NEW p \in Nat, NEW bits, NEW value \in BOOLEAN, NEW length \in Nat \ {0},
           Right(s, p, bits, value, length),
           NEW byte, byte = [i \in 0 .. W - 1 |-> bits[p + i]]
    PROVE  Right(ScanByte(s, byte, p, value, length), p + W, bits, value, length)
  <1> USE WAssumption
  <1> DEFINE t == ScanByte(s, byte, p, value, length)
  <1>0. \A j \in p .. p + W - 1 : j - p \in 0 .. W - 1 /\ bits[j] = byte[j - p]
    OBVIOUS
  <1>1. CASE s.found # NotFound
    <2>1. t = s
      BY <1>1 DEF ScanByte
    <2>2. s.found \in Nat
      BY <1>1 DEF Right, Sound, ScanState
    <2> QED
      BY <1>1, <2>1, <2>2 DEF Right, Sound, Complete
  <1>2. CASE s.found = NotFound /\ byte = Mismatch(value)
    <2>1. t = [s EXCEPT !.count = 0]
      BY <1>2 DEF ScanByte
    <2>2. ASSUME value = TRUE, NEW j \in p .. p + W - 1 PROVE bits[j] # value
      <3>1. byte[j - p] = FALSE
        BY <1>0, <1>2, <2>2 DEF Mismatch
      <3> QED
        BY <1>0, <2>2, <3>1
    <2>3. value = TRUE => \A j \in p .. p + W - 1 : bits[j] # value
      BY <2>2
    <2>4. Right([s EXCEPT !.count = 0], p + W, bits, value, length)
      BY <1>2, <2>3, ScanMismatchRight, Zenon
    <2> QED
      BY <2>1, <2>4
  <1>3. CASE s.found = NotFound /\ byte # Mismatch(value) /\ byte = Uniform(value)
    <2>1. t = ScanUniform(s, p, length)
      BY <1>3 DEF ScanByte
    <2>2. RunIn(bits, p, value, W)
      BY <1>0, <1>3 DEF RunIn, Uniform
    <2> QED
      BY <1>3, <2>1, <2>2, ScanUniformRight
  <1>4. CASE s.found = NotFound /\ byte # Mismatch(value) /\ byte # Uniform(value)
    <2>1. t = ScanBits(s, byte, p, value, length)
      BY <1>4 DEF ScanByte
    <2> HIDE DEF t
    <2> QED
      BY <1>4, <2>1, ScanBitsRight DEF t
  <1> QED
    BY <1>1, <1>2, <1>3, <1>4

(* The loop over the bytes: what find_range returns belongs to loop        *)
(* variables that are right for the whole part searched.                   *)
LEMMA FindRangeRight ==
    ASSUME NEW m, m.size \in Nat, NEW value \in BOOLEAN, NEW length \in Nat \ {0}
    PROVE  \E s : /\ Right(s, (m.size \div W) * W, m.bits, value, length)
                  /\ find_range(m, value, length) = s.found
  <1> DEFINE N == m.size \div W
             fresh == [count |-> 0, start |-> 0, found |-> NotFound]
             Round(t, b) == ScanByte(t, Byte(m, b - 1), (b - 1) * W, value, length)
             F(g) == [b \in 0 .. N |-> IF b = 0 THEN fresh ELSE Round(g[b - 1], b)]
             after == CHOOSE g : g = F(g)
             step == [b \in 1 .. N |-> [t \in ScanState |-> Round(t, b)]]
  <1>1. find_range(m, value, length) = after[N].found
    BY DEF find_range
  <1>2. N \in Nat
    BY WAssumption
  <1>3. fresh \in ScanState
    BY DEF ScanState
  <1> HIDE DEF N
  <1>4. \A b \in 1 .. N : \A t \in ScanState :
            step[b][t] = Round(t, b) /\ step[b][t] \in ScanState
    <2> SUFFICES ASSUME NEW b \in 1 .. N, NEW t \in ScanState
                 PROVE  Round(t, b) \in ScanState
      BY Zenon
    <2>1. (b - 1) * W \in Nat
      BY WAssumption
    <2> QED
      BY <2>1, ScanByteType
  <1> HIDE DEF Round, step, fresh
  <1>5. \E g : g = F(g)
    <2>1. StaysIn(ScanState, N, step)
      BY <1>4 DEF StaysIn
    <2>2. PICK g \in [0 .. N -> ScanState] : Rounds(g, N, fresh, step)
      <3> HIDE DEF F, after
      <3> QED
        BY <1>2, <1>3, <2>1, LoopExists, Zenon
    <2>3. ASSUME NEW b \in 0 .. N PROVE g[b] = F(g)[b]
      <3>1. CASE b = 0
        BY <1>2, <2>2, <3>1 DEF Rounds
      <3>2. CASE b # 0
        <4>1. b \in 1 .. N /\ b - 1 \in 0 .. N
          BY <1>2, <3>2
        <4>2. step[b][g[b - 1]] = Round(g[b - 1], b)
          BY <1>4, <4>1
        <4> QED
          BY <2>2, <3>2, <4>1, <4>2 DEF Rounds
      <3> QED
        BY <3>1, <3>2
    <2> QED
      BY <2>3
  <1>6. after = F(after)
    BY <1>5
  <1> HIDE DEF after
  <1>7. after[0] = fresh
    BY <1>2, <1>6
  <1>8. ASSUME NEW b \in 0 .. N - 1
        PROVE  after[b + 1] = ScanByte(after[b], Byte(m, b), b * W, value, length)
    <2>1. b + 1 \in 0 .. N /\ b + 1 # 0 /\ (b + 1) - 1 = b
      BY <1>2
    <2>2. after[b + 1] = Round(after[b], b + 1)
      BY <1>6, <2>1
    <2> QED
      BY <2>1, <2>2 DEF Round
  <1> DEFINE T == {b \in 0 .. N : Right(after[b], b * W, m.bits, value, length)}
  <1>9. 0 \in T
    <2>1. 0 * W = 0 /\ 0 \in 0 .. N
      BY <1>2, WAssumption
    <2>2. fresh.found = NotFound /\ fresh.count = 0
      BY DEF fresh
    <2>3. Sound(fresh, 0, m.bits, value, length)
      BY <1>3, <2>2 DEF Sound, RunIn
    <2>4. Complete(fresh, 0, m.bits, value, length)
      BY <2>2 DEF Complete
    <2>5. Right(fresh, 0, m.bits, value, length)
      BY <2>3, <2>4 DEF Right
    <2> QED
      BY <1>7, <2>1, <2>5
  <1>10. ASSUME NEW b \in 0 .. N - 1, b \in T PROVE b + 1 \in T
    <2>1. Right(after[b], b * W, m.bits, value, length) /\ b + 1 \in 0 .. N
      BY <1>2, <1>10
    <2>2. b \in Nat /\ b * W \in Nat /\ (b + 1) * W = b * W + W
      BY ByteOrder
    <2>3. Byte(m, b) = [i \in 0 .. W - 1 |-> m.bits[b * W + i]]
      BY DEF Byte
    <2>4. Right(ScanByte(after[b], Byte(m, b), b * W, value, length), b * W + W,
                m.bits, value, length)
      BY <2>1, <2>2, <2>3, ScanByteRight, Zenon
    <2>5. Right(after[b + 1], (b + 1) * W, m.bits, value, length)
      BY <1>8, <2>2, <2>4, Zenon
    <2> QED
      BY <2>1, <2>5
  <1>11. 0 .. N \subseteq T
    <2> HIDE DEF T
    <2> QED
      BY <1>2, <1>9, <1>10, IntervalInduct
  <1>12. Right(after[N], N * W, m.bits, value, length)
    BY <1>2, <1>11
  <1> QED
    BY <1>1, <1>12 DEF N

(* For every bitmap and every length: find_range returns only real runs of *)
(* the value asked for within the part searched, and finds a run of set    *)
(* bits if there is one.                                                   *)
THEOREM FindRangeFindsRuns ==
    ASSUME NEW m, m.size \in Nat, NEW length \in Nat \ {0}
    PROVE  FindsRuns(m, length)
  <1> DEFINE end == (m.size \div W) * W
  <1>1. end \in Nat
    BY WAssumption
  <1>2. ASSUME NEW v \in BOOLEAN, find_range(m, v, length) # NotFound
        PROVE  RunAt(m, find_range(m, v, length), v, length)
    <2>1. PICK s : Right(s, end, m.bits, v, length) /\ find_range(m, v, length) = s.found
      BY FindRangeRight
    <2> HIDE DEF end
    <2>2. s.found + length <= end /\ RunIn(m.bits, s.found, v, length)
      BY <1>2, <2>1 DEF Right, Sound
    <2> QED
      BY <2>1, <2>2 DEF RunAt, RunIn, end
  <1>3. ASSUME find_range(m, TRUE, length) = NotFound, NEW i \in 0 .. end - 1,
               RunAt(m, i, TRUE, length)
        PROVE  FALSE
    <2>1. PICK s : Right(s, end, m.bits, TRUE, length)
                   /\ find_range(m, TRUE, length) = s.found
      BY FindRangeRight
    <2>2. i + length <= end /\ RunIn(m.bits, i, TRUE, length)
      BY <1>3 DEF RunAt, RunIn
    <2> HIDE DEF end
    <2>3. i \in Nat
      BY <1>1
    <2>4. Complete(s, end, m.bits, TRUE, length)
      BY <2>1, Zenon DEF Right
    <2> QED
      BY <1>3, <2>1, <2>2, <2>3, <2>4 DEF Complete
  <1> QED
    BY <1>2, <1>3 DEF FindsRuns

(* For every bitmap: set_range changes exactly the bits from start up to   *)
(* end, wherever the byte boundaries fall.                                 *)
THEOREM SetRangeSetsExactly ==
    ASSUME NEW m, NEW D \in SUBSET Nat, NEW size \in Nat, NEW bits,
           BitsOn(bits, D), m = Bitmap(bits, size),
           NEW start \in Nat, NEW end \in Nat, NEW v
    PROVE  SetsExactly(m, start, end, v)
  <1>1. m.bits = bits /\ m.size = size /\ DOMAIN m.bits = D
    BY DEF Bitmap, BitsOn
  <1> DEFINE new == Filled(bits, D, start, end, v)
  <1>3. set_range(Bitmap(bits, size), start, end, v) =
               IF start < end /\ start < size THEN Bitmap(new, size) ELSE Bitmap(bits, size)
    BY SetRangeFills
  <1>4. CASE start < end /\ start < size
    <2> HIDE DEF new
    <2>1. set_range(m, start, end, v) = Bitmap(new, size)
      BY <1>3, <1>4
    <2>2. Bitmap(new, size).bits = new
      BY DEF Bitmap
    <2>3. set_range(m, start, end, v).bits = new
      BY <2>1, <2>2, Zenon
    <2> QED
      BY <1>1, <2>3 DEF SetsExactly, new, Filled
  <1>5. CASE ~(start < end) /\ start < size
    <2>1. set_range(m, start, end, v).bits = bits
      BY <1>3, <1>5 DEF Bitmap
    <2>2. [i \in D |-> IF start <= i /\ i < end THEN v ELSE bits[i]] = bits
      BY <1>5 DEF BitsOn
    <2> QED
      BY <1>1, <2>1, <2>2 DEF SetsExactly
  <1>6. CASE ~(start < size)
    BY <1>1, <1>6 DEF SetsExactly
  <1> QED
    BY <1>4, <1>5, <1>6

-----------------------------------------------------------------------------
(* The invariant of the allocator                                          *)

Searched == (BitmapSize \div W) * W

(* The frames that may be handed out.                                      *)
Frame == (0 .. Searched - 1) \ Reserved

(* The bitmap keeps its size and its domain.                               *)
Shape(m) == m = Bitmap(m.bits, BitmapSize) /\ BitsOn(m.bits, 0 .. Frames - 1)

Busy(c) == pc[c] \in {"load", "store"}
Freeing(c) == Busy(c) /\ loc[c].value
Taking(c) == Busy(c) /\ ~loc[c].value
One(f) == [first |-> f, count |-> 1]

Place == {"out", "scan", "load", "store"}
Locals == [range : [first : Nat, count : {0, 1}], value : BOOLEAN, b : Nat,
           byte : [0 .. W - 1 -> BOOLEAN]]

TypesOK ==
    /\ bitmap \in [bits : [0 .. Frames - 1 -> BOOLEAN], size : {BitmapSize}]
    /\ pc \in [CPU -> Place]
    /\ loc \in [CPU -> Locals]
    /\ clashes \in Nat

(* A call starts with cleared locals and stays within the bytes searched;  *)
(* when it changes the bitmap it is about one frame.                       *)
Calls ==
    \A c \in CPU :
        /\ pc[c] = "out" => loc[c] = NoCall
        /\ pc[c] = "scan" => loc[c].b <= BitmapSize \div W
        /\ Busy(c) => \E f \in Frame : loc[c].range = One(f) /\ loc[c].b = f \div W

(* Only single frames that may be handed out are held.                     *)
HeldFrames ==
    /\ \A r \in BagToSet(held) : \E f \in Frame : r = One(f)
    /\ \A r \in BagToSet(held) : held[r] \in Nat \ {0}

(* No reserved frame is marked, neither in the bitmap nor in a byte that   *)
(* has been loaded.                                                        *)
Marks ==
    /\ \A f \in 0 .. Searched - 1 : bitmap.bits[f] => f \notin Reserved
    /\ \A c \in CPU : pc[c] = "store" =>
          \A i \in 0 .. W - 1 : loc[c].byte[i] => loc[c].b * W + i \notin Reserved

(* As long as nobody clashed, a byte that has been loaded is still the     *)
(* one in the bitmap,                                                      *)
Fresh == \A c \in CPU : pc[c] = "store" => loc[c].byte = Byte(bitmap, loc[c].b)

(* and a frame is in one place: held once, being freed by one CPU (and in  *)
(* both cases not marked), or marked, perhaps about to be taken.           *)
OnePlace ==
    /\ \A r \in BagToSet(held) : held[r] = 1 /\ ~bitmap.bits[r.first]
    /\ \A c \in CPU : Freeing(c) =>
          /\ ~bitmap.bits[loc[c].range.first]
          /\ loc[c].range \notin BagToSet(held)
          /\ \A x \in CPU \ {c} : Freeing(x) => loc[x].range # loc[c].range
    /\ \A c \in CPU : Taking(c) => bitmap.bits[loc[c].range.first]
    /\ \A f \in Frame :
          \/ bitmap.bits[f]
          \/ One(f) \in BagToSet(held)
          \/ \E c \in CPU : Freeing(c) /\ loc[c].range = One(f)

AllocInv ==
    /\ TypesOK /\ Calls /\ HeldFrames /\ Marks
    /\ clashes = 0 => Fresh /\ OnePlace

-----------------------------------------------------------------------------
(* The bitmap that frame::init makes                                       *)

(* The usable regions are a sequence.                                      *)
LEMMA RegionType ==
    /\ Len(Regions) \in Nat /\ DOMAIN Regions = 1 .. Len(Regions)
    /\ \A i \in DOMAIN Regions :
          Regions[i].base \in Nat \ {0} /\ Regions[i].length \in Nat
  <1> DEFINE S == [base : Nat \ {0}, length : Nat]
  <1>1. Regions \in Seq(S)
    BY RegionsAssumption
  <1> HIDE DEF S
  <1>2. Len(Regions) \in Nat /\ DOMAIN Regions = 1 .. Len(Regions)
        /\ \A i \in DOMAIN Regions : Regions[i] \in S
    BY <1>1
  <1> QED
    BY <1>2 DEF S

(* The bitmap covers no more frames than there are.                        *)
LEMMA Sizes ==
    /\ Frames \in Nat \ {0} /\ BitmapSize \in Nat \ {0} /\ BitmapSize <= Frames
    /\ BitmapSize \div W \in Nat /\ Searched \in Nat /\ Searched <= BitmapSize
  <1>1. Frames \in Nat \ {0}
    <2>1. PICK i \in DOMAIN Regions : Regions[i].base + Regions[i].length = Frames
      BY RegionsAssumption
    <2> QED
      BY <2>1, RegionType
  <1> DEFINE a == Frames + W - 1
             q == BitmapSize
  <1>2. a \in Nat
    BY <1>1, WAssumption
  <1>3. q = a \div W
    BY DEF BitmapSize
  <1>4. q \in Nat /\ a % W \in 0 .. W - 1 /\ a = q * W + (a % W)
    BY <1>2, <1>3, ByteOf
  <1>5. Searched \in Nat /\ Searched <= q /\ q \div W \in Nat
    <2>1. q \div W \in Nat /\ q % W \in 0 .. W - 1 /\ q = (q \div W) * W + (q % W)
      BY <1>4, ByteOf
    <2>2. PICK r \in Nat : q = Searched + r
      BY <2>1 DEF Searched
    <2>3. Searched \in Nat
      BY <2>1, WAssumption DEF Searched
    <2> QED
      BY <1>4, <2>1, <2>2, <2>3
  <1>6. PICK r \in 0 .. W - 1 : Frames + W - 1 = q * W + r
    BY <1>4
  <1>7. q # 0
    BY <1>1, <1>6, WAssumption
  <1>8. q <= Frames
    <2>1. W - 1 \in Nat /\ q - 1 \in Nat
      BY <1>4, <1>7, WAssumption
    <2>2. (q - 1) * (W - 1) >= 0
      BY <2>1
    <2>3. (q - 1) * (W - 1) = q * W - q - W + 1
      BY <1>4, WAssumption
    <2> DEFINE qw == q * W
    <2>4. qw \in Nat /\ Frames + W - 1 = qw + r /\ qw - q - W + 1 >= 0
      BY <1>4, <1>6, <2>2, <2>3, WAssumption
    <2> HIDE DEF qw, q
    <2> QED
      BY <1>1, <1>4, <2>4, WAssumption
  <1> QED
    BY <1>1, <1>4, <1>5, <1>7, <1>8

(* set_range on the allocator's bitmap.                                    *)
LEMMA SetRangeHere ==
    ASSUME NEW bits, BitsOn(bits, 0 .. Frames - 1), NEW start \in Nat, NEW end \in Nat, NEW v
    PROVE  set_range(Bitmap(bits, BitmapSize), start, end, v) =
               IF start < end /\ start < BitmapSize
               THEN Bitmap(Filled(bits, 0 .. Frames - 1, start, end, v), BitmapSize)
               ELSE Bitmap(bits, BitmapSize)
  <1>1. PICK size \in Nat : size = BitmapSize
    BY Sizes
  <1>2. PICK D \in SUBSET Nat : D = 0 .. Frames - 1
    BY Sizes
  <1>3. BitsOn(bits, D)
    BY <1>2
  <1>4. set_range(Bitmap(bits, size), start, end, v) =
               IF start < end /\ start < size
               THEN Bitmap(Filled(bits, D, start, end, v), size) ELSE Bitmap(bits, size)
    BY <1>3, SetRangeFills
  <1> QED
    BY <1>1, <1>2, <1>4, Zenon

(* The bits set by the first k regions: a region that starts beyond the    *)
(* bitmap's size is skipped.                                               *)
Covers(j, i) ==
    /\ Regions[j].base <= i /\ i < Regions[j].base + Regions[j].length
    /\ Regions[j].base < BitmapSize
MarkedBy(k) == [i \in 0 .. Frames - 1 |-> \E j \in 1 .. k : Covers(j, i)]

(* One more region.                                                        *)
LEMMA MarkOne ==
    ASSUME NEW k \in 0 .. Len(Regions) - 1
    PROVE  set_range(Bitmap(MarkedBy(k), BitmapSize), Regions[k + 1].base,
                     Regions[k + 1].base + Regions[k + 1].length, TRUE)
               = Bitmap(MarkedBy(k + 1), BitmapSize)
  <1> DEFINE D == 0 .. Frames - 1
             r == Regions[k + 1]
             old == MarkedBy(k)
             new == Filled(old, D, r.base, r.base + r.length, TRUE)
  <1>1. r.base \in Nat /\ r.length \in Nat /\ r.base + r.length \in Nat
    <2>1. k + 1 \in DOMAIN Regions
      BY RegionType
    <2> QED
      BY <2>1, RegionType
  <1>2. Frames \in Nat /\ D \in SUBSET Nat /\ BitmapSize \in Nat
    BY Sizes
  <1>3. BitsOn(old, D)
    BY DEF MarkedBy, BitsOn
  <1>4. k \in Nat /\ 1 .. k + 1 = (1 .. k) \cup {k + 1}
    BY RegionType
  <1>5. ASSUME NEW i \in D
        PROVE  MarkedBy(k + 1)[i] = (old[i] \/ Covers(k + 1, i))
    BY <1>4 DEF MarkedBy
  <1>6. \A i \in D : old[i] \in BOOLEAN
    BY DEF MarkedBy
  <1>7. MarkedBy(k + 1) = [i \in D |-> MarkedBy(k + 1)[i]]
    BY DEF MarkedBy
  <1> HIDE DEF old
  <1>8. set_range(Bitmap(old, BitmapSize), r.base, r.base + r.length, TRUE) =
            IF r.base < r.base + r.length /\ r.base < BitmapSize
            THEN Bitmap(new, BitmapSize) ELSE Bitmap(old, BitmapSize)
    BY <1>1, <1>3, SetRangeHere
  <1>9. CASE r.base < r.base + r.length /\ r.base < BitmapSize
    <2>1. \A i \in D : new[i] = MarkedBy(k + 1)[i]
      BY <1>5, <1>6, <1>9 DEF Covers, Filled
    <2>2. new = MarkedBy(k + 1)
      BY <1>7, <2>1 DEF Filled
    <2> QED
      BY <1>8, <1>9, <2>2 DEF old
  <1>10. CASE ~(r.base < r.base + r.length /\ r.base < BitmapSize)
    <2>1. \A i \in D : ~Covers(k + 1, i)
      BY <1>1, <1>10 DEF Covers
    <2>2. \A i \in D : old[i] = MarkedBy(k + 1)[i]
      BY <1>5, <1>6, <2>1
    <2>3. old = MarkedBy(k + 1)
      BY <1>3, <1>7, <2>2 DEF BitsOn
    <2> QED
      BY <1>8, <1>10, <2>3 DEF old
  <1> QED
    BY <1>9, <1>10

(* The loop of frame::init over the memory map.                            *)
LEMMA MarkedIs == Marked = Bitmap(MarkedBy(Len(Regions)), BitmapSize)
  <1> DEFINE N == Len(Regions)
             zero == init([i \in 0 .. Frames - 1 |-> FALSE], BitmapSize)
             Round(m, k) == set_range(m, Regions[k].base, Regions[k].base + Regions[k].length, TRUE)
             F(g) == [k \in 0 .. N |-> IF k = 0 THEN zero ELSE Round(g[k - 1], k)]
             after == CHOOSE g : g = F(g)
             Goal(k) == Bitmap(MarkedBy(k), BitmapSize)
  <1>1. Marked = after[N]
    BY DEF Marked
  <1>2. N \in Nat
    BY RegionType
  <1>3. zero = Goal(0)
    <2>1. MarkedBy(0) = [i \in 0 .. Frames - 1 |-> FALSE]
      BY DEF MarkedBy
    <2>2. zero = Bitmap([i \in 0 .. Frames - 1 |-> FALSE], BitmapSize)
      BY DEF init, Bitmap
    <2> QED
      BY <2>1, <2>2
  <1>4. ASSUME NEW k \in 0 .. N - 1 PROVE Round(Goal(k), k + 1) = Goal(k + 1)
    BY MarkOne
  <1> HIDE DEF N, zero, Round, Goal
  <1>5. \E g : g = F(g)
    <2> DEFINE g == [k \in 0 .. N |-> Goal(k)]
    <2>1. ASSUME NEW k \in 0 .. N PROVE g[k] = F(g)[k]
      <3>1. CASE k = 0
        BY <1>3, <3>1
      <3>2. CASE k # 0
        <4>1. k - 1 \in 0 .. N - 1 /\ k - 1 \in 0 .. N /\ (k - 1) + 1 = k
          BY <1>2, <3>2
        <4>2. Round(Goal(k - 1), k) = Goal(k)
          BY <1>4, <4>1
        <4>3. g[k - 1] = Goal(k - 1)
          BY <4>1
        <4> QED
          BY <3>2, <4>2, <4>3
      <3> QED
        BY <3>1, <3>2
    <2>2. g = F(g)
      BY <2>1
    <2> HIDE DEF g
    <2> QED
      BY <2>2
  <1>6. after = F(after)
    BY <1>5
  <1> HIDE DEF after
  <1> DEFINE T == {k \in 0 .. N : after[k] = Goal(k)}
  <1>7. 0 \in T
    BY <1>2, <1>3, <1>6
  <1>8. ASSUME NEW k \in 0 .. N - 1, k \in T PROVE k + 1 \in T
    <2>1. k + 1 \in 0 .. N /\ k + 1 # 0 /\ (k + 1) - 1 = k
      BY <1>2
    <2>2. after[k + 1] = Round(after[k], k + 1)
      BY <1>6, <2>1
    <2> QED
      BY <1>4, <1>8, <2>1, <2>2
  <1>9. 0 .. N \subseteq T
    <2> HIDE DEF T
    <2> QED
      BY <1>2, <1>7, <1>8, IntervalInduct
  <1> QED
    BY <1>1, <1>2, <1>9 DEF N, Goal

(* The bitmap lies in a usable region.                                     *)
LEMMA BitmapPlace ==
    BitmapBase \in Nat /\ BitmapEnd \in Nat /\ BitmapBase < BitmapEnd
  <1> DEFINE S == {i \in DOMAIN Regions : Regions[i].length * PageSize >= BitmapSize}
  <1>1. S # {} /\ S \in SUBSET Nat
    BY BitmapFits, RegionType
  <1>2. Min(S) \in DOMAIN Regions
    BY <1>1, MinIsLeast
  <1>3. BitmapBase = Regions[Min(S)].base
    BY DEF BitmapBase
  <1>4. BitmapBase \in Nat
    BY <1>2, <1>3, RegionType
  <1>5. ASSUME NEW x \in Nat \ {0}, NEW w \in Nat \ {0}
        PROVE  (x + w - 1) \div w \in Nat /\ (x + w - 1) \div w # 0
    <2> DEFINE q == (x + w - 1) \div w
    <2>1. q \in Nat
      OBVIOUS
    <2>2. x + w - 1 = q * w + ((x + w - 1) % w) /\ (x + w - 1) % w \in 0 .. w - 1
      BY Z3
    <2>3. ASSUME q = 0 PROVE FALSE
      BY <2>2, <2>3
    <2> QED
      BY <2>1, <2>3
  <1>6. (BitmapSize + PageSize - 1) \div PageSize \in Nat \ {0}
    BY <1>5, Sizes, RegionsAssumption
  <1> QED
    BY <1>4, <1>6 DEF BitmapEnd

(* At first exactly the frames that may be handed out are marked.          *)
LEMMA InitMap ==
    ASSUME Init
    PROVE  /\ Shape(bitmap)
           /\ \A f \in 0 .. Frames - 1 : bitmap.bits[f] \in BOOLEAN
           /\ \A f \in 0 .. Searched - 1 : bitmap.bits[f] <=> f \notin Reserved
  <1> DEFINE D == 0 .. Frames - 1
             old == MarkedBy(Len(Regions))
             new == Filled(old, D, BitmapBase, BitmapEnd, FALSE)
  <1>1. bitmap = set_range(Bitmap(old, BitmapSize), BitmapBase, BitmapEnd, FALSE)
    BY MarkedIs DEF Init
  <1>2. BitsOn(old, D) /\ BitsOn(new, D)
    BY DEF MarkedBy, BitsOn, Filled
  <1>3. \A f \in D : old[f] \in BOOLEAN /\ new[f] \in BOOLEAN
    BY DEF MarkedBy, Filled
  <1>4. bitmap = IF BitmapBase < BitmapEnd /\ BitmapBase < BitmapSize
                 THEN Bitmap(new, BitmapSize) ELSE Bitmap(old, BitmapSize)
    BY <1>1, <1>2, BitmapPlace, SetRangeHere
  <1>5. ASSUME NEW f \in 0 .. Searched - 1
        PROVE  f \in D /\ f < BitmapSize /\ (old[f] <=> f \in Usable)
    <2>1. f \in D /\ f < BitmapSize /\ f \in Nat
      BY Sizes
    <2>2. old[f] <=> \E j \in DOMAIN Regions : Covers(j, f)
      BY <2>1, RegionType DEF MarkedBy
    <2>3. ASSUME NEW j \in DOMAIN Regions
          PROVE  Covers(j, f) <=> f \in Regions[j].base .. Regions[j].base + Regions[j].length - 1
      BY <2>1, RegionType, Sizes DEF Covers
    <2> QED
      BY <2>1, <2>2, <2>3 DEF Usable
  <1> HIDE DEF old
  <1>6. CASE BitmapBase < BitmapSize
    <2>1. bitmap.bits = new /\ Shape(bitmap)
      BY <1>2, <1>4, <1>6, BitmapPlace DEF Bitmap, Shape
    <2>2. ASSUME NEW f \in 0 .. Searched - 1 PROVE new[f] <=> f \notin Reserved
      BY <1>3, <1>5, BitmapPlace DEF Filled, Reserved
    <2> HIDE DEF new
    <2> QED
      BY <1>3, <2>1, <2>2
  <1>7. CASE ~(BitmapBase < BitmapSize)
    <2>1. bitmap.bits = old /\ Shape(bitmap)
      BY <1>2, <1>4, <1>7, BitmapPlace DEF Bitmap, Shape
    <2>2. ASSUME NEW f \in 0 .. Searched - 1 PROVE old[f] <=> f \notin Reserved
      BY <1>3, <1>5, <1>7, BitmapPlace, Sizes DEF Reserved
    <2> QED
      BY <1>3, <2>1, <2>2
  <1> QED
    BY <1>6, <1>7

-----------------------------------------------------------------------------
(* Search and fill on every bitmap the allocator reaches, whatever counts  *)
(* are asked for and however calls interleave                              *)

(* A store changes neither the size nor the domain.                        *)
LEMMA StoredShape ==
    ASSUME NEW m, Shape(m), NEW new
    PROVE  Shape([m EXCEPT !.bits = [i \in DOMAIN @ |-> new[i]]])
  <1> DEFINE bits == [i \in DOMAIN m.bits |-> new[i]]
             n == [m EXCEPT !.bits = bits]
  <1>1. DOMAIN m.bits = 0 .. Frames - 1
    BY DEF Shape, BitsOn
  <1>2. n = Bitmap(bits, BitmapSize)
    BY DEF Shape, Bitmap
  <1>3. n.bits = bits
    BY <1>2 DEF Bitmap
  <1>4. BitsOn(bits, 0 .. Frames - 1)
    BY <1>1 DEF BitsOn
  <1> HIDE DEF bits
  <1>5. Shape(n)
    BY <1>2, <1>3, <1>4 DEF Shape
  <1> QED
    BY <1>5 DEF bits

(* The bitmap keeps its size and its domain in every step.                 *)
LEMMA ShapeInvariant == Spec => []Shape(bitmap)
  <1>1. Init => Shape(bitmap)
    BY InitMap
  <1>2. Shape(bitmap) /\ [Next]_vars => Shape(bitmap)'
    <2> SUFFICES ASSUME Shape(bitmap), [Next]_vars PROVE Shape(bitmap')
      BY DEF Shape
    <2>1. ASSUME NEW c \in CPU, Store(c) PROVE Shape(bitmap')
      <3> DEFINE l == loc[c]
                 InByte(i) == i \div W = l.b
                 seen == [bitmap EXCEPT !.bits = [i \in DOMAIN @ |->
                             IF InByte(i) THEN l.byte[i % W] ELSE @[i]]]
                 made == set_range(seen, l.range.first, l.range.first + l.range.count, l.value)
                 new == [i \in DOMAIN bitmap.bits |->
                             IF InByte(i) THEN made.bits[i] ELSE bitmap.bits[i]]
      <3>1. bitmap' = [bitmap EXCEPT !.bits = new]
        BY <2>1 DEF Store, Stored
      <3> HIDE DEF made
      <3>2. new = [i \in DOMAIN bitmap.bits |-> new[i]]
        OBVIOUS
      <3> HIDE DEF new
      <3>3. bitmap' = [bitmap EXCEPT !.bits = [i \in DOMAIN @ |-> new[i]]]
        BY <3>1, <3>2
      <3> QED
        BY <3>3, StoredShape, Zenon
    <2>2. ASSUME UNCHANGED bitmap PROVE Shape(bitmap')
      BY <2>2
    <2>3. ASSUME NEW c \in CPU, NEW n, alloc_frames(c, n) PROVE UNCHANGED bitmap
      BY <2>3 DEF alloc_frames
    <2>4. ASSUME NEW c \in CPU, NEW r, free_frames(c, r) PROVE UNCHANGED bitmap
      BY <2>4 DEF free_frames
    <2>5. ASSUME NEW c \in CPU, Scan(c) PROVE UNCHANGED bitmap
      BY <2>5 DEF Scan
    <2>6. ASSUME NEW c \in CPU, Load(c) PROVE UNCHANGED bitmap
      BY <2>6 DEF Load
    <2>7. CASE UNCHANGED vars
      BY <2>2, <2>7 DEF vars
    <2>8. CASE Next
      BY <2>1, <2>2, <2>3, <2>4, <2>5, <2>6, <2>8 DEF Next
    <2> QED
      BY <2>7, <2>8
  <1> QED
    BY <1>1, <1>2, PTL DEF Spec

(* find_range is right on every bitmap the allocator ever searches: it     *)
(* returns only real runs and misses no run of set bits.                   *)
THEOREM FrameFindRange == Spec => []FindRangeCorrect
  <1>1. Shape(bitmap) => FindRangeCorrect
    <2> SUFFICES ASSUME Shape(bitmap), NEW n \in 1 .. 2 * W PROVE FindsRuns(bitmap, n)
      BY DEF FindRangeCorrect
    <2>1. bitmap.size \in Nat
      BY Sizes DEF Shape, Bitmap
    <2>2. n \in Nat \ {0}
      BY WAssumption
    <2> QED
      BY <2>1, <2>2, FindRangeFindsRuns
  <1> QED
    BY <1>1, ShapeInvariant, PTL

(* set_range changes exactly the bits of its range on every bitmap the     *)
(* allocator ever changes.                                                 *)
THEOREM FrameSetRange == Spec => []SetRangeExact
  <1>1. Shape(bitmap) => SetRangeExact
    <2> SUFFICES ASSUME Shape(bitmap),
                        NEW s \in 0 .. bitmap.size - 1, NEW e \in 0 .. bitmap.size,
                        NEW v \in BOOLEAN
                 PROVE  SetsExactly(bitmap, s, e, v)
      BY DEF SetRangeExact
    <2>1. PICK size \in Nat : size = BitmapSize /\ bitmap.size = size
      BY Sizes DEF Shape, Bitmap
    <2>2. PICK D \in SUBSET Nat : D = 0 .. Frames - 1
      BY Sizes
    <2>3. PICK bits : bits = bitmap.bits
      OBVIOUS
    <2>4. BitsOn(bits, D) /\ bitmap = Bitmap(bits, size)
      BY <2>1, <2>2, <2>3 DEF Shape
    <2>5. s \in Nat /\ e \in Nat
      BY <2>1
    <2> QED
      BY <2>4, <2>5, SetRangeSetsExactly
  <1> QED
    BY <1>1, ShapeInvariant, PTL

-----------------------------------------------------------------------------
(* One byte of the bitmap                                                  *)

(* The bytes searched lie within the bitmap.                               *)
LEMMA ByteSearched ==
    ASSUME NEW b \in Nat, b < BitmapSize \div W, NEW i \in 0 .. W - 1
    PROVE  b * W + i \in 0 .. Searched - 1 /\ b * W + i \in 0 .. Frames - 1
  <1> DEFINE N == BitmapSize \div W
             bw == b * W
             nw == N * W
  <1>1. N \in Nat /\ nw = Searched /\ nw \in Nat /\ nw <= Frames /\ Frames \in Nat
    BY Sizes DEF Searched
  <1>2. bw \in Nat /\ bw + W <= nw
    BY <1>1, ByteOrder
  <1> HIDE DEF N, bw, nw
  <1>3. bw + i \in 0 .. nw - 1 /\ bw + i \in 0 .. Frames - 1
    BY <1>1, <1>2, WAssumption
  <1> QED
    BY <1>1, <1>3 DEF bw

(* So does the byte of a frame that may be handed out.                     *)
LEMMA FrameByte ==
    ASSUME NEW f \in Frame
    PROVE  /\ f \in Nat /\ f \in 0 .. Searched - 1 /\ f \in 0 .. Frames - 1
           /\ f < BitmapSize /\ f \notin Reserved
           /\ f \div W \in Nat /\ f \div W < BitmapSize \div W
           /\ f % W \in 0 .. W - 1 /\ f = (f \div W) * W + (f % W)
  <1>1. f \in Nat /\ f \in 0 .. Searched - 1 /\ f \in 0 .. Frames - 1 /\ f < BitmapSize
        /\ f \notin Reserved
    BY Sizes DEF Frame
  <1>2. f \div W \in Nat /\ f % W \in 0 .. W - 1 /\ f = (f \div W) * W + (f % W)
    BY <1>1, ByteOf
  <1> DEFINE N == BitmapSize \div W
             q == f \div W
             nw == N * W
             qw == q * W
  <1>3. N \in Nat /\ nw = Searched /\ nw \in Nat
    BY Sizes DEF Searched
  <1>4. q \in Nat /\ (N <= q => nw <= qw)
    BY <1>2, <1>3, ByteOrder
  <1>5. PICK r \in 0 .. W - 1 : f = qw + r
    BY <1>2
  <1>6. qw \in Nat
    BY <1>4, WAssumption
  <1>7. f < nw
    BY <1>1, <1>3
  <1> HIDE DEF N, q, nw, qw
  <1>8. q < N
    BY <1>3, <1>4, <1>5, <1>6, <1>7
  <1> QED
    BY <1>1, <1>2, <1>8 DEF N, q

(* The search of one byte starts as if no bit before it matched.           *)
LEMMA FreshRight ==
    ASSUME NEW p \in Nat, NEW bits, NEW v, \A j \in 0 .. p - 1 : bits[j] # v
    PROVE  Right([count |-> 0, start |-> 0, found |-> NotFound], p, bits, v, 1)
  <1> DEFINE fresh == [count |-> 0, start |-> 0, found |-> NotFound]
  <1>1. fresh \in ScanState /\ fresh.found = NotFound /\ fresh.count = 0
    BY DEF ScanState
  <1> HIDE DEF fresh
  <1>2. Sound(fresh, p, bits, v, 1)
    BY <1>1 DEF Sound, RunIn
  <1>3. ASSUME NEW i \in Nat, NEW n \in Nat \ {0}, i < p PROVE ~RunIn(bits, i, v, n)
    <2>1. bits[i] # v /\ i \in i .. i + n - 1
      BY <1>3
    <2> QED
      BY <2>1 DEF RunIn
  <1>4. Complete(fresh, p, bits, v, 1)
    <2>1. ASSUME NEW i \in 0 .. p, RunIn(bits, i, v, p - i) PROVE p - i <= fresh.count
      <3>1. CASE i = p
        BY <1>1, <3>1
      <3>2. CASE i # p
        <4>1. i \in Nat /\ p - i \in Nat \ {0} /\ i < p
          BY <3>2
        <4> QED
          BY <1>3, <2>1, <4>1
      <3> QED
        BY <3>1, <3>2
    <2>2. ASSUME NEW i \in Nat, i + 1 <= p PROVE ~RunIn(bits, i, v, 1)
      <3>1. i < p /\ 1 \in Nat \ {0}
        BY <2>2
      <3> QED
        BY <1>3, <3>1
    <2> QED
      BY <2>1, <2>2 DEF Complete
  <1> QED
    BY <1>2, <1>4 DEF Right, fresh

(* What the search of one byte for one bit finds.                          *)
LEMMA FoundBit ==
    ASSUME NEW p \in Nat, NEW bits, NEW v, NEW s,
           \A j \in 0 .. p - 1 : bits[j] # v,
           Right(s, p + W, bits, v, 1), s.found # NotFound
    PROVE  \E i \in 0 .. W - 1 : s.found = p + i /\ bits[p + i] = v
  <1>1. s.found \in Nat /\ s.found + 1 <= p + W /\ RunIn(bits, s.found, v, 1)
    BY DEF Right, Sound, ScanState
  <1>2. PICK x \in Nat : x = s.found
    BY <1>1
  <1>3. x + 1 <= p + W /\ bits[x] = v
    <2>1. x \in x .. x + 1 - 1
      OBVIOUS
    <2> QED
      BY <1>1, <1>2, <2>1 DEF RunIn
  <1>4. x >= p
    BY <1>3
  <1>5. x - p \in 0 .. W - 1 /\ x = p + (x - p)
    BY <1>3, <1>4, WAssumption
  <1> QED
    BY <1>2, <1>3, <1>5

(* A byte searched for one set bit: what is found is set and in the byte.  *)
LEMMA ScanFinds ==
    ASSUME NEW m, NEW b \in Nat,
           ScanByte([count |-> 0, start |-> 0, found |-> NotFound], Byte(m, b),
                    b * W, TRUE, 1).found # NotFound
    PROVE  \E i \in 0 .. W - 1 :
               /\ b * W + i = ScanByte([count |-> 0, start |-> 0, found |-> NotFound],
                                       Byte(m, b), b * W, TRUE, 1).found
               /\ m.bits[b * W + i] = TRUE
  <1>1. PICK p \in Nat : p = b * W
    BY WAssumption
  <1>2. PICK bits : bits = [j \in Nat |-> IF j < p THEN FALSE ELSE m.bits[j]]
    OBVIOUS
  <1>3. PICK byte : byte = Byte(m, b)
    OBVIOUS
  <1>0. PICK v \in BOOLEAN : v = TRUE
    OBVIOUS
  <1>4. ASSUME NEW j \in 0 .. p - 1 PROVE bits[j] # v
    <2>1. j \in Nat /\ j < p
      OBVIOUS
    <2>2. bits[j] = FALSE
      BY <1>2, <2>1
    <2> QED
      BY <1>0, <2>2
  <1>5. \A i \in 0 .. W - 1 : bits[p + i] = m.bits[p + i]
    <2> SUFFICES ASSUME NEW i \in 0 .. W - 1 PROVE bits[p + i] = m.bits[p + i]
      OBVIOUS
    <2>1. p + i \in Nat /\ ~(p + i < p)
      BY WAssumption
    <2> QED
      BY <1>2, <2>1
  <1>6. byte = [i \in 0 .. W - 1 |-> bits[p + i]]
    BY <1>1, <1>3, <1>5 DEF Byte
  <1>7. PICK fresh : fresh = [count |-> 0, start |-> 0, found |-> NotFound]
    OBVIOUS
  <1>9. PICK s : s = ScanByte(fresh, byte, p, v, 1)
    OBVIOUS
  <1>10. Right(fresh, p, bits, v, 1)
    BY <1>4, <1>7, FreshRight
  <1>11. Right(ScanByte(fresh, byte, p, v, 1), p + W, bits, v, 1)
    <2>1. 1 \in Nat \ {0}
      OBVIOUS
    <2> QED
      BY <1>6, <1>10, <2>1, ScanByteRight
  <1>12. Right(s, p + W, bits, v, 1)
    BY <1>9, <1>11
  <1>13. s.found = ScanByte([count |-> 0, start |-> 0, found |-> NotFound], Byte(m, b),
                            b * W, TRUE, 1).found
    BY <1>0, <1>1, <1>3, <1>7, <1>9
  <1>14. PICK i \in 0 .. W - 1 : s.found = p + i /\ bits[p + i] = v
    <2>1. s.found # NotFound
      BY <1>13
    <2> QED
      BY <1>4, <1>12, <2>1, FoundBit
  <1> QED
    BY <1>0, <1>1, <1>5, <1>13, <1>14

-----------------------------------------------------------------------------
(* The invariant holds at first and in every step                          *)

(* The cleared locals.                                                     *)
LEMMA NoCallType == NoCall \in Locals
  <1>1. Uniform(FALSE) \in [0 .. W - 1 -> BOOLEAN]
    BY DEF Uniform
  <1> QED
    BY <1>1 DEF NoCall, Locals

(* frame::init establishes the invariant.                                  *)
LEMMA AllocInit == Init => AllocInv
  <1> SUFFICES ASSUME Init PROVE AllocInv
    OBVIOUS
  <1>1. /\ pc = [c \in CPU |-> "out"] /\ loc = [c \in CPU |-> NoCall] /\ clashes = 0
        /\ BagToSet(held) = {}
    BY DEF Init, EmptyBag, SetToBag, BagToSet
  <1>2. NoCall \in Locals
    BY NoCallType
  <1>3. TypesOK
    <2>1. bitmap = Bitmap(bitmap.bits, BitmapSize) /\ BitsOn(bitmap.bits, 0 .. Frames - 1)
          /\ \A f \in 0 .. Frames - 1 : bitmap.bits[f] \in BOOLEAN
      BY InitMap DEF Shape
    <2>2. bitmap.bits \in [0 .. Frames - 1 -> BOOLEAN]
      BY <2>1 DEF BitsOn
    <2>3. bitmap \in [bits : [0 .. Frames - 1 -> BOOLEAN], size : {BitmapSize}]
      BY <2>1, <2>2 DEF Bitmap
    <2> QED
      BY <1>1, <1>2, <2>3 DEF TypesOK, Place
  <1>4. Calls /\ HeldFrames
    BY <1>1 DEF Calls, HeldFrames, Busy
  <1>5. Marks
    BY <1>1, InitMap DEF Marks
  <1>6. Fresh /\ OnePlace
    BY <1>1, InitMap DEF Fresh, OnePlace, Frame, Freeing, Taking, Busy
  <1> QED
    BY <1>3, <1>4, <1>5, <1>6 DEF AllocInv

(* A step of a CPU outside set_range, which stays there.                   *)
LEMMA Quiet ==
    ASSUME AllocInv, NEW c \in CPU, UNCHANGED <<bitmap, held, clashes>>,
           pc' \in [CPU -> Place], loc' \in [CPU -> Locals],
           ~Busy(c), pc'[c] \notin {"load", "store"},
           pc'[c] = "out" => loc'[c] = NoCall,
           pc'[c] = "scan" => loc'[c].b <= BitmapSize \div W,
           \A x \in CPU : x # c => pc'[x] = pc[x] /\ loc'[x] = loc[x]
    PROVE  AllocInv'
  <1>1. TypesOK'
    BY DEF AllocInv, TypesOK
  <1>2. Calls'
    <2> SUFFICES ASSUME NEW x \in CPU
                 PROVE  /\ pc'[x] = "out" => loc'[x] = NoCall
                        /\ pc'[x] = "scan" => loc'[x].b <= BitmapSize \div W
                        /\ pc'[x] \in {"load", "store"} =>
                              \E f \in Frame : loc'[x].range = One(f) /\ loc'[x].b = f \div W
      BY DEF Calls, Busy
    <2>1. CASE x = c
      BY <2>1
    <2>2. CASE x # c
      BY <2>2 DEF AllocInv, Calls, Busy
    <2> QED
      BY <2>1, <2>2
  <1>3. HeldFrames'
    BY DEF AllocInv, HeldFrames
  <1>4. \A x \in CPU : Busy(x)' => Busy(x) /\ loc'[x] = loc[x] /\ pc'[x] = pc[x]
    BY DEF Busy
  <1>5. \A x \in CPU : Busy(x) => Busy(x)' /\ loc'[x] = loc[x] /\ pc'[x] = pc[x]
    BY DEF Busy
  <1>6. Marks'
    BY <1>4 DEF AllocInv, Marks, Busy
  <1>7. ASSUME clashes' = 0 PROVE Fresh' /\ OnePlace'
    <2>1. Fresh /\ OnePlace
      BY <1>7 DEF AllocInv
    <2>2. Fresh'
      BY <1>4, <2>1 DEF Fresh, Busy
    <2>3. \A x \in CPU : Freeing(x)' => Freeing(x) /\ loc'[x] = loc[x]
      BY <1>4 DEF Freeing
    <2>4. \A x \in CPU : Freeing(x) => Freeing(x)' /\ loc'[x] = loc[x]
      BY <1>5 DEF Freeing
    <2>5. \A x \in CPU : Taking(x)' => Taking(x) /\ loc'[x] = loc[x]
      BY <1>4 DEF Taking
    <2>6. OnePlace'
      BY <2>1, <2>3, <2>4, <2>5 DEF OnePlace
    <2> QED
      BY <2>2, <2>6
  <1> QED
    BY <1>1, <1>2, <1>3, <1>6, <1>7 DEF AllocInv

(* A call of alloc_frames starts.                                          *)
LEMMA StepAlloc ==
    ASSUME AllocInv, NEW c \in CPU, NEW n \in {0, 1}, alloc_frames(c, n)
    PROVE  AllocInv'
  <1>1. pc \in [CPU -> Place] /\ loc \in [CPU -> Locals] /\ pc[c] = "out" /\ loc[c] = NoCall
    BY DEF AllocInv, TypesOK, Calls, alloc_frames, Enters
  <1>2. /\ pc' = [pc EXCEPT ![c] = "scan"]
        /\ loc' = [loc EXCEPT ![c] = [NoCall EXCEPT !.range.count = n]]
        /\ UNCHANGED <<bitmap, held, clashes>>
    BY <1>1 DEF alloc_frames
  <1> DEFINE l == [NoCall EXCEPT !.range.count = n]
  <1>3. l \in Locals /\ l.b = 0
    BY NoCallType DEF NoCall, Locals
  <1> HIDE DEF l
  <1>4. pc' \in [CPU -> Place] /\ loc' \in [CPU -> Locals] /\ pc'[c] = "scan" /\ loc'[c].b = 0
    BY <1>1, <1>2, <1>3 DEF Place, l
  <1>5. ~Busy(c) /\ \A x \in CPU : x # c => pc'[x] = pc[x] /\ loc'[x] = loc[x]
    BY <1>1, <1>2 DEF Busy
  <1>6. 0 <= BitmapSize \div W
    BY Sizes
  <1> QED
    BY <1>2, <1>4, <1>5, <1>6, Quiet

(* A byte is loaded.                                                       *)
LEMMA StepLoad ==
    ASSUME AllocInv, NEW c \in CPU, Load(c)
    PROVE  AllocInv'
  <1> DEFINE l == loc[c]
             byte == Byte(bitmap, l.b)
  <1>1. pc \in [CPU -> Place] /\ loc \in [CPU -> Locals] /\ l \in Locals
        /\ bitmap \in [bits : [0 .. Frames - 1 -> BOOLEAN], size : {BitmapSize}]
    BY DEF AllocInv, TypesOK
  <1>2. /\ pc[c] = "load" /\ pc' = [pc EXCEPT ![c] = "store"]
        /\ loc' = [loc EXCEPT ![c].byte = byte] /\ UNCHANGED <<bitmap, held, clashes>>
    BY DEF Load
  <1>3. PICK f \in Frame : l.range = One(f) /\ l.b = f \div W
    BY <1>2 DEF AllocInv, Calls, Busy
  <1>4. l.b \in Nat /\ \A i \in 0 .. W - 1 :
            l.b * W + i \in 0 .. Searched - 1 /\ l.b * W + i \in 0 .. Frames - 1
    BY <1>3, FrameByte, ByteSearched
  <1>5. byte \in [0 .. W - 1 -> BOOLEAN]
    BY <1>1, <1>4 DEF Byte
  <1>6. \A i \in 0 .. W - 1 : byte[i] = bitmap.bits[l.b * W + i]
    BY DEF Byte
  <1> HIDE DEF byte, l
  <1>7. /\ loc'[c].byte = byte /\ loc'[c].range = l.range /\ loc'[c].b = l.b
        /\ loc'[c].value = l.value /\ pc'[c] = "store"
        /\ pc' \in [CPU -> Place] /\ loc' \in [CPU -> Locals]
    BY <1>1, <1>2, <1>5 DEF Locals, l, Place
  <1>8. \A x \in CPU : x # c => pc'[x] = pc[x] /\ loc'[x] = loc[x]
    BY <1>1, <1>2
  <1>9. \A x \in CPU : /\ Busy(x)' <=> Busy(x)
                       /\ loc'[x].range = loc[x].range /\ loc'[x].b = loc[x].b
                       /\ loc'[x].value = loc[x].value
    BY <1>2, <1>7, <1>8 DEF Busy, l
  <1>10. TypesOK'
    BY <1>2, <1>7 DEF AllocInv, TypesOK
  <1>11. Calls'
    BY <1>7, <1>8, <1>9 DEF AllocInv, Calls
  <1>12. HeldFrames'
    BY <1>2 DEF AllocInv, HeldFrames
  <1>13. Marks'
    BY <1>2, <1>4, <1>6, <1>7, <1>8 DEF AllocInv, Marks
  <1>14. ASSUME clashes' = 0 PROVE Fresh' /\ OnePlace'
    <2>1. Fresh /\ OnePlace
      BY <1>2, <1>14 DEF AllocInv
    <2>2. Fresh'
      BY <1>2, <1>7, <1>8, <2>1 DEF Fresh, byte
    <2>3. \A x \in CPU : (Freeing(x)' <=> Freeing(x)) /\ (Taking(x)' <=> Taking(x))
                         /\ loc'[x].range = loc[x].range
      BY <1>9 DEF Freeing, Taking
    <2>4. OnePlace'
      BY <1>2, <2>1, <2>3 DEF OnePlace
    <2> QED
      BY <2>2, <2>4
  <1> QED
    BY <1>10, <1>11, <1>12, <1>13, <1>14 DEF AllocInv

(* A frame has been found marked and set_range starts to take it, or a     *)
(* held frame is given back and set_range starts to mark it.               *)
LEMMA StepChange ==
    ASSUME AllocInv, NEW c \in CPU, ~Busy(c), NEW f \in Frame, NEW v \in BOOLEAN,
           UNCHANGED <<bitmap, clashes>>, Change(c, One(f), v),
           BagToSet(held') \subseteq BagToSet(held),
           \A r \in BagToSet(held') : held'[r] \in Nat \ {0} /\ held'[r] <= held[r],
           clashes = 0 =>
               /\ v = FALSE => bitmap.bits[f] /\ BagToSet(held') = BagToSet(held)
               /\ v = TRUE => One(f) \in BagToSet(held)
                              /\ BagToSet(held') = BagToSet(held) \ {One(f)}
    PROVE  AllocInv'
  <1> DEFINE l == [NoCall EXCEPT !.range = One(f), !.value = v, !.b = f \div W]
  <1>1. pc \in [CPU -> Place] /\ loc \in [CPU -> Locals]
    BY DEF AllocInv, TypesOK
  <1>2. pc' = [pc EXCEPT ![c] = "load"] /\ loc' = [loc EXCEPT ![c] = [NoCall EXCEPT
            !.range = One(f), !.value = v, !.b = One(f).first \div W]]
    BY DEF Change, One
  <1>3. One(f).first = f /\ One(f) \in [first : Nat, count : {0, 1}] /\ f \div W \in Nat
    BY FrameByte DEF One
  <1>4. loc' = [loc EXCEPT ![c] = l]
    BY <1>2, <1>3
  <1>5. l \in Locals /\ l.range = One(f) /\ l.value = v /\ l.b = f \div W
    BY <1>3, NoCallType DEF NoCall, Locals
  <1> HIDE DEF l
  <1>6. /\ pc' \in [CPU -> Place] /\ loc' \in [CPU -> Locals] /\ pc'[c] = "load"
        /\ loc'[c] = l /\ \A x \in CPU : x # c => pc'[x] = pc[x] /\ loc'[x] = loc[x]
    BY <1>1, <1>2, <1>4, <1>5 DEF Place
  <1>7. TypesOK'
    BY <1>6 DEF AllocInv, TypesOK
  <1>8. Calls'
    <2> SUFFICES ASSUME NEW x \in CPU
                 PROVE  /\ pc'[x] = "out" => loc'[x] = NoCall
                        /\ pc'[x] = "scan" => loc'[x].b <= BitmapSize \div W
                        /\ pc'[x] \in {"load", "store"} =>
                              \E g \in Frame : loc'[x].range = One(g) /\ loc'[x].b = g \div W
      BY DEF Calls, Busy
    <2>1. CASE x = c
      BY <1>5, <1>6, <2>1
    <2>2. CASE x # c
      BY <1>6, <2>2 DEF AllocInv, Calls, Busy
    <2> QED
      BY <2>1, <2>2
  <1>9. HeldFrames'
    <2>1. \A r \in BagToSet(held') : \E g \in Frame : r = One(g)
      BY DEF AllocInv, HeldFrames
    <2> QED
      BY <2>1 DEF HeldFrames
  <1>10. Marks'
    BY <1>6 DEF AllocInv, Marks
  <1>11. ASSUME clashes' = 0 PROVE Fresh' /\ OnePlace'
    <2>1. clashes = 0 /\ Fresh /\ OnePlace
      BY <1>11 DEF AllocInv
    <2>2. Fresh'
      BY <1>6, <2>1 DEF Fresh
    <2>3. /\ Freeing(c)' <=> v
          /\ Taking(c)' <=> ~v
          /\ ~Freeing(c) /\ ~Taking(c)
          /\ loc'[c].range = One(f)
      BY <1>5, <1>6 DEF Freeing, Taking, Busy
    <2>4. \A x \in CPU : x # c => /\ Freeing(x)' <=> Freeing(x)
                                  /\ Taking(x)' <=> Taking(x)
                                  /\ loc'[x].range = loc[x].range
      BY <1>6 DEF Freeing, Taking, Busy
    <2>5. \A r \in BagToSet(held) : held[r] = 1 /\ ~bitmap.bits[r.first]
      BY <2>1 DEF OnePlace
    <2>6. \A r \in BagToSet(held') : held'[r] = 1 /\ ~bitmap.bits[r.first]
      BY <2>5
    <2>7. CASE v = FALSE
      <3>1. bitmap.bits[f] /\ BagToSet(held') = BagToSet(held)
        BY <2>1, <2>7
      <3>2. \A x \in CPU : Freeing(x)' => x # c /\ Freeing(x) /\ loc'[x].range = loc[x].range
        BY <2>3, <2>4, <2>7
      <3>3. \A x \in CPU : Freeing(x) => Freeing(x)' /\ loc'[x].range = loc[x].range
        BY <2>3, <2>4, <2>7
      <3>4. \A x \in CPU : Freeing(x)' =>
              /\ ~bitmap.bits[loc'[x].range.first]
              /\ loc'[x].range \notin BagToSet(held')
              /\ \A y \in CPU \ {x} : Freeing(y)' => loc'[y].range # loc'[x].range
        BY <2>1, <3>1, <3>2 DEF OnePlace
      <3>5. \A x \in CPU : Taking(x)' => bitmap.bits[loc'[x].range.first]
        BY <1>3, <2>1, <2>3, <2>4, <3>1 DEF OnePlace
      <3>6. \A g \in Frame :
              \/ bitmap.bits[g]
              \/ One(g) \in BagToSet(held')
              \/ \E x \in CPU : Freeing(x)' /\ loc'[x].range = One(g)
        BY <2>1, <3>1, <3>3 DEF OnePlace
      <3> QED
        BY <2>2, <2>6, <3>4, <3>5, <3>6 DEF OnePlace
    <2>8. CASE v = TRUE
      <3>1. One(f) \in BagToSet(held) /\ BagToSet(held') = BagToSet(held) \ {One(f)}
            /\ ~bitmap.bits[f]
        BY <1>3, <2>1, <2>5, <2>8
      <3>2. \A x \in CPU : Freeing(x) =>
              /\ x # c /\ ~bitmap.bits[loc[x].range.first]
              /\ loc[x].range \notin BagToSet(held)
              /\ \A y \in CPU \ {x} : Freeing(y) => loc[y].range # loc[x].range
        BY <2>1, <2>3 DEF OnePlace
      <3>3. \A x \in CPU : Freeing(x) => loc[x].range # One(f)
        BY <3>1, <3>2
      <3>4. ASSUME NEW x \in CPU, Freeing(x)'
            PROVE  /\ ~bitmap.bits[loc'[x].range.first]
                   /\ loc'[x].range \notin BagToSet(held')
                   /\ \A y \in CPU \ {x} : Freeing(y)' => loc'[y].range # loc'[x].range
        <4>1. CASE x = c
          BY <1>3, <2>3, <2>4, <3>1, <3>3, <4>1
        <4>2. CASE x # c
          BY <2>3, <2>4, <3>1, <3>2, <3>3, <3>4, <4>2
        <4> QED
          BY <4>1, <4>2
      <3>5. \A x \in CPU : Taking(x)' => bitmap.bits[loc'[x].range.first]
        BY <2>1, <2>3, <2>4, <2>8 DEF OnePlace
      <3>6. ASSUME NEW g \in Frame
            PROVE  \/ bitmap.bits[g]
                   \/ One(g) \in BagToSet(held')
                   \/ \E x \in CPU : Freeing(x)' /\ loc'[x].range = One(g)
        <4>1. CASE One(g) = One(f)
          BY <2>3, <2>8, <4>1
        <4>2. CASE One(g) # One(f)
          BY <2>1, <2>3, <2>4, <3>1, <4>2 DEF OnePlace
        <4> QED
          BY <4>1, <4>2
      <3> QED
        BY <2>2, <2>6, <3>4, <3>5, <3>6 DEF OnePlace
    <2> QED
      BY <2>7, <2>8
  <1> QED
    BY <1>7, <1>8, <1>9, <1>10, <1>11 DEF AllocInv

(* One byte is searched.                                                   *)
LEMMA StepScan ==
    ASSUME AllocInv, NEW c \in CPU, Scan(c)
    PROVE  AllocInv'
  <1> DEFINE l == loc[c]
             fresh == [count |-> 0, start |-> 0, found |-> NotFound]
             found == ScanByte(fresh, Byte(bitmap, l.b), l.b * W, l.range.count # 0, 1).found
             r == [l.range EXCEPT !.first = found]
  <1>1. pc \in [CPU -> Place] /\ loc \in [CPU -> Locals] /\ l \in Locals /\ pc[c] = "scan"
        /\ bitmap.size = BitmapSize /\ l.b <= BitmapSize \div W /\ l.b \in Nat
    BY DEF AllocInv, TypesOK, Calls, Scan, Locals
  <1>2. /\ IF l.b = BitmapSize \div W THEN Out(c)
           ELSE IF found = NotFound
           THEN loc' = [loc EXCEPT ![c].b = l.b + 1] /\ UNCHANGED pc
           ELSE Change(c, r, FALSE)
        /\ UNCHANGED <<bitmap, held, clashes>>
    BY <1>1 DEF Scan
  <1>3. ~Busy(c)
    BY <1>1 DEF Busy
  <1> HIDE DEF found
  <1>4. ASSUME Out(c) PROVE AllocInv'
    <2>1. pc' \in [CPU -> Place] /\ loc' \in [CPU -> Locals] /\ pc'[c] = "out" /\ loc'[c] = NoCall
          /\ \A x \in CPU : x # c => pc'[x] = pc[x] /\ loc'[x] = loc[x]
      BY <1>1, <1>4, NoCallType DEF Out, Place
    <2> QED
      BY <1>2, <1>3, <2>1, Quiet
  <1>5. CASE l.b = BitmapSize \div W
    BY <1>2, <1>4, <1>5
  <1>6. CASE l.b # BitmapSize \div W /\ found = NotFound
    <2>1. loc' = [loc EXCEPT ![c].b = l.b + 1] /\ pc' = pc
      BY <1>2, <1>6
    <2>2. l.b + 1 \in Nat /\ l.b + 1 <= BitmapSize \div W
      BY <1>1, <1>6, Sizes
    <2>3. pc' \in [CPU -> Place] /\ loc' \in [CPU -> Locals] /\ pc'[c] = "scan"
          /\ loc'[c].b = l.b + 1
          /\ \A x \in CPU : x # c => pc'[x] = pc[x] /\ loc'[x] = loc[x]
      BY <1>1, <2>1, <2>2 DEF Locals
    <2> QED
      BY <1>2, <1>3, <2>2, <2>3, Quiet
  <1>7. CASE l.b # BitmapSize \div W /\ found # NotFound
    <2>1. Change(c, r, FALSE) /\ l.range.count \in {0, 1} /\ l.range \in [first : Nat, count : {0, 1}]
      BY <1>1, <1>2, <1>7 DEF Locals
    <2>2. CASE l.range.count = 0
      <3>1. r.count = 0
        BY <2>1, <2>2
      <3> QED
        BY <1>4, <2>1, <3>1 DEF Change
    <2>3. CASE l.range.count = 1
      <3>0. (l.range.count # 0) = TRUE
        BY <2>3
      <3>1. found = ScanByte(fresh, Byte(bitmap, l.b), l.b * W, TRUE, 1).found
        BY <3>0, Zenon DEF found
      <3>2. PICK i \in 0 .. W - 1 : l.b * W + i = found /\ bitmap.bits[found] = TRUE
        BY <1>1, <1>7, <3>1, ScanFinds
      <3>3. l.b < BitmapSize \div W
        BY <1>1, <1>7, Sizes
      <3>4. found \in 0 .. Searched - 1
        BY <1>1, <3>2, <3>3, ByteSearched
      <3>5. found \in Frame
        BY <3>2, <3>4 DEF Frame, AllocInv, Marks
      <3>6. r = One(found)
        BY <2>1, <2>3 DEF One
      <3>7. /\ UNCHANGED <<bitmap, clashes>> /\ Change(c, One(found), FALSE)
            /\ BagToSet(held') = BagToSet(held)
            /\ \A q \in BagToSet(held') : held'[q] \in Nat \ {0} /\ held'[q] <= held[q]
        <4>1. held' = held /\ UNCHANGED <<bitmap, clashes>> /\ Change(c, One(found), FALSE)
          BY <1>2, <2>1, <3>6
        <4>2. \A q \in BagToSet(held) : held[q] \in Nat \ {0} /\ held[q] <= held[q]
          BY DEF AllocInv, HeldFrames
        <4> QED
          BY <4>1, <4>2
      <3> QED
        BY <1>3, <3>2, <3>5, <3>7, StepChange
    <2> QED
      BY <2>1, <2>2, <2>3
  <1> QED
    BY <1>5, <1>6, <1>7

(* A range given back.                                                     *)
LEMMA BagRemove ==
    ASSUME NEW h, \A x \in BagToSet(h) : h[x] \in Nat \ {0}, NEW r \in BagToSet(h),
           NEW g, g = h (-) SetToBag({r})
    PROVE  /\ BagToSet(g) \subseteq BagToSet(h)
           /\ \A x \in BagToSet(g) : g[x] \in Nat \ {0} /\ g[x] <= h[x]
           /\ h[r] = 1 => BagToSet(g) = BagToSet(h) \ {r}
  BY DEF BagToSet, SetToBag, (-)

(* A call of free_frames starts.                                           *)
LEMMA StepFree ==
    ASSUME AllocInv, NEW c \in CPU, NEW r \in BagToSet(held), free_frames(c, r)
    PROVE  AllocInv'
  <1>1. /\ pc[c] = "out" /\ held' = held (-) SetToBag({r})
        /\ Change(c, r, TRUE) /\ UNCHANGED <<bitmap, clashes>>
    BY DEF free_frames, Enters
  <1>2. PICK f \in Frame : r = One(f)
    BY DEF AllocInv, HeldFrames
  <1>3. \A x \in BagToSet(held) : held[x] \in Nat \ {0}
    BY DEF AllocInv, HeldFrames
  <1>4. /\ BagToSet(held') \subseteq BagToSet(held)
        /\ \A x \in BagToSet(held') : held'[x] \in Nat \ {0} /\ held'[x] <= held[x]
        /\ held[r] = 1 => BagToSet(held') = BagToSet(held) \ {r}
    BY <1>1, <1>3, BagRemove
  <1>5. clashes = 0 => held[r] = 1
    BY DEF AllocInv, OnePlace
  <1>6. ~Busy(c)
    BY <1>1 DEF Busy
  <1> QED
    BY <1>1, <1>2, <1>4, <1>5, <1>6, StepChange

(* Only the bits of the bitmap are assigned.                               *)
LEMMA AssignBits ==
    ASSUME Shape(bitmap), NEW new
    PROVE  [bitmap EXCEPT !.bits = new] = Bitmap(new, BitmapSize)
  <1>1. PICK bits : bits = bitmap.bits
    OBVIOUS
  <1>2. [Bitmap(bits, BitmapSize) EXCEPT !.bits = new] = Bitmap(new, BitmapSize)
    BY DEF Bitmap
  <1>3. bitmap = Bitmap(bits, BitmapSize)
    BY <1>1 DEF Shape
  <1> QED
    BY <1>2, <1>3, Zenon

(* What a store for one frame makes of the bitmap.                         *)
After(m, f, v, byte) ==
    [i \in 0 .. Frames - 1 |->
        IF i \div W = f \div W THEN (IF i = f THEN v ELSE byte[i % W]) ELSE m.bits[i]]

(* A store changes one byte.                                               *)
LEMMA StoredOne ==
    ASSUME Shape(bitmap), NEW f \in Frame, NEW l, l.range = One(f), l.b = f \div W
    PROVE  Stored(l) = Bitmap(After(bitmap, f, l.value, l.byte), BitmapSize)
  <1> DEFINE D == 0 .. Frames - 1
             q == f \div W
             sb == [i \in D |-> IF i \div W = q THEN l.byte[i % W] ELSE bitmap.bits[i]]
             mb == Filled(sb, D, f, f + 1, l.value)
             fb == [i \in D |-> IF i \div W = q THEN mb[i] ELSE bitmap.bits[i]]
             seen == [bitmap EXCEPT !.bits = [i \in DOMAIN @ |->
                         IF i \div W = l.b THEN l.byte[i % W] ELSE @[i]]]
             made == set_range(seen, l.range.first, l.range.first + l.range.count, l.value)
  <1>1. bitmap = Bitmap(bitmap.bits, BitmapSize) /\ DOMAIN bitmap.bits = D
    BY DEF Shape, BitsOn
  <1>2. l.range.first = f /\ l.range.count = 1
    BY DEF One
  <1>3. f \in Nat /\ f < BitmapSize /\ f \in D /\ f + 1 \in Nat /\ f < f + 1
    BY FrameByte
  <1>4. Stored(l) = [bitmap EXCEPT !.bits = [i \in DOMAIN @ |->
                         IF i \div W = l.b THEN made.bits[i] ELSE @[i]]]
    BY DEF Stored
  <1>5. seen = Bitmap(sb, BitmapSize)
    <2>1. seen = [bitmap EXCEPT !.bits = sb]
      BY <1>1
    <2> HIDE DEF sb, seen
    <2> QED
      BY <2>1, AssignBits
  <1>6. BitsOn(sb, D)
    BY DEF BitsOn
  <1> HIDE DEF sb, seen
  <1>7. made = Bitmap(mb, BitmapSize)
    <2>1. set_range(Bitmap(sb, BitmapSize), f, f + 1, l.value) =
              IF f < f + 1 /\ f < BitmapSize THEN Bitmap(mb, BitmapSize)
              ELSE Bitmap(sb, BitmapSize)
      BY <1>3, <1>6, SetRangeHere
    <2> QED
      BY <1>2, <1>3, <1>5, <2>1
  <1>8. made.bits = mb
    BY <1>7 DEF Bitmap
  <1> HIDE DEF made, mb
  <1>9. Stored(l) = Bitmap(fb, BitmapSize)
    <2>1. Stored(l) = [bitmap EXCEPT !.bits = fb]
      BY <1>1, <1>4, <1>8
    <2> HIDE DEF fb
    <2> QED
      BY <2>1, AssignBits
  <1>10. ASSUME NEW i \in D PROVE fb[i] = After(bitmap, f, l.value, l.byte)[i]
    <2>1. (f <= i /\ i < f + 1) <=> i = f
      BY <1>3, Sizes
    <2>2. mb[i] = IF i = f THEN l.value ELSE sb[i]
      BY <2>1 DEF mb, Filled
    <2>3. i \div W = q => sb[i] = l.byte[i % W]
      BY DEF sb
    <2> QED
      BY <2>2, <2>3 DEF After
  <1>11. fb = After(bitmap, f, l.value, l.byte)
    BY <1>10 DEF After
  <1> HIDE DEF fb
  <1> QED
    BY <1>9, <1>11

(* A byte is stored, and the call returns.                                 *)
LEMMA StepStore ==
    ASSUME AllocInv, NEW c \in CPU, Store(c)
    PROVE  AllocInv'
  <1> DEFINE l == loc[c]
             D == 0 .. Frames - 1
  <1>1. /\ pc \in [CPU -> Place] /\ loc \in [CPU -> Locals] /\ l \in Locals
        /\ bitmap \in [bits : [D -> BOOLEAN], size : {BitmapSize}] /\ clashes \in Nat
        /\ pc[c] = "store" /\ l.value \in BOOLEAN /\ l.byte \in [0 .. W - 1 -> BOOLEAN]
    BY DEF AllocInv, TypesOK, Store, Locals
  <1>2. PICK f \in Frame : l.range = One(f) /\ l.b = f \div W
    BY <1>1 DEF AllocInv, Calls, Busy
  <1>3. PICK v \in BOOLEAN : v = l.value
    BY <1>1
  <1>4. PICK byte \in [0 .. W - 1 -> BOOLEAN] : byte = l.byte
    BY <1>1
  <1>5. PICK q \in Nat : q = f \div W /\ q < BitmapSize \div W
    BY FrameByte
  <1>6. f \in Nat /\ f \in D /\ f \in 0 .. Searched - 1 /\ f \notin Reserved
    BY FrameByte
  <1>7. Shape(bitmap)
    BY <1>1 DEF Shape, Bitmap, BitsOn
  <1>8. bitmap' = Bitmap(After(bitmap, f, v, byte), BitmapSize)
    BY <1>2, <1>3, <1>4, <1>7, StoredOne DEF Store
  <1>9. \A i \in D : bitmap'.bits[i] =
            IF i \div W = q THEN (IF i = f THEN v ELSE byte[i % W]) ELSE bitmap.bits[i]
    BY <1>5, <1>8 DEF Bitmap, After
  <1>10. bitmap' \in [bits : [D -> BOOLEAN], size : {BitmapSize}]
    <2>1. \A i \in D : i % W \in 0 .. W - 1
      <3> SUFFICES ASSUME NEW i \in D PROVE i % W \in 0 .. W - 1
        OBVIOUS
      <3>1. i \in Nat
        BY Sizes
      <3> QED
        BY <3>1, ByteOf
    <2>2. After(bitmap, f, v, byte) \in [D -> BOOLEAN]
      BY <1>1, <2>1 DEF After
    <2> QED
      BY <1>8, <2>2 DEF Bitmap
  <1>11. Out(c) /\ held' = IF v THEN held ELSE held (+) SetToBag({One(f)})
    <2>1. l.range.first + l.range.count - 1 = f
      BY <1>2, <1>6 DEF One
    <2>2. ~(l.b < (l.range.first + l.range.count - 1) \div W)
      BY <1>2, <1>5, <2>1
    <2> QED
      BY <1>2, <1>3, <2>2 DEF Store, Return
  <1>12. /\ pc' \in [CPU -> Place] /\ loc' \in [CPU -> Locals]
         /\ pc'[c] = "out" /\ loc'[c] = NoCall
         /\ \A x \in CPU : x # c => pc'[x] = pc[x] /\ loc'[x] = loc[x]
    BY <1>1, <1>11, NoCallType DEF Out, Place
  <1>13. clashes' = IF Clash(c) THEN clashes + 1 ELSE clashes
    BY DEF Store
  <1>14. TypesOK'
    BY <1>1, <1>10, <1>12, <1>13 DEF TypesOK
  <1>15. Calls'
    <2> SUFFICES ASSUME NEW x \in CPU
                 PROVE  /\ pc'[x] = "out" => loc'[x] = NoCall
                        /\ pc'[x] = "scan" => loc'[x].b <= BitmapSize \div W
                        /\ pc'[x] \in {"load", "store"} =>
                              \E g \in Frame : loc'[x].range = One(g) /\ loc'[x].b = g \div W
      BY DEF Calls, Busy
    <2>1. CASE x = c
      BY <1>12, <2>1
    <2>2. CASE x # c
      BY <1>12, <2>2 DEF AllocInv, Calls, Busy
    <2> QED
      BY <2>1, <2>2
  <1>16. \A x \in BagToSet(held) : held[x] \in Nat \ {0}
    BY DEF AllocInv, HeldFrames
  <1>17. ASSUME ~v
         PROVE  /\ BagToSet(held') = BagToSet(held) \cup {One(f)}
                /\ \A x \in BagToSet(held') : held'[x] \in Nat \ {0}
                /\ \A x \in BagToSet(held) : x # One(f) => held'[x] = held[x]
                /\ One(f) \notin BagToSet(held) => held'[One(f)] = 1
    <2>1. PICK r : r = One(f)
      OBVIOUS
    <2>2. held' = held (+) SetToBag({r})
      BY <1>11, <1>17, <2>1
    <2>3. /\ BagToSet(held') = BagToSet(held) \cup {r}
          /\ \A x \in BagToSet(held') : held'[x] \in Nat \ {0}
          /\ \A x \in BagToSet(held) : x # r => held'[x] = held[x]
          /\ r \notin BagToSet(held) => held'[r] = 1
      BY <1>16, <2>2 DEF BagToSet, SetToBag, (+)
    <2> QED
      BY <2>1, <2>3, Zenon
  <1>18. HeldFrames'
    <2>1. \A r \in BagToSet(held) : \E g \in Frame : r = One(g)
      BY DEF AllocInv, HeldFrames
    <2>2. CASE v
      BY <1>11, <1>16, <2>1, <2>2 DEF HeldFrames
    <2>3. CASE ~v
      BY <1>17, <2>1, <2>3 DEF HeldFrames
    <2> QED
      BY <2>2, <2>3
  <1>19. ASSUME NEW i \in D PROVE i % W \in 0 .. W - 1 /\ (i \div W = q => i = q * W + (i % W))
    <2>1. i \in Nat
      BY Sizes
    <2> QED
      BY <2>1, ByteOf
  <1>20. Marks'
    <2>1. ASSUME NEW g \in 0 .. Searched - 1, bitmap'.bits[g] PROVE g \notin Reserved
      <3>1. g \in D
        BY Sizes
      <3>2. CASE g = f
        BY <1>6, <3>2
      <3>3. CASE g # f /\ g \div W = q
        <4>1. byte[g % W] /\ g % W \in 0 .. W - 1 /\ g = q * W + (g % W)
          BY <1>9, <1>19, <2>1, <3>1, <3>3
        <4>2. \A i \in 0 .. W - 1 : l.byte[i] => l.b * W + i \notin Reserved
          BY <1>1 DEF AllocInv, Marks
        <4> QED
          BY <1>2, <1>4, <1>5, <4>1, <4>2
      <3>4. CASE g # f /\ g \div W # q
        BY <1>9, <2>1, <3>1, <3>4 DEF AllocInv, Marks
      <3> QED
        BY <3>2, <3>3, <3>4
    <2>2. ASSUME NEW x \in CPU, pc'[x] = "store"
          PROVE  \A i \in 0 .. W - 1 : loc'[x].byte[i] => loc'[x].b * W + i \notin Reserved
      BY <1>12, <2>2 DEF AllocInv, Marks
    <2> QED
      BY <2>1, <2>2 DEF Marks
  <1>21. ASSUME clashes' = 0 PROVE Fresh' /\ OnePlace'
    <2>1. clashes = 0 /\ ~Clash(c) /\ Fresh /\ OnePlace
      BY <1>1, <1>13, <1>21 DEF AllocInv
    <2>2. \A i \in D : bitmap'.bits[i] = IF i = f THEN v ELSE bitmap.bits[i]
      <3>1. byte = Byte(bitmap, q)
        BY <1>1, <1>2, <1>4, <1>5, <2>1 DEF Fresh
      <3>2. ASSUME NEW i \in D, i \div W = q PROVE byte[i % W] = bitmap.bits[i]
        BY <1>19, <3>1, <3>2 DEF Byte
      <3> QED
        BY <1>6, <1>9, <3>2, <1>5
    <2>3. Fresh'
      <3> SUFFICES ASSUME NEW x \in CPU, pc'[x] = "store"
                   PROVE  loc'[x].byte = Byte(bitmap', loc'[x].b)
        BY DEF Fresh
      <3>1. x # c /\ pc[x] = "store" /\ loc'[x] = loc[x]
        BY <1>12
      <3>2. PICK b \in Nat : b = loc[x].b /\ b # q /\ b < BitmapSize \div W
        <4>1. loc[x].b # q
          BY <1>2, <1>5, <2>1, <3>1 DEF Clash
        <4>2. PICK g \in Frame : loc[x].b = g \div W
          BY <3>1 DEF AllocInv, Calls, Busy
        <4> QED
          BY <4>1, <4>2, FrameByte
      <3>3. ASSUME NEW i \in 0 .. W - 1 PROVE bitmap'.bits[b * W + i] = bitmap.bits[b * W + i]
        <4>1. b * W + i \in D
          BY <3>2, ByteSearched
        <4>2. (b * W + i) \div W = b
          BY ByteUnique
        <4>3. b * W + i # f
          BY <1>5, <3>2, <4>2
        <4> QED
          BY <2>2, <4>1, <4>3
      <3>4. Byte(bitmap', b) = Byte(bitmap, b)
        BY <3>3 DEF Byte
      <3> QED
        BY <2>1, <3>1, <3>2, <3>4 DEF Fresh
    <2>4. ASSUME NEW g \in Frame PROVE g \in D /\ One(g).first = g /\ (One(g) = One(f) => g = f)
      BY FrameByte DEF One
    <2>5. /\ \A r \in BagToSet(held) : \E g \in Frame : r = One(g)
          /\ \A x \in CPU : Busy(x) => \E g \in Frame : loc[x].range = One(g)
      BY DEF AllocInv, HeldFrames, Calls
    <2>6. \A x \in CPU : /\ Freeing(x)' <=> x # c /\ Freeing(x)
                         /\ Taking(x)' <=> x # c /\ Taking(x)
                         /\ x # c => loc'[x].range = loc[x].range
      BY <1>12 DEF Freeing, Taking, Busy
    <2>7. \A x \in CPU : x # c /\ Taking(x) /\ ~v => loc[x].range # One(f)
      <3> SUFFICES ASSUME NEW x \in CPU, x # c, Taking(x), ~v, loc[x].range = One(f)
                   PROVE  FALSE
        OBVIOUS
      <3>1. f \in Span(One(f))
        BY <1>6 DEF Span, One
      <3>2. Span(loc[x].range) \cap Span(loc[c].range) # {}
        BY <1>2, <3>1
      <3> QED
        BY <1>3, <2>1, <3>2 DEF Clash, Taking, Busy
    <2>8. (v => Freeing(c)) /\ (~v => Taking(c))
      BY <1>1, <1>3 DEF Freeing, Taking, Busy
    <2>9. v => ~bitmap.bits[f] /\ One(f) \notin BagToSet(held)
               /\ \A x \in CPU \ {c} : Freeing(x) => loc[x].range # One(f)
      BY <1>2, <1>6, <2>1, <2>4, <2>8 DEF OnePlace
    <2>10. ~v => bitmap.bits[f] /\ One(f) \notin BagToSet(held)
                 /\ \A x \in CPU : Freeing(x) => loc[x].range # One(f)
      BY <1>2, <2>1, <2>4, <2>8 DEF OnePlace
    <2>11. \A r \in BagToSet(held') : held'[r] = 1 /\ ~bitmap'.bits[r.first]
      <3>1. ASSUME NEW r \in BagToSet(held), r # One(f)
            PROVE  held[r] = 1 /\ ~bitmap'.bits[r.first]
        <4>1. PICK g \in Frame : r = One(g)
          BY <2>5
        <4>2. g # f /\ r.first = g /\ g \in D
          BY <2>4, <3>1, <4>1
        <4> QED
          BY <2>1, <2>2, <4>2 DEF OnePlace
      <3>2. CASE v
        BY <1>11, <2>9, <3>1, <3>2
      <3>3. CASE ~v
        <4>1. ~bitmap'.bits[One(f).first]
          BY <1>6, <2>2, <2>4, <3>3
        <4> QED
          BY <1>17, <2>10, <3>1, <3>3, <4>1
      <3> QED
        BY <3>2, <3>3
    <2>12. ASSUME NEW x \in CPU, Freeing(x)'
           PROVE  /\ ~bitmap'.bits[loc'[x].range.first]
                  /\ loc'[x].range \notin BagToSet(held')
                  /\ \A y \in CPU \ {x} : Freeing(y)' => loc'[y].range # loc'[x].range
      <3>1. x # c /\ Freeing(x) /\ loc'[x].range = loc[x].range
        BY <2>6, <2>12
      <3>2. PICK g \in Frame : loc[x].range = One(g)
        BY <2>5, <3>1 DEF Freeing
      <3>3. One(g) # One(f) /\ g # f
        BY <2>9, <2>10, <3>1, <3>2
      <3>4. ~bitmap.bits[g] /\ One(g) \notin BagToSet(held)
            /\ \A y \in CPU \ {x} : Freeing(y) => loc[y].range # One(g)
        BY <2>1, <2>4, <3>1, <3>2 DEF OnePlace
      <3>5. ~bitmap'.bits[g]
        BY <2>2, <2>4, <3>3, <3>4
      <3>6. One(g) \notin BagToSet(held')
        BY <1>11, <1>17, <3>3, <3>4
      <3>7. \A y \in CPU \ {x} : Freeing(y)' => loc'[y].range # One(g)
        BY <2>6, <3>4
      <3> QED
        BY <2>4, <3>1, <3>2, <3>5, <3>6, <3>7
    <2>13. ASSUME NEW x \in CPU, Taking(x)' PROVE bitmap'.bits[loc'[x].range.first]
      <3>1. x # c /\ Taking(x) /\ loc'[x].range = loc[x].range
        BY <2>6, <2>13
      <3>2. PICK g \in Frame : loc[x].range = One(g)
        BY <2>5, <3>1 DEF Taking
      <3>3. bitmap.bits[g]
        BY <2>1, <2>4, <3>1, <3>2 DEF OnePlace
      <3>4. v \/ g # f
        BY <2>7, <3>1, <3>2
      <3>5. bitmap'.bits[g]
        BY <2>2, <2>4, <3>3, <3>4
      <3> QED
        BY <2>4, <3>1, <3>2, <3>5
    <2>14. ASSUME NEW g \in Frame
           PROVE  \/ bitmap'.bits[g]
                  \/ One(g) \in BagToSet(held')
                  \/ \E x \in CPU : Freeing(x)' /\ loc'[x].range = One(g)
      <3>1. CASE g = f
        BY <1>6, <1>17, <2>2, <3>1
      <3>2. CASE g # f
        <4>1. bitmap'.bits[g] = bitmap.bits[g] /\ One(g) # One(f)
          BY <2>2, <2>4, <3>2
        <4>2. One(g) \in BagToSet(held) => One(g) \in BagToSet(held')
          BY <1>11, <1>17
        <4>3. ASSUME NEW x \in CPU, Freeing(x), loc[x].range = One(g)
              PROVE  Freeing(x)' /\ loc'[x].range = One(g)
          BY <1>2, <2>6, <4>1, <4>3
        <4> QED
          BY <2>1, <4>1, <4>2, <4>3 DEF OnePlace
      <3> QED
        BY <3>1, <3>2
    <2>15. OnePlace'
      BY <2>11, <2>12, <2>13, <2>14 DEF OnePlace
    <2> QED
      BY <2>3, <2>15
  <1> QED
    BY <1>14, <1>15, <1>18, <1>20, <1>21 DEF AllocInv

-----------------------------------------------------------------------------
(* Theorems                                                                *)

(* Callers ask for single frames (or, harmlessly, for none).               *)
LEMMA AllocInvariant == ASSUME Counts \subseteq {0, 1} PROVE Spec => []AllocInv
  <1>1. AllocInv /\ [Next]_vars => AllocInv'
    <2> SUFFICES ASSUME AllocInv, [Next]_vars PROVE AllocInv'
      OBVIOUS
    <2>1. CASE UNCHANGED vars
      BY <2>1 DEF vars, AllocInv, TypesOK, Calls, HeldFrames, Marks, Fresh, OnePlace,
                  Busy, Freeing, Taking
    <2>2. CASE Next
      <3>1. PICK c \in CPU : \/ \E n \in Counts : alloc_frames(c, n)
                             \/ \E r \in BagToSet(held) : free_frames(c, r)
                             \/ Scan(c) \/ Load(c) \/ Store(c)
        BY <2>2 DEF Next
      <3>2. CASE \E n \in Counts : alloc_frames(c, n)
        BY <3>2, StepAlloc
      <3>3. CASE \E r \in BagToSet(held) : free_frames(c, r)
        BY <3>3, StepFree
      <3>4. CASE Scan(c)
        BY <3>4, StepScan
      <3>5. CASE Load(c)
        BY <3>5, StepLoad
      <3>6. CASE Store(c)
        BY <3>6, StepStore
      <3> QED
        BY <3>1, <3>2, <3>3, <3>4, <3>5, <3>6
    <2> QED
      BY <2>1, <2>2
  <1> QED
    BY <1>1, AllocInit, PTL DEF Spec

(* With single frames, for any memory map and any number of CPUs: no frame *)
(* is handed out that is not usable memory or that holds the bitmap, and   *)
(* none is held twice unless two CPUs clashed.                             *)
THEOREM FrameExclusive == ASSUME Counts \subseteq {0, 1} PROVE Spec => []Exclusive
  <1>1. AllocInv => Exclusive
    <2> SUFFICES ASSUME AllocInv PROVE Exclusive
      OBVIOUS
    <2>1. ASSUME NEW r \in BagToSet(held) PROVE \E f \in Frame : r = One(f) /\ Span(r) = {f}
      <3>1. PICK f \in Frame : r = One(f)
        BY DEF AllocInv, HeldFrames
      <3>2. f \in Nat /\ r.first = f /\ r.count = 1
        BY <3>1, FrameByte DEF One
      <3>3. Span(r) = {f}
        BY <3>2 DEF Span
      <3> QED
        BY <3>1, <3>3
    <2>2. Taken \cap Reserved = {}
      BY <2>1 DEF Taken, Frame
    <2>3. ASSUME NEW r \in BagToSet(held), NEW q \in BagToSet(held), r # q
          PROVE  Span(r) \cap Span(q) = {}
      BY <2>1, <2>3
    <2>4. clashes = 0 => \A r \in BagToSet(held) : held[r] = 1
      BY DEF AllocInv, OnePlace
    <2> QED
      BY <2>2, <2>3, <2>4 DEF Exclusive
  <1> QED
    BY <1>1, AllocInvariant, PTL

(* With single frames no searchable usable frame is lost, unless two CPUs  *)
(* clashed: when no call is in progress it is marked in the bitmap or held *)
(* by somebody, and not both.                                              *)
THEOREM FrameNoneLost == ASSUME Counts \subseteq {0, 1} PROVE Spec => []NoFrameLost
  <1>1. AllocInv => NoFrameLost
    <2> SUFFICES ASSUME AllocInv, AllOut, clashes = 0, NEW f \in Frame
                 PROVE  bitmap.bits[f] <=> f \notin Taken
      BY DEF NoFrameLost, Frame, Searched
    <2>1. OnePlace /\ HeldFrames
      BY DEF AllocInv
    <2>2. One(f).first = f /\ f \in Span(One(f)) /\ f \in Nat
      BY FrameByte DEF One, Span
    <2>3. ASSUME f \in Taken PROVE ~bitmap.bits[f]
      <3>1. PICK r \in BagToSet(held) : f \in Span(r)
        BY <2>3 DEF Taken
      <3>2. PICK g \in Frame : r = One(g)
        BY <2>1 DEF HeldFrames
      <3>3. g \in Nat /\ r.first = g /\ r.count = 1
        BY <3>2, FrameByte DEF One
      <3>4. f = g
        BY <2>2, <3>1, <3>3 DEF Span
      <3> QED
        BY <2>1, <3>3, <3>4 DEF OnePlace
    <2>4. ASSUME f \notin Taken PROVE bitmap.bits[f]
      <3>1. One(f) \notin BagToSet(held)
        BY <2>2, <2>4 DEF Taken
      <3>2. \A c \in CPU : ~Freeing(c)
        BY DEF AllOut, Freeing, Busy
      <3> QED
        BY <2>1, <3>1, <3>2 DEF OnePlace
    <2>5. f \in 0 .. Frames - 1 /\ bitmap.bits[f] \in BOOLEAN
      BY FrameByte DEF AllocInv, TypesOK
    <2> QED
      BY <2>3, <2>4, <2>5
  <1> QED
    BY <1>1, AllocInvariant, PTL
=============================================================================
