---------------------------- MODULE FramesProofs ----------------------------
(***************************************************************************)
(* Both ends agree on every frame, for any byte size above four, any       *)
(* padding and any fields short enough for their lengths.                  *)
(*                                                                         *)
(* CursorInv says where a decoder is: inside the frame, with the length it *)
(* reads next there or about to be tested.  MatchInv says what it sees: as *)
(* far as an unaltered frame goes it is what was sent, so the fields taken *)
(* are the first ones put and the rest of the frame is what follows them.  *)
(***************************************************************************)
EXTENDS Frames, TLAPS

\* The backends, in the order in which a leaf that names none tries them.
USE SMT, ZenonT(20), Z3T(60), SMTT(60)

-----------------------------------------------------------------------------
(* Lengths as bytes                                                        *)

\* The widths of a length: none, a byte, two or four.
Width == {0, 1, 2, 4}

\* The bytes are the digits of a number.
LEMMA BaseType == Base \in Nat /\ Base > 4 /\ Base # 0 /\ Byte \subseteq Nat /\ 0 \in Byte
  BY FramesAssumption DEF Byte

\* A byte is put in front of a digit.
LEMMA Shifted == ASSUME NEW a \in Nat, NEW b \in Nat PROVE a * Base + b \in Nat
<1>1. Base \in Nat
  BY BaseType
<1>2. a * Base \in Nat
  BY <1>1
<1> QED BY <1>2

\* A number that is read from bytes is one.
LEMMA UintType ==
  ASSUME NEW s \in Seq(Byte), Len(s) \in Width
  PROVE  Uint(s) \in Nat
<1>1. \A i \in 1..Len(s) : s[i] \in Nat
  <2>1. \A i \in 1..Len(s) : s[i] \in Byte
    OBVIOUS
  <2> QED BY <2>1, BaseType, Zenon
<1>2. CASE Len(s) = 0
  BY <1>2 DEF Uint
<1>3. CASE Len(s) = 1
  BY <1>1, <1>3 DEF Uint
<1>4. CASE Len(s) = 2
  <2>1. s[1] \in Nat /\ s[2] \in Nat
    BY <1>1, <1>4
  <2>2. Uint(s) = s[1] * Base + s[2]
    BY <1>4 DEF Uint
  <2> QED BY <2>1, <2>2, Shifted, Zenon
<1>5. CASE Len(s) = 4
  <2>1. s[1] \in Nat /\ s[2] \in Nat /\ s[3] \in Nat /\ s[4] \in Nat
    BY <1>1, <1>5
  <2>2. Uint(s) = ((s[1] * Base + s[2]) * Base + s[3]) * Base + s[4]
    BY <1>5 DEF Uint
  <2>3. s[1] * Base + s[2] \in Nat
    BY <2>1, Shifted, Zenon
  <2>4. (s[1] * Base + s[2]) * Base + s[3] \in Nat
    BY <2>1, <2>3, Shifted, Zenon
  <2> QED BY <2>1, <2>2, <2>4, Shifted, Zenon
<1> QED BY <1>2, <1>3, <1>4, <1>5 DEF Width

\* The last digit of a number, and what is above it.
LEMMA LastDigit ==
  ASSUME NEW n \in Nat
  PROVE  /\ n \div Base \in Nat /\ n % Base \in Byte
         /\ n = (n \div Base) * Base + (n % Base)
<1>1. Base \in Nat \ {0}
  BY BaseType
<1>2. n \div Base \in Nat /\ n % Base \in 0..(Base - 1)
  BY <1>1
<1>3. n = Base * (n \div Base) + (n % Base)
  BY <1>1
<1> QED BY <1>1, <1>2, <1>3 DEF Byte

\* A number below a multiple of the base has its upper part below the factor.
LEMMA Above ==
  ASSUME NEW n \in Nat, NEW m \in Nat, n < m * Base
  PROVE  n \div Base < m
<1>1. Base \in Nat \ {0} /\ n \div Base \in Nat /\ n % Base \in Nat
  BY BaseType, LastDigit
<1>2. n = (n \div Base) * Base + (n % Base)
  BY LastDigit
<1>3. SUFFICES ASSUME n \div Base >= m PROVE FALSE
  BY <1>1
<1>4. PICK d \in Nat : n \div Base = m + d
  BY <1>1, <1>3
<1>5. n = (m + d) * Base + (n % Base)
  BY <1>2, <1>4
<1>6. (m + d) * Base = m * Base + d * Base /\ d * Base \in Nat /\ m * Base \in Nat
  BY <1>1
<1> QED BY <1>1, <1>5, <1>6

\* A number below the base is its own last digit.
LEMMA SmallDigit ==
  ASSUME NEW n \in Nat, n < Base
  PROVE  n % Base = n
  BY BaseType

\* Sequences of bytes, given one by one.
LEMMA ByteTuples ==
  ASSUME NEW a \in Byte, NEW b \in Byte, NEW c \in Byte, NEW d \in Byte
  PROVE  /\ <<>> \in Seq(Byte) /\ Len(<<>>) = 0
         /\ <<a>> \in Seq(Byte) /\ Len(<<a>>) = 1
         /\ <<a, b>> \in Seq(Byte) /\ Len(<<a, b>>) = 2
         /\ <<a, b, c, d>> \in Seq(Byte) /\ Len(<<a, b, c, d>>) = 4
  OBVIOUS

\* What the decoders read is what the encoders put.
LEMMA UintOfPut ==
  ASSUME NEW w \in Width, NEW n \in Nat, n < Limit(w)
  PROVE  /\ PutUint(w, n) \in Seq(Byte) /\ Len(PutUint(w, n)) = w
         /\ Uint(PutUint(w, n)) = n
<1> DEFINE n1 == n \div Base
           n2 == n1 \div Base
           n3 == n2 \div Base
<1>1. n1 \in Nat /\ n % Base \in Byte /\ n = n1 * Base + (n % Base)
  BY LastDigit
<1>2. n2 \in Nat /\ n1 % Base \in Byte /\ n1 = n2 * Base + (n1 % Base)
  BY <1>1, LastDigit
<1>3. n3 \in Nat /\ n2 % Base \in Byte /\ n2 = n3 * Base + (n2 % Base)
  BY <1>2, LastDigit
<1>4. n3 % Base \in Byte
  BY <1>3, LastDigit
<1>5. Base \in Nat /\ Base * Base \in Nat /\ Base * Base * Base \in Nat
  <2>1. Base \in Nat
    BY BaseType
  <2>2. Base * Base \in Nat
    BY <2>1
  <2> QED BY <2>1, <2>2
<1>6. CASE w = 0
  <2>1. n = 0
    BY <1>6 DEF Limit
  <2>2. PutUint(w, n) = <<>>
    BY <1>6 DEF PutUint
  <2>3. Uint(<<>>) = 0
    BY DEF Uint
  <2> QED BY <1>1, <1>6, <2>1, <2>2, <2>3, ByteTuples, Zenon
<1>7. CASE w = 1
  <2>1. n % Base = n
    BY <1>7, SmallDigit DEF Limit
  <2>2. PutUint(w, n) = <<n>>
    BY <1>7, <2>1 DEF PutUint
  <2>3. n \in Byte
    BY <1>1, <2>1
  <2>4. Uint(<<n>>) = n
    BY DEF Uint
  <2> QED BY <1>7, <2>2, <2>3, <2>4, ByteTuples, Zenon
<1>8. CASE w = 2
  <2>1. n1 % Base = n1
    <3>1. n1 < Base
      BY <1>5, <1>8, Above DEF Limit
    <3> QED BY <1>1, <3>1, SmallDigit
  <2>2. PutUint(w, n) = <<n1, n % Base>>
    BY <1>8, <2>1 DEF PutUint
  <2> HIDE DEF n1
  <2>3. n1 \in Byte
    BY <1>2, <2>1
  <2>4. Uint(<<n1, n % Base>>) = n1 * Base + (n % Base)
    BY DEF Uint
  <2> QED BY <1>1, <1>8, <2>2, <2>3, <2>4, ByteTuples, Zenon
<1>9. CASE w = 4
  <2>1. n3 % Base = n3
    <3>1. n < Base * Base * Base * Base
      BY <1>9 DEF Limit
    <3>2. n1 < Base * Base * Base
      BY <1>5, <3>1, Above
    <3>3. n2 < Base * Base
      BY <1>1, <1>5, <3>2, Above
    <3>4. n3 < Base
      BY <1>2, <1>5, <3>3, Above
    <3> QED BY <1>3, <3>4, SmallDigit
  <2>2. PutUint(w, n) = <<n3, n2 % Base, n1 % Base, n % Base>>
    BY <1>9, <2>1 DEF PutUint
  <2>3. n3 \in Byte
    BY <1>4, <2>1
  <2> HIDE DEF n1, n2, n3
  <2>4. Uint(<<n3, n2 % Base, n1 % Base, n % Base>>)
          = ((n3 * Base + (n2 % Base)) * Base + (n1 % Base)) * Base + (n % Base)
    BY DEF Uint
  <2>5. Uint(PutUint(w, n)) = n
    BY <1>1, <1>2, <1>3, <2>2, <2>4, Zenon
  <2> QED BY <1>1, <1>2, <1>3, <1>9, <2>2, <2>3, <2>5, ByteTuples, Zenon
<1> QED BY <1>6, <1>7, <1>8, <1>9 DEF Width

-----------------------------------------------------------------------------
(* What a frame agrees with                                                *)

\* Two sequences with the same elements.
LEMMA SameSeq ==
  ASSUME NEW S, NEW s \in Seq(S), NEW t \in Seq(S), Len(s) = Len(t), \A k \in 1..Len(s) : s[k] = t[k]
  PROVE  s = t
  OBVIOUS

\* A part of a frame.
LEMMA PartOfFrame ==
  ASSUME NEW b \in Seq(Byte), NEW i \in Nat, NEW n \in Nat, i + n <= Len(b)
  PROVE  /\ SubSeq(b, i + 1, i + n) \in Seq(Byte) /\ Len(SubSeq(b, i + 1, i + n)) = n
         /\ \A k \in 1..n : SubSeq(b, i + 1, i + n)[k] = b[i + k]
  OBVIOUS

\* From offset i on, a frame agrees with t as far as it goes.
Matches(b, i, t) ==
    /\ i \in Nat /\ i <= Len(b) /\ Len(b) - i <= Len(t)
    /\ \A k \in 1..(Len(b) - i) : b[i + k] = t[k]

\* A part of the frame that has arrived whole is what was put there, and the
\* frame goes on with what follows it.
LEMMA PartTaken ==
  ASSUME NEW b \in Seq(Byte), NEW p \in Seq(Byte), NEW r \in Seq(Byte), NEW i,
         Matches(b, i, p \o r), i + Len(p) <= Len(b)
  PROVE  /\ SubSeq(b, i + 1, i + Len(p)) = p
         /\ Matches(b, i + Len(p), r)
         /\ Len(b) - i = Len(p \o r) => Len(b) - (i + Len(p)) = Len(r)
<1>1. /\ p \o r \in Seq(Byte) /\ Len(p \o r) = Len(p) + Len(r)
      /\ \A k \in 1..Len(p) : (p \o r)[k] = p[k]
      /\ \A k \in 1..Len(r) : (p \o r)[Len(p) + k] = r[k]
  OBVIOUS
<1>2. PICK n \in Nat, m \in Nat, l \in Nat : n = Len(b) /\ m = Len(p) /\ l = Len(r)
  OBVIOUS
<1>3. /\ i \in Nat /\ i <= n /\ n - i <= m + l /\ i + m <= n
      /\ \A k \in 1..(n - i) : b[i + k] = (p \o r)[k]
  BY <1>1, <1>2 DEF Matches
<1>4. \A k \in 1..m : b[i + k] = p[k]
  BY <1>1, <1>2, <1>3
<1>5. \A k \in 1..(n - (i + m)) : b[(i + m) + k] = r[k]
  <2> SUFFICES ASSUME NEW k \in 1..(n - (i + m)) PROVE b[(i + m) + k] = r[k]
    OBVIOUS
  <2>1. /\ m + k \in 1..(n - i) /\ k \in 1..l /\ i + (m + k) = (i + m) + k
    BY <1>3
  <2>2. b[i + (m + k)] = (p \o r)[m + k]
    BY <1>3, <2>1, Zenon
  <2> QED BY <1>1, <1>2, <2>1, <2>2
<1>6. SubSeq(b, i + 1, i + m) = p
  <2>1. /\ SubSeq(b, i + 1, i + m) \in Seq(Byte) /\ Len(SubSeq(b, i + 1, i + m)) = m
        /\ \A k \in 1..m : SubSeq(b, i + 1, i + m)[k] = b[i + k]
    <3>1. i \in Nat /\ i + m <= Len(b)
      BY <1>2, <1>3, Zenon
    <3> QED BY <3>1, PartOfFrame, Zenon
  <2> QED BY <1>2, <1>4, <2>1, SameSeq, Zenon
<1>7. Matches(b, i + m, r)
  BY <1>2, <1>3, <1>5 DEF Matches
<1>8. Len(b) - i = Len(p \o r) => Len(b) - (i + Len(p)) = Len(r)
  <2>1. n - i = m + l => n - (i + m) = l
    BY <1>3
  <2> QED BY <1>1, <1>2, <2>1, Zenon
<1> QED BY <1>2, <1>6, <1>7, <1>8, Zenon

\* The same at the start of the frame.
LEMMA StartTaken ==
  ASSUME NEW b \in Seq(Byte), NEW p \in Seq(Byte), NEW r \in Seq(Byte),
         Matches(b, 0, p \o r), Len(p) <= Len(b)
  PROVE  /\ Matches(b, Len(p), r)
         /\ Len(b) = Len(p \o r) => Len(b) - Len(p) = Len(r)
<1>1. PICK z \in Nat : z = 0
  OBVIOUS
<1>2. Matches(b, z, p \o r)
  BY <1>1, Zenon
<1>3. z + Len(p) = Len(p) /\ Len(b) - z = Len(b)
  BY <1>1
<1>4. z + Len(p) <= Len(b)
  BY <1>3, Zenon
<1>5. /\ Matches(b, z + Len(p), r)
      /\ Len(b) - z = Len(p \o r) => Len(b) - (z + Len(p)) = Len(r)
  BY <1>2, <1>4, PartTaken
<1> QED BY <1>3, <1>5, Zenon

\* A field that is there is read with its own length, and if it has arrived
\* whole it is what was put there.
LEMMA FieldTaken ==
  ASSUME NEW b \in Seq(Byte), NEW w \in Width, NEW size \in Nat, NEW x \in Seq(Byte),
         NEW r \in Seq(Byte), NEW i, size <= Len(x), Len(x) - size < Limit(w),
         Matches(b, i, PutUint(w, Len(x) - size) \o (x \o r)), i + w <= Len(b)
  PROVE  /\ size + Uint(SubSeq(b, i + 1, i + w)) = Len(x)
         /\ i + w + Len(x) <= Len(b) =>
               /\ SubSeq(b, i + w + 1, i + w + Len(x)) = x
               /\ Matches(b, i + w + Len(x), r)
         /\ Len(b) - i = Len(PutUint(w, Len(x) - size) \o (x \o r)) =>
               Len(b) - (i + w + Len(x)) = Len(r)
<1> DEFINE p == PutUint(w, Len(x) - size)
<1>1. Len(x) - size \in Nat /\ Len(x) \in Nat /\ i \in Nat /\ w \in Nat
  BY DEF Matches, Width
<1>2. p \in Seq(Byte) /\ Len(p) = w /\ Uint(p) = Len(x) - size
  BY <1>1, UintOfPut
<1>3. x \o r \in Seq(Byte) /\ Len(x \o r) = Len(x) + Len(r) /\ Len(r) \in Nat
  OBVIOUS
<1> HIDE DEF p
<1>4. /\ SubSeq(b, i + 1, i + w) = p /\ Matches(b, i + w, x \o r)
      /\ Len(b) - i = Len(p \o (x \o r)) => Len(b) - (i + w) = Len(x \o r)
  <2>1. Matches(b, i, p \o (x \o r))
    BY Zenon DEF p
  <2>2. i + Len(p) <= Len(b)
    BY <1>2, Zenon
  <2>3. /\ SubSeq(b, i + 1, i + Len(p)) = p /\ Matches(b, i + Len(p), x \o r)
        /\ Len(b) - i = Len(p \o (x \o r)) => Len(b) - (i + Len(p)) = Len(x \o r)
    <3>1. PICK y : y = x \o r
      BY Zenon
    <3>2. y \in Seq(Byte) /\ Matches(b, i, p \o y)
      BY <1>3, <2>1, <3>1, Zenon
    <3>3. /\ SubSeq(b, i + 1, i + Len(p)) = p /\ Matches(b, i + Len(p), y)
          /\ Len(b) - i = Len(p \o y) => Len(b) - (i + Len(p)) = Len(y)
      BY <1>2, <2>2, <3>2, PartTaken
    <3> QED BY <3>1, <3>3, Zenon
  <2> QED BY <1>2, <2>3, Zenon
<1>5. size + Uint(SubSeq(b, i + 1, i + w)) = Len(x)
  <2>1. Uint(SubSeq(b, i + 1, i + w)) = Len(x) - size
    BY <1>2, <1>4, Zenon
  <2>2. size + (Len(x) - size) = Len(x)
    BY <1>1
  <2> QED BY <2>1, <2>2, Zenon
<1>6. i + w + Len(x) <= Len(b) =>
        SubSeq(b, i + w + 1, i + w + Len(x)) = x /\ Matches(b, i + w + Len(x), r)
  BY <1>4, PartTaken
<1>7. Len(b) - i = Len(p \o (x \o r)) => Len(b) - (i + w + Len(x)) = Len(r)
  BY <1>1, <1>3, <1>4
<1> QED BY <1>5, <1>6, <1>7 DEF p

-----------------------------------------------------------------------------
(* No decoder looks past the end                                           *)

\* The kinds of frames.
Kinds == {"request", "response", "chunk", "upload", "answer", "batch", "socks", "name"}

\* The kinds of frames that are sent.
LEMMA KindsAreSent == DOMAIN Messages = Kinds
  BY DEF Messages, Kinds

\* A field, as a decoder describes it.
FieldType == [w : Width, size : Nat, next : Nat, tested : BOOLEAN]

\* A decoder has made sure of every length before it reads it.
Careful(d) ==
    /\ d.min \in Nat /\ d.start \in Nat /\ d.start <= d.min /\ d.fields \in Seq(FieldType)
    /\ Len(d.fields) > 0 => d.fields[1].tested \/ d.start + d.fields[1].w <= d.min
    /\ \A i \in 1..(Len(d.fields) - 1) :
          d.fields[i + 1].tested \/ d.fields[i].next >= d.fields[i + 1].w

\* The fields of the decoders.
LEMMA FieldTypes ==
  /\ \A w \in Width, n \in Nat : Prefixed(w, n) \in FieldType
  /\ \A w \in Width : Tested(w) \in FieldType /\ Tested(w).tested
  /\ \A n \in Nat : Fixed(n) \in FieldType /\ Fixed(n).tested
  BY DEF FieldType, Prefixed, Tested, Fixed, Width

\* The parts of a decoder.
LEMMA DecoderParts ==
  ASSUME NEW min, NEW start, NEW fs, NEW rest
  PROVE  LET d == Decoder(min, start, fs, rest) IN
         d.min = min /\ d.start = start /\ d.fields = fs /\ d.rest = rest
  BY DEF Decoder

\* A decoder of tested fields is careful.
LEMMA TestedIsCareful ==
  ASSUME NEW fs \in Seq(FieldType), NEW rest, \A i \in 1..Len(fs) : fs[i].tested
  PROVE  Careful(Decoder(4, 4, fs, rest))
<1> DEFINE d == Decoder(4, 4, fs, rest)
<1>1. d.min = 4 /\ d.start = 4 /\ d.fields = fs
  BY DecoderParts
<1> HIDE DEF d
<1>2. Len(fs) \in Nat /\ (Len(fs) > 0 => fs[1].tested)
  OBVIOUS
<1>3. \A i \in 1..(Len(fs) - 1) : fs[i + 1].tested
  OBVIOUS
<1>4. Careful(d)
  BY <1>1, <1>2, <1>3 DEF Careful
<1> QED BY <1>4, Zenon DEF d

\* A decoder of one field is careful if its minimal length covers the field's.
LEMMA OneFieldIsCareful ==
  ASSUME NEW w \in {2, 4}, NEW min \in Nat, NEW start \in Nat, NEW rest, start + w <= min
  PROVE  Careful(Decoder(min, start, <<Prefixed(w, 0)>>, rest))
<1> DEFINE f == Prefixed(w, 0)
           d == Decoder(min, start, <<f>>, rest)
<1>1. f \in FieldType /\ f.w = w
  BY FieldTypes DEF Prefixed, Width
<1> HIDE DEF f
<1>2. d.min = min /\ d.start = start /\ d.fields = <<f>>
  BY DecoderParts
<1> HIDE DEF d
<1>3. <<f>> \in Seq(FieldType) /\ Len(<<f>>) = 1 /\ <<f>>[1] = f
  BY <1>1
<1>4. Careful(d)
  BY <1>1, <1>2, <1>3 DEF Careful
<1> QED BY <1>4, Zenon DEF d, f

\* The decoder of requests, whose tests cover the next length too, is.
LEMMA RequestIsCareful == Careful(udpDecodeRequest)
<1> DEFINE f1 == Prefixed(2, 2)
           f2 == Prefixed(2, 4)
           f3 == Prefixed(4, 0)
           d == udpDecodeRequest
<1>1. /\ f1 \in FieldType /\ f2 \in FieldType /\ f3 \in FieldType
      /\ f1.w = 2 /\ f1.next = 2 /\ f2.w = 2 /\ f2.next = 4 /\ f3.w = 4
  BY FieldTypes DEF Prefixed, Width
<1>2. d.min = 17 /\ d.start = 9 /\ d.fields = <<f1, f2, f3>>
  BY DEF udpDecodeRequest, Decoder
<1> HIDE DEF f1, f2, f3, d
<1>3. /\ <<f1, f2, f3>> \in Seq(FieldType) /\ Len(<<f1, f2, f3>>) = 3
      /\ <<f1, f2, f3>>[1] = f1 /\ <<f1, f2, f3>>[2] = f2 /\ <<f1, f2, f3>>[3] = f3
  BY <1>1
<1>4. \A i \in 1..2 : <<f1, f2, f3>>[i].next >= <<f1, f2, f3>>[i + 1].w
  BY <1>1, <1>3
<1>5. Careful(d)
  BY <1>1, <1>2, <1>3, <1>4 DEF Careful
<1> QED BY <1>5, Zenon DEF d

\* The fields of a SOCKS5 header follow from its address type.
LEMMA HeaderFields ==
  ASSUME NEW d
  PROVE  LET parts(x) == Decoder(4, 4, <<x>> \o <<Fixed(2)>>, TRUE) IN
         /\ d[4] = atypIPv4 => parseSOCKS5UDPHeader(d) = parts(Fixed(4))
         /\ d[4] = atypIPv6 => parseSOCKS5UDPHeader(d) = parts(Fixed(16))
         /\ d[4] = atypDomain => parseSOCKS5UDPHeader(d) = parts(Tested(1))
         /\ d[4] \notin {atypIPv4, atypIPv6, atypDomain} =>
               parseSOCKS5UDPHeader(d) = Decoder(4, 4, <<>>, TRUE)
<1> DEFINE a == d[4]
           address == CASE a = 1 -> <<Fixed(4)>> [] a = 4 -> <<Fixed(16)>>
                        [] a = 3 -> <<Tested(1)>> [] OTHER -> <<>>
<1>1. parseSOCKS5UDPHeader(d)
        = Decoder(4, 4, IF address = <<>> THEN <<>> ELSE address \o <<Fixed(2)>>, TRUE)
  BY Zenon DEF parseSOCKS5UDPHeader, atypIPv4, atypIPv6, atypDomain
<1>2. /\ a = 1 => address = <<Fixed(4)>>
      /\ a = 4 => address = <<Fixed(16)>>
      /\ a = 3 => address = <<Tested(1)>>
      /\ a # 1 /\ a # 3 /\ a # 4 => address = <<>>
  OBVIOUS
<1>3. \A x : <<x>> # <<>>
  OBVIOUS
<1> HIDE DEF address
<1> QED BY <1>1, <1>2, <1>3, Zenon DEF atypIPv4, atypIPv6, atypDomain

\* All decoders are, whatever they are given.
LEMMA DecodersCareful ==
  ASSUME kind \in Kinds, bytes \in Seq(Byte)
  PROVE  Careful(TheDecoder)
<1>0. Len(bytes) \in Nat
  OBVIOUS
<1>1. CASE kind = "request"
  BY <1>1, RequestIsCareful DEF TheDecoder
<1>2. CASE kind = "response"
  <2>1. TheDecoder = Decoder(15, 11, <<Prefixed(4, 0)>>, FALSE)
    BY <1>2 DEF TheDecoder, udpDecodeResponse
  <2>2. 15 \in Nat /\ 11 \in Nat /\ 4 \in {2, 4} /\ 11 + 4 <= 15
    OBVIOUS
  <2> QED BY <2>1, <2>2, OneFieldIsCareful, Zenon
<1>3. CASE kind = "chunk"
  <2>1. TheDecoder = Decoder(13, 9, <<Prefixed(4, 0)>>, FALSE)
    BY <1>3 DEF TheDecoder, mirrorDecodeFound
  <2>2. 13 \in Nat /\ 9 \in Nat /\ 4 \in {2, 4} /\ 9 + 4 <= 13
    OBVIOUS
  <2> QED BY <2>1, <2>2, OneFieldIsCareful, Zenon
<1>4. CASE kind = "upload"
  <2>1. TheDecoder = Decoder(23, 21, <<Prefixed(2, 0)>>, TRUE)
    BY <1>4 DEF TheDecoder, parseUploadFrame
  <2>2. 23 \in Nat /\ 21 \in Nat /\ 2 \in {2, 4} /\ 21 + 2 <= 23
    OBVIOUS
  <2> QED BY <2>1, <2>2, OneFieldIsCareful, Zenon
<1>5. CASE kind = "answer"
  <2>1. TheDecoder = Decoder(4, 0, <<Prefixed(4, 0)>>, FALSE)
    BY <1>5 DEF TheDecoder, parseResponse
  <2>2. 4 \in Nat /\ 0 \in Nat /\ 4 \in {2, 4} /\ 0 + 4 <= 4
    OBVIOUS
  <2> QED BY <2>1, <2>2, OneFieldIsCareful, Zenon
<1>6. \A rest \in BOOLEAN : Careful(Decoder(4, 4, <<>>, rest))
  <2>1. <<>> \in Seq(FieldType) /\ \A i \in 1..Len(<<>>) : <<>>[i].tested
    OBVIOUS
  <2> QED BY <2>1, TestedIsCareful, Zenon
<1>7. CASE kind = "batch"
  <2>1. CASE Len(bytes) < 4
    <3>1. TheDecoder = Decoder(4, 4, <<>>, FALSE)
      BY <1>7, <2>1 DEF TheDecoder
    <3> QED BY <1>6, <3>1, Zenon
  <2>2. CASE ~(Len(bytes) < 4)
    <3> DEFINE u == Uint(SubSeq(bytes, 1, 4))
               n == IF u > Len(bytes) THEN Len(bytes) ELSE u
               fs == [i \in 1..n |-> Tested(4)]
    <3>1. TheDecoder = Decoder(4, 4, fs, FALSE)
      BY <1>7, <2>2 DEF TheDecoder, decodeDatagramBatch
    <3>2. u \in Nat
      <4>1. SubSeq(bytes, 1, 4) \in Seq(Byte) /\ Len(SubSeq(bytes, 1, 4)) = 4
        BY <1>0, <2>2
      <4> QED BY <4>1, UintType, Zenon DEF Width
    <3> HIDE DEF u
    <3>3. n \in Nat
      BY <1>0, <3>2
    <3> HIDE DEF n
    <3>4. Tested(4) \in FieldType /\ Tested(4).tested
      BY FieldTypes DEF Width
    <3>5. fs \in Seq(FieldType) /\ Len(fs) = n /\ \A i \in 1..n : fs[i] = Tested(4)
      BY <3>3, <3>4
    <3> HIDE DEF fs
    <3>6. \A i \in 1..Len(fs) : fs[i].tested
      BY <3>4, <3>5, Zenon
    <3> QED BY <3>1, <3>5, <3>6, TestedIsCareful, Zenon
  <2> QED BY <2>1, <2>2
<1>8. CASE kind \in {"socks", "name"}
  <2>1. TheDecoder = IF Len(bytes) < 4 THEN Decoder(4, 4, <<>>, TRUE) ELSE parseSOCKS5UDPHeader(bytes)
    BY <1>8, Zenon DEF TheDecoder
  <2>2. \A x \in {Fixed(4), Fixed(16), Tested(1)} : Careful(Decoder(4, 4, <<x>> \o <<Fixed(2)>>, TRUE))
    <3> SUFFICES ASSUME NEW x \in {Fixed(4), Fixed(16), Tested(1)}
                 PROVE  Careful(Decoder(4, 4, <<x>> \o <<Fixed(2)>>, TRUE))
      BY Zenon
    <3>1. x \in FieldType /\ x.tested
      BY FieldTypes, Zenon DEF Width
    <3>2. PICK y : y = Fixed(2)
      OBVIOUS
    <3>3. y \in FieldType /\ y.tested
      BY <3>2, FieldTypes
    <3>4. /\ <<x>> \o <<y>> \in Seq(FieldType) /\ Len(<<x>> \o <<y>>) = 2
          /\ (<<x>> \o <<y>>)[1] = x /\ (<<x>> \o <<y>>)[2] = y
      BY <3>1, <3>3
    <3>5. \A i \in 1..2 : (<<x>> \o <<y>>)[i].tested
      BY <3>1, <3>3, <3>4
    <3> QED BY <3>2, <3>4, <3>5, TestedIsCareful, Zenon
  <2>3. \/ parseSOCKS5UDPHeader(bytes) = Decoder(4, 4, <<>>, TRUE)
        \/ \E x \in {Fixed(4), Fixed(16), Tested(1)} :
              parseSOCKS5UDPHeader(bytes) = Decoder(4, 4, <<x>> \o <<Fixed(2)>>, TRUE)
    BY HeaderFields, Zenon
  <2> QED BY <1>6, <2>1, <2>2, <2>3, Zenon
<1> QED BY <1>1, <1>2, <1>3, <1>4, <1>5, <1>7, <1>8 DEF Kinds

\* The decoder's cursor is within the frame, and so is the length it reads next
\* unless it tests that.
CursorInv ==
    /\ kind \in Kinds /\ bytes \in Seq(Byte) /\ mishap \in {"none", "cut", "altered"}
    /\ verdict \in {"sent", "reading", "ok", "rejected"} /\ got \in Seq(Seq(Byte))
    /\ verdict = "sent" => got = <<>>
    /\ verdict = "reading" =>
          LET fs == TheDecoder.fields IN
          /\ o \in Nat /\ o <= Len(bytes) /\ TheDecoder.min <= Len(bytes) /\ Len(got) <= Len(fs)
          /\ Len(got) < Len(fs) => fs[Len(got) + 1].tested \/ o + fs[Len(got) + 1].w <= Len(bytes)

\* The decoder depends on the frame only.
LEMMA SameDecoder ==
  ASSUME kind' = kind, bytes' = bytes
  PROVE  TheDecoder' = TheDecoder
  BY DEF TheDecoder

\* A field of a decoder.
LEMMA FieldOf ==
  ASSUME NEW fs \in Seq(FieldType), NEW i \in 1..Len(fs)
  PROVE  /\ fs[i].w \in Width /\ fs[i].w \in Nat /\ fs[i].size \in Nat /\ fs[i].next \in Nat
         /\ fs[i].tested \in BOOLEAN
<1>1. fs[i] \in FieldType
  OBVIOUS
<1>2. \A f \in FieldType : /\ f.w \in Width /\ f.w \in Nat /\ f.size \in Nat /\ f.next \in Nat
                           /\ f.tested \in BOOLEAN
  BY DEF FieldType, Width
<1> QED BY <1>1, <1>2, Zenon

\* What happens to a frame on its way leaves it a frame.
LEMMA DamageStep ==
  ASSUME CursorInv, Cut \/ Alter
  PROVE  CursorInv'
<1>1. bytes' \in Seq(Byte)
  <2>1. CASE Cut
    <3>1. PICK n \in 0..(Len(bytes) - 1) : bytes' = SubSeq(bytes, 1, n)
      BY <2>1 DEF Cut
    <3>2. bytes \in Seq(Byte) /\ n \in Nat /\ n <= Len(bytes)
      BY DEF CursorInv
    <3>3. SubSeq(bytes, 1, n) \in Seq(Byte)
      BY <3>2
    <3> QED BY <3>1, <3>3
  <2>2. CASE Alter
    <3>1. PICK i \in 1..Len(bytes), b \in Byte : bytes' = [bytes EXCEPT ![i] = b]
      BY <2>2, Zenon DEF Alter
    <3>2. bytes \in Seq(Byte)
      BY DEF CursorInv
    <3> QED BY <3>1, <3>2
  <2> QED BY <2>1, <2>2
<1>2. /\ mishap' \in {"none", "cut", "altered"} /\ verdict = "sent"
      /\ UNCHANGED <<kind, o, got, verdict>>
  BY DEF Cut, Alter
<1> QED BY <1>1, <1>2 DEF CursorInv

\* A decoder begins where its minimal length reaches.
LEMMA BeginStep ==
  ASSUME CursorInv, Begin
  PROVE  CursorInv'
<1> DEFINE D == TheDecoder
           fs == D.fields
<1>1. Careful(D) /\ Len(bytes) \in Nat
  BY DecodersCareful DEF CursorInv
<1>2. UNCHANGED <<kind, sent, bytes, mishap, got>> /\ TheDecoder' = D /\ got = <<>> /\ o' = D.start
  BY SameDecoder DEF Begin, CursorInv
<1>3. /\ verdict' \in {"ok", "rejected", "reading"}
      /\ verdict' = "reading" => ~(Len(bytes) < D.min)
  BY DEF Begin
<1> HIDE DEF D
<1>4. /\ D.min \in Nat /\ D.start \in Nat /\ D.start <= D.min /\ fs \in Seq(FieldType)
      /\ Len(fs) > 0 => fs[1].tested \/ D.start + fs[1].w <= D.min
  BY <1>1 DEF Careful
<1>5. \A i \in 1..Len(fs) : fs[i].w \in Nat
  BY <1>4, FieldOf
<1> HIDE DEF fs
<1>6. Len(got) = 0 /\ Len(fs) \in Nat
  BY <1>2, <1>4
<1>7. verdict' = "reading" =>
        /\ o' \in Nat /\ o' <= Len(bytes) /\ D.min <= Len(bytes) /\ Len(got) <= Len(fs)
        /\ Len(got) < Len(fs) => fs[Len(got) + 1].tested \/ o' + fs[Len(got) + 1].w <= Len(bytes)
  <2> SUFFICES ASSUME verdict' = "reading"
               PROVE  /\ o' \in Nat /\ o' <= Len(bytes) /\ D.min <= Len(bytes) /\ Len(got) <= Len(fs)
                      /\ Len(got) < Len(fs) =>
                            fs[Len(got) + 1].tested \/ o' + fs[Len(got) + 1].w <= Len(bytes)
    OBVIOUS
  <2>1. D.min <= Len(bytes)
    BY <1>1, <1>3, <1>4
  <2>2. o' \in Nat /\ o' <= Len(bytes) /\ Len(got) <= Len(fs)
    BY <1>1, <1>2, <1>4, <1>6, <2>1
  <2>3. Len(got) + 1 = 1 /\ (Len(got) < Len(fs) <=> Len(fs) > 0)
    BY <1>6
  <2>4. Len(fs) > 0 => fs[1].tested \/ o' + fs[1].w <= Len(bytes)
    BY <1>1, <1>2, <1>4, <1>5, <1>6, <2>1
  <2> QED BY <2>1, <2>2, <2>3, <2>4, Zenon
<1>8. got \in Seq(Seq(Byte)) /\ kind \in Kinds /\ bytes \in Seq(Byte)
      /\ mishap \in {"none", "cut", "altered"}
  BY DEF CursorInv
<1>9. verdict' \in {"sent", "reading", "ok", "rejected"} /\ verdict' # "sent"
  BY <1>3
<1> QED BY <1>2, <1>7, <1>8, <1>9, Zenon DEF CursorInv, fs

\* A field that is taken lies within the frame, and the test of its length covers
\* the next one's length.
LEMMA ReadFieldStep ==
  ASSUME CursorInv, ReadField
  PROVE  CursorInv'
<1> DEFINE D == TheDecoder
           fs == D.fields
           f == fs[Len(got) + 1]
           n == Length(f)
<1>1. Careful(D) /\ Len(bytes) \in Nat
  BY DecodersCareful DEF CursorInv
<1>2. UNCHANGED <<kind, sent, bytes, mishap>> /\ TheDecoder' = D
  BY SameDecoder DEF ReadField
<1>3. verdict = "reading" /\ Len(got) < Len(fs)
  BY DEF ReadField
<1>4. \/ ~(o + f.w <= Len(bytes)) /\ verdict' = (IF f.tested THEN "rejected" ELSE "panic")
         /\ UNCHANGED <<o, got>>
      \/ verdict' = "rejected" /\ UNCHANGED <<o, got>>
      \/ /\ o + f.w <= Len(bytes) /\ ~(o + f.w + n + f.next > Len(bytes))
         /\ got' = Append(got, SubSeq(bytes, o + f.w + 1, o + f.w + n))
         /\ o' = o + f.w + n /\ verdict' = "reading"
  BY <1>3 DEF ReadField
<1>5. fs \in Seq(FieldType) /\ D.min \in Nat
      /\ \A i \in 1..(Len(fs) - 1) : fs[i + 1].tested \/ fs[i].next >= fs[i + 1].w
  BY <1>1 DEF Careful
<1>6. /\ got \in Seq(Seq(Byte)) /\ kind \in Kinds /\ bytes \in Seq(Byte)
      /\ mishap \in {"none", "cut", "altered"} /\ o \in Nat /\ o <= Len(bytes) /\ D.min <= Len(bytes)
      /\ f.tested \/ o + f.w <= Len(bytes)
  BY <1>3 DEF CursorInv
<1> HIDE DEF D, fs
<1>7. Len(got) \in Nat /\ Len(fs) \in Nat /\ Len(got) + 1 \in 1..Len(fs)
  BY <1>3, <1>5, <1>6
<1>8. PICK w \in Width, size \in Nat, next \in Nat : w = f.w /\ size = f.size /\ next = f.next
  BY <1>5, <1>7, FieldOf, Zenon
<1> HIDE DEF f
<1>9. CASE verdict' = "rejected" /\ UNCHANGED <<o, got>>
  BY <1>2, <1>6, <1>9 DEF CursorInv
<1>10. CASE /\ o + f.w <= Len(bytes) /\ ~(o + f.w + n + f.next > Len(bytes))
            /\ got' = Append(got, SubSeq(bytes, o + f.w + 1, o + f.w + n))
            /\ o' = o + f.w + n /\ verdict' = "reading"
  <2>1. w \in Nat /\ o + w <= Len(bytes)
    BY <1>8, <1>10 DEF Width
  <2>2. n \in Nat
    <3>1. SubSeq(bytes, o + 1, o + w) \in Seq(Byte) /\ Len(SubSeq(bytes, o + 1, o + w)) = w
      BY <1>6, <2>1, PartOfFrame
    <3>2. Uint(SubSeq(bytes, o + 1, o + w)) \in Nat
      BY <3>1, UintType, Zenon
    <3>3. n = size + Uint(SubSeq(bytes, o + 1, o + w))
      BY <1>8, Zenon DEF Length
    <3> HIDE DEF n
    <3> QED BY <3>2, <3>3
  <2> HIDE DEF n
  <2>3. ~(o + w + n + next > Len(bytes)) /\ o' = o + w + n
        /\ got' = Append(got, SubSeq(bytes, o + w + 1, o + w + n))
    BY <1>8, <1>10, Zenon
  <2>7. o' \in Nat /\ o' + next <= Len(bytes) /\ o' <= Len(bytes) /\ o + w \in Nat
        /\ (o + w) + n <= Len(bytes)
    BY <1>1, <1>6, <2>1, <2>2, <2>3
  <2>8. SubSeq(bytes, o + w + 1, o + w + n) \in Seq(Byte)
    BY <1>6, <2>2, <2>7, PartOfFrame
  <2>4. got' \in Seq(Seq(Byte)) /\ Len(got') = Len(got) + 1
    BY <1>6, <2>3, <2>8
  <2>5. Len(got') <= Len(fs) /\ Len(got') \in Nat
    BY <1>3, <1>7, <2>4
  <2>6. ASSUME Len(got') < Len(fs)
        PROVE  fs[Len(got') + 1].tested \/ o' + fs[Len(got') + 1].w <= Len(bytes)
    <3>1. Len(got) + 1 \in 1..(Len(fs) - 1) /\ Len(got') + 1 = (Len(got) + 1) + 1
          /\ Len(got') + 1 \in 1..Len(fs)
      BY <1>7, <2>4, <2>6
    <3>2. fs[Len(got') + 1].tested \/ f.next >= fs[Len(got') + 1].w
      BY <1>5, <3>1, Zenon DEF f
    <3>3. fs[Len(got') + 1].w \in Nat
      BY <1>5, <3>1, FieldOf
    <3>4. next >= fs[Len(got') + 1].w => o' + fs[Len(got') + 1].w <= Len(bytes)
      BY <1>1, <2>7, <3>3
    <3> QED BY <1>8, <3>2, <3>4, Zenon
  <2> QED BY <1>2, <1>6, <1>10, <2>7, <2>4, <2>5, <2>6, Zenon DEF CursorInv, fs
<1> QED BY <1>4, <1>6, <1>9, <1>10

\* The cursor stays within the frame.
LEMMA CursorStep ==
  ASSUME CursorInv, [FNext]_fvars
  PROVE  CursorInv'
<1>1. CASE Finish
  <2>1. /\ got \in Seq(Seq(Byte)) /\ bytes \in Seq(Byte) /\ o \in Nat /\ o <= Len(bytes)
    BY <1>1 DEF Finish, CursorInv
  <2>2. SubSeq(bytes, o + 1, Len(bytes)) \in Seq(Byte)
    BY <2>1
  <2>3. got' \in Seq(Seq(Byte))
    <3>1. Append(got, SubSeq(bytes, o + 1, Len(bytes))) \in Seq(Seq(Byte))
      BY <2>1, <2>2
    <3> QED BY <1>1, <2>1, <3>1 DEF Finish
  <2> QED BY <1>1, <2>3 DEF Finish, CursorInv
<1>2. CASE UNCHANGED fvars
  BY <1>2, SameDecoder, Zenon DEF fvars, CursorInv
<1> QED BY <1>1, <1>2, DamageStep, BeginStep, ReadFieldStep DEF FNext

-----------------------------------------------------------------------------
(* What the encoders lay out                                               *)

\* What follows the i-th field of the frame of f.
After(k, f, i) ==
    CASE k = "request" /\ i = 0 -> Field(2, f[1]) \o (Field(2, f[2]) \o Field(4, f[3]))
      [] k = "request" /\ i = 1 -> Field(2, f[2]) \o Field(4, f[3])
      [] k = "request" /\ i = 2 -> Field(4, f[3])
      [] k \in {"response", "chunk"} /\ i = 0 -> Field(4, f[1])
      [] k = "upload" /\ i = 0 -> Field(2, f[1]) \o f[2]
      [] k = "upload" /\ i = 1 -> f[2]
      [] k = "answer" /\ i = 0 -> buildUploadResponse(f)
      [] k = "answer" /\ i = 1 -> Zeros(IF Len(f[1]) < minPadding THEN minPadding - Len(f[1]) ELSE 0)
      [] k = "batch" /\ f # <<>> /\ i = 0 -> Field(4, f[1]) \o Field(4, f[2])
      [] k = "batch" /\ f # <<>> /\ i = 1 -> Field(4, f[2])
      [] k = "socks" /\ i = 0 -> f[1] \o (f[2] \o f[3])
      [] k = "name" /\ i = 0 -> Field(1, f[1]) \o (f[2] \o f[3])
      [] k \in {"socks", "name"} /\ i = 1 -> f[2] \o f[3]
      [] k \in {"socks", "name"} /\ i = 2 -> f[3]
      [] OTHER -> <<>>

\* The decoder that fits the frame of f.
Fits(k, f) ==
    CASE k = "request" -> udpDecodeRequest [] k = "response" -> udpDecodeResponse
      [] k = "chunk" -> mirrorDecodeFound [] k = "upload" -> parseUploadFrame
      [] k = "answer" -> parseResponse
      [] k = "batch" -> Decoder(4, 4, IF f = <<>> THEN <<>> ELSE <<Tested(4), Tested(4)>>, FALSE)
      [] k = "socks" -> Decoder(4, 4, <<Fixed(Len(f[1])), Fixed(2)>>, TRUE)
      [] k = "name" -> Decoder(4, 4, <<Tested(1), Fixed(2)>>, TRUE)

\* A field e of a decoder is the field x that was put, followed by r.
Reads(e, x, t, r) ==
    /\ x \in Seq(Byte) /\ r \in Seq(Byte) /\ e.w \in Width /\ e.size \in Nat /\ e.next \in Nat
    /\ e.size <= Len(x) /\ Len(x) - e.size < Limit(e.w)
    /\ t = PutUint(e.w, Len(x) - e.size) \o (x \o r) /\ e.next <= Len(r)

\* What a decoder reads of a frame.
Laid(k, f) ==
    LET d == Fits(k, f) IN
    /\ Len(d.fields) = Len(f) - (IF d.rest THEN 1 ELSE 0)
    /\ \A i \in 1..Len(d.fields) : Reads(d.fields[i], f[i], After(k, f, i - 1), After(k, f, i))
    /\ \E h \in Seq(Byte) : Len(h) = d.start /\ Encode(k, f) = h \o After(k, f, 0)
    /\ d.rest => After(k, f, Len(d.fields)) = f[Len(f)] /\ f[Len(f)] \in Seq(Byte)
    /\ After(k, f, 0) \in Seq(Byte) /\ d.min <= Len(Encode(k, f))

\* Fields that are put.
LEMMA PartFacts ==
  /\ \A p \in Parts : p \in Seq(Byte) /\ Len(p) \in Nat /\ Len(p) < Limit(4)
  /\ \A w \in Width : \A p \in Fitting(w) : p \in Seq(Byte) /\ Len(p) \in Nat /\ Len(p) < Limit(w)
<1>1. \A p \in Parts : p \in Seq(Byte) /\ Len(p) \in Nat /\ Len(p) < Limit(4)
  BY FramesAssumption DEF Limit
<1> QED BY <1>1, Zenon DEF Fitting

\* Padding.
LEMMA ZerosType ==
  ASSUME NEW n \in Nat
  PROVE  Zeros(n) \in Seq(Byte) /\ Len(Zeros(n)) = n
  BY BaseType DEF Zeros

\* A field with its length in front.
LEMMA FieldFacts ==
  ASSUME NEW w \in Width, NEW x \in Seq(Byte), Len(x) < Limit(w)
  PROVE  Field(w, x) \in Seq(Byte) /\ Len(Field(w, x)) = w + Len(x)
<1>1. PutUint(w, Len(x)) \in Seq(Byte) /\ Len(PutUint(w, Len(x))) = w
  BY UintOfPut
<1> QED BY <1>1 DEF Field

\* Parts of a frame, one behind the other.
LEMMA ConcatFacts ==
  ASSUME NEW a \in Seq(Byte), NEW b \in Seq(Byte), NEW c \in Seq(Byte)
  PROVE  /\ (a \o b) \o c = a \o (b \o c) /\ a \o <<>> = a /\ <<>> \o a = a
         /\ a \o b \in Seq(Byte) /\ Len(a \o b) = Len(a) + Len(b)
<1>1. a \o b \in Seq(Byte) /\ Len(a \o b) = Len(a) + Len(b)
  OBVIOUS
<1>2. a \o <<>> = a
  OBVIOUS
<1>3. <<>> \o a = a
  OBVIOUS
<1>4. (a \o b) \o c = a \o (b \o c)
  OBVIOUS
<1> QED BY <1>1, <1>2, <1>3, <1>4

\* A field with its length in front, followed by r, as a decoder reads it.
LEMMA ReadsField ==
  ASSUME NEW w \in Width, NEW x \in Seq(Byte), Len(x) < Limit(w), NEW r \in Seq(Byte),
         NEW e \in FieldType, e.w = w, e.size = 0, e.next <= Len(r)
  PROVE  Reads(e, x, Field(w, x) \o r, r)
<1>1. PutUint(w, Len(x)) \in Seq(Byte)
  BY UintOfPut
<1>2. (PutUint(w, Len(x)) \o x) \o r = PutUint(w, Len(x)) \o (x \o r)
  BY <1>1, ConcatFacts
<1>3. Len(x) - e.size = Len(x) /\ e.size <= Len(x) /\ e.size \in Nat /\ e.next \in Nat
  BY DEF FieldType
<1> QED BY <1>2, <1>3, Zenon DEF Reads, Field

\* A field of a fixed size, followed by r.
LEMMA ReadsFixed ==
  ASSUME NEW n \in Nat, NEW x \in Seq(Byte), Len(x) = n, NEW r \in Seq(Byte)
  PROVE  Reads(Fixed(n), x, x \o r, r)
<1> DEFINE e == Fixed(n)
<1>1. e.w = 0 /\ e.size = n /\ e.next = 0
  BY DEF Fixed
<1>2. PutUint(0, 0) = <<>> /\ Limit(0) = 1 /\ 0 \in Width
  BY DEF PutUint, Limit, Width
<1>3. x \o r \in Seq(Byte)
  OBVIOUS
<1>4. <<>> \o (x \o r) = x \o r
  BY <1>3, ConcatFacts
<1>5. n - n = 0 /\ 0 < 1 /\ n <= n /\ 0 <= Len(r)
  OBVIOUS
<1> HIDE DEF e
<1>6. Reads(e, x, x \o r, r)
  BY <1>1, <1>2, <1>4, <1>5 DEF Reads
<1> QED BY <1>6 DEF e

\* A field with its length in front, and what follows it.
LEMMA FieldThen ==
  ASSUME NEW w \in Width, NEW x \in Seq(Byte), Len(x) < Limit(w),
         NEW r \in Seq(Byte)
  PROVE  Field(w, x) \o r \in Seq(Byte) /\ Len(Field(w, x) \o r) = w + Len(x) + Len(r)
<1>1. Field(w, x) \in Seq(Byte) /\ Len(Field(w, x)) = w + Len(x)
  BY FieldFacts
<1>2. PICK y : y = Field(w, x)
  OBVIOUS
<1>3. y \o r \in Seq(Byte) /\ Len(y \o r) = Len(y) + Len(r)
  BY <1>1, <1>2
<1> QED BY <1>1, <1>2, <1>3, Zenon

\* It is read with its length.
LEMMA PrefixedThen ==
  ASSUME NEW w \in Width, NEW n \in Nat, NEW x \in Seq(Byte), Len(x) < Limit(w),
         NEW r \in Seq(Byte), n <= Len(r)
  PROVE  Reads(Prefixed(w, n), x, Field(w, x) \o r, r)
<1>1. PICK e : e = Prefixed(w, n)
  OBVIOUS
<1>2. e \in FieldType /\ e.w = w /\ e.size = 0 /\ e.next = n
  BY <1>1, FieldTypes DEF Prefixed
<1>3. Reads(e, x, Field(w, x) \o r, r)
  BY <1>2, ReadsField
<1> QED BY <1>1, <1>3, Zenon

\* The same if the length is tested.
LEMMA TestedThen ==
  ASSUME NEW w \in Width, NEW x \in Seq(Byte), Len(x) < Limit(w),
         NEW r \in Seq(Byte)
  PROVE  Reads(Tested(w), x, Field(w, x) \o r, r)
<1>1. PICK e : e = Tested(w)
  OBVIOUS
<1>2. e \in FieldType /\ e.w = w /\ e.size = 0 /\ e.next = 0
  BY <1>1, FieldTypes DEF Tested
<1>3. e.next <= Len(r)
  BY <1>2
<1>4. Reads(e, x, Field(w, x) \o r, r)
  BY <1>2, <1>3, ReadsField
<1> QED BY <1>1, <1>4, Zenon

\* The same with nothing behind it.
LEMMA FieldLast ==
  ASSUME NEW w \in Width, NEW x \in Seq(Byte), Len(x) < Limit(w)
  PROVE  /\ Field(w, x) \in Seq(Byte) /\ Len(Field(w, x)) = w + Len(x)
         /\ Reads(Prefixed(w, 0), x, Field(w, x), <<>>) /\ Reads(Tested(w), x, Field(w, x), <<>>)
<1>1. Field(w, x) \in Seq(Byte) /\ Len(Field(w, x)) = w + Len(x)
  BY FieldFacts
<1>2. Field(w, x) = Field(w, x) \o <<>>
  BY <1>1, ConcatFacts
<1>3. <<>> \in Seq(Byte) /\ 0 \in Nat /\ 0 <= Len(<<>>)
  OBVIOUS
<1>4. Reads(Prefixed(w, 0), x, Field(w, x) \o <<>>, <<>>)
  BY <1>3, PrefixedThen, Zenon
<1>5. Reads(Tested(w), x, Field(w, x) \o <<>>, <<>>)
  BY <1>3, TestedThen, Zenon
<1> QED BY <1>1, <1>2, <1>4, <1>5, Zenon

\* Requests.
LEMMA RequestLaid ==
  ASSUME NEW f \in Messages["request"]
  PROVE  Laid("request", f)
<1> DEFINE d == Fits("request", f)
           A(i) == After("request", f, i)
<1>1. PICK p \in Fitting(2), t \in Fitting(2), b \in Parts : f = <<p, t, b>>
  BY DEF Messages
<1>2. f[1] = p /\ f[2] = t /\ f[3] = b /\ Len(f) = 3
  BY <1>1
<1>3. /\ p \in Seq(Byte) /\ t \in Seq(Byte) /\ b \in Seq(Byte) /\ 2 \in Width /\ 4 \in Width
      /\ Len(p) \in Nat /\ Len(t) \in Nat /\ Len(b) \in Nat
      /\ Len(p) < Limit(2) /\ Len(t) < Limit(2) /\ Len(b) < Limit(4)
  BY PartFacts DEF Width
<1>4. /\ d.fields = <<Prefixed(2, 2), Prefixed(2, 4), Prefixed(4, 0)>>
      /\ d.min = 17 /\ d.start = 9 /\ d.rest = FALSE
  BY DEF Fits, udpDecodeRequest, Decoder
<1>5. /\ A(0) = Field(2, p) \o A(1) /\ A(1) = Field(2, t) \o A(2) /\ A(2) = Field(4, b)
      /\ A(3) = <<>>
  BY <1>2 DEF After
<1>6. Encode("request", f) = Zeros(9) \o A(0)
  BY <1>2, <1>5, Zenon DEF Encode, udpEncodeRequest
<1> HIDE DEF d, A
<1>7. 0 \in Nat /\ 2 \in Nat /\ 4 \in Nat
  OBVIOUS
<1>8. A(2) \in Seq(Byte) /\ Len(A(2)) = 4 + Len(b) /\ Reads(Prefixed(4, 0), b, A(2), A(3))
  BY <1>3, <1>5, <1>7, FieldLast
<1>9. 4 <= Len(A(2))
  BY <1>3, <1>8
<1>10. A(1) \in Seq(Byte) /\ Len(A(1)) = 2 + Len(t) + Len(A(2)) /\ Reads(Prefixed(2, 4), t, A(1), A(2))
  <2>1. Field(2, t) \o A(2) \in Seq(Byte) /\ Len(Field(2, t) \o A(2)) = 2 + Len(t) + Len(A(2))
    BY <1>3, <1>8, FieldThen, Zenon
  <2>2. Reads(Prefixed(2, 4), t, Field(2, t) \o A(2), A(2))
    BY <1>3, <1>7, <1>8, <1>9, PrefixedThen
  <2> QED BY <1>5, <2>1, <2>2, Zenon
<1>11. 2 <= Len(A(1))
  BY <1>3, <1>8, <1>10
<1>12. A(0) \in Seq(Byte) /\ Len(A(0)) = 2 + Len(p) + Len(A(1)) /\ Reads(Prefixed(2, 2), p, A(0), A(1))
  <2>1. Field(2, p) \o A(1) \in Seq(Byte) /\ Len(Field(2, p) \o A(1)) = 2 + Len(p) + Len(A(1))
    BY <1>3, <1>10, FieldThen, Zenon
  <2>2. Reads(Prefixed(2, 2), p, Field(2, p) \o A(1), A(1))
    BY <1>3, <1>7, <1>10, <1>11, PrefixedThen
  <2> QED BY <1>5, <2>1, <2>2, Zenon
<1>13. /\ Len(d.fields) = 3
       /\ \A i \in 1..3 : Reads(d.fields[i], f[i], A(i - 1), A(i))
  BY <1>2, <1>4, <1>8, <1>10, <1>12
<1>14. Zeros(9) \in Seq(Byte) /\ Len(Zeros(9)) = 9
  BY ZerosType, Zenon
<1>15. d.min <= Len(Encode("request", f))
  <2>1. Len(Zeros(9) \o A(0)) = 9 + Len(A(0))
    BY <1>12, <1>14, ConcatFacts, Zenon
  <2> QED BY <1>3, <1>4, <1>6, <1>8, <1>10, <1>12, <2>1
<1>16. Len(d.fields) = Len(f) - (IF d.rest THEN 1 ELSE 0)
  BY <1>2, <1>4, <1>13
<1> QED BY <1>4, <1>6, <1>12, <1>13, <1>14, <1>15, <1>16, Zenon DEF Laid, d, A

\* Responses and chunks.
LEMMA ResponseLaid ==
  ASSUME NEW k \in {"response", "chunk"}, NEW f \in Messages[k]
  PROVE  Laid(k, f)
<1> DEFINE d == Fits(k, f)
           A(i) == After(k, f, i)
<1>1. PICK b \in Parts : f = <<b>>
  BY DEF Messages
<1>2. f[1] = b /\ Len(f) = 1
  BY <1>1
<1>3. b \in Seq(Byte) /\ Len(b) \in Nat /\ Len(b) < Limit(4) /\ 4 \in Width
  BY PartFacts DEF Width
<1>4. PICK s \in {9, 11} :
        /\ d.fields = <<Prefixed(4, 0)>> /\ d.min = s + 4 /\ d.start = s /\ d.rest = FALSE
        /\ Encode(k, f) = Zeros(s) \o Field(4, b)
  <2>1. CASE k = "response"
    <3>1. d.fields = <<Prefixed(4, 0)>> /\ d.min = 15 /\ d.start = 11 /\ d.rest = FALSE
      BY <2>1 DEF Fits, udpDecodeResponse, Decoder
    <3>2. Encode(k, f) = udpEncodeResponse(f) /\ 9 + 2 = 11
      BY <2>1 DEF Encode
    <3>3. Encode(k, f) = Zeros(11) \o Field(4, b)
      BY <1>2, <3>2, Zenon DEF udpEncodeResponse
    <3> HIDE DEF d
    <3>4. 11 \in {9, 11} /\ 15 = 11 + 4
      OBVIOUS
    <3> QED BY <3>1, <3>3, <3>4, Zenon
  <2>2. CASE k = "chunk"
    <3>1. d.fields = <<Prefixed(4, 0)>> /\ d.min = 13 /\ d.start = 9 /\ d.rest = FALSE
      BY <2>2 DEF Fits, mirrorDecodeFound, Decoder
    <3>2. Encode(k, f) = mirrorEncodeFound(f)
      BY <2>2 DEF Encode
    <3>3. Encode(k, f) = Zeros(9) \o Field(4, b)
      BY <1>2, <3>2, Zenon DEF mirrorEncodeFound
    <3> HIDE DEF d
    <3>4. 9 \in {9, 11} /\ 13 = 9 + 4
      OBVIOUS
    <3> QED BY <3>1, <3>3, <3>4, Zenon
  <2> QED BY <2>1, <2>2, Zenon
<1>5. A(0) = Field(4, b) /\ A(1) = <<>>
  BY <1>2 DEF After
<1> HIDE DEF d, A
<1>6. A(0) \in Seq(Byte) /\ Len(A(0)) = 4 + Len(b) /\ Reads(Prefixed(4, 0), b, A(0), A(1))
  BY <1>3, <1>5, FieldLast
<1>7. /\ Len(d.fields) = 1 /\ \A i \in 1..1 : Reads(d.fields[i], f[i], A(i - 1), A(i))
  BY <1>2, <1>4, <1>6
<1>8. Zeros(s) \in Seq(Byte) /\ Len(Zeros(s)) = s
  BY ZerosType
<1>9. Encode(k, f) = Zeros(s) \o A(0)
  BY <1>4, <1>5, Zenon
<1>10. d.min <= Len(Encode(k, f))
  <2>1. Len(Zeros(s) \o A(0)) = s + Len(A(0))
    BY <1>6, <1>8, ConcatFacts
  <2> QED BY <1>3, <1>4, <1>6, <1>9, <2>1
<1>11. Len(d.fields) = Len(f) - (IF d.rest THEN 1 ELSE 0)
  BY <1>2, <1>4, <1>7
<1> QED BY <1>4, <1>6, <1>7, <1>8, <1>9, <1>10, <1>11, Zenon DEF Laid, d, A

\* Uploads.
LEMMA UploadLaid ==
  ASSUME NEW f \in Messages["upload"]
  PROVE  Laid("upload", f)
<1> DEFINE d == Fits("upload", f)
           A(i) == After("upload", f, i)
<1>1. PICK t \in Fitting(2), b \in Parts : f = <<t, b>>
  BY DEF Messages
<1>2. f[1] = t /\ f[2] = b /\ Len(f) = 2
  BY <1>1
<1>3. /\ t \in Seq(Byte) /\ b \in Seq(Byte) /\ Len(t) \in Nat /\ Len(b) \in Nat
      /\ Len(t) < Limit(2) /\ 2 \in Width /\ 0 \in Nat /\ 0 <= Len(b)
  BY PartFacts DEF Width
<1>4. d.fields = <<Prefixed(2, 0)>> /\ d.min = 23 /\ d.start = 21 /\ d.rest = TRUE
  BY DEF Fits, parseUploadFrame, Decoder
<1>5. A(0) = Field(2, t) \o b /\ A(1) = b
  BY <1>2 DEF After
<1>6. Encode("upload", f) = Zeros(21) \o A(0)
  <2>1. Encode("upload", f) = buildUploadPlain(f) /\ 1 + 16 + 4 = 21
    BY DEF Encode
  <2> QED BY <1>2, <1>5, <2>1, Zenon DEF buildUploadPlain
<1> HIDE DEF d, A
<1>7. A(0) \in Seq(Byte) /\ Len(A(0)) = 2 + Len(t) + Len(b) /\ Reads(Prefixed(2, 0), t, A(0), A(1))
  <2>1. Field(2, t) \o b \in Seq(Byte) /\ Len(Field(2, t) \o b) = 2 + Len(t) + Len(b)
    BY <1>3, FieldThen
  <2>2. Reads(Prefixed(2, 0), t, Field(2, t) \o b, b)
    BY <1>3, PrefixedThen
  <2> QED BY <1>5, <2>1, <2>2, Zenon
<1>8. /\ Len(d.fields) = 1 /\ \A i \in 1..1 : Reads(d.fields[i], f[i], A(i - 1), A(i))
  BY <1>2, <1>4, <1>7
<1>9. Zeros(21) \in Seq(Byte) /\ Len(Zeros(21)) = 21
  BY ZerosType, Zenon
<1>10. d.min <= Len(Encode("upload", f))
  <2>1. Len(Zeros(21) \o A(0)) = 21 + Len(A(0))
    BY <1>7, <1>9, ConcatFacts, Zenon
  <2> QED BY <1>3, <1>4, <1>6, <1>7, <2>1
<1>11. Len(d.fields) = Len(f) - (IF d.rest THEN 1 ELSE 0)
  BY <1>2, <1>4, <1>8
<1>12. A(Len(d.fields)) = f[Len(f)] /\ f[Len(f)] \in Seq(Byte)
  BY <1>2, <1>3, <1>5, <1>8, Zenon
<1> QED BY <1>4, <1>6, <1>7, <1>8, <1>9, <1>10, <1>11, <1>12, Zenon DEF Laid, d, A

\* Answers, with their padding.
LEMMA AnswerLaid ==
  ASSUME NEW f \in Messages["answer"]
  PROVE  Laid("answer", f)
<1> DEFINE d == Fits("answer", f)
           A(i) == After("answer", f, i)
           pad == IF Len(f[1]) < minPadding THEN minPadding - Len(f[1]) ELSE 0
<1>1. PICK b \in Parts : f = <<b>>
  BY DEF Messages
<1>2. f[1] = b /\ Len(f) = 1
  BY <1>1
<1>3. b \in Seq(Byte) /\ Len(b) \in Nat /\ Len(b) < Limit(4) /\ 4 \in Width /\ 0 \in Nat
  BY PartFacts DEF Width
<1>4. d.fields = <<Prefixed(4, 0)>> /\ d.min = 4 /\ d.start = 0 /\ d.rest = FALSE
  BY DEF Fits, parseResponse, Decoder
<1>5. A(0) = Field(4, b) \o A(1) /\ A(1) = Zeros(pad)
  BY <1>2 DEF After, buildUploadResponse
<1>6. Encode("answer", f) = A(0)
  BY <1>2, <1>5 DEF Encode, buildUploadResponse
<1>7. pad \in Nat
  BY <1>2, <1>3, FramesAssumption
<1> HIDE DEF d, A, pad
<1>8. A(1) \in Seq(Byte) /\ 0 <= Len(A(1)) /\ Len(A(1)) \in Nat
  BY <1>5, <1>7, ZerosType
<1>9. A(0) \in Seq(Byte) /\ Len(A(0)) = 4 + Len(b) + Len(A(1)) /\ Reads(Prefixed(4, 0), b, A(0), A(1))
  <2>1. Field(4, b) \o A(1) \in Seq(Byte) /\ Len(Field(4, b) \o A(1)) = 4 + Len(b) + Len(A(1))
    BY <1>3, <1>8, FieldThen
  <2>2. Reads(Prefixed(4, 0), b, Field(4, b) \o A(1), A(1))
    BY <1>3, <1>8, PrefixedThen
  <2> QED BY <1>5, <2>1, <2>2, Zenon
<1>10. /\ Len(d.fields) = 1 /\ \A i \in 1..1 : Reads(d.fields[i], f[i], A(i - 1), A(i))
  BY <1>2, <1>4, <1>9
<1>11. <<>> \in Seq(Byte) /\ Len(<<>>) = 0 /\ Encode("answer", f) = <<>> \o A(0)
  BY <1>6, <1>9, ConcatFacts
<1>12. d.min <= Len(Encode("answer", f))
  BY <1>3, <1>4, <1>6, <1>8, <1>9
<1>13. Len(d.fields) = Len(f) - (IF d.rest THEN 1 ELSE 0)
  BY <1>2, <1>4, <1>10
<1> QED BY <1>4, <1>9, <1>10, <1>11, <1>12, <1>13, Zenon DEF Laid, d, A

\* The length of a batch fits its four bytes.
LEMMA SmallLengths == 2 < Limit(4) /\ 0 < Limit(4)
<1>1. Base \in Nat /\ Base > 4
  BY BaseType
<1>2. Base * Base \in Nat /\ Base * Base > 4
  BY <1>1
<1>3. Base * Base * Base \in Nat /\ Base * Base * Base > 4
  BY <1>1, <1>2
<1>4. Base * Base * Base * Base \in Nat /\ Base * Base * Base * Base > 4
  BY <1>1, <1>3
<1>5. Limit(4) = Base * Base * Base * Base
  BY DEF Limit
<1>6. \A n \in Nat : n > 4 => 2 < n /\ 0 < n
  OBVIOUS
<1> QED BY <1>4, <1>5, <1>6, Zenon

\* Batches, empty or of two datagrams.
LEMMA BatchLaid ==
  ASSUME NEW f \in Messages["batch"]
  PROVE  Laid("batch", f) /\ Len(f) \in {0, 2} /\ \E r \in Seq(Byte) : Encode("batch", f) = PutUint(4, Len(f)) \o r
<1> DEFINE d == Fits("batch", f)
           A(i) == After("batch", f, i)
           h == PutUint(4, Len(f))
<1>2. \A n \in {0, 2} : PutUint(4, n) \in Seq(Byte) /\ Len(PutUint(4, n)) = 4
  BY SmallLengths, UintOfPut DEF Width
<1>3. Encode("batch", f) = EncodeBatch(f)
  BY DEF Encode
<1>4. d.min = 4 /\ d.start = 4 /\ d.rest = FALSE
  BY DEF Fits, Decoder
<1>5. CASE f = <<>>
  <2>1. Len(f) = 0 /\ d.fields = <<>> /\ A(0) = <<>>
    BY <1>5 DEF Fits, Decoder, After
  <2>2. Encode("batch", f) = h \o <<>>
    BY <1>3, <1>5, Zenon DEF EncodeBatch
  <2> HIDE DEF d, A, h
  <2>3. h \in Seq(Byte) /\ Len(h) = 4 /\ <<>> \in Seq(Byte) /\ Len(h \o <<>>) = 4
    BY <1>2, <2>1, ConcatFacts DEF h
  <2>4. d.min <= Len(Encode("batch", f)) /\ Len(d.fields) = 0
        /\ Len(d.fields) = Len(f) - (IF d.rest THEN 1 ELSE 0)
        /\ \A i \in 1..Len(d.fields) : Reads(d.fields[i], f[i], A(i - 1), A(i))
    <3>1. Len(d.fields) = 0 /\ 4 <= 4 /\ 0 = 0 - 0 /\ 1..0 = {}
      BY <2>1
    <3>2. d.min <= Len(Encode("batch", f))
      BY <1>4, <2>2, <2>3, <3>1, Zenon
    <3>3. Len(d.fields) = Len(f) - (IF d.rest THEN 1 ELSE 0)
      BY <1>4, <2>1, <3>1, Zenon
    <3> QED BY <3>1, <3>2, <3>3, Zenon
  <2>5. Laid("batch", f)
    BY <1>4, <2>1, <2>2, <2>3, <2>4, Zenon DEF Laid, d, A
  <2> QED BY <2>1, <2>2, <2>3, <2>5, Zenon DEF h
<1>6. CASE f # <<>>
  <2>1. PICK a \in Parts, b \in Parts : f = <<a, b>>
    BY <1>6 DEF Messages
  <2>2. f[1] = a /\ f[2] = b /\ Len(f) = 2
    BY <2>1
  <2>3. /\ a \in Seq(Byte) /\ b \in Seq(Byte) /\ Len(a) \in Nat /\ Len(b) \in Nat
        /\ Len(a) < Limit(4) /\ Len(b) < Limit(4) /\ 4 \in Width
    BY PartFacts DEF Width
  <2>4. d.fields = <<Tested(4), Tested(4)>>
    BY <1>6 DEF Fits, Decoder
  <2>5. A(0) = Field(4, a) \o A(1) /\ A(1) = Field(4, b) /\ A(2) = <<>>
    BY <1>6, <2>2 DEF After
  <2>6. Encode("batch", f) = h \o A(0)
    BY <1>3, <1>6, <2>2, <2>5, Zenon DEF EncodeBatch
  <2> HIDE DEF d, A, h
  <2>7. A(1) \in Seq(Byte) /\ Len(A(1)) = 4 + Len(b) /\ Reads(Tested(4), b, A(1), A(2))
    BY <2>3, <2>5, FieldLast
  <2>8. A(0) \in Seq(Byte) /\ Len(A(0)) \in Nat /\ Reads(Tested(4), a, A(0), A(1))
    <3>1. Field(4, a) \o A(1) \in Seq(Byte)
      BY <2>3, <2>7, FieldThen
    <3>2. Reads(Tested(4), a, Field(4, a) \o A(1), A(1))
      BY <2>3, <2>7, TestedThen
    <3>3. A(0) \in Seq(Byte) /\ Reads(Tested(4), a, A(0), A(1))
      BY <2>5, <3>1, <3>2, Zenon
    <3> QED BY <3>3
  <2>9. /\ Len(d.fields) = 2 /\ \A i \in 1..2 : Reads(d.fields[i], f[i], A(i - 1), A(i))
    BY <2>2, <2>4, <2>7, <2>8
  <2>10. h \in Seq(Byte) /\ Len(h) = 4 /\ Len(h \o A(0)) = 4 + Len(A(0))
    BY <1>2, <2>2, <2>8, ConcatFacts, Zenon DEF h
  <2>11. d.min <= Len(Encode("batch", f)) /\ Len(d.fields) = Len(f) - (IF d.rest THEN 1 ELSE 0)
    BY <1>4, <2>2, <2>6, <2>8, <2>9, <2>10
  <2>12. Laid("batch", f)
    BY <1>4, <2>6, <2>8, <2>9, <2>10, <2>11, Zenon DEF Laid, d, A
  <2>13. Len(f) \in {0, 2}
    BY <2>2
  <2> QED BY <2>6, <2>8, <2>12, <2>13, Zenon DEF h
<1> QED BY <1>5, <1>6

\* SOCKS5 headers, with an address or with a name.
LEMMA HeaderLaid ==
  ASSUME NEW k \in {"socks", "name"}, NEW f \in Messages[k]
  PROVE  /\ Laid(k, f)
         /\ \E a \in {atypIPv4, atypDomain, atypIPv6}, r \in Seq(Byte) :
               /\ Encode(k, f) = <<0, 0, 0, a>> \o r /\ (k = "name" <=> a = atypDomain)
               /\ k = "socks" => Len(f[1]) = IF a = atypIPv4 THEN 4 ELSE 16
<1> DEFINE d == Fits(k, f)
           A(i) == After(k, f, i)
<1>1. PICK x \in Seq(Byte), y \in Seq(Byte), b \in Parts :
        /\ f = <<x, y, b>> /\ Len(y) = 2
        /\ k = "socks" => Len(x) \in {4, 16}
        /\ k = "name" => Len(x) < Limit(1)
  <2>1. <<0, 1>> \in Seq(Byte) /\ Len(<<0, 1>>) = 2
    <3>1. 0 \in Byte /\ 1 \in Byte
      BY FramesAssumption DEF Byte
    <3> QED BY <3>1, ByteTuples
  <2>2. CASE k = "socks"
    <3>1. PICK n \in {4, 16}, b \in Parts : f = <<Zeros(n), <<0, 1>>, b>>
      BY <2>2 DEF Messages
    <3>2. Zeros(n) \in Seq(Byte) /\ Len(Zeros(n)) \in {4, 16}
      BY ZerosType, Zenon
    <3> QED BY <2>1, <2>2, <3>1, <3>2, Zenon
  <2>3. CASE k = "name"
    <3>1. PICK a \in Fitting(1), b \in Parts : f = <<a, <<0, 1>>, b>>
      BY <2>3 DEF Messages
    <3>2. a \in Seq(Byte) /\ Len(a) < Limit(1)
      BY PartFacts DEF Width
    <3> QED BY <2>1, <2>3, <3>1, <3>2, Zenon
  <2> QED BY <2>2, <2>3
<1>2. f[1] = x /\ f[2] = y /\ f[3] = b /\ Len(f) = 3
  BY <1>1
<1>3. b \in Seq(Byte) /\ y \o b \in Seq(Byte) /\ Len(b) \in Nat /\ Len(x) \in Nat /\ 1 \in Width
  BY <1>1, PartFacts DEF Width
<1>4. d.min = 4 /\ d.start = 4 /\ d.rest = TRUE
  BY Zenon DEF Fits, Decoder
<1>5. A(1) = y \o b /\ A(2) = b
  BY <1>2 DEF After
<1>6. Reads(Fixed(2), y, A(1), A(2))
  <2>1. Reads(Fixed(2), y, y \o b, b)
    BY <1>1, <1>3, ReadsFixed, Zenon
  <2> QED BY <1>5, <2>1, Zenon
<1>7. PICK e : /\ d.fields = <<e, Fixed(2)>> /\ A(0) \in Seq(Byte) /\ Reads(e, x, A(0), A(1))
  <2>1. CASE k = "socks"
    <3>1. d.fields = <<Fixed(Len(x)), Fixed(2)>> /\ A(0) = x \o (y \o b)
      BY <1>2, <2>1 DEF Fits, Decoder, After
    <3>2. x \o (y \o b) \in Seq(Byte)
      BY <1>3, ConcatFacts
    <3>3. Reads(Fixed(Len(x)), x, x \o (y \o b), y \o b)
      BY <1>3, ReadsFixed, Zenon
    <3> HIDE DEF d, A
    <3> QED BY <1>5, <3>1, <3>2, <3>3, Zenon
  <2>2. CASE k = "name"
    <3>1. d.fields = <<Tested(1), Fixed(2)>> /\ A(0) = Field(1, x) \o (y \o b)
      BY <1>2, <2>2 DEF Fits, Decoder, After
    <3>2. Field(1, x) \o (y \o b) \in Seq(Byte)
      BY <1>1, <1>3, <2>2, FieldThen
    <3>3. Reads(Tested(1), x, Field(1, x) \o (y \o b), y \o b)
      BY <1>1, <1>3, <2>2, TestedThen, Zenon
    <3> HIDE DEF d, A
    <3> QED BY <1>5, <3>1, <3>2, <3>3, Zenon
  <2> QED BY <2>1, <2>2
<1>8. PICK a \in {atypIPv4, atypDomain, atypIPv6} :
        /\ Encode(k, f) = <<0, 0, 0, a>> \o A(0) /\ (k = "name" <=> a = atypDomain)
        /\ k = "socks" => Len(f[1]) = IF a = atypIPv4 THEN 4 ELSE 16
  <2>1. CASE k = "socks"
    <3> DEFINE a == IF Len(f[1]) = 4 THEN atypIPv4 ELSE atypIPv6
    <3>1. A(0) = x \o (y \o b)
      BY <1>2, <2>1 DEF After
    <3>4. Encode(k, f) = buildSOCKS5UDPHeader(f)
      BY <2>1 DEF Encode
    <3>2. Encode(k, f) = <<0, 0, 0, a>> \o A(0)
      BY <1>2, <3>1, <3>4, Zenon DEF buildSOCKS5UDPHeader
    <3> HIDE DEF A
    <3>3. a \in {atypIPv4, atypIPv6} /\ a # atypDomain /\ Len(f[1]) = IF a = atypIPv4 THEN 4 ELSE 16
      BY <1>1, <1>2, <2>1 DEF atypIPv4, atypIPv6, atypDomain
    <3> HIDE DEF a
    <3> QED BY <2>1, <3>2, <3>3
  <2>2. CASE k = "name"
    <3>1. A(0) = Field(1, x) \o (y \o b)
      BY <1>2, <2>2 DEF After
    <3>3. Encode(k, f) = NameHeader(f)
      BY <2>2 DEF Encode
    <3>2. Encode(k, f) = <<0, 0, 0, atypDomain>> \o A(0)
      BY <1>2, <3>1, <3>3, Zenon DEF NameHeader
    <3> HIDE DEF A
    <3> QED BY <2>2, <3>2, Zenon
  <2> QED BY <2>1, <2>2
<1> HIDE DEF d, A
<1>9. <<0, 0, 0, a>> \in Seq(Byte) /\ Len(<<0, 0, 0, a>>) = 4
  <2>1. 0 \in Byte /\ a \in Byte
    BY FramesAssumption DEF Byte, atypIPv4, atypIPv6, atypDomain
  <2> QED BY <2>1, ByteTuples
<1>10. /\ Len(d.fields) = 2 /\ \A i \in 1..2 : Reads(d.fields[i], f[i], A(i - 1), A(i))
  BY <1>2, <1>6, <1>7
<1>11. d.min <= Len(Encode(k, f)) /\ Len(d.fields) = Len(f) - (IF d.rest THEN 1 ELSE 0)
  <2>1. Len(<<0, 0, 0, a>> \o A(0)) = 4 + Len(A(0)) /\ Len(A(0)) \in Nat
    BY <1>7, <1>9, ConcatFacts
  <2> QED BY <1>2, <1>4, <1>8, <1>10, <2>1
<1>12. A(Len(d.fields)) = f[Len(f)] /\ f[Len(f)] \in Seq(Byte)
  BY <1>2, <1>3, <1>5, <1>10, Zenon
<1>13. Laid(k, f)
  BY <1>4, <1>7, <1>8, <1>9, <1>10, <1>11, <1>12, Zenon DEF Laid, d, A
<1> QED BY <1>7, <1>8, <1>13, Zenon

\* All frames are laid out as their decoders expect.
LEMMA FrameLaid ==
  ASSUME NEW k \in Kinds, NEW f \in Messages[k]
  PROVE  Laid(k, f)
  BY RequestLaid, ResponseLaid, UploadLaid, AnswerLaid, BatchLaid, HeaderLaid, Zenon DEF Kinds

\* A frame is a sequence of bytes.
LEMMA FrameType ==
  ASSUME NEW k \in Kinds, NEW f \in Messages[k]
  PROVE  Encode(k, f) \in Seq(Byte) /\ Len(Encode(k, f)) \in Nat
<1>1. PICK h \in Seq(Byte) : Encode(k, f) = h \o After(k, f, 0) /\ After(k, f, 0) \in Seq(Byte)
  BY FrameLaid, Zenon DEF Laid
<1>2. h \o After(k, f, 0) \in Seq(Byte)
  BY <1>1, ConcatFacts
<1>3. Encode(k, f) \in Seq(Byte)
  BY <1>1, <1>2, Zenon
<1> QED BY <1>3

\* What is put into a frame.
LEMMA MessageType ==
  ASSUME NEW k \in Kinds, NEW f \in Messages[k]
  PROVE  f \in Seq(Seq(Byte))
<1>1. \A p \in Parts : p \in Seq(Byte)
  BY PartFacts
<1>2. Fitting(1) \subseteq Parts /\ Fitting(2) \subseteq Parts
  BY DEF Fitting
<1>3. <<0, 1>> \in Seq(Byte) /\ \A n \in {4, 16} : Zeros(n) \in Seq(Byte)
  <2>1. 0 \in Byte /\ 1 \in Byte
    BY FramesAssumption DEF Byte
  <2> QED BY <2>1, ByteTuples, ZerosType
<1>4. PICK S : S = Seq(Byte)
  OBVIOUS
<1>5. \A a, b, c \in S : <<a>> \in Seq(S) /\ <<a, b>> \in Seq(S) /\ <<a, b, c>> \in Seq(S)
  OBVIOUS
<1>6. <<>> \in Seq(S)
  OBVIOUS
<1>7. \/ \E a, b, c \in S : f = <<a>> \/ f = <<a, b>> \/ f = <<a, b, c>>
      \/ f = <<>>
  <2>1. CASE k = "request"
    <3>1. PICK p \in Fitting(2), t \in Fitting(2), b \in Parts : f = <<p, t, b>>
      BY <2>1 DEF Messages
    <3> QED BY <1>1, <1>2, <1>4, <3>1, Zenon
  <2>2. CASE k \in {"response", "chunk", "answer"}
    <3>1. PICK b \in Parts : f = <<b>>
      BY <2>2 DEF Messages
    <3> QED BY <1>1, <1>4, <3>1, Zenon
  <2>3. CASE k = "upload"
    <3>1. PICK t \in Fitting(2), b \in Parts : f = <<t, b>>
      BY <2>3 DEF Messages
    <3> QED BY <1>1, <1>2, <1>4, <3>1, Zenon
  <2>4. CASE k = "batch"
    <3>1. f = <<>> \/ \E a \in Parts, b \in Parts : f = <<a, b>>
      BY <2>4 DEF Messages
    <3> QED BY <1>1, <1>4, <3>1, Zenon
  <2>5. CASE k = "socks"
    <3>1. PICK n \in {4, 16}, b \in Parts : f = <<Zeros(n), <<0, 1>>, b>>
      BY <2>5 DEF Messages
    <3> QED BY <1>1, <1>3, <1>4, <3>1, Zenon
  <2>6. CASE k = "name"
    <3>1. PICK a \in Fitting(1), b \in Parts : f = <<a, <<0, 1>>, b>>
      BY <2>6 DEF Messages
    <3> QED BY <1>1, <1>2, <1>3, <1>4, <3>1, Zenon
  <2> QED BY <2>1, <2>2, <2>3, <2>4, <2>5, <2>6 DEF Kinds
<1>8. f \in Seq(S)
  <2>1. CASE f = <<>>
    BY <1>6, <2>1, Zenon
  <2>2. ASSUME NEW a \in S, NEW b \in S, NEW c \in S, f = <<a>> \/ f = <<a, b>> \/ f = <<a, b, c>>
        PROVE  f \in Seq(S)
    BY <1>5, <2>2, Zenon
  <2> QED BY <1>7, <2>1, <2>2, Zenon
<1> QED BY <1>4, <1>8, Zenon

-----------------------------------------------------------------------------
(* What an unaltered frame is taken for                                    *)

\* Two fields of a decoder.
LEMMA PairOf == ASSUME NEW x, NEW y PROVE <<x>> \o <<y>> = <<x, y>>
<1> DEFINE S == {x, y}
<1>1. x \in S /\ y \in S
  OBVIOUS
<1> HIDE DEF S
<1>2. /\ <<x>> \o <<y>> \in Seq(S) /\ Len(<<x>> \o <<y>>) = 2
      /\ (<<x>> \o <<y>>)[1] = x /\ (<<x>> \o <<y>>)[2] = y
  BY <1>1
<1>3. <<x, y>> \in Seq(S) /\ Len(<<x, y>>) = 2 /\ <<x, y>>[1] = x /\ <<x, y>>[2] = y
  BY <1>1
<1>4. \A s, t \in Seq(S) : Len(s) = 2 /\ Len(t) = 2 /\ s[1] = t[1] /\ s[2] = t[2] => s = t
  OBVIOUS
<1> QED BY <1>2, <1>3, <1>4, Zenon

\* What comes first in a frame.
LEMMA HeadOf ==
  ASSUME NEW s \in Seq(Byte), NEW q \in Seq(Byte), NEW k \in 1..Len(s)
  PROVE  (s \o q)[k] = s[k]
  OBVIOUS

\* The first four bytes of a frame.
LEMMA FirstBytes ==
  ASSUME NEW b \in Seq(Byte), NEW p \in Seq(Byte), NEW r \in Seq(Byte),
         Matches(b, 0, p \o r), Len(p) = 4, ~(Len(b) < 4)
  PROVE  SubSeq(b, 1, 4) = p /\ b[4] = p[4]
<1>1. \A k \in 1..(Len(b) - 0) : b[0 + k] = (p \o r)[k]
  BY DEF Matches
<1>2. \A k \in 1..4 : k \in 1..(Len(b) - 0) /\ 0 + k = k
  OBVIOUS
<1>3. \A k \in 1..4 : (p \o r)[k] = p[k]
  <2>1. \A s, q \in Seq(Byte) : \A k \in 1..Len(s) : (s \o q)[k] = s[k]
    BY HeadOf
  <2> QED BY <2>1, Zenon
<1>4. \A k \in 1..4 : b[k] = p[k]
  BY <1>1, <1>2, <1>3, Zenon
<1>5. /\ SubSeq(b, 1, 4) \in Seq(Byte) /\ Len(SubSeq(b, 1, 4)) = 4
      /\ \A k \in 1..4 : SubSeq(b, 1, 4)[k] = b[k]
  OBVIOUS
<1> QED BY <1>4, <1>5

\* A decoder takes a frame that was not altered for what it is.
LEMMA Recognised ==
  ASSUME kind \in Kinds, sent \in Messages[kind], bytes \in Seq(Byte),
         Matches(bytes, 0, Encode(kind, sent)), TheDecoder.min <= Len(bytes)
  PROVE  TheDecoder = Fits(kind, sent)
<1>1. CASE kind \in {"request", "response", "chunk", "upload", "answer"}
  BY <1>1, Zenon DEF TheDecoder, Fits
<1>2. ASSUME kind \in {"batch", "socks", "name"}
      PROVE  ~(Len(bytes) < 4) /\ Len(bytes) \in Nat
  <2>1. Len(bytes) < 4 => TheDecoder \in {Decoder(4, 4, <<>>, FALSE), Decoder(4, 4, <<>>, TRUE)}
    BY <1>2, Zenon DEF TheDecoder
  <2>2. Len(bytes) < 4 => TheDecoder.min = 4
    <3>1. Decoder(4, 4, <<>>, FALSE).min = 4 /\ Decoder(4, 4, <<>>, TRUE).min = 4
      BY DEF Decoder
    <3> QED BY <2>1, <3>1, Zenon
  <2>3. Len(bytes) \in Nat
    OBVIOUS
  <2> QED BY <2>2, <2>3
<1>3. CASE kind = "batch"
  <2>1. PICK r \in Seq(Byte) : Encode(kind, sent) = PutUint(4, Len(sent)) \o r /\ Len(sent) \in {0, 2}
    BY <1>3, BatchLaid, Zenon
  <2> DEFINE u == Uint(SubSeq(bytes, 1, 4))
             n == IF u > Len(bytes) THEN Len(bytes) ELSE u
  <2>2. TheDecoder = Decoder(4, 4, [i \in 1..n |-> Tested(4)], FALSE)
    BY <1>2, <1>3, Zenon DEF TheDecoder, decodeDatagramBatch
  <2>3. /\ PutUint(4, Len(sent)) \in Seq(Byte) /\ Len(PutUint(4, Len(sent))) = 4
        /\ Uint(PutUint(4, Len(sent))) = Len(sent)
    BY <2>1, SmallLengths, UintOfPut, Zenon DEF Width
  <2>4. SubSeq(bytes, 1, 4) = PutUint(4, Len(sent))
    <3>1. PICK p : p = PutUint(4, Len(sent))
      OBVIOUS
    <3>2. p \in Seq(Byte) /\ Len(p) = 4 /\ Matches(bytes, 0, p \o r)
      BY <2>1, <2>3, <3>1, Zenon
    <3> QED BY <1>2, <1>3, <3>1, <3>2, FirstBytes
  <2>5. u = Len(sent)
    BY <2>3, <2>4, Zenon
  <2> HIDE DEF u
  <2>6. n = Len(sent)
    <3>1. ~(u > Len(bytes))
      <4>1. \A m \in {0, 2}, l \in Nat : ~(l < 4) => ~(m > l)
        OBVIOUS
      <4> QED BY <1>2, <1>3, <2>1, <2>5, <4>1
    <3> QED BY <2>5, <3>1, Zenon
  <2> HIDE DEF n
  <2>7. [i \in 1..n |-> Tested(4)] = IF sent = <<>> THEN <<>> ELSE <<Tested(4), Tested(4)>>
    <3>1. sent = <<>> <=> Len(sent) = 0
      BY MessageType
    <3>2. CASE n = 0
      BY <2>6, <3>1, <3>2
    <3>3. CASE n = 2
      BY <2>6, <3>1, <3>3
    <3> QED BY <2>1, <2>6, <3>2, <3>3, Zenon
  <2>8. Fits(kind, sent)
          = Decoder(4, 4, IF sent = <<>> THEN <<>> ELSE <<Tested(4), Tested(4)>>, FALSE)
    BY <1>3 DEF Fits
  <2> QED BY <2>2, <2>7, <2>8, Zenon
<1>4. CASE kind \in {"socks", "name"}
  <2>1. PICK a \in {atypIPv4, atypDomain, atypIPv6}, r \in Seq(Byte) :
          /\ Encode(kind, sent) = <<0, 0, 0, a>> \o r /\ (kind = "name" <=> a = atypDomain)
          /\ kind = "socks" => Len(sent[1]) = IF a = atypIPv4 THEN 4 ELSE 16
    BY <1>4, HeaderLaid, Zenon
  <2>2. bytes[4] = a
    <3>1. <<0, 0, 0, a>> \in Seq(Byte) /\ Len(<<0, 0, 0, a>>) = 4 /\ <<0, 0, 0, a>>[4] = a
      <4>1. 0 \in Byte /\ a \in Byte
        BY FramesAssumption DEF Byte, atypIPv4, atypIPv6, atypDomain
      <4> QED BY <4>1, ByteTuples
    <3>2. PICK p : p = <<0, 0, 0, a>>
      BY Zenon
    <3>3. p \in Seq(Byte) /\ Len(p) = 4 /\ p[4] = a /\ Matches(bytes, 0, p \o r)
      BY <2>1, <3>1, <3>2, Zenon
    <3> QED BY <1>2, <1>4, <3>3, FirstBytes
  <2>3. TheDecoder = parseSOCKS5UDPHeader(bytes)
    BY <1>2, <1>4, Zenon DEF TheDecoder
  <2>4. \A x, y : <<x>> \o <<y>> = <<x, y>>
    BY PairOf, Zenon
  <2>5. CASE kind = "name"
    <3>1. Fits(kind, sent) = Decoder(4, 4, <<Tested(1), Fixed(2)>>, TRUE)
      BY <2>5 DEF Fits
    <3> QED BY <2>1, <2>2, <2>3, <2>4, <2>5, <3>1, HeaderFields, Zenon
  <2>6. CASE kind = "socks"
    <3>1. Fits(kind, sent) = Decoder(4, 4, <<Fixed(Len(sent[1])), Fixed(2)>>, TRUE)
      BY <2>6 DEF Fits
    <3>2. (a = atypIPv4 /\ Len(sent[1]) = 4) \/ (a = atypIPv6 /\ Len(sent[1]) = 16)
      BY <2>1, <2>6, Zenon DEF atypIPv4, atypIPv6, atypDomain
    <3> QED BY <2>2, <2>3, <2>4, <3>1, <3>2, HeaderFields, Zenon
  <2> QED BY <1>4, <2>5, <2>6
<1> QED BY <1>1, <1>3, <1>4 DEF Kinds

-----------------------------------------------------------------------------
(* Both ends agree                                                         *)

\* A frame that was not altered is what was sent, as far as it goes; what the
\* decoder has taken is what was put, and the frame goes on with what follows.
MatchInv ==
    /\ sent \in Messages[kind]
    /\ mishap # "altered" => Matches(bytes, 0, Encode(kind, sent))
    /\ mishap = "none" => Len(bytes) = Len(Encode(kind, sent)) /\ verdict # "rejected"
    /\ mishap # "altered" /\ verdict = "reading" =>
          /\ Matches(bytes, o, After(kind, sent, Len(got)))
          /\ mishap = "none" => Len(bytes) - o = Len(After(kind, sent, Len(got)))
          /\ \A j \in 1..Len(got) : got[j] = sent[j]
    /\ mishap = "none" /\ verdict = "ok" => got = sent
    /\ CutIsNoticed

\* It holds for every frame that is sent.
LEMMA FramesInit == FInit => CursorInv /\ MatchInv
<1> SUFFICES ASSUME FInit PROVE CursorInv /\ MatchInv
  OBVIOUS
<1>1. kind \in Kinds /\ sent \in Messages[kind] /\ bytes = Encode(kind, sent)
      /\ mishap = "none" /\ got = <<>> /\ verdict = "sent"
  BY KindsAreSent, Zenon DEF FInit
<1>2. bytes \in Seq(Byte) /\ Len(bytes) \in Nat
  BY <1>1, FrameType, Zenon
<1>3. <<>> \in Seq(Seq(Byte))
  OBVIOUS
<1>4. CursorInv
  BY <1>1, <1>2, <1>3 DEF CursorInv
<1>5. Matches(bytes, 0, bytes)
  BY <1>2 DEF Matches
<1> QED BY <1>1, <1>4, <1>5 DEF MatchInv, CutIsNoticed

\* A frame that is cut still is what was sent, as far as it goes.
LEMMA CutMatches ==
  ASSUME CursorInv, MatchInv, Cut \/ Alter
  PROVE  MatchInv'
<1>1. CASE Alter
  BY <1>1 DEF Alter, MatchInv, CutIsNoticed
<1>2. CASE Cut
  <2>1. /\ verdict' = "sent" /\ mishap = "none" /\ mishap' = "cut" /\ kind' = kind /\ sent' = sent
    BY <1>2 DEF Cut
  <2>2. PICK n \in 0..(Len(bytes) - 1) : bytes' = SubSeq(bytes, 1, n)
    BY <1>2 DEF Cut
  <2>3. bytes \in Seq(Byte) /\ sent \in Messages[kind] /\ Matches(bytes, 0, Encode(kind, sent))
    BY <2>1 DEF CursorInv, MatchInv
  <2>4. PICK e : e = Encode(kind, sent)
    OBVIOUS
  <2>5. \A b \in Seq(Byte), m \in Nat : m <= Len(b) /\ Matches(b, 0, e) => Matches(SubSeq(b, 1, m), 0, e)
    <3> SUFFICES ASSUME NEW b \in Seq(Byte), NEW m \in Nat, m <= Len(b), Matches(b, 0, e)
                 PROVE  Matches(SubSeq(b, 1, m), 0, e)
      OBVIOUS
    <3>1. Len(SubSeq(b, 1, m)) = m /\ \A k \in 1..m : SubSeq(b, 1, m)[k] = b[k]
      OBVIOUS
    <3>2. Len(b) - 0 <= Len(e) /\ \A k \in 1..(Len(b) - 0) : b[0 + k] = e[k]
      BY DEF Matches
    <3>3. \A k \in 1..m : k \in 1..(Len(b) - 0) /\ 0 + k = k
      OBVIOUS
    <3>4. \A k \in 1..m : b[k] = e[k]
      BY <3>2, <3>3, Zenon
    <3> QED BY <3>1, <3>2, <3>4 DEF Matches
  <2>6. n \in Nat /\ n <= Len(bytes)
    BY <2>3
  <2>7. Matches(bytes', 0, Encode(kind, sent))
    BY <2>2, <2>3, <2>4, <2>5, <2>6, Zenon
  <2> QED BY <2>1, <2>3, <2>7 DEF MatchInv, CutIsNoticed
<1> QED BY <1>1, <1>2

\* What a decoder has in front of it when it begins.
LEMMA BeginMatches ==
  ASSUME CursorInv, MatchInv, Begin
  PROVE  MatchInv'
<1> DEFINE D == TheDecoder
           F == Encode(kind, sent)
<1>1. /\ UNCHANGED <<kind, sent, bytes, mishap, got>> /\ got = <<>> /\ o' = D.start
      /\ verdict' \in {"ok", "rejected", "reading"}
  BY DEF Begin, CursorInv
<1>2. kind \in Kinds /\ sent \in Messages[kind] /\ bytes \in Seq(Byte)
      /\ (mishap # "altered" => Matches(bytes, 0, F)) /\ (mishap = "none" => Len(bytes) = Len(F))
  BY DEF CursorInv, MatchInv
<1>3. verdict' = "ok" => bytes = <<>>
  BY DEF Begin
<1>4. verdict' = "reading" => ~(Len(bytes) < D.min)
  BY DEF Begin
<1>5. verdict' = "rejected" =>
        Len(bytes) < D.min \/ (kind \in {"socks", "name"} /\ D.fields = <<>>)
  BY DEF Begin
<1> HIDE DEF D, F
<1>6. Len(bytes) \in Nat /\ D.min \in Nat
  BY <1>2, DecodersCareful DEF Careful, D
<1>7. ~(Len(bytes) < D.min) /\ mishap # "altered" => D = Fits(kind, sent)
  <2>1. ~(Len(bytes) < D.min) => D.min <= Len(bytes)
    BY <1>6
  <2> QED BY <1>2, <2>1, Recognised, Zenon DEF D, F
<1>8. D.min = Fits(kind, sent).min
  BY <1>2 DEF D, TheDecoder, Fits, decodeDatagramBatch, parseSOCKS5UDPHeader, Decoder, Kinds
<1>9. Laid(kind, sent)
  BY <1>2, FrameLaid
<1>10. Fits(kind, sent).min <= Len(F) /\ Len(F) \in Nat
  BY <1>2, <1>9, FrameType DEF Laid, F
<1>11. mishap = "none" => verdict' # "rejected"
  <2> SUFFICES ASSUME mishap = "none", verdict' = "rejected" PROVE FALSE
    OBVIOUS
  <2>1. ~(Len(bytes) < D.min)
    BY <1>2, <1>6, <1>8, <1>10
  <2>2. kind \in {"socks", "name"} /\ Fits(kind, sent).fields = <<>>
    BY <1>5, <1>7, <2>1
  <2>3. \E x, y : Fits(kind, sent).fields = <<x, y>>
    BY <2>2 DEF Fits, Decoder
  <2> QED BY <2>2, <2>3
<1>12. ASSUME mishap # "altered", verdict' = "reading"
       PROVE  /\ Matches(bytes, o', After(kind, sent, 0))
              /\ mishap = "none" => Len(bytes) - o' = Len(After(kind, sent, 0))
  <2>1. D = Fits(kind, sent)
    BY <1>4, <1>7, <1>12
  <2>2. PICK h \in Seq(Byte) : Len(h) = D.start /\ F = h \o After(kind, sent, 0)
    BY <1>9, <2>1, Zenon DEF Laid, F
  <2>3. After(kind, sent, 0) \in Seq(Byte)
    BY <1>9 DEF Laid
  <2>4. Careful(D)
    BY <1>2, DecodersCareful DEF D
  <2>5. Len(h) <= Len(bytes)
    BY <1>4, <1>6, <1>12, <2>2, <2>4 DEF Careful
  <2>6. /\ Matches(bytes, Len(h), After(kind, sent, 0))
        /\ Len(bytes) = Len(F) => Len(bytes) - Len(h) = Len(After(kind, sent, 0))
    <3>1. Matches(bytes, 0, h \o After(kind, sent, 0))
      BY <1>2, <1>12, <2>2, Zenon
    <3>2. /\ Matches(bytes, Len(h), After(kind, sent, 0))
          /\ Len(bytes) = Len(h \o After(kind, sent, 0)) =>
               Len(bytes) - Len(h) = Len(After(kind, sent, 0))
      BY <1>2, <2>3, <2>5, <3>1, StartTaken
    <3> QED BY <2>2, <3>2, Zenon
  <2> QED BY <1>1, <1>2, <2>2, <2>6, Zenon
<1>13. mishap = "none" => verdict' # "ok"
  <2>1. mishap = "none" /\ verdict' = "ok" => Len(bytes) = 0 /\ D.min <= Len(bytes)
    <3>1. mishap = "none" => D.min <= Len(bytes)
      BY <1>2, <1>8, <1>10
    <3>2. verdict' = "ok" => Len(bytes) = 0
      BY <1>3
    <3> QED BY <3>1, <3>2
  <2>2. D.min > 0
    BY <1>2, <1>8 DEF Fits, udpDecodeRequest, udpDecodeResponse, mirrorDecodeFound,
       parseUploadFrame, parseResponse, Decoder, Kinds
  <2> QED BY <1>6, <2>1, <2>2
<1>14. Len(got) = 0
  BY <1>1
<1>15. CutIsNoticed'
  BY <1>1, <1>3 DEF CutIsNoticed
<1>16. \A j \in 1..Len(got) : got[j] = sent[j]
  BY <1>14
<1> QED BY <1>1, <1>2, <1>11, <1>12, <1>13, <1>14, <1>15, <1>16, Zenon DEF MatchInv, F

\* A whole field is there in a whole frame, with what its test covers.
LEMMA WholeField ==
  ASSUME NEW b \in Seq(Byte), NEW i \in Nat, NEW e, NEW x, NEW t, NEW r, Reads(e, x, t, r),
         Len(b) - i = Len(t)
  PROVE  /\ i + e.w <= Len(b)
         /\ i + e.w + Len(x) + e.next <= Len(b)
<1>1. /\ x \in Seq(Byte) /\ r \in Seq(Byte) /\ e.w \in Width /\ e.size \in Nat /\ e.next \in Nat
      /\ e.size <= Len(x) /\ Len(x) - e.size < Limit(e.w)
      /\ t = PutUint(e.w, Len(x) - e.size) \o (x \o r) /\ e.next <= Len(r)
  BY DEF Reads
<1>2. PICK w \in Width, size \in Nat, next \in Nat : w = e.w /\ size = e.size /\ next = e.next
  BY <1>1, Zenon
<1>3. Len(x) - size \in Nat /\ Len(x) \in Nat /\ Len(r) \in Nat /\ w \in Nat /\ next <= Len(r)
      /\ Len(b) \in Nat
  BY <1>1, <1>2 DEF Width
<1>4. PICK p \in Seq(Byte) : p = PutUint(w, Len(x) - size) /\ Len(p) = w
  BY <1>1, <1>2, <1>3, UintOfPut, Zenon
<1>5. t = p \o (x \o r)
  BY <1>1, <1>2, <1>4, Zenon
<1>6. x \o r \in Seq(Byte) /\ Len(x \o r) = Len(x) + Len(r)
  BY <1>1, ConcatFacts
<1>7. Len(p \o (x \o r)) = Len(p) + Len(x \o r)
  BY <1>4, <1>6, ConcatFacts
<1>8. Len(b) - i = w + (Len(x) + Len(r))
  BY <1>4, <1>5, <1>6, <1>7, Zenon
<1>9. i + w <= Len(b) /\ i + w + Len(x) + next <= Len(b)
  BY <1>3, <1>8
<1> QED BY <1>2, <1>9, Zenon

\* What a decoder reads of a field whose length is there.
LEMMA ReadOne ==
  ASSUME NEW b \in Seq(Byte), NEW i \in Nat, NEW e, NEW x, NEW t, NEW r, Reads(e, x, t, r),
         Matches(b, i, t), i + e.w <= Len(b)
  PROVE  /\ e.size + Uint(SubSeq(b, i + 1, i + e.w)) = Len(x)
         /\ i + e.w + Len(x) <= Len(b) =>
               /\ SubSeq(b, i + e.w + 1, i + e.w + Len(x)) = x
               /\ Matches(b, i + e.w + Len(x), r)
         /\ Len(b) - i = Len(t) => Len(b) - (i + e.w + Len(x)) = Len(r)
<1>1. /\ x \in Seq(Byte) /\ r \in Seq(Byte) /\ e.w \in Width /\ e.size \in Nat
      /\ e.size <= Len(x) /\ Len(x) - e.size < Limit(e.w)
      /\ t = PutUint(e.w, Len(x) - e.size) \o (x \o r)
  BY DEF Reads
<1>2. Matches(b, i, PutUint(e.w, Len(x) - e.size) \o (x \o r))
  BY <1>1, Zenon
<1>3. PICK w \in Width, size \in Nat : w = e.w /\ size = e.size
  BY <1>1, Zenon
<1>4. size <= Len(x) /\ Len(x) - size < Limit(w) /\ i + w <= Len(b)
      /\ Matches(b, i, PutUint(w, Len(x) - size) \o (x \o r))
  BY <1>1, <1>2, <1>3, Zenon
<1>5. /\ size + Uint(SubSeq(b, i + 1, i + w)) = Len(x)
      /\ i + w + Len(x) <= Len(b) =>
            /\ SubSeq(b, i + w + 1, i + w + Len(x)) = x
            /\ Matches(b, i + w + Len(x), r)
      /\ Len(b) - i = Len(PutUint(w, Len(x) - size) \o (x \o r)) =>
            Len(b) - (i + w + Len(x)) = Len(r)
  BY <1>1, <1>4, FieldTaken
<1> QED BY <1>1, <1>3, <1>5, Zenon

\* What has been taken, and the next field.
LEMMA TakenNext ==
  ASSUME NEW g \in Seq(Seq(Byte)), NEW x \in Seq(Byte), NEW f,
         \A j \in 1..Len(g) : g[j] = f[j], x = f[Len(g) + 1]
  PROVE  /\ Len(Append(g, x)) = Len(g) + 1
         /\ \A j \in 1..Len(Append(g, x)) : Append(g, x)[j] = f[j]
  OBVIOUS

\* A field that is read is the field that was put, and the frame goes on behind it.
LEMMA ReadMatches ==
  ASSUME CursorInv, MatchInv, ReadField
  PROVE  MatchInv'
<1> DEFINE D == TheDecoder
           e == D.fields[Len(got) + 1]
           n == Length(e)
<1>1. UNCHANGED <<kind, sent, bytes, mishap>> /\ verdict = "reading" /\ Len(got) < Len(D.fields)
  BY DEF ReadField
<1>2. \/ /\ ~(o + e.w <= Len(bytes)) \/ o + e.w + n + e.next > Len(bytes)
         /\ verdict' \in {"rejected", "panic"} /\ UNCHANGED <<o, got>>
      \/ /\ o + e.w <= Len(bytes) /\ ~(o + e.w + n + e.next > Len(bytes))
         /\ got' = Append(got, SubSeq(bytes, o + e.w + 1, o + e.w + n))
         /\ o' = o + e.w + n /\ verdict' = "reading"
  BY <1>1 DEF ReadField
<1>3. kind \in Kinds /\ sent \in Messages[kind] /\ bytes \in Seq(Byte) /\ got \in Seq(Seq(Byte))
      /\ o \in Nat /\ D.min <= Len(bytes)
  BY <1>1 DEF CursorInv, MatchInv
<1>4. mishap # "altered" =>
        /\ Matches(bytes, 0, Encode(kind, sent)) /\ Matches(bytes, o, After(kind, sent, Len(got)))
        /\ mishap = "none" => Len(bytes) - o = Len(After(kind, sent, Len(got)))
        /\ \A j \in 1..Len(got) : got[j] = sent[j]
  BY <1>1 DEF MatchInv
<1>5. n = e.size + Uint(SubSeq(bytes, o + 1, o + e.w))
  BY DEF Length
<1> HIDE DEF D, e, n
<1>6. verdict' # "ok" /\ CutIsNoticed'
  BY <1>2 DEF CutIsNoticed
<1>7. CASE mishap = "altered"
  BY <1>1, <1>3, <1>6, <1>7 DEF MatchInv
<1>8. ASSUME mishap # "altered"
      PROVE  Reads(e, sent[Len(got) + 1], After(kind, sent, Len(got)), After(kind, sent, Len(got) + 1))
  <2>1. D = Fits(kind, sent)
    BY <1>3, <1>4, <1>8, Recognised, Zenon DEF D
  <2>2. Laid(kind, sent)
    BY <1>3, FrameLaid
  <2>3. \A i \in 1..Len(D.fields) :
          Reads(D.fields[i], sent[i], After(kind, sent, i - 1), After(kind, sent, i))
    BY <2>1, <2>2, Zenon DEF Laid
  <2>4. D.fields \in Seq(FieldType)
    BY <1>3, DecodersCareful DEF Careful, D
  <2>5. Len(got) + 1 \in 1..Len(D.fields) /\ (Len(got) + 1) - 1 = Len(got)
    BY <1>1, <1>3, <2>4
  <2> QED BY <2>3, <2>5, Zenon DEF e
<1>9. CASE mishap # "altered"
  <2> DEFINE x == sent[Len(got) + 1]
             t == After(kind, sent, Len(got))
             r == After(kind, sent, Len(got) + 1)
  <2>1. /\ x \in Seq(Byte) /\ e.w \in Nat /\ e.next \in Nat /\ Len(x) \in Nat /\ Len(bytes) \in Nat
    BY <1>3, <1>8, <1>9 DEF Reads, Width
  <2>2. mishap = "none" => Len(bytes) - o = Len(t)
    BY <1>4, <1>9
  <2> HIDE DEF x, t, r
  <2>3. mishap = "none" => o + e.w <= Len(bytes) /\ o + e.w + Len(x) + e.next <= Len(bytes)
    BY <1>3, <1>8, <1>9, <2>2, WholeField, Zenon DEF x, t, r
  <2>4. o + e.w <= Len(bytes) =>
          /\ n = Len(x)
          /\ o + e.w + Len(x) <= Len(bytes) =>
                /\ SubSeq(bytes, o + e.w + 1, o + e.w + Len(x)) = x
                /\ Matches(bytes, o + e.w + Len(x), r)
          /\ Len(bytes) - o = Len(t) => Len(bytes) - (o + e.w + Len(x)) = Len(r)
    <3> SUFFICES ASSUME o + e.w <= Len(bytes)
                 PROVE  /\ n = Len(x)
                        /\ o + e.w + Len(x) <= Len(bytes) =>
                              /\ SubSeq(bytes, o + e.w + 1, o + e.w + Len(x)) = x
                              /\ Matches(bytes, o + e.w + Len(x), r)
                        /\ Len(bytes) - o = Len(t) => Len(bytes) - (o + e.w + Len(x)) = Len(r)
      OBVIOUS
    <3>1. Reads(e, x, t, r) /\ Matches(bytes, o, t)
      BY <1>4, <1>8, <1>9, Zenon DEF x, t, r
    <3>2. /\ e.size + Uint(SubSeq(bytes, o + 1, o + e.w)) = Len(x)
          /\ o + e.w + Len(x) <= Len(bytes) =>
                /\ SubSeq(bytes, o + e.w + 1, o + e.w + Len(x)) = x
                /\ Matches(bytes, o + e.w + Len(x), r)
          /\ Len(bytes) - o = Len(t) => Len(bytes) - (o + e.w + Len(x)) = Len(r)
      BY <1>3, <3>1, ReadOne
    <3> QED BY <1>5, <3>2, Zenon
  <2>5. CASE verdict' \in {"rejected", "panic"}
    <3>1. ~(o + e.w <= Len(bytes)) \/ o + e.w + n + e.next > Len(bytes)
      BY <1>2, <2>5
    <3>2. mishap # "none"
      <4> SUFFICES ASSUME mishap = "none" PROVE FALSE
        OBVIOUS
      <4>1. n = Len(x) /\ o + e.w + Len(x) + e.next <= Len(bytes) /\ o + e.w <= Len(bytes)
        BY <2>3, <2>4, Zenon
      <4> QED BY <1>3, <2>1, <3>1, <4>1
    <3> QED BY <1>1, <1>3, <1>4, <1>6, <1>9, <2>5, <3>2 DEF MatchInv
  <2>6. CASE verdict' = "reading"
    <3>1. /\ o + e.w <= Len(bytes) /\ ~(o + e.w + n + e.next > Len(bytes))
          /\ got' = Append(got, SubSeq(bytes, o + e.w + 1, o + e.w + n)) /\ o' = o + e.w + n
      BY <1>2, <2>6
    <3>2. n = Len(x)
      BY <2>4, <3>1, Zenon
    <3>3. o + e.w + Len(x) <= Len(bytes)
      <4>1. PICK w \in Nat, m \in Nat, next \in Nat : w = e.w /\ m = Len(x) /\ next = e.next
        BY <2>1, Zenon
      <4>2. ~(o + w + m + next > Len(bytes))
        BY <3>1, <3>2, <4>1, Zenon
      <4>3. o + w + m <= Len(bytes)
        BY <1>3, <2>1, <4>2
      <4> QED BY <4>1, <4>3, Zenon
    <3>4. got' = Append(got, x) /\ Matches(bytes, o', r) /\ o' = o + e.w + Len(x)
      BY <2>4, <3>1, <3>2, <3>3, Zenon
    <3>5. mishap = "none" => Len(bytes) - o' = Len(r)
      BY <2>2, <2>4, <3>1, <3>4, Zenon
    <3>6. Len(got') = Len(got) + 1 /\ \A j \in 1..Len(got') : got'[j] = sent[j]
      BY <1>3, <1>4, <1>9, <2>1, <3>4, TakenNext, Zenon DEF x
    <3>7. r = After(kind, sent, Len(got'))
      BY <3>6, Zenon DEF r
    <3>8. mishap = "none" => Len(bytes) = Len(Encode(kind, sent))
      BY DEF MatchInv
    <3> QED BY <1>1, <1>3, <1>4, <1>6, <1>9, <2>6, <3>4, <3>5, <3>6, <3>7, <3>8, Zenon DEF MatchInv
  <2> QED BY <1>2, <2>5, <2>6
<1> QED BY <1>7, <1>9

\* What is read to the end is what was put, as far as it goes.
LEMMA TakenAll ==
  ASSUME NEW b \in Seq(Byte), NEW i \in Nat, NEW x \in Seq(Byte), i <= Len(b), Matches(b, i, x)
  PROVE  /\ Len(b) - i \in 0..Len(x)
         /\ SubSeq(b, i + 1, Len(b)) = SubSeq(x, 1, Len(b) - i)
         /\ Len(b) - i = Len(x) => SubSeq(b, i + 1, Len(b)) = x
<1>1. PICK n \in Nat : n = Len(b) - i /\ Len(b) = i + n
  OBVIOUS
<1>2. n <= Len(x) /\ \A k \in 1..n : b[i + k] = x[k]
  BY <1>1 DEF Matches
<1>3. /\ SubSeq(b, i + 1, i + n) \in Seq(Byte) /\ Len(SubSeq(b, i + 1, i + n)) = n
      /\ \A k \in 1..n : SubSeq(b, i + 1, i + n)[k] = b[i + k]
  BY <1>1, PartOfFrame
<1>4. SubSeq(x, 1, n) \in Seq(Byte) /\ Len(SubSeq(x, 1, n)) = n
      /\ \A k \in 1..n : SubSeq(x, 1, n)[k] = x[k]
  BY <1>2
<1>5. \A s, t \in Seq(Byte) : Len(s) = Len(t) /\ (\A k \in 1..Len(s) : s[k] = t[k]) => s = t
  OBVIOUS
<1>6. SubSeq(b, i + 1, i + n) = SubSeq(x, 1, n)
  BY <1>2, <1>3, <1>4, <1>5, Zenon
<1>7. n = Len(x) => SubSeq(x, 1, n) = x
  BY <1>4, <1>5, Zenon
<1>8. n \in 0..Len(x)
  BY <1>2
<1> QED BY <1>1, <1>6, <1>7, <1>8, Zenon

\* A sequence with one element replaced.
LEMMA ReplacedIn ==
  ASSUME NEW S, NEW s \in Seq(S), NEW i \in 1..Len(s), NEW y \in S
  PROVE  /\ [s EXCEPT ![i] = y] \in Seq(S) /\ Len([s EXCEPT ![i] = y]) = Len(s)
         /\ \A j \in 1..Len(s) : [s EXCEPT ![i] = y][j] = IF j = i THEN y ELSE s[j]
  OBVIOUS

\* A message whose fields have all been taken.
LEMMA TakenMessage ==
  ASSUME NEW g \in Seq(Seq(Byte)), NEW f \in Seq(Seq(Byte)), \A j \in 1..Len(g) : g[j] = f[j]
  PROVE  /\ Len(f) = Len(g) => g = f
         /\ \A y \in Seq(Byte) : Len(f) = Len(g) + 1 => Append(g, y) = [f EXCEPT ![Len(f)] = y]
<1>1. Len(f) = Len(g) => g = f
  BY SameSeq, Zenon
<1>2. ASSUME NEW y \in Seq(Byte), Len(f) = Len(g) + 1
      PROVE  Append(g, y) = [f EXCEPT ![Len(f)] = y]
  <2>1. Len(f) \in 1..Len(f)
    BY <1>2
  <2>2. PICK h \in Seq(Seq(Byte)) : /\ h = [f EXCEPT ![Len(f)] = y] /\ Len(h) = Len(f)
                                   /\ \A j \in 1..Len(f) : h[j] = IF j = Len(f) THEN y ELSE f[j]
    <3>1. /\ [f EXCEPT ![Len(f)] = y] \in Seq(Seq(Byte)) /\ Len([f EXCEPT ![Len(f)] = y]) = Len(f)
          /\ \A j \in 1..Len(f) : [f EXCEPT ![Len(f)] = y][j] = IF j = Len(f) THEN y ELSE f[j]
      BY <2>1, ReplacedIn
    <3>2. PICK h : h = [f EXCEPT ![Len(f)] = y]
      BY Zenon
    <3>3. /\ h \in Seq(Seq(Byte)) /\ Len(h) = Len(f)
          /\ \A j \in 1..Len(f) : h[j] = IF j = Len(f) THEN y ELSE f[j]
      BY <3>1, <3>2, Zenon
    <3> QED BY <3>2, <3>3, Zenon
  <2>3. Append(g, y) \in Seq(Seq(Byte)) /\ Len(Append(g, y)) = Len(f)
    BY <1>2
  <2>4. \A j \in 1..Len(f) : Append(g, y)[j] = IF j = Len(f) THEN y ELSE f[j]
    BY <1>2
  <2>5. \A j \in 1..Len(h) : h[j] = Append(g, y)[j]
    BY <2>2, <2>4, Zenon
  <2>6. h = Append(g, y)
    BY <2>2, <2>3, <2>5, SameSeq, Zenon
  <2> QED BY <2>2, <2>6, Zenon
<1> QED BY <1>1, <1>2

\* A payload that is whole changes nothing.
LEMMA SameMessage ==
  ASSUME NEW f \in Seq(Seq(Byte)), NEW i
  PROVE  [f EXCEPT ![i] = f[i]] = f
  OBVIOUS

\* What a decoder returns is what was sent, but for a payload that was cut.
LEMMA FinishMatches ==
  ASSUME CursorInv, MatchInv, Finish
  PROVE  MatchInv'
<1> DEFINE D == TheDecoder
           last == sent[Len(sent)]
<1>1. UNCHANGED <<kind, sent, bytes, mishap, o>> /\ verdict = "reading" /\ verdict' = "ok"
      /\ Len(got) = Len(D.fields)
      /\ got' = IF D.rest THEN Append(got, SubSeq(bytes, o + 1, Len(bytes))) ELSE got
  BY DEF Finish
<1>2. kind \in Kinds /\ sent \in Messages[kind] /\ bytes \in Seq(Byte) /\ got \in Seq(Seq(Byte))
      /\ o \in Nat /\ D.min <= Len(bytes) /\ o <= Len(bytes)
  BY <1>1 DEF CursorInv, MatchInv
<1>3. mishap # "altered" =>
        /\ Matches(bytes, 0, Encode(kind, sent)) /\ Matches(bytes, o, After(kind, sent, Len(got)))
        /\ mishap = "none" => Len(bytes) - o = Len(After(kind, sent, Len(got)))
        /\ \A j \in 1..Len(got) : got[j] = sent[j]
  BY <1>1 DEF MatchInv
<1>4. mishap = "none" => Len(bytes) = Len(Encode(kind, sent))
  BY DEF MatchInv
<1>5. D' = D
  BY <1>1, SameDecoder
<1>6. CutIsNoticed' <=>
        (mishap = "cut" /\ bytes # <<>> =>
           IF D.rest THEN \E n \in 0..Len(last) : got' = [sent EXCEPT ![Len(sent)] = SubSeq(last, 1, n)]
                     ELSE got' = sent)
  BY <1>1, <1>5 DEF CutIsNoticed
<1> HIDE DEF D
<1>7. CASE mishap = "altered"
  BY <1>1, <1>2, <1>6, <1>7 DEF MatchInv
<1>8. ASSUME mishap # "altered"
      PROVE  /\ IF D.rest THEN \E n \in 0..Len(last) : got' = [sent EXCEPT ![Len(sent)] = SubSeq(last, 1, n)]
                          ELSE got' = sent
             /\ mishap = "none" => got' = sent
  <2>1. D = Fits(kind, sent)
    BY <1>2, <1>3, <1>8, Recognised, Zenon DEF D
  <2>2. Laid(kind, sent)
    BY <1>2, FrameLaid
  <2>3. /\ Len(got) = Len(sent) - (IF D.rest THEN 1 ELSE 0)
        /\ D.rest => After(kind, sent, Len(got)) = last /\ last \in Seq(Byte)
    BY <1>1, <2>1, <2>2, Zenon DEF Laid
  <2>4. sent \in Seq(Seq(Byte)) /\ Len(sent) \in Nat
    BY <1>2, MessageType
  <2>5. /\ Len(sent) = Len(got) => got = sent
        /\ \A y \in Seq(Byte) : Len(sent) = Len(got) + 1 => Append(got, y) = [sent EXCEPT ![Len(sent)] = y]
    BY <1>2, <1>3, <1>8, <2>4, TakenMessage
  <2>6. CASE ~D.rest
    <3>1. Len(sent) = Len(got)
      BY <2>3, <2>4, <2>6
    <3> QED BY <1>1, <2>5, <2>6, <3>1
  <2>7. CASE D.rest
    <3>1. Len(sent) = Len(got) + 1
      BY <1>2, <2>3, <2>4, <2>7
    <3>2. last \in Seq(Byte) /\ Matches(bytes, o, last) /\ (mishap = "none" => Len(bytes) - o = Len(last))
      BY <1>3, <1>8, <2>3, <2>7, Zenon
    <3> HIDE DEF last
    <3>3. /\ Len(bytes) - o \in 0..Len(last)
          /\ SubSeq(bytes, o + 1, Len(bytes)) = SubSeq(last, 1, Len(bytes) - o)
          /\ Len(bytes) - o = Len(last) => SubSeq(bytes, o + 1, Len(bytes)) = last
      BY <1>2, <3>2, TakenAll
    <3>4. SubSeq(last, 1, Len(bytes) - o) \in Seq(Byte)
      BY <3>2, <3>3
    <3>5. got' = [sent EXCEPT ![Len(sent)] = SubSeq(last, 1, Len(bytes) - o)]
      BY <1>1, <2>5, <2>7, <3>1, <3>3, <3>4, Zenon
    <3>6. mishap = "none" => got' = [sent EXCEPT ![Len(sent)] = last]
      BY <3>2, <3>3, <3>5, Zenon
    <3>7. [sent EXCEPT ![Len(sent)] = last] = sent
      BY <2>4, SameMessage DEF last
    <3> QED BY <2>7, <3>3, <3>5, <3>6, <3>7, Zenon
  <2> QED BY <2>6, <2>7
<1> HIDE DEF last
<1>9. CASE mishap # "altered"
  <2>1. CutIsNoticed' /\ (mishap = "none" => got' = sent)
    BY <1>6, <1>8, <1>9, Zenon
  <2> QED BY <1>1, <1>2, <1>3, <1>4, <1>9, <2>1, Zenon DEF MatchInv
<1> QED BY <1>7, <1>9

\* Both ends agree on every frame, of every field that fits: what the encoders of
\* the tunnel, the mirror and the SOCKS5 UDP header build, the decoders accept
\* with the fields it was built from, a frame that was cut is rejected or taken
\* for what it is, and no decoder looks past the end of a frame that was cut or
\* altered.
THEOREM FramesCorrect == FInit /\ [][FNext]_fvars => []FramesSound
<1>1. CursorInv /\ MatchInv /\ [FNext]_fvars => (CursorInv /\ MatchInv)'
  <2> SUFFICES ASSUME CursorInv, MatchInv, [FNext]_fvars PROVE MatchInv'
    BY CursorStep
  <2>1. CASE UNCHANGED fvars
    BY <2>1, Zenon DEF fvars, MatchInv, CutIsNoticed, TheDecoder
  <2>2. CASE Cut \/ Alter
    BY <2>2, CutMatches
  <2>3. CASE Begin
    BY <2>3, BeginMatches
  <2>4. CASE ReadField
    BY <2>4, ReadMatches
  <2>5. CASE Finish
    BY <2>5, FinishMatches
  <2> QED BY <2>1, <2>2, <2>3, <2>4, <2>5 DEF FNext
<1>2. CursorInv /\ MatchInv => FramesSound
  BY DEF CursorInv, MatchInv, FramesSound, NeverPastTheEnd, RoundTrip
<1> QED BY FramesInit, <1>1, <1>2, PTL

=============================================================================
