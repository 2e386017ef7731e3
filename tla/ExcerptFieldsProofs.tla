------------------------ MODULE ExcerptFieldsProofs ------------------------
(***************************************************************************)
(* Proofs about ExcerptFields, for any base, any number of groups and any  *)
(* fields: what an appender writes has the stop-bit format, and a tailer   *)
(* reads it back without leaving the excerpt.                              *)
(***************************************************************************)
EXTENDS ExcerptFields, NumberLemmas, SequenceTheorems, TLAPS

-----------------------------------------------------------------------------
(* Powers of the base, and the digits of a number.                         *)

LEMMA Powers ==
    /\ Base \in Nat \ {0} /\ Base > 1
    /\ Groups \in Nat /\ Groups > 1
    /\ Pow[0] = 1 /\ Pow[1] = Base /\ Pow[2] = Base * Base
    /\ \A k \in 0..Groups : Pow[k] \in Nat \ {0} /\ Pow[k] > 0
    /\ \A k \in 0..(Groups - 1) : Pow[k + 1] = Base * Pow[k]
<1>1. /\ Base \in Nat /\ Base > 1 /\ Groups \in Nat /\ Groups > 1 /\ Pow \in [0..Groups -> Nat]
      /\ Pow[0] = 1 /\ \A k \in 0..(Groups - 1) : Pow[k + 1] = Base * Pow[k]
  BY FieldsAssumption
<1>2. \A k \in 0..Groups : Pow[k] > 0
  <2> DEFINE zero == {k \in 0..Groups : ~ Pow[k] > 0}
  <2> SUFFICES ASSUME zero # {}
               PROVE  FALSE
    BY <1>1
  <2>1. zero \in SUBSET Nat
    BY <1>1
  <2>2. PICK k \in zero : \A j \in zero : k <= j
    <3> HIDE DEF zero
    <3> QED
      BY <2>1, LeastNat
  <2>3. k \in 1..Groups /\ k - 1 \notin zero
    <3>1. k \in 0..Groups /\ k # 0
      BY <2>2, <1>1
    <3>2. k \in 1..Groups /\ ~ k <= k - 1
      BY <3>1, <1>1
    <3> HIDE DEF zero
    <3> QED
      BY <3>2, <2>2
  <2>4. PICK j \in 0..(Groups - 1) : j = k - 1 /\ j + 1 = k
    BY <2>3, <1>1
  <2>5. PICK p \in Nat : p = Pow[j] /\ p > 0 /\ Pow[k] = Base * p
    BY <2>3, <2>4, <1>1
  <2>6. 1 * p <= Base * p
    BY <2>5, <1>1, ProductGrows
  <2> QED
    BY <2>5, <2>6, <1>1
<1>3. Pow[1] = Base /\ Pow[2] = Base * Base
  <2>1. 0 \in 0..(Groups - 1) /\ 1 \in 0..(Groups - 1) /\ 0 + 1 = 1 /\ 1 + 1 = 2
    BY <1>1
  <2>2. Pow[1] = Base * 1
    BY <2>1, <1>1
  <2> QED
    BY <2>1, <2>2, <1>1
<1> QED
  BY <1>1, <1>2, <1>3

LEMMA PowGrows ==
    ASSUME NEW j \in 0..Groups, NEW k \in 0..Groups, j <= k
    PROVE  Pow[j] <= Pow[k]
<1> DEFINE less == {i \in 0..Groups : j <= i /\ ~ Pow[j] <= Pow[i]}
<1> SUFFICES ASSUME less # {}
             PROVE  FALSE
  OBVIOUS
<1>1. less \in SUBSET Nat
  BY Powers
<1>2. PICK i \in less : \A x \in less : i <= x
  <2> HIDE DEF less
  <2> QED
    BY <1>1, LeastNat
<1>3. i # j /\ i \in 1..Groups /\ j <= i - 1 /\ i - 1 \notin less
  BY <1>2, Powers
<1>4. PICK h \in 0..(Groups - 1) : h = i - 1 /\ h + 1 = i
  BY <1>3, Powers
<1>5. PICK p \in Nat : p = Pow[h] /\ Pow[i] = Base * p /\ Pow[j] <= p
  BY <1>3, <1>4, Powers
<1>6. 1 * p <= Base * p
  BY <1>5, Powers, ProductGrows
<1> QED
  BY <1>2, <1>5, <1>6, Powers

(* A number below a power has that many digits.                            *)
LEMMA PowLess ==
    ASSUME NEW j \in 0..Groups, NEW k \in 0..Groups, NEW m \in Nat, Pow[j] <= m, m < Pow[k]
    PROVE  j < k
<1> SUFFICES ASSUME k <= j
             PROVE  FALSE
  BY Powers
<1>1. Pow[k] <= Pow[j]
  BY PowGrows
<1> QED
  BY <1>1, Powers

(* One more digit of a number: what is left of it, and what is behind.     *)
LEMMA DigitStep ==
    ASSUME NEW m \in Nat, NEW k \in 0..(Groups - 1)
    PROVE  /\ m \div Pow[k] \in Nat /\ m \div Pow[k + 1] \in Nat
           /\ m % Pow[k] \in Nat /\ m % Pow[k + 1] \in Nat
           /\ Digit(m, k) = (m \div Pow[k]) % Base /\ Digit(m, k) \in 0..(Base - 1)
           /\ m \div Pow[k + 1] = (m \div Pow[k]) \div Base
           /\ m % Pow[k + 1] = (m % Pow[k]) + Digit(m, k) * Pow[k]
<1>1. PICK p \in Nat \ {0}, b \in Nat \ {0} :
        p = Pow[k] /\ b = Base /\ Pow[k + 1] = b * p /\ b * p \in Nat \ {0}
  <2>1. k \in 0..Groups /\ k + 1 \in 0..Groups
    BY Powers
  <2> QED
    BY <2>1, Powers
<1>2. PICK q \in Nat, r \in 0..(p - 1) : q = m \div p /\ r = m % p /\ m = q * p + r
  BY DivMod, QuotientNat
<1>3. PICK u \in Nat, d \in 0..(b - 1) : u = q \div b /\ d = q % b /\ q = u * b + d
  BY DivMod, QuotientNat
<1>4. m = u * (b * p) + (d * p + r)
  <2>1. (u * b + d) * p = (u * b) * p + d * p /\ (u * b) * p = u * (b * p)
    BY Z3
  <2>2. u * (b * p) \in Int /\ d * p \in Int
    BY <1>1
  <2>3. m = (u * b + d) * p + r
    BY <1>2, <1>3
  <2> QED
    BY <2>1, <2>2, <2>3, <1>2
<1>5. d * p + r \in 0..(b * p - 1)
  <2>1. (d + 1) * p <= b * p
    BY ProductGrows
  <2>2. (d + 1) * p = d * p + p /\ d * p \in Nat
    BY Z3
  <2> QED
    BY <2>1, <2>2, <1>1
<1>6. m \div (b * p) = u /\ m % (b * p) = d * p + r
  <2> DEFINE s == d * p + r
             bp == b * p
  <2>1. bp \in Nat \ {0} /\ s \in 0..(bp - 1) /\ m = u * bp + s
    BY <1>1, <1>4, <1>5
  <2> HIDE DEF s, bp
  <2>2. (u * bp + s) \div bp = u /\ (u * bp + s) % bp = s
    BY <2>1, DivUnique
  <2>3. m \div bp = u /\ m % bp = s
    BY <2>1, <2>2
  <2> QED
    BY <2>3 DEF s, bp
<1>7. Digit(m, k) = d
  BY <1>1, <1>2, <1>3 DEF Digit
<1>8. d * p + r = r + d * p /\ d * p + r \in Nat
  <2>1. d * p \in Nat
    BY Z3
  <2> QED
    BY <2>1
<1>9. m \div Pow[k + 1] = u /\ m % Pow[k + 1] = r + d * p
  BY <1>1, <1>6, <1>8
<1>10. m \div Pow[k] = q /\ m % Pow[k] = r /\ q \div Base = u /\ q % Base = d
  BY <1>1, <1>2, <1>3
<1>11. d * Pow[k] = d * p /\ d \in 0..(Base - 1) /\ r \in Nat /\ r + d * p \in Nat
  BY <1>1, <1>8
<1> QED
  BY <1>7, <1>9, <1>10, <1>11

(* A number that has n digits is its last digit and the rest.              *)
LEMMA LastDigit ==
    ASSUME NEW m \in Nat, NEW n \in 0..(Groups - 1), m < Pow[n + 1]
    PROVE  /\ Digit(m, n) = m \div Pow[n] /\ m % Pow[n + 1] = m
           /\ Pow[n] <= m => Digit(m, n) # 0
<1>1. PICK p \in Nat \ {0}, b \in Nat \ {0} :
        p = Pow[n] /\ b = Base /\ Pow[n + 1] = b * p /\ b * p \in Nat \ {0}
  <2>1. n \in 0..Groups /\ n + 1 \in 0..Groups
    BY Powers
  <2> QED
    BY <2>1, Powers
<1>2. PICK q \in Nat, r \in 0..(p - 1) : q = m \div p /\ r = m % p /\ m = q * p + r
  BY DivMod, QuotientNat
<1>3. q < b
  <2> SUFFICES ASSUME b <= q
               PROVE  FALSE
    OBVIOUS
  <2>1. b * p <= q * p /\ q * p \in Nat
    BY ProductGrows, Z3
  <2> QED
    BY <2>1, <1>1, <1>2
<1>4. q % b = q
  <2>1. (0 * b + q) % b = q
    BY <1>3, DivUnique
  <2> QED
    BY <2>1
<1>5. m % (b * p) = m
  <2> DEFINE bp == b * p
  <2>1. bp \in Nat \ {0} /\ m \in 0..(bp - 1)
    BY <1>1
  <2> HIDE DEF bp
  <2>2. (0 * bp + m) % bp = m
    BY <2>1, DivUnique
  <2> QED
    BY <2>1, <2>2 DEF bp
<1>6. p <= m => q # 0
  <2> SUFFICES ASSUME q = 0, p <= m
               PROVE  FALSE
    OBVIOUS
  <2>1. m = r
    BY <1>2
  <2> QED
    BY <2>1, <1>2
<1> QED
  BY <1>1, <1>2, <1>4, <1>5, <1>6 DEF Digit

-----------------------------------------------------------------------------
(* What holds between the steps.                                           *)

\* A field, and the number that stop_bit::write gets of it.
Field == [kind : {"raw"}, value : Values] \cup [kind : {"boolean"}, value : BOOLEAN]
         \cup [kind : {"stop_bit"}, value : Numbers] \cup [kind : {"chars"}, value : Strings]
HasNumber(field)   == field.kind \in {"stop_bit", "chars"}
NumberIn(field)    == IF field.kind = "chars" THEN Len(field.value) ELSE field.value
CharsIn(field)     == IF field.kind = "chars" THEN Len(field.value) ELSE 0

\* Within the loop of stop_bit::write: the digits so far, and what is left.
InLoop(bytes, v, from, r, negative) ==
    LET m == Magnitude(v)
        n == Len(bytes) - from
    IN  /\ n \in 0..(Groups - 1) /\ r = m \div Pow[n] /\ (n > 0 => Pow[n] <= m)
        /\ negative = (v < 0)
        /\ \A i \in 0..(n - 1) : bytes[from + i + 1] = Digit(m, i) + Base

\* Within the loop of stop_bit::read: k bytes of a number have been read.
Half(v, from, to, k) == k \in 1..(GroupsOf(v, from, to) - (IF v < 0 THEN 0 ELSE 1))

InNumber == pc \in {"group", "payload"}

WriterInv ==
    /\ fields \in Seq(Field)
    /\ Len(fields) = Len(ends) + (IF InNumber THEN 1 ELSE 0)
    /\ \A k \in 1..Len(ends) : /\ Start(k) <= ends[k] /\ ends[k] <= Len(buffer)
                               /\ Written(buffer, fields[k], Start(k), ends[k])
    /\ Start(Len(ends) + 1) <= Len(buffer)
    /\ ~ InNumber => Start(Len(ends) + 1) = Len(buffer)
    /\ InNumber => HasNumber(fields[Len(fields)])
    /\ pc = "group" =>
         InLoop(buffer, NumberIn(fields[Len(fields)]), Start(Len(fields)), rest, neg)
    /\ pc = "payload" =>
         Encoded(buffer, NumberIn(fields[Len(fields)]), Start(Len(fields)), Len(buffer))

\* Where the characters of the field to be read begin.
Body == ends[current] - CharsIn(fields[current])

ReaderInv ==
    /\ pc # "thrown"
    /\ pc \in {"open", "group", "payload", "finished"} =>
         position = 0 /\ limit = 0 /\ current = 1 /\ result = NoResult
    /\ pc = "finished" => length = Complement(Len(buffer))
    /\ pc \in {"ready", "first", "more", "take"} => limit = Len(buffer)
    /\ pc \in {"first", "more", "take"} => current <= Len(fields) /\ HasNumber(fields[current])
    /\ pc \in {"ready", "first"} => position = Start(current)
    /\ pc = "more" =>
         /\ Half(NumberIn(fields[current]), Start(current), Body, count)
         /\ position = Start(current) + count
         /\ low = Magnitude(NumberIn(fields[current])) % Pow[count]
    /\ pc = "take" => number = NumberIn(fields[current]) /\ position = Body
    /\ result # NoResult => current > 1 /\ result = <<fields[current - 1].value>>

FieldsInv == FieldsTypeOK /\ WriterInv /\ ReaderInv

-----------------------------------------------------------------------------
(* stop_bit::write: the groups that have been written.                     *)

Numeric == (-Pow[Groups])..(Pow[Groups] - 1)

LEMMA MagnitudeRange ==
    ASSUME NEW v \in Numeric
    PROVE  /\ v \in Int /\ Pow[Groups] \in Nat
           /\ Magnitude(v) \in 0..(Pow[Groups] - 1) /\ Magnitude(v) \in Nat
           /\ v < 0 => Complement(Magnitude(v)) = v
           /\ ~ v < 0 => Magnitude(v) = v
<1>1. PICK p \in Nat : p = Pow[Groups] /\ v \in (-p)..(p - 1)
  BY Powers DEF Numeric
<1> QED
  BY <1>1 DEF Magnitude, Complement

LEMMA NumberRange ==
    ASSUME NEW field \in Field, HasNumber(field)
    PROVE  /\ NumberIn(field) \in Numeric /\ CharsIn(field) \in Nat
           /\ field.kind = "chars" => CharsIn(field) = NumberIn(field)
           /\ field.kind # "chars" => CharsIn(field) = 0
<1>1. CASE field.kind = "chars"
  <2>1. field.value \in Strings
    BY <1>1 DEF Field
  <2>2. field.value \in Seq(Byte) /\ Len(field.value) < Pow[Groups]
    BY <2>1, FieldsAssumption
  <2>3. Len(field.value) \in Nat
    BY <2>2, LenProperties
  <2>4. Len(field.value) \in Numeric
    BY <2>2, <2>3, Powers DEF Numeric
  <2> QED
    BY <1>1, <2>3, <2>4 DEF NumberIn, CharsIn
<1>2. CASE field.kind # "chars"
  <2>1. field.kind = "stop_bit"
    BY <1>2 DEF HasNumber
  <2>2. field.value \in Numbers
    BY <2>1 DEF Field
  <2>3. field.value \in Numeric
    BY <2>2, FieldsAssumption DEF Numeric
  <2> QED
    BY <1>2, <2>3 DEF NumberIn, CharsIn
<1> QED
  BY <1>1, <1>2

\* Bytes behind a sequence: those in front of them stay.
LEMMA AppendByte ==
    ASSUME NEW bytes \in Seq(Byte), NEW x \in Byte
    PROVE  /\ Append(bytes, x) \in Seq(Byte) /\ bytes \o <<x>> \in Seq(Byte)
           /\ Len(bytes) \in Nat
           /\ Len(Append(bytes, x)) = Len(bytes) + 1 /\ Len(bytes \o <<x>>) = Len(bytes) + 1
           /\ Append(bytes, x)[Len(bytes) + 1] = x /\ (bytes \o <<x>>)[Len(bytes) + 1] = x
           /\ \A k \in 1..Len(bytes) : Append(bytes, x)[k] = bytes[k] /\ (bytes \o <<x>>)[k] = bytes[k]
<1>1. Append(bytes, x) = bytes \o <<x>>
  BY AppendIsConcat
<1>2. /\ Append(bytes, x) \in Seq(Byte) /\ Len(Append(bytes, x)) = Len(bytes) + 1
      /\ Append(bytes, x)[Len(bytes) + 1] = x
      /\ \A k \in 1..Len(bytes) : Append(bytes, x)[k] = bytes[k]
  BY AppendProperties
<1> QED
  BY <1>1, <1>2, LenProperties

LEMMA AppendTwo ==
    ASSUME NEW bytes \in Seq(Byte), NEW x \in Byte, NEW y \in Byte
    PROVE  /\ bytes \o <<x, y>> \in Seq(Byte) /\ Len(bytes) \in Nat
           /\ Len(bytes \o <<x, y>>) = Len(bytes) + 2
           /\ (bytes \o <<x, y>>)[Len(bytes) + 1] = x /\ (bytes \o <<x, y>>)[Len(bytes) + 2] = y
           /\ \A k \in 1..Len(bytes) : (bytes \o <<x, y>>)[k] = bytes[k]
<1>1. PICK two \in Seq(Byte) : two = <<x, y>> /\ Len(two) = 2 /\ two[1] = x /\ two[2] = y
  <2>1. <<x, y>> \in Seq(Byte)
    OBVIOUS
  <2>2. Len(<<x, y>>) = 2 /\ <<x, y>>[1] = x /\ <<x, y>>[2] = y
    OBVIOUS
  <2> QED
    BY <2>1, <2>2
<1>2. /\ bytes \o two \in Seq(Byte) /\ Len(bytes \o two) = Len(bytes) + Len(two)
      /\ \A i \in 1..Len(bytes) + Len(two) : (bytes \o two)[i] =
           IF i <= Len(bytes) THEN bytes[i] ELSE two[i - Len(bytes)]
  BY ConcatProperties
<1>3. PICK n \in Nat : n = Len(bytes)
  BY LenProperties
<1>4. (bytes \o two)[n + 1] = two[n + 1 - n] /\ (bytes \o two)[n + 2] = two[n + 2 - n]
  BY <1>1, <1>2, <1>3
<1>5. n + 1 - n = 1 /\ n + 2 - n = 2
  OBVIOUS
<1> QED
  BY <1>1, <1>2, <1>3, <1>4, <1>5

LEMMA EncodesOne ==
    ASSUME NEW bytes \in Seq(Byte), NEW v \in 0..(Base - 1)
    PROVE  Encoded(bytes \o <<v>>, v, Len(bytes), Len(bytes \o <<v>>))
<1>1. v \in Byte /\ v \in Nat /\ v < Base /\ ~ v < 0
  BY Powers DEF Byte
<1>2. PICK n \in Nat, b \in Seq(Byte) :
        n = Len(bytes) /\ b = bytes \o <<v>> /\ Len(b) = n + 1 /\ b[n + 1] = v
  BY <1>1, AppendByte
<1>3. GroupsOf(v, n, n + 1) = 1 /\ Magnitude(v) = v
  BY <1>1, <1>2 DEF GroupsOf, Magnitude
<1>4. Digit(v, 0) = v
  <2>1. 0 \in 0..(Groups - 1) /\ 0 + 1 = 1 /\ v < Pow[1]
    BY <1>1, Powers
  <2>2. v % Pow[1] = v /\ v % Pow[0] = 0
    <3>1. v % Pow[0 + 1] = v
      BY <2>1, <1>1, LastDigit
    <3>2. (v * 1 + 0) % 1 = 0 /\ v * 1 + 0 = v
      BY <1>1, DivUnique
    <3> QED
      BY <3>1, <3>2, <2>1, Powers
  <2>3. v % Pow[1] = (v % Pow[0]) + Digit(v, 0) * Pow[0] /\ Digit(v, 0) \in 0..(Base - 1)
    BY <2>1, <1>1, DigitStep
  <2>4. Digit(v, 0) * Pow[0] = Digit(v, 0)
    BY <2>3, Powers
  <2> QED
    BY <2>2, <2>3, <2>4, Powers
<1>5. Encoded(b, v, n, n + 1)
  BY <1>1, <1>2, <1>3, <1>4, Powers DEF Encoded
<1> QED
  BY <1>2, <1>5

LEMMA EncodesTwo ==
    ASSUME NEW bytes \in Seq(Byte), NEW v \in Base..(Base * Base - 1),
           NEW two, two = <<Base + (v % Base), v \div Base>>
    PROVE  /\ bytes \o two \in Seq(Byte) /\ Len(bytes) <= Len(bytes \o two)
           /\ \A k \in 1..Len(bytes) : (bytes \o two)[k] = bytes[k]
           /\ Encoded(bytes \o two, v, Len(bytes), Len(bytes \o two))
<1>1. Base * Base \in Nat /\ v \in Nat /\ Base <= v /\ v < Base * Base /\ ~ v < 0
  BY Powers
<1>2. /\ 0 \in 0..(Groups - 1) /\ 1 \in 0..(Groups - 1) /\ 0 + 1 = 1 /\ 1 + 1 = 2
      /\ 2 \in 1..Groups
  BY Powers
<1>3. v \div Pow[0] = v
  <2>1. (v * 1) \div 1 = v /\ v * 1 = v
    BY <1>1, QuotientOfProduct
  <2> QED
    BY <2>1, Powers
<1>4. PICK x \in 0..(Base - 1), y \in 0..(Base - 1) :
        x = v % Base /\ y = v \div Base /\ Digit(v, 0) = x /\ Digit(v, 1) = y
  <2>1. Digit(v, 0) = v % Base /\ Digit(v, 0) \in 0..(Base - 1)
    BY <1>1, <1>2, <1>3, DigitStep
  <2>2. Digit(v, 1) = v \div Base /\ Digit(v, 1) \in 0..(Base - 1)
    BY <1>1, <1>2, Powers, LastDigit, DigitStep
  <2> QED
    BY <2>1, <2>2
<1>5. Base + x \in Byte /\ y \in Byte
  BY Powers DEF Byte
<1>6. PICK n \in Nat, b \in Seq(Byte) : /\ n = Len(bytes) /\ b = bytes \o two /\ Len(b) = n + 2
                                        /\ b[n + 1] = Base + x /\ b[n + 2] = y
                                        /\ \A k \in 1..n : b[k] = bytes[k]
  <2>1. two = <<Base + x, y>>
    BY <1>4
  <2>2. PICK z \in Byte : z = Base + x
    BY <1>5
  <2>3. /\ bytes \o <<z, y>> \in Seq(Byte) /\ Len(bytes) \in Nat
        /\ Len(bytes \o <<z, y>>) = Len(bytes) + 2
        /\ (bytes \o <<z, y>>)[Len(bytes) + 1] = z /\ (bytes \o <<z, y>>)[Len(bytes) + 2] = y
        /\ \A k \in 1..Len(bytes) : (bytes \o <<z, y>>)[k] = bytes[k]
    BY <1>5, AppendTwo
  <2>4. two = <<z, y>>
    BY <2>1, <2>2
  <2> QED
    BY <2>2, <2>3, <2>4
<1>7. GroupsOf(v, n, n + 2) = 2 /\ Magnitude(v) = v
  BY <1>1, <1>6 DEF GroupsOf, Magnitude
<1>8. \A i \in 0..(2 - 1) : b[n + i + 1] = Digit(v, i) + (IF i < 2 - 1 \/ v < 0 THEN Base ELSE 0)
  <2>1. b[n + 0 + 1] = Digit(v, 0) + Base /\ b[n + 1 + 1] = Digit(v, 1) + 0
    BY <1>4, <1>6, Powers
  <2>2. \A i \in 0..(2 - 1) : i = 0 \/ i = 1
    OBVIOUS
  <2> QED
    BY <2>1, <2>2, <1>1
<1>9. Encoded(b, v, n, n + 2)
  <2>1. v < Pow[2] /\ Pow[2 - 1] <= v
    <3>1. 2 - 1 = 1
      OBVIOUS
    <3> QED
      BY <3>1, <1>1, Powers
  <2> QED
    BY <2>1, <1>1, <1>2, <1>7, <1>8 DEF Encoded
<1>10. Len(bytes) <= Len(bytes \o two)
  BY <1>6
<1> QED
  BY <1>6, <1>9, <1>10

LEMMA LoopFacts ==
    ASSUME NEW bytes \in Seq(Byte), NEW v \in Numeric, NEW from \in Nat,
           NEW r, NEW negative, InLoop(bytes, v, from, r, negative)
    PROVE  \E m \in Nat, n \in 0..(Groups - 1) :
             /\ m = Magnitude(v) /\ m < Pow[Groups] /\ n = Len(bytes) - from /\ r = m \div Pow[n]
             /\ negative = (v < 0) /\ (n > 0 => Pow[n] <= m)
             /\ \A i \in 0..(n - 1) : bytes[from + i + 1] = Digit(m, i) + Base
<1>1. PICK m \in Nat : m = Magnitude(v) /\ m < Pow[Groups]
  BY MagnitudeRange
<1>2. PICK n \in 0..(Groups - 1) : n = Len(bytes) - from
  BY DEF InLoop
<1> QED
  BY <1>1, <1>2 DEF InLoop

(* A turn of the loop writes one more digit.                               *)
LEMMA LoopTurn ==
    ASSUME NEW bytes \in Seq(Byte), NEW v \in Numeric, NEW from \in Nat,
           NEW r \in Nat, NEW negative, InLoop(bytes, v, from, r, negative), r >= Base
    PROVE  /\ Base + (r % Base) \in Byte
           /\ InLoop(Append(bytes, Base + (r % Base)), v, from, r \div Base, negative)
<1>1. PICK m \in Nat, n \in 0..(Groups - 1) :
        /\ m = Magnitude(v) /\ m < Pow[Groups] /\ n = Len(bytes) - from /\ r = m \div Pow[n]
        /\ negative = (v < 0)
        /\ \A i \in 0..(n - 1) : bytes[from + i + 1] = Digit(m, i) + Base
  BY LoopFacts
<1>2. n \in 0..Groups /\ n + 1 \in 0..Groups /\ n \in Nat
  BY Powers
<1>3. PICK d \in 0..(Base - 1) : d = r % Base /\ d = Digit(m, n)
  BY <1>1, DigitStep
<1>4. Base + d \in Byte
  BY Powers DEF Byte
<1>5. r \div Base = m \div Pow[n + 1]
  BY <1>1, DigitStep
<1>6. Pow[n + 1] <= m
  <2>1. PICK p \in Nat \ {0} : p = Pow[n] /\ Pow[n + 1] = Base * p
    BY <1>2, Powers
  <2>2. m = r * p + (m % p) /\ m % p \in 0..(p - 1)
    BY <1>1, <2>1, DivMod
  <2>3. Base * p <= r * p /\ r * p \in Nat /\ Base * p \in Nat
    <3>1. Base <= r /\ Base \in Int
      BY Powers
    <3> QED
      BY <3>1, ProductGrows, Powers
  <2>4. PICK x \in Nat, y \in Nat, s \in Nat :
          x = r * p /\ y = Base * p /\ s = m % p /\ m = x + s /\ y <= x
    BY <2>2, <2>3
  <2>5. y <= m
    BY <2>4
  <2> QED
    BY <2>1, <2>4, <2>5
<1>7. n + 1 \in 0..(Groups - 1)
  <2>1. Groups \in 0..Groups
    BY Powers
  <2>2. n + 1 < Groups
    BY <1>1, <1>2, <1>6, <2>1, PowLess
  <2> QED
    BY <2>2, <1>2, Powers
<1>8. PICK b \in Seq(Byte) :
        /\ b = Append(bytes, Base + d) /\ Len(b) = Len(bytes) + 1 /\ Len(bytes) \in Nat
        /\ b[Len(bytes) + 1] = Base + d
        /\ \A k \in 1..Len(bytes) : b[k] = bytes[k]
  BY <1>4, AppendByte
<1>9. Len(b) - from = n + 1 /\ Len(bytes) = from + n
  BY <1>1, <1>8
<1>10. \A i \in 0..((n + 1) - 1) : b[from + i + 1] = Digit(m, i) + Base
  <2> SUFFICES ASSUME NEW i \in 0..((n + 1) - 1)
               PROVE  b[from + i + 1] = Digit(m, i) + Base
    OBVIOUS
  <2>1. CASE i = n
    <3>1. Base + d = Digit(m, i) + Base
      BY <2>1, <1>3, Powers
    <3> QED
      BY <2>1, <3>1, <1>8, <1>9
  <2>2. CASE i # n
    <3>1. i \in 0..(n - 1) /\ from + i + 1 \in 1..Len(bytes)
      BY <2>2, <1>2, <1>8, <1>9
    <3> QED
      BY <3>1, <1>1, <1>8
  <2> QED
    BY <2>1, <2>2
<1>11. InLoop(b, v, from, r \div Base, negative)
  BY <1>1, <1>5, <1>6, <1>7, <1>9, <1>10 DEF InLoop
<1> QED
  BY <1>3, <1>4, <1>8, <1>11

(* What is behind the loop writes the last digit, and the sign.            *)
LEMMA LoopEnds ==
    ASSUME NEW bytes \in Seq(Byte), NEW v \in Numeric, NEW from \in Nat,
           NEW r \in Nat, NEW negative \in BOOLEAN, InLoop(bytes, v, from, r, negative), r < Base,
           NEW final, final = FinalBytes(r, negative)
    PROVE  /\ bytes \o final \in Seq(Byte) /\ Len(bytes) <= Len(bytes \o final)
           /\ \A k \in 1..Len(bytes) : (bytes \o final)[k] = bytes[k]
           /\ Encoded(bytes \o final, v, from, Len(bytes \o final))
<1>1. PICK m \in Nat, n \in 0..(Groups - 1) :
        /\ m = Magnitude(v) /\ m < Pow[Groups] /\ n = Len(bytes) - from /\ r = m \div Pow[n]
        /\ negative = (v < 0) /\ (n > 0 => Pow[n] <= m)
        /\ \A i \in 0..(n - 1) : bytes[from + i + 1] = Digit(m, i) + Base
  BY LoopFacts
<1>2. n \in 0..Groups /\ n + 1 \in 1..Groups /\ n \in Nat /\ (n + 1) - 1 = n /\ Len(bytes) \in Nat
  BY Powers, LenProperties
<1>3. m < Pow[n + 1]
  <2>1. PICK p \in Nat \ {0} : p = Pow[n] /\ Pow[n + 1] = Base * p
    BY <1>2, Powers
  <2>2. PICK s \in 0..(p - 1) : m = r * p + s
    BY <1>1, <2>1, DivMod
  <2>3. (r + 1) * p <= Base * p
    <3>1. r + 1 <= Base /\ Base \in Int
      BY Powers
    <3> QED
      BY <3>1, ProductGrows
  <2>4. (r + 1) * p = r * p + p /\ r * p \in Nat /\ Base * p \in Nat
    BY Powers, Z3
  <2>5. m < Base * p
    BY <2>2, <2>3, <2>4
  <2> QED
    BY <2>1, <2>5
<1>4. Digit(m, n) = r
  BY <1>1, <1>3, LastDigit
<1>5. r \in Byte /\ Base + r \in Byte /\ 0 \in Byte
  BY Powers DEF Byte
<1>6. CASE ~ negative
  <2>1. final = <<r>> /\ ~ v < 0
    BY <1>1, <1>6 DEF FinalBytes
  <2>2. PICK b \in Seq(Byte) :
          /\ b = bytes \o final /\ Len(b) = Len(bytes) + 1 /\ b[Len(bytes) + 1] = r
          /\ \A k \in 1..Len(bytes) : b[k] = bytes[k]
    BY <2>1, <1>5, AppendByte
  <2>3. GroupsOf(v, from, Len(b)) = n + 1 /\ Len(bytes) = from + n
    BY <2>1, <2>2, <1>1, <1>2 DEF GroupsOf
  <2>4. ASSUME NEW i \in 0..((n + 1) - 1)
        PROVE  b[from + i + 1] = Digit(m, i) + (IF i < (n + 1) - 1 \/ v < 0 THEN Base ELSE 0)
    <3>1. CASE i = n
      BY <3>1, <2>1, <2>2, <2>3, <1>2, <1>4
    <3>2. CASE i # n
      <4>1. i \in 0..(n - 1) /\ from + i + 1 \in 1..Len(bytes)
        BY <3>2, <1>2, <2>3
      <4> QED
        BY <4>1, <2>2, <1>1, <1>2
    <3> QED
      BY <3>1, <3>2
  <2>5. Encoded(b, v, from, Len(b))
    BY <2>1, <2>3, <2>4, <1>1, <1>2, <1>3 DEF Encoded
  <2> QED
    BY <2>2, <2>5, <1>2
<1>7. CASE negative
  <2>1. final = <<Base + r, 0>> /\ v < 0
    BY <1>1, <1>7 DEF FinalBytes
  <2>2. PICK b \in Seq(Byte) :
          /\ b = bytes \o final /\ Len(b) = Len(bytes) + 2
          /\ b[Len(bytes) + 1] = Base + r /\ b[Len(bytes) + 2] = 0
          /\ \A k \in 1..Len(bytes) : b[k] = bytes[k]
    <3>1. PICK x \in Byte, y \in Byte : x = Base + r /\ y = 0 /\ final = <<x, y>>
      BY <2>1, <1>5
    <3>2. /\ bytes \o <<x, y>> \in Seq(Byte)
          /\ Len(bytes \o <<x, y>>) = Len(bytes) + 2
          /\ (bytes \o <<x, y>>)[Len(bytes) + 1] = x /\ (bytes \o <<x, y>>)[Len(bytes) + 2] = y
          /\ \A k \in 1..Len(bytes) : (bytes \o <<x, y>>)[k] = bytes[k]
      BY AppendTwo
    <3> QED
      BY <3>1, <3>2
  <2>3. GroupsOf(v, from, Len(b)) = n + 1 /\ Len(bytes) = from + n /\ b[Len(b)] = 0
    BY <2>1, <2>2, <1>1, <1>2 DEF GroupsOf
  <2>4. ASSUME NEW i \in 0..((n + 1) - 1)
        PROVE  b[from + i + 1] = Digit(m, i) + (IF i < (n + 1) - 1 \/ v < 0 THEN Base ELSE 0)
    <3>1. CASE i = n
      <4>1. Base + r = r + Base
        BY Powers
      <4> QED
        BY <4>1, <3>1, <2>1, <2>2, <2>3, <1>2, <1>4
    <3>2. CASE i # n
      <4>1. i \in 0..(n - 1) /\ from + i + 1 \in 1..Len(bytes)
        BY <3>2, <1>2, <2>3
      <4> QED
        BY <4>1, <2>1, <2>2, <1>1
    <3> QED
      BY <3>1, <3>2
  <2>5. Encoded(b, v, from, Len(b))
    BY <2>1, <2>3, <2>4, <1>1, <1>2, <1>3 DEF Encoded
  <2> QED
    BY <2>2, <2>5, <1>2
<1> QED
  BY <1>6, <1>7

-----------------------------------------------------------------------------
(* What is encoded: it stays, and stop_bit::read finds it.                 *)

\* The digits m of a number, and how many bytes n they take.
Parts(bytes, v, from, to, m, n) ==
    /\ m = Magnitude(v) /\ n = GroupsOf(v, from, to)
    /\ to = from + n + (IF v < 0 THEN 1 ELSE 0)
    /\ m < Pow[n] /\ (n > 1 => Pow[n - 1] <= m)
    /\ \A i \in 0..(n - 1) : bytes[from + i + 1] =
         Digit(m, i) + (IF i < n - 1 \/ v < 0 THEN Base ELSE 0)
    /\ v < 0 => bytes[to] = 0

LEMMA EncodedParts ==
    ASSUME NEW bytes, NEW v \in Numeric, NEW from \in Nat, NEW to \in Int,
           Encoded(bytes, v, from, to)
    PROVE  \E m \in Nat, n \in 1..Groups : Parts(bytes, v, from, to, m, n)
<1>1. PICK m \in Nat : m = Magnitude(v)
  BY MagnitudeRange
<1>2. PICK n \in 1..Groups : n = GroupsOf(v, from, to)
  BY DEF Encoded
<1>3. to = from + n + (IF v < 0 THEN 1 ELSE 0)
  BY <1>2, Powers DEF GroupsOf
<1>4. Parts(bytes, v, from, to, m, n)
  BY <1>1, <1>2, <1>3 DEF Encoded, Parts
<1> QED
  BY <1>4

LEMMA EncodedStays ==
    ASSUME NEW bytes, NEW v \in Numeric, NEW from \in Nat, NEW to \in Int,
           Encoded(bytes, v, from, to),
           NEW more, \A k \in 1..to : more[k] = bytes[k]
    PROVE  Encoded(more, v, from, to)
<1>1. PICK m \in Nat, n \in 1..Groups : Parts(bytes, v, from, to, m, n)
  BY EncodedParts
<1>2. /\ m = Magnitude(v) /\ n = GroupsOf(v, from, to)
      /\ to = from + n + (IF v < 0 THEN 1 ELSE 0)
      /\ m < Pow[n] /\ (n > 1 => Pow[n - 1] <= m)
      /\ \A i \in 0..(n - 1) : bytes[from + i + 1] =
           Digit(m, i) + (IF i < n - 1 \/ v < 0 THEN Base ELSE 0)
      /\ v < 0 => bytes[to] = 0
  BY <1>1 DEF Parts
<1>3. n \in Nat /\ to \in 1..to
  BY <1>2, Powers
<1>4. ASSUME NEW i \in 0..(n - 1)
      PROVE  more[from + i + 1] = bytes[from + i + 1]
  BY <1>2, <1>3
<1> QED
  BY <1>2, <1>3, <1>4 DEF Encoded

\* The values of a field.
LEMMA FieldTypes ==
    ASSUME NEW field \in Field
    PROVE  /\ field.kind \in {"raw", "boolean", "stop_bit", "chars"}
           /\ field.kind \in {"raw", "chars"} => field.value \in Seq(Byte) /\ Len(field.value) \in Nat
           /\ field.kind = "boolean" => field.value \in BOOLEAN
           /\ HasNumber(field) <=> field.kind \in {"stop_bit", "chars"}
<1>1. /\ field.kind \in {"raw", "boolean", "stop_bit", "chars"}
      /\ field.kind = "raw" => field.value \in Values
      /\ field.kind = "chars" => field.value \in Strings
      /\ field.kind = "boolean" => field.value \in BOOLEAN
  BY DEF Field
<1>2. Values \subseteq Seq(Byte) /\ Strings \subseteq Seq(Byte)
  BY FieldsAssumption
<1> QED
  BY <1>1, <1>2, LenProperties DEF HasNumber

LEMMA WrittenStays ==
    ASSUME NEW bytes, NEW field \in Field, NEW from \in Nat, NEW to \in Nat,
           Written(bytes, field, from, to),
           NEW more, \A k \in 1..to : more[k] = bytes[k]
    PROVE  Written(more, field, from, to)
<1>1. CASE field.kind = "stop_bit"
  <2>1. field.value \in Numeric
    BY <1>1, NumberRange DEF HasNumber, NumberIn
  <2> QED
    BY <1>1, <2>1, EncodedStays DEF Written
<1>2. CASE field.kind = "chars"
  <2>1. PICK n \in Nat, body \in Int : n = Len(field.value) /\ body = to - n /\ n \in Numeric
    BY <1>2, FieldTypes, NumberRange DEF HasNumber, NumberIn
  <2>2. Encoded(bytes, n, from, body) /\ \A i \in 1..n : bytes[body + i] = field.value[i]
    BY <1>2, <2>1 DEF Written
  <2>3. (\A k \in 1..body : more[k] = bytes[k]) /\ body \in Nat
    <3>1. body > 0
      <4>1. PICK m \in Nat, g \in 1..Groups : Parts(bytes, n, from, body, m, g)
        BY <2>1, <2>2, EncodedParts
      <4>2. body = from + g + (IF n < 0 THEN 1 ELSE 0)
        BY <4>1 DEF Parts
      <4> QED
        BY <4>2, <2>1, Powers
    <3> QED
      BY <2>1, <3>1
  <2>4. Encoded(more, n, from, body)
    BY <2>1, <2>2, <2>3, EncodedStays
  <2>5. \A i \in 1..n : more[body + i] = field.value[i]
    <3>1. \A i \in 1..n : body + i \in 1..to
      BY <2>1, <2>3
    <3> QED
      BY <2>2, <3>1
  <2> QED
    BY <1>2, <2>1, <2>4, <2>5 DEF Written
<1>3. CASE field.kind = "raw"
  <2>1. PICK n \in Nat : n = Len(field.value)
    BY <1>3, FieldTypes
  <2>2. to - n = from /\ \A i \in 1..n : bytes[from + i] = field.value[i]
    BY <1>3, <2>1 DEF Written
  <2>3. \A i \in 1..n : more[from + i] = field.value[i]
    BY <2>1, <2>2
  <2> QED
    BY <1>3, <2>1, <2>2, <2>3 DEF Written
<1>4. CASE field.kind = "boolean"
  <2>1. to = from + 1 /\ bytes[to] = IF field.value THEN Yes ELSE 0
    BY <1>4 DEF Written
  <2>2. more[to] = bytes[to]
    BY <2>1
  <2> QED
    BY <1>4, <2>1, <2>2 DEF Written
<1> QED
  BY <1>1, <1>2, <1>3, <1>4, FieldTypes

\* The first byte: a number of one byte, or the first of its digits.
FirstIs(x, v, from, to) ==
    /\ from + 1 <= to /\ x \in Byte
    /\ x < Base => v = x /\ to = from + 1
    /\ x >= Base => /\ Half(v, from, to, 1)
                    /\ SevenBits(x) = Magnitude(v) % Pow[1]

LEMMA ReadsFirst ==
    ASSUME NEW bytes, NEW v \in Numeric, NEW from \in Nat, NEW to \in Int,
           Encoded(bytes, v, from, to)
    PROVE  FirstIs(bytes[from + 1], v, from, to)
<1> DEFINE x == bytes[from + 1]
<1>1. PICK m \in Nat, n \in 1..Groups : Parts(bytes, v, from, to, m, n)
  BY EncodedParts
<1>2. /\ m = Magnitude(v) /\ n = GroupsOf(v, from, to)
      /\ to = from + n + (IF v < 0 THEN 1 ELSE 0)
      /\ m < Pow[n] /\ (n > 1 => Pow[n - 1] <= m)
      /\ \A i \in 0..(n - 1) : bytes[from + i + 1] =
           Digit(m, i) + (IF i < n - 1 \/ v < 0 THEN Base ELSE 0)
      /\ v < 0 => bytes[to] = 0
  BY <1>1 DEF Parts
<1>3. 0 \in 0..(Groups - 1) /\ 0 + 1 = 1 /\ n \in Nat /\ 0 \in 0..(n - 1) /\ v \in Int
  BY Powers, MagnitudeRange
<1>4. PICK d \in 0..(Base - 1) : d = Digit(m, 0) /\ m % Pow[1] = d
  <2>1. m % Pow[0 + 1] = (m % Pow[0]) + Digit(m, 0) * Pow[0] /\ Digit(m, 0) \in 0..(Base - 1)
    BY <1>3, DigitStep
  <2>2. (m * 1 + 0) % 1 = 0 /\ m * 1 + 0 = m
    BY DivUnique
  <2> QED
    BY <2>1, <2>2, <1>3, Powers
<1>5. x = d + (IF 0 < n - 1 \/ v < 0 THEN Base ELSE 0)
  <2>1. from + 0 + 1 = from + 1
    OBVIOUS
  <2> QED
    BY <2>1, <1>2, <1>3, <1>4
<1>6. x \in Byte /\ (x < Base <=> ~ (0 < n - 1 \/ v < 0)) /\ (x < Base \/ x >= Base)
  BY <1>4, <1>5, Powers DEF Byte
<1>7. ASSUME x < Base
      PROVE  v = x /\ to = from + 1
  <2>1. n = 1 /\ ~ v < 0 /\ x = d
    BY <1>3, <1>5, <1>6, <1>7, <1>4, Powers
  <2>2. m % Pow[0 + 1] = m
    BY <2>1, <1>2, <1>3, LastDigit
  <2>3. v = m
    BY <2>1, <1>2, MagnitudeRange
  <2>4. to = from + n
    <3>1. to = from + n + (IF v < 0 THEN 1 ELSE 0) /\ ~ v < 0
      BY <1>2, <2>1
    <3>2. to = from + n + 0
      BY <3>1
    <3> QED
      BY <3>2, <1>3
  <2> QED
    BY <2>1, <2>2, <2>3, <2>4, <1>3, <1>4
<1>8. ASSUME x >= Base
      PROVE  Half(v, from, to, 1) /\ SevenBits(x) = Magnitude(v) % Pow[1]
  <2>1. (0 < n - 1 \/ v < 0) /\ x = d + Base
    BY <1>4, <1>5, <1>6, <1>8, Powers
  <2>2. SevenBits(x) = d
    BY <2>1, <1>4, Powers DEF SevenBits
  <2>3. 1 \in 1..(n - (IF v < 0 THEN 0 ELSE 1))
    BY <2>1, <1>3
  <2> QED
    BY <2>2, <2>3, <1>2, <1>4 DEF Half
<1>9. from + 1 <= to
  BY <1>2, <1>3
<1> QED
  BY <1>6, <1>7, <1>8, <1>9 DEF FirstIs

\* The byte behind k others: another digit, or the end.
NextIs(x, v, from, to, k) ==
    /\ from + k + 1 <= to /\ x \in Byte /\ k \in 1..Groups
    /\ x >= Base =>
         /\ Half(v, from, to, k + 1) /\ k + 1 <= Groups
         /\ (Magnitude(v) % Pow[k]) + SevenBits(x) * Pow[k] = Magnitude(v) % Pow[k + 1]
    /\ x < Base =>
         /\ to = from + k + 1
         /\ x # 0 => PositiveFits(k) /\ (Magnitude(v) % Pow[k]) + x * Pow[k] = v
         /\ x = 0 => NegativeFits(k) /\ Complement(Magnitude(v) % Pow[k]) = v

LEMMA ReadsOn ==
    ASSUME NEW bytes, NEW v \in Numeric, NEW from \in Nat, NEW to \in Int,
           Encoded(bytes, v, from, to), NEW k, Half(v, from, to, k)
    PROVE  NextIs(bytes[from + k + 1], v, from, to, k)
<1> DEFINE x == bytes[from + k + 1]
<1>1. PICK m \in Nat, n \in 1..Groups : Parts(bytes, v, from, to, m, n)
  BY EncodedParts
<1>2. /\ m = Magnitude(v) /\ n = GroupsOf(v, from, to)
      /\ to = from + n + (IF v < 0 THEN 1 ELSE 0)
      /\ m < Pow[n] /\ (n > 1 => Pow[n - 1] <= m)
      /\ \A i \in 0..(n - 1) : bytes[from + i + 1] =
           Digit(m, i) + (IF i < n - 1 \/ v < 0 THEN Base ELSE 0)
      /\ v < 0 => bytes[to] = 0
  BY <1>1 DEF Parts
<1>3. /\ k \in 1..(n - (IF v < 0 THEN 0 ELSE 1)) /\ k \in Nat /\ n \in Nat /\ v \in Int
      /\ k \in 1..Groups /\ Groups \in Nat /\ Base \in Nat /\ Base > 1
  BY <1>2, Powers, MagnitudeRange DEF Half
<1>4. from + k + 1 <= to
  BY <1>2, <1>3
<1>5. ASSUME k = n
      PROVE  NextIs(x, v, from, to, k)
  <2>1. v < 0 /\ to = from + k + 1 /\ x = 0
    BY <1>2, <1>3, <1>5
  <2>2. NegativeFits(k)
    BY <1>3 DEF NegativeFits
  <2>3. m % Pow[k] = m
    <3>1. PICK h \in 0..(Groups - 1) : h + 1 = n
      BY <1>3
    <3> QED
      BY <3>1, <1>2, <1>5, LastDigit
  <2>4. Complement(m % Pow[k]) = v
    BY <2>1, <2>3, <1>2, MagnitudeRange
  <2>5. x \in Byte /\ ~ x >= Base
    BY <2>1, <1>3 DEF Byte
  <2> QED
    BY <2>1, <2>2, <2>4, <2>5, <1>2, <1>3, <1>4 DEF NextIs
<1>6. ASSUME k # n
      PROVE  NextIs(x, v, from, to, k)
  <2>1. k \in 0..(n - 1) /\ k \in 0..(Groups - 1) /\ n > 1
    BY <1>3, <1>6
  <2>2. PICK d \in 0..(Base - 1) : /\ d = Digit(m, k)
                                   /\ m % Pow[k + 1] = (m % Pow[k]) + d * Pow[k]
                                   /\ m % Pow[k + 1] \in Nat
    BY <2>1, DigitStep
  <2>3. x = d + (IF k < n - 1 \/ v < 0 THEN Base ELSE 0)
    BY <2>1, <2>2, <1>2
  <2>4. x \in Byte
    BY <2>3, <1>3 DEF Byte
  <2>5. CASE k < n - 1 \/ v < 0
    <3>1. x = d + Base /\ ~ x < Base /\ SevenBits(x) = d
      BY <2>3, <2>5, <1>3 DEF SevenBits
    <3>2. Half(v, from, to, k + 1) /\ k + 1 <= Groups
      BY <2>1, <2>5, <1>2, <1>3 DEF Half
    <3> QED
      BY <3>1, <3>2, <2>2, <2>4, <1>2, <1>3, <1>4 DEF NextIs
  <2>6. CASE ~ (k < n - 1 \/ v < 0)
    <3>1. k = n - 1 /\ ~ v < 0 /\ x = d /\ ~ x >= Base /\ k + 1 = n
      BY <2>1, <2>3, <2>6, <1>3
    <3>2. d # 0 /\ m % Pow[k + 1] = m
      BY <3>1, <2>1, <2>2, <1>2, LastDigit
    <3>3. v = m
      BY <3>1, <1>2, MagnitudeRange
    <3>4. PositiveFits(k) /\ to = from + k + 1
      BY <3>1, <1>2, <1>3 DEF PositiveFits
    <3> QED
      BY <3>1, <3>2, <3>3, <3>4, <2>2, <2>4, <1>2, <1>3, <1>4 DEF NextIs
  <2> QED
    BY <2>5, <2>6
<1> QED
  BY <1>5, <1>6

-----------------------------------------------------------------------------
(* The steps of the appender.                                              *)

LEMMA Layout ==
    ASSUME FieldsInv
    PROVE  /\ buffer \in Seq(Byte) /\ Len(buffer) \in Nat
           /\ ends \in Seq(Nat) /\ Len(ends) \in Nat
           /\ fields \in Seq(Field) /\ Len(fields) \in Nat
           /\ \A k \in 1..Len(ends) : ends[k] \in Nat /\ ends[k] <= Len(buffer)
           /\ \A k \in 1..Len(fields) : fields[k] \in Field
           /\ \A k \in 1..(Len(ends) + 1) : Start(k) \in Nat /\ Start(k) <= Len(buffer)
<1>1. buffer \in Seq(Byte) /\ ends \in Seq(Nat) /\ fields \in Seq(Field)
  BY DEF FieldsInv, FieldsTypeOK, WriterInv
<1>2. Len(buffer) \in Nat /\ Len(ends) \in Nat /\ Len(fields) \in Nat
  BY <1>1, LenProperties
<1>3. \A k \in 1..Len(ends) : ends[k] \in Nat /\ ends[k] <= Len(buffer)
  BY <1>1, ElementOfSeq DEF FieldsInv, WriterInv
<1>4. \A k \in 1..Len(fields) : fields[k] \in Field
  BY <1>1, ElementOfSeq
<1>5. ASSUME NEW k \in 1..(Len(ends) + 1)
      PROVE  Start(k) \in Nat /\ Start(k) <= Len(buffer)
  <2>1. CASE k = 1
    BY <2>1, <1>2 DEF Start
  <2>2. CASE k # 1
    <3>1. k - 1 \in 1..Len(ends) /\ Start(k) = ends[k - 1]
      BY <2>2, <1>2 DEF Start
    <3> QED
      BY <3>1, <1>3
  <2> QED
    BY <2>1, <2>2
<1> QED
  BY <1>1, <1>2, <1>3, <1>4, <1>5

\* The fields that are complete stay what they are.
LEMMA CompleteStay ==
    ASSUME FieldsInv, NEW more \in Seq(Byte), Len(buffer) <= Len(more),
           \A k \in 1..Len(buffer) : more[k] = buffer[k], NEW k \in 1..Len(ends)
    PROVE  /\ Start(k) <= ends[k] /\ ends[k] <= Len(more)
           /\ Written(more, fields[k], Start(k), ends[k])
<1>1. /\ Start(k) \in Nat /\ ends[k] \in Nat /\ ends[k] <= Len(buffer) /\ Len(buffer) \in Nat
      /\ Len(more) \in Nat /\ k \in 1..Len(fields) /\ fields[k] \in Field
  <2>1. k \in 1..Len(fields) /\ k \in 1..(Len(ends) + 1)
    BY Layout DEF FieldsInv, WriterInv
  <2> QED
    BY <2>1, Layout, LenProperties
<1>2. Start(k) <= ends[k] /\ Written(buffer, fields[k], Start(k), ends[k])
  BY DEF FieldsInv, WriterInv
<1>3. \A i \in 1..ends[k] : more[i] = buffer[i]
  BY <1>1
<1> QED
  BY <1>1, <1>2, <1>3, WrittenStays

\* A field is complete.
LEMMA FieldDone ==
    ASSUME FieldsInv, NEW body \in Seq(Byte),
           buffer' = buffer \o body, ends' = Append(ends, Len(buffer')),
           fields' \in Seq(Field), Len(fields') = Len(ends) + 1,
           \A k \in 1..Len(ends) : fields'[k] = fields[k],
           Written(buffer', fields'[Len(ends) + 1], Start(Len(ends) + 1), Len(buffer')),
           pc' = "open"
    PROVE  /\ WriterInv'
           /\ buffer' \in Seq(Byte) /\ ends' \in Seq(Nat) /\ Len(ends') = Len(fields')
<1>1. PICK more \in Seq(Byte), n \in Nat, e \in Nat, es \in Seq(Nat) :
        /\ more = buffer' /\ n = Len(more) /\ e = Len(ends) /\ es = ends' /\ es = Append(ends, n)
        /\ Len(buffer) <= n /\ \A k \in 1..Len(buffer) : more[k] = buffer[k]
        /\ Len(es) = e + 1 /\ es[e + 1] = n /\ \A k \in 1..e : es[k] = ends[k]
  <2>1. buffer \in Seq(Byte) /\ Len(buffer) \in Nat /\ ends \in Seq(Nat) /\ Len(ends) \in Nat
    BY Layout
  <2>2. /\ buffer \o body \in Seq(Byte) /\ Len(buffer \o body) = Len(buffer) + Len(body)
        /\ \A i \in 1..Len(buffer) + Len(body) : (buffer \o body)[i] =
             IF i <= Len(buffer) THEN buffer[i] ELSE body[i - Len(buffer)]
    BY <2>1, ConcatProperties
  <2>3. Len(body) \in Nat
    BY LenProperties
  <2>4. /\ buffer' \in Seq(Byte) /\ Len(buffer') \in Nat /\ Len(buffer) <= Len(buffer')
        /\ \A k \in 1..Len(buffer) : buffer'[k] = buffer[k]
    BY <2>1, <2>2, <2>3
  <2>5. PICK n \in Nat : n = Len(buffer')
    BY <2>4
  <2>6. /\ Append(ends, n) \in Seq(Nat) /\ Len(Append(ends, n)) = Len(ends) + 1
        /\ Append(ends, n)[Len(ends) + 1] = n
        /\ \A k \in 1..Len(ends) : Append(ends, n)[k] = ends[k]
    BY <2>1, AppendProperties
  <2> QED
    BY <2>1, <2>4, <2>5, <2>6
<1>2. \A k \in 1..(e + 1) : Start(k)' = Start(k)
  <2> SUFFICES ASSUME NEW k \in 1..(e + 1)
               PROVE  Start(k)' = Start(k)
    OBVIOUS
  <2>1. CASE k = 1
    BY <2>1 DEF Start
  <2>2. CASE k # 1
    <3>1. k - 1 \in 1..e
      BY <2>2
    <3> QED
      BY <2>2, <3>1, <1>1 DEF Start
  <2> QED
    BY <2>1, <2>2
<1>3. Start(e + 2)' = n
  <2>1. e + 2 - 1 = e + 1 /\ e + 2 # 1
    OBVIOUS
  <2> QED
    BY <2>1, <1>1 DEF Start
<1>4. ASSUME NEW k \in 1..(e + 1)
      PROVE  /\ Start(k)' <= es[k] /\ es[k] <= n
             /\ Written(more, fields'[k], Start(k)', es[k])
  <2>1. CASE k = e + 1
    <3>1. Start(k) \in Nat /\ Start(k) <= Len(buffer) /\ Len(buffer) \in Nat
      BY <1>1, Layout
    <3>2. Start(k)' = Start(k) /\ es[k] = n /\ Start(k) <= n
      BY <2>1, <3>1, <1>1, <1>2
    <3>3. Written(more, fields'[k], Start(k), n)
      BY <2>1, <1>1
    <3> QED
      BY <3>2, <3>3
  <2>2. CASE k # e + 1
    <3>1. k \in 1..e
      BY <2>2
    <3>2. Start(k) <= ends[k] /\ ends[k] <= n /\ Written(more, fields[k], Start(k), ends[k])
      BY <3>1, <1>1, CompleteStay
    <3> QED
      BY <3>1, <3>2, <1>1, <1>2
  <2> QED
    BY <2>1, <2>2
<1>5. Len(es) + 1 = e + 2
  BY <1>1
<1>6. ~ InNumber'
  BY DEF InNumber
<1>7. WriterInv'
  BY <1>1, <1>3, <1>4, <1>5, <1>6 DEF WriterInv, InNumber
<1> QED
  BY <1>1, <1>7

\* A number is being written.
LEMMA NumberGrows ==
    ASSUME FieldsInv, ends' = ends, pc' \in {"group", "payload"},
           NEW more \in Seq(Byte), buffer' = more, Len(buffer) <= Len(more),
           \A k \in 1..Len(buffer) : more[k] = buffer[k],
           fields' \in Seq(Field), Len(fields') = Len(ends) + 1,
           \A k \in 1..Len(ends) : fields'[k] = fields[k],
           NEW field \in Field, field = fields'[Len(ends) + 1], HasNumber(field),
           pc' = "group" => InLoop(more, NumberIn(field), Start(Len(ends) + 1), rest', neg'),
           pc' = "payload" => Encoded(more, NumberIn(field), Start(Len(ends) + 1), Len(more))
    PROVE  WriterInv'
<1>1. \A k : Start(k)' = Start(k)
  BY DEF Start
<1>2. ASSUME NEW k \in 1..Len(ends)
      PROVE  /\ Start(k)' <= ends[k] /\ ends[k] <= Len(more)
             /\ Written(more, fields'[k], Start(k)', ends[k])
  BY <1>1, CompleteStay
<1>3. Start(Len(ends) + 1) <= Len(more)
  <2>1. PICK n \in Nat, b \in Nat, m \in Nat : n = Len(ends) /\ b = Len(buffer) /\ m = Len(more)
    BY Layout, LenProperties
  <2>2. Start(n + 1) \in Nat /\ Start(n + 1) <= b
    BY <2>1, Layout
  <2> QED
    BY <2>1, <2>2
<1>4. InNumber'
  BY DEF InNumber
<1> QED
  BY <1>1, <1>2, <1>3, <1>4 DEF WriterInv

\* The reader has not begun.
LEMMA ReaderWaits ==
    ASSUME FieldsInv, UNCHANGED <<limit, position, low, count, number, current, result>>,
           pc \in {"open", "group", "payload"}, pc' \in {"open", "group", "payload"}
    PROVE  ReaderInv'
BY DEF FieldsInv, ReaderInv

LEMMA FieldTypeOK ==
    ASSUME FieldsInv, UNCHANGED reader, pc' \in Places, buffer' \in Seq(Byte),
           rest' \in 0..(Pow[Groups] - 1), neg' \in BOOLEAN, length' \in Int,
           fields' \in Seq(Field), Len(fields) <= Len(fields'), Len(fields') <= MaxFields,
           ends' \in Seq(Nat), Len(ends') <= Len(fields')
    PROVE  FieldsTypeOK'
<1>1. UNCHANGED <<limit, position, low, count, number, current, result>>
  BY DEF reader
<1>2. Len(fields) \in Nat /\ Len(fields') \in Nat
  BY Layout, LenProperties
<1>3. current' \in 1..(Len(fields') + 1)
  BY <1>1, <1>2 DEF FieldsInv, FieldsTypeOK
<1> QED
  BY <1>1, <1>3 DEF FieldsInv, FieldsTypeOK

LEMMA NewField ==
    ASSUME FieldsInv, NEW field \in Field, pc = "open", Len(fields) < MaxFields,
           fields' = Append(fields, field)
    PROVE  /\ fields' \in Seq(Field) /\ Len(fields') = Len(ends) + 1 /\ Len(fields) = Len(ends)
           /\ fields'[Len(ends) + 1] = field /\ \A k \in 1..Len(ends) : fields'[k] = fields[k]
           /\ Len(fields) <= Len(fields') /\ Len(fields') <= MaxFields
           /\ Start(Len(ends) + 1) = Len(buffer) /\ Len(buffer) \in Nat
           /\ buffer \in Seq(Byte) /\ ends \in Seq(Nat) /\ Len(ends) \in Nat
<1>1. /\ fields \in Seq(Field) /\ Len(fields) = Len(ends) /\ Len(fields) \in Nat
      /\ Start(Len(ends) + 1) = Len(buffer) /\ Len(buffer) \in Nat
      /\ buffer \in Seq(Byte) /\ ends \in Seq(Nat)
  BY Layout DEF FieldsInv, WriterInv, InNumber
<1>2. /\ fields' \in Seq(Field) /\ Len(fields') = Len(fields) + 1
      /\ fields'[Len(fields) + 1] = field /\ \A k \in 1..Len(fields) : fields'[k] = fields[k]
  BY <1>1, AppendProperties
<1> QED
  BY <1>1, <1>2, FieldsAssumption

\* The bytes of a field of fixed size.
LEMMA CopiesInv ==
    ASSUME FieldsInv, NEW field \in Field, pc = "open", Len(fields) < MaxFields,
           fields' = Append(fields, field), UNCHANGED <<length, reader>>,
           NEW body \in Seq(Byte), Copies(body),
           Written(buffer \o body, field, Len(buffer), Len(buffer) + Len(body))
    PROVE  FieldsInv'
<1>1. /\ buffer' = buffer \o body /\ ends' = Append(ends, Len(buffer'))
      /\ UNCHANGED <<pc, rest, neg>>
  BY DEF Copies
<1>2. /\ fields' \in Seq(Field) /\ Len(fields') = Len(ends) + 1
      /\ fields'[Len(ends) + 1] = field /\ \A k \in 1..Len(ends) : fields'[k] = fields[k]
      /\ Len(fields) <= Len(fields') /\ Len(fields') <= MaxFields
      /\ Start(Len(ends) + 1) = Len(buffer) /\ buffer \in Seq(Byte)
  BY NewField
<1>3. Len(buffer') = Len(buffer) + Len(body)
  BY <1>1, <1>2, ConcatProperties
<1>4. /\ WriterInv' /\ buffer' \in Seq(Byte) /\ ends' \in Seq(Nat) /\ Len(ends') = Len(fields')
  BY <1>1, <1>2, <1>3, FieldDone
<1>5. ReaderInv'
  BY <1>1, ReaderWaits DEF reader
<1>6. FieldsTypeOK'
  <2>1. Len(fields') \in Nat
    BY <1>2, LenProperties
  <2>2. /\ pc' \in Places /\ rest' \in 0..(Pow[Groups] - 1) /\ neg' \in BOOLEAN /\ length' \in Int
    BY <1>1 DEF FieldsInv, FieldsTypeOK
  <2> QED
    BY <2>1, <2>2, <1>2, <1>4, FieldTypeOK
<1> QED
  BY <1>4, <1>5, <1>6 DEF FieldsInv

LEMMA WriteRawInv ==
    ASSUME FieldsInv, NEW value \in Values, WriteRaw(value)
    PROVE  FieldsInv'
<1>1. PICK field \in Field : field = [kind |-> "raw", value |-> value]
  BY DEF Field
<1>2. field.kind = "raw" /\ field.value = value
  BY <1>1
<1>3. /\ pc = "open" /\ Len(fields) < MaxFields /\ fields' = Append(fields, field)
      /\ UNCHANGED <<length, reader>> /\ Copies(value)
  BY <1>1 DEF WriteRaw, Begins
<1>4. value \in Seq(Byte)
  BY FieldsAssumption
<1>5. PICK n \in Nat, b \in Nat : n = Len(value) /\ b = Len(buffer)
  BY <1>4, Layout, LenProperties
<1>6. \A i \in 1..n : (buffer \o value)[b + i] = value[i]
  <2>1. \A i \in 1..Len(buffer) + Len(value) : (buffer \o value)[i] =
           IF i <= Len(buffer) THEN buffer[i] ELSE value[i - Len(buffer)]
    BY <1>4, Layout, ConcatProperties
  <2>2. \A i \in 1..n : b + i \in 1..(b + n) /\ ~ b + i <= b /\ b + i - b = i
    OBVIOUS
  <2> QED
    BY <2>1, <2>2, <1>5
<1>7. Written(buffer \o value, field, b, b + n)
  <2>1. b + n - n = b
    OBVIOUS
  <2> QED
    BY <2>1, <1>2, <1>5, <1>6 DEF Written
<1> QED
  BY <1>3, <1>4, <1>5, <1>7, CopiesInv

LEMMA WriteBooleanInv ==
    ASSUME FieldsInv, NEW b \in BOOLEAN, WriteBoolean(b)
    PROVE  FieldsInv'
<1>1. PICK field \in Field : field = [kind |-> "boolean", value |-> b]
  BY DEF Field
<1>2. field.kind = "boolean" /\ field.value = b
  BY <1>1
<1>3. PICK x \in Byte : x = IF b THEN Yes ELSE 0
  <2>1. Yes \in Byte /\ 0 \in Byte
    BY FieldsAssumption DEF Byte
  <2> QED
    BY <2>1
<1>4. /\ pc = "open" /\ Len(fields) < MaxFields /\ fields' = Append(fields, field)
      /\ UNCHANGED <<length, reader>> /\ Copies(<<x>>)
  BY <1>1, <1>3 DEF WriteBoolean, Begins
<1>5. <<x>> \in Seq(Byte) /\ Len(<<x>>) = 1
  OBVIOUS
<1>6. Written(buffer \o <<x>>, field, Len(buffer), Len(buffer) + 1)
  <2>1. (buffer \o <<x>>)[Len(buffer) + 1] = x
    BY Layout, AppendByte
  <2> QED
    BY <2>1, <1>2, <1>3 DEF Written
<1> QED
  BY <1>4, <1>5, <1>6, CopiesInv

\* The call of stop_bit::write, as far as its loop.
LEMMA EncodesInv ==
    ASSUME FieldsInv, NEW field \in Field, HasNumber(field), pc = "open",
           Len(fields) < MaxFields, fields' = Append(fields, field),
           UNCHANGED <<length, reader>>, Encodes(NumberIn(field))
    PROVE  FieldsInv'
<1>1. PICK v \in Numeric : v = NumberIn(field)
  BY NumberRange
<1>2. /\ fields' \in Seq(Field) /\ Len(fields') = Len(ends) + 1
      /\ fields'[Len(ends) + 1] = field /\ \A k \in 1..Len(ends) : fields'[k] = fields[k]
      /\ Len(fields) <= Len(fields') /\ Len(fields') <= MaxFields
      /\ Start(Len(ends) + 1) = Len(buffer) /\ buffer \in Seq(Byte) /\ Len(buffer) \in Nat
      /\ ends \in Seq(Nat) /\ Len(ends) \in Nat
  BY NewField
<1>3. rest \in 0..(Pow[Groups] - 1) /\ neg \in BOOLEAN
  BY DEF FieldsInv, FieldsTypeOK
<1>4. /\ buffer' \in Seq(Byte) /\ Len(buffer) <= Len(buffer') /\ ends' = ends
      /\ \A k \in 1..Len(buffer) : buffer'[k] = buffer[k]
      /\ pc' \in {"group", "payload"} /\ rest' \in 0..(Pow[Groups] - 1) /\ neg' \in BOOLEAN
      /\ pc' = "group" => InLoop(buffer', v, Len(buffer), rest', neg')
      /\ pc' = "payload" => Encoded(buffer', v, Len(buffer), Len(buffer'))
  <2>1. CASE v \in 0..(Base - 1)
    <3>1. buffer' = buffer \o <<v>> /\ pc' = "payload" /\ UNCHANGED <<rest, neg, ends>>
      <4>1. v \in 0..(Base * Base - 1)
        <5>1. Base <= Base * Base
          BY Powers, Z3
        <5> QED
          BY <5>1, <2>1, Powers
      <4> QED
        BY <1>1, <2>1, <4>1 DEF Encodes, TwoBytes
    <3>2. v \in Byte
      BY <2>1, Powers DEF Byte
    <3>3. /\ buffer' \in Seq(Byte) /\ Len(buffer') = Len(buffer) + 1
          /\ \A k \in 1..Len(buffer) : buffer'[k] = buffer[k]
      BY <3>1, <3>2, <1>2, AppendByte
    <3>4. Encoded(buffer', v, Len(buffer), Len(buffer'))
      BY <3>1, <2>1, <1>2, EncodesOne
    <3> QED
      BY <3>1, <3>3, <3>4, <1>2, <1>3
  <2>2. CASE v \notin 0..(Base - 1) /\ TwoBytes(v)
    <3>1. PICK two : two = <<Base + (v % Base), v \div Base>>
      OBVIOUS
    <3>2. buffer' = buffer \o two /\ pc' = "payload" /\ UNCHANGED <<rest, neg, ends>>
      BY <1>1, <2>2, <3>1 DEF Encodes
    <3>3. v \in Base..(Base * Base - 1)
      BY <2>2, Powers DEF TwoBytes
    <3>4. /\ buffer' \in Seq(Byte) /\ Len(buffer) <= Len(buffer')
          /\ \A k \in 1..Len(buffer) : buffer'[k] = buffer[k]
          /\ Encoded(buffer', v, Len(buffer), Len(buffer'))
      BY <3>1, <3>2, <3>3, <1>2, EncodesTwo
    <3> QED
      BY <3>2, <3>4, <1>3
  <2>3. CASE ~ TwoBytes(v)
    <3>1. /\ rest' = Magnitude(v) /\ neg' = (v < 0) /\ pc' = "group" /\ UNCHANGED <<buffer, ends>>
      <4>1. v \notin 0..(Base - 1)
        <5>1. Base <= Base * Base /\ Base * Base \in Nat
          BY Powers, Z3
        <5> QED
          BY <5>1, <2>3, Powers DEF TwoBytes
      <4> QED
        BY <4>1, <1>1, <2>3 DEF Encodes, Magnitude
    <3>2. rest' \in 0..(Pow[Groups] - 1)
      BY <3>1, MagnitudeRange
    <3>3. InLoop(buffer, v, Len(buffer), Magnitude(v), v < 0)
      <4>1. Magnitude(v) \div Pow[0] = Magnitude(v)
        <5>1. PICK m \in Nat : m = Magnitude(v)
          BY MagnitudeRange
        <5>2. (m * 1) \div 1 = m /\ m * 1 = m
          BY QuotientOfProduct
        <5> QED
          BY <5>1, <5>2, Powers
      <4>2. Len(buffer) - Len(buffer) = 0 /\ 0 \in 0..(Groups - 1) /\ ~ 0 > 0
        BY <1>2, Powers
      <4>3. \A i \in 0..(0 - 1) : FALSE
        OBVIOUS
      <4> QED
        BY <4>1, <4>2, <4>3 DEF InLoop
    <3>4. (v < 0) \in BOOLEAN
      OBVIOUS
    <3> QED
      BY <3>1, <3>2, <3>3, <3>4, <1>2
  <2> QED
    BY <2>1, <2>2, <2>3
<1>5. WriterInv'
  BY <1>1, <1>2, <1>4, NumberGrows
<1>6. ReaderInv'
  BY <1>4, ReaderWaits DEF reader
<1>7. FieldsTypeOK'
  <2>1. pc' \in Places /\ length' \in Int
    BY <1>4 DEF FieldsInv, FieldsTypeOK, Places
  <2>2. ends' \in Seq(Nat) /\ Len(ends') <= Len(fields')
    BY <1>2, <1>4
  <2> QED
    BY <2>1, <2>2, <1>2, <1>4, FieldTypeOK
<1> QED
  BY <1>5, <1>6, <1>7 DEF FieldsInv

LEMMA WriteNumberInv ==
    ASSUME FieldsInv, NEW v \in Numbers, WriteNumber(v)
    PROVE  FieldsInv'
<1>1. PICK field \in Field : field = [kind |-> "stop_bit", value |-> v]
  BY DEF Field
<1>2. HasNumber(field) /\ NumberIn(field) = v
  BY <1>1 DEF HasNumber, NumberIn
<1> QED
  BY <1>1, <1>2, EncodesInv DEF WriteNumber, Begins

LEMMA WriteCharsInv ==
    ASSUME FieldsInv, NEW s \in Strings, WriteChars(s)
    PROVE  FieldsInv'
<1>1. PICK field \in Field : field = [kind |-> "chars", value |-> s]
  BY DEF Field
<1>2. HasNumber(field) /\ NumberIn(field) = Len(s)
  BY <1>1 DEF HasNumber, NumberIn
<1> QED
  BY <1>1, <1>2, EncodesInv DEF WriteChars, Begins

\* The field that is being written.
LEMMA FieldInLoop ==
    ASSUME FieldsInv, InNumber
    PROVE  \E field \in Field, from \in Nat, v \in Numeric :
             /\ Len(fields) = Len(ends) + 1 /\ field = fields[Len(ends) + 1]
             /\ HasNumber(field) /\ v = NumberIn(field)
             /\ from = Start(Len(ends) + 1) /\ from <= Len(buffer)
             /\ pc = "group" => InLoop(buffer, v, from, rest, neg)
             /\ pc = "payload" => Encoded(buffer, v, from, Len(buffer))
<1>1. PICK e \in Nat : e = Len(ends) /\ Len(fields) = e + 1
  BY Layout DEF FieldsInv, WriterInv
<1>2. PICK field \in Field : field = fields[e + 1] /\ HasNumber(field)
  <2>1. e + 1 \in 1..Len(fields)
    BY <1>1
  <2> QED
    BY <1>1, <2>1, Layout DEF FieldsInv, WriterInv
<1>3. PICK v \in Numeric : v = NumberIn(field)
  BY <1>2, NumberRange
<1>4. PICK from \in Nat : from = Start(e + 1) /\ from <= Len(buffer)
  BY <1>1, Layout
<1>5. /\ pc = "group" => InLoop(buffer, v, from, rest, neg)
      /\ pc = "payload" => Encoded(buffer, v, from, Len(buffer))
  BY <1>1, <1>2, <1>3, <1>4 DEF FieldsInv, WriterInv
<1> QED
  BY <1>1, <1>2, <1>3, <1>4, <1>5

\* A step within stop_bit::write.
LEMMA NumberStep ==
    ASSUME FieldsInv, InNumber, UNCHANGED <<length, fields, ends, reader>>,
           pc' \in {"group", "payload"}, rest' \in 0..(Pow[Groups] - 1), neg' \in BOOLEAN,
           NEW more \in Seq(Byte), buffer' = more, Len(buffer) <= Len(more),
           \A k \in 1..Len(buffer) : more[k] = buffer[k],
           NEW v \in Numeric, v = NumberIn(fields[Len(ends) + 1]),
           pc' = "group" => InLoop(more, v, Start(Len(ends) + 1), rest', neg'),
           pc' = "payload" => Encoded(more, v, Start(Len(ends) + 1), Len(more))
    PROVE  FieldsInv'
<1>1. PICK field \in Field :
        /\ Len(fields) = Len(ends) + 1 /\ field = fields[Len(ends) + 1] /\ HasNumber(field)
  BY FieldInLoop
<1>2. fields \in Seq(Field) /\ ends \in Seq(Nat) /\ Len(fields) \in Nat /\ Len(ends) \in Nat
  BY Layout
<1>3. WriterInv'
  BY <1>1, <1>2, NumberGrows
<1>4. ReaderInv'
  BY ReaderWaits DEF reader, InNumber
<1>5. FieldsTypeOK'
  <2>1. pc' \in Places /\ length' \in Int /\ Len(fields') <= MaxFields
    BY DEF FieldsInv, FieldsTypeOK, Places
  <2> QED
    BY <2>1, <1>1, <1>2, FieldTypeOK
<1> QED
  BY <1>3, <1>4, <1>5 DEF FieldsInv

LEMMA GroupInv ==
    ASSUME FieldsInv, Group
    PROVE  FieldsInv'
<1>1. /\ pc = "group" /\ rest >= Base /\ buffer' = Append(buffer, Base + (rest % Base))
      /\ rest' = rest \div Base /\ UNCHANGED <<pc, neg, length, fields, ends, reader>>
  BY DEF Group
<1>2. PICK field \in Field, from \in Nat, v \in Numeric :
        /\ field = fields[Len(ends) + 1] /\ v = NumberIn(field) /\ from = Start(Len(ends) + 1)
        /\ InLoop(buffer, v, from, rest, neg)
  BY <1>1, FieldInLoop DEF InNumber
<1>3. PICK p \in Nat : p = Pow[Groups] /\ rest \in 0..(p - 1) /\ neg \in BOOLEAN
  <2>1. Groups \in 0..Groups
    BY Powers
  <2>2. Pow[Groups] \in Nat
    BY <2>1, Powers
  <2>3. rest \in 0..(Pow[Groups] - 1) /\ neg \in BOOLEAN
    BY DEF FieldsInv, FieldsTypeOK
  <2> QED
    BY <2>2, <2>3
<1>4. PICK x \in Byte : /\ x = Base + (rest % Base)
                        /\ InLoop(Append(buffer, x), v, from, rest \div Base, neg)
  BY <1>1, <1>2, <1>3, Layout, LoopTurn
<1>5. PICK more \in Seq(Byte) : /\ more = Append(buffer, x) /\ Len(more) = Len(buffer) + 1
                                /\ Len(buffer) \in Nat
                                /\ \A k \in 1..Len(buffer) : more[k] = buffer[k]
  BY Layout, AppendByte
<1>6. rest' \in 0..(Pow[Groups] - 1)
  <2>1. PICK b \in Nat \ {0}, r \in Nat : b = Base /\ r = rest
    BY <1>3, Powers
  <2>2. r = (r \div b) * b + (r % b) /\ r % b \in 0..(b - 1)
    BY DivMod
  <2>3. PICK q \in Nat, d \in 0..(b - 1) : q = r \div b /\ r = q * b + d
    BY <2>2, QuotientNat
  <2>4. q * 1 <= q * b
    BY ProductGrows, Z3
  <2>5. q <= r
    BY <2>3, <2>4
  <2>6. r <= p - 1
    BY <2>1, <1>3
  <2>7. rest' = q
    BY <2>1, <2>3, <1>1
  <2>8. q \in 0..(p - 1)
    BY <2>5, <2>6
  <2> QED
    BY <2>7, <2>8, <1>3
<1>7. InLoop(more, v, from, rest', neg')
  BY <1>1, <1>4, <1>5
<1>8. pc' = "group" /\ neg' \in BOOLEAN /\ Len(buffer) <= Len(more) /\ buffer' = more
  BY <1>1, <1>3, <1>4, <1>5
<1> QED
  BY <1>1, <1>2, <1>5, <1>6, <1>7, <1>8, NumberStep DEF InNumber

LEMMA FinalGroupInv ==
    ASSUME FieldsInv, FinalGroup
    PROVE  FieldsInv'
<1>1. /\ pc = "group" /\ rest < Base /\ buffer' = buffer \o FinalBytes(rest, neg)
      /\ rest' = 0 /\ neg' = FALSE /\ pc' = "payload" /\ UNCHANGED <<length, fields, ends, reader>>
  BY DEF FinalGroup
<1>2. PICK field \in Field, from \in Nat, v \in Numeric :
        /\ field = fields[Len(ends) + 1] /\ v = NumberIn(field) /\ from = Start(Len(ends) + 1)
        /\ InLoop(buffer, v, from, rest, neg)
  BY <1>1, FieldInLoop DEF InNumber
<1>3. rest \in Nat /\ neg \in BOOLEAN
  BY DEF FieldsInv, FieldsTypeOK
<1>4. PICK r \in Nat, negative \in BOOLEAN : r = rest /\ negative = neg
  BY <1>3
<1>5. PICK final : final = FinalBytes(r, negative)
  OBVIOUS
<1>6. PICK more \in Seq(Byte) : /\ more = buffer \o final /\ Len(buffer) <= Len(more)
                                /\ \A k \in 1..Len(buffer) : more[k] = buffer[k]
                                /\ Encoded(more, v, from, Len(more))
  <2>1. InLoop(buffer, v, from, r, negative) /\ r < Base /\ buffer \in Seq(Byte)
    BY <1>1, <1>2, <1>4, Layout
  <2> QED
    BY <2>1, <1>5, LoopEnds
<1>7. rest' \in 0..(Pow[Groups] - 1) /\ neg' \in BOOLEAN
  <2>1. Groups \in 0..Groups
    BY Powers
  <2>2. PICK p \in Nat : p = Pow[Groups] /\ p > 0
    BY <2>1, Powers
  <2>3. 0 \in 0..(p - 1)
    BY <2>2
  <2> QED
    BY <2>2, <2>3, <1>1
<1> QED
  BY <1>1, <1>2, <1>4, <1>5, <1>6, <1>7, NumberStep DEF InNumber

LEMMA WritePayloadInv ==
    ASSUME FieldsInv, WritePayload
    PROVE  FieldsInv'
<1>1. PICK body : body = Payload(fields[Len(fields)])
  OBVIOUS
<1>2. /\ pc = "payload" /\ buffer' = buffer \o body /\ ends' = Append(ends, Len(buffer'))
      /\ pc' = "open" /\ UNCHANGED <<rest, neg, length, fields, reader>>
  BY <1>1 DEF WritePayload
<1>3. PICK field \in Field, from \in Nat, v \in Numeric :
        /\ Len(fields) = Len(ends) + 1 /\ field = fields[Len(ends) + 1]
        /\ HasNumber(field) /\ v = NumberIn(field)
        /\ from = Start(Len(ends) + 1) /\ Encoded(buffer, v, from, Len(buffer))
  BY <1>2, FieldInLoop DEF InNumber
<1>4. /\ buffer \in Seq(Byte) /\ Len(buffer) \in Nat /\ fields \in Seq(Field)
      /\ Len(ends) \in Nat /\ Len(fields) \in Nat
  BY Layout
<1>5. body \in Seq(Byte) /\ Written(buffer \o body, field, from, Len(buffer \o body))
  <2>1. CASE field.kind = "chars"
    <3>1. body = field.value /\ field.value \in Seq(Byte)
      BY <2>1, <1>1, <1>3, FieldTypes DEF Payload
    <3>2. PICK n \in Nat, b \in Nat : n = Len(body) /\ b = Len(buffer)
      BY <3>1, <1>4, LenProperties
    <3>3. PICK more : more = buffer \o body
      OBVIOUS
    <3>4. /\ Len(more) = b + n
          /\ \A i \in 1..(b + n) : more[i] = IF i <= b THEN buffer[i] ELSE body[i - b]
      BY <3>1, <3>2, <3>3, <1>4, ConcatProperties
    <3>5. \A i \in 1..b : more[i] = buffer[i]
      BY <3>4
    <3>6. \A i \in 1..n : more[b + i] = body[i]
      <4>1. \A i \in 1..n : b + i \in 1..(b + n) /\ ~ b + i <= b /\ b + i - b = i
        OBVIOUS
      <4> QED
        BY <3>4, <4>1
    <3>7. v = n
      BY <2>1, <3>1, <3>2, <1>3 DEF NumberIn
    <3>8. Encoded(more, v, from, b)
      BY <3>2, <3>5, <1>3, EncodedStays
    <3>9. b + n - n = b
      OBVIOUS
    <3>10. Written(more, field, from, b + n)
      BY <2>1, <3>1, <3>2, <3>6, <3>7, <3>8, <3>9 DEF Written
    <3> QED
      BY <3>1, <3>3, <3>4, <3>10
  <2>2. CASE field.kind # "chars"
    <3>1. body = <<>> /\ field.kind = "stop_bit" /\ v = field.value
      BY <2>2, <1>1, <1>3 DEF Payload, HasNumber, NumberIn
    <3>2. buffer \o body = buffer
      BY <3>1, <1>4, ConcatEmptySeq
    <3>3. body \in Seq(Byte)
      BY <3>1
    <3> QED
      BY <3>1, <3>2, <3>3, <1>3 DEF Written
  <2> QED
    BY <2>1, <2>2
<1>6. WriterInv' /\ buffer' \in Seq(Byte) /\ ends' \in Seq(Nat) /\ Len(ends') = Len(fields')
  BY <1>2, <1>3, <1>4, <1>5, FieldDone
<1>7. ReaderInv'
  BY <1>2, ReaderWaits DEF reader
<1>8. FieldsTypeOK'
  <2>1. /\ pc' \in Places /\ rest' \in 0..(Pow[Groups] - 1) /\ neg' \in BOOLEAN /\ length' \in Int
        /\ Len(fields') <= MaxFields
    BY <1>2 DEF FieldsInv, FieldsTypeOK, Places
  <2> QED
    BY <2>1, <1>2, <1>4, <1>6, FieldTypeOK
<1> QED
  BY <1>6, <1>7, <1>8 DEF FieldsInv

\* Behind a field, and in the reader, the bytes stay what they are.
LEMMA SameBytes ==
    ASSUME FieldsInv, UNCHANGED <<buffer, fields, ends>>, ~ InNumber, ~ InNumber'
    PROVE  WriterInv'
<1>1. \A k : Start(k)' = Start(k)
  BY DEF Start
<1> QED
  BY <1>1 DEF FieldsInv, WriterInv, InNumber

LEMMA FinishInv ==
    ASSUME FieldsInv, Finish
    PROVE  FieldsInv'
<1>1. /\ pc = "open" /\ length' = Complement(Len(buffer)) /\ pc' = "finished"
      /\ UNCHANGED <<buffer, rest, neg, fields, ends>>
      /\ UNCHANGED <<limit, position, low, count, number, current, result>>
  BY DEF Finish, reader
<1>2. WriterInv'
  BY <1>1, SameBytes DEF InNumber
<1>3. ReaderInv'
  BY <1>1 DEF FieldsInv, ReaderInv
<1>4. FieldsTypeOK'
  <2>1. length' \in Int
    BY <1>1, Layout DEF Complement
  <2> QED
    BY <1>1, <2>1 DEF FieldsInv, FieldsTypeOK, Places
<1> QED
  BY <1>2, <1>3, <1>4 DEF FieldsInv

-----------------------------------------------------------------------------
(* The steps of the tailer.                                                *)

LEMMA ShowInv ==
    ASSUME FieldsInv, Show
    PROVE  FieldsInv'
<1>1. /\ pc = "finished" /\ position' = 0 /\ limit' = Complement(length) /\ pc' = "ready"
      /\ UNCHANGED <<buffer, rest, neg, length, fields, ends>>
      /\ UNCHANGED <<low, count, number, current, result>>
  BY DEF Show, writer
<1>2. WriterInv'
  BY <1>1, SameBytes DEF InNumber
<1>3. length = Complement(Len(buffer)) /\ current = 1 /\ result = NoResult
  BY <1>1 DEF FieldsInv, ReaderInv
<1>4. limit' = Len(buffer)
  BY <1>1, <1>3, Layout DEF Complement
<1>5. ReaderInv'
  BY <1>1, <1>3, <1>4 DEF FieldsInv, ReaderInv, Start
<1>6. FieldsTypeOK'
  <2>1. limit' \in Nat /\ position' \in Nat
    BY <1>1, <1>4, Layout
  <2> QED
    BY <1>1, <2>1 DEF FieldsInv, FieldsTypeOK, Places
<1> QED
  BY <1>2, <1>5, <1>6 DEF FieldsInv

\* The tailer shows the excerpt, between its calls and within them.
Shown == {"ready", "first", "more", "take"}

LEMMA ReaderMoves ==
    ASSUME FieldsInv, UNCHANGED <<writer, limit>>, pc \in Shown, pc' \in Shown,
           position' \in Nat, low' \in 0..(Pow[Groups] - 1), count' \in 0..Groups,
           number' \in Numeric, current' \in 1..(Len(fields) + 1), ReaderInv'
    PROVE  FieldsInv'
<1>1. UNCHANGED <<buffer, rest, neg, length, fields, ends, limit>>
  BY DEF writer
<1>2. WriterInv'
  BY <1>1, SameBytes DEF InNumber, Shown
<1>3. FieldsTypeOK'
  BY <1>1 DEF FieldsInv, FieldsTypeOK, Places, Shown, Numeric
<1> QED
  BY <1>2, <1>3 DEF FieldsInv

\* The field that is read next.
LEMMA FieldToRead ==
    ASSUME FieldsInv, pc \in Shown, current <= Len(fields)
    PROVE  \E field \in Field, from \in Nat, to \in Nat :
             /\ field = fields[current] /\ from = Start(current) /\ to = ends[current]
             /\ Written(buffer, field, from, to) /\ to <= Len(buffer)
             /\ Start(current + 1) = to
             /\ current \in 1..Len(fields) /\ current + 1 \in 1..(Len(fields) + 1)
<1>1. ~ InNumber
  BY DEF InNumber, Shown
<1>2. current \in 1..Len(fields) /\ Len(fields) = Len(ends) /\ Len(fields) \in Nat
  BY <1>1, Layout DEF FieldsInv, FieldsTypeOK, WriterInv
<1>3. PICK c \in Nat : c = current /\ c \in 1..Len(ends) /\ c \in 1..(Len(ends) + 1)
  BY <1>2
<1>4. PICK field \in Field : field = fields[c]
  BY <1>2, <1>3, Layout
<1>5. PICK from \in Nat, to \in Nat : from = Start(c) /\ to = ends[c] /\ to <= Len(buffer)
  BY <1>3, Layout
<1>6. Written(buffer, field, from, to)
  BY <1>3, <1>4, <1>5 DEF FieldsInv, WriterInv
<1>7. Start(c + 1) = to
  <2>1. c + 1 # 1 /\ c + 1 - 1 = c
    BY <1>3
  <2> QED
    BY <2>1, <1>5 DEF Start
<1> QED
  BY <1>2, <1>3, <1>4, <1>5, <1>6, <1>7

\* read() returns the value of the field, and is behind it.
LEMMA ReadsInv ==
    ASSUME FieldsInv, pc \in Shown, current <= Len(fields), UNCHANGED <<writer, limit>>,
           low' \in 0..(Pow[Groups] - 1), count' \in 0..Groups, number' \in Numeric,
           NEW value, NEW size, Reads(value, size),
           value = fields[current].value, position + size = ends[current]
    PROVE  FieldsInv'
<1>1. PICK field \in Field, from \in Nat, to \in Nat, c \in Nat :
        /\ field = fields[current] /\ from = Start(current) /\ to = ends[current] /\ c = current
        /\ Start(c + 1) = to /\ c \in 1..Len(fields) /\ c + 1 \in 1..(Len(fields) + 1)
  BY FieldToRead
<1>2. /\ result' = <<field.value>> /\ position' = to /\ current' = c + 1 /\ pc' = "ready"
      /\ UNCHANGED <<buffer, fields, ends, limit>>
  BY <1>1 DEF Reads, writer
<1>3. Start(c + 1)' = to
  BY <1>1, <1>2 DEF Start
<1>4. limit = Len(buffer)
  BY DEF FieldsInv, ReaderInv, Shown
<1>5. c + 1 > 1 /\ c + 1 - 1 = c
  BY <1>1
<1>6. Start(current)' = to
  BY <1>2, <1>3 DEF Start
<1>7. ReaderInv'
  BY <1>1, <1>2, <1>4, <1>5, <1>6 DEF ReaderInv
<1>8. pc' \in Shown /\ position' \in Nat /\ current' \in 1..(Len(fields) + 1)
  BY <1>1, <1>2 DEF Shown
<1> QED
  BY <1>7, <1>8, ReaderMoves

\* What read() finds in the excerpt.
LEMMA InExcerpt ==
    ASSUME buffer \in Seq(Byte), NEW i \in 1..Len(buffer)
    PROVE  ByteAt(i) = buffer[i]
<1>1. DOMAIN buffer = 1..Len(buffer)
  BY LenProperties
<1> QED
  BY <1>1 DEF ByteAt

LEMMA BytesFound ==
    ASSUME buffer \in Seq(Byte), NEW s \in Seq(Byte), NEW from \in Nat,
           from + Len(s) <= Len(buffer), \A i \in 1..Len(s) : buffer[from + i] = s[i]
    PROVE  Bytes(from, Len(s)) = s
<1>1. PICK n \in Nat, b \in Nat : n = Len(s) /\ b = Len(buffer)
  BY LenProperties
<1>2. s = [i \in 1..n |-> s[i]]
  BY <1>1, LenProperties
<1>3. \A i \in 1..n : ByteAt(from + i) = s[i]
  <2>1. \A i \in 1..n : from + i \in 1..b
    BY <1>1
  <2> QED
    BY <2>1, <1>1, InExcerpt
<1> QED
  BY <1>1, <1>2, <1>3 DEF Bytes

LEMMA ReadRawInv ==
    ASSUME FieldsInv, ReadRaw
    PROVE  FieldsInv'
<1>1. PICK size : size = Len(fields[current].value)
  OBVIOUS
<1>2. /\ pc = "ready" /\ current <= Len(fields) /\ fields[current].kind = "raw"
      /\ Reads(Bytes(position, size), size) /\ UNCHANGED <<writer, limit, low, count, number>>
  BY <1>1 DEF ReadRaw, Reading
<1>3. PICK field \in Field, from \in Nat, to \in Nat :
        /\ field = fields[current] /\ from = Start(current) /\ to = ends[current]
        /\ Written(buffer, field, from, to) /\ to <= Len(buffer)
  BY <1>2, FieldToRead DEF Shown
<1>4. position = from
  BY <1>2, <1>3 DEF FieldsInv, ReaderInv
<1>5. PICK n \in Nat, s \in Seq(Byte) : s = field.value /\ n = Len(s) /\ n = size
  BY <1>1, <1>2, <1>3, FieldTypes
<1>6. to - n = from /\ \A i \in 1..n : buffer[from + i] = s[i]
  BY <1>2, <1>3, <1>5 DEF Written
<1>7. from + n = to
  BY <1>6
<1>8. Bytes(from, n) = s
  BY <1>3, <1>5, <1>6, <1>7, Layout, BytesFound
<1>9. low' \in 0..(Pow[Groups] - 1) /\ count' \in 0..Groups /\ number' \in Numeric
  BY <1>2 DEF FieldsInv, FieldsTypeOK, Numeric
<1> QED
  BY <1>2, <1>3, <1>4, <1>5, <1>7, <1>8, <1>9, ReadsInv DEF Shown

LEMMA ReadBooleanInv ==
    ASSUME FieldsInv, ReadBoolean
    PROVE  FieldsInv'
<1>1. PICK b : b = (ByteAt(position + 1) # 0)
  OBVIOUS
<1>2. /\ pc = "ready" /\ current <= Len(fields) /\ fields[current].kind = "boolean"
      /\ Reads(b, 1) /\ UNCHANGED <<writer, limit, low, count, number>>
  BY <1>1 DEF ReadBoolean, Reading
<1>3. PICK field \in Field, from \in Nat, to \in Nat :
        /\ field = fields[current] /\ from = Start(current) /\ to = ends[current]
        /\ Written(buffer, field, from, to) /\ to <= Len(buffer)
  BY <1>2, FieldToRead DEF Shown
<1>4. position = from
  BY <1>2, <1>3 DEF FieldsInv, ReaderInv
<1>5. to = from + 1 /\ buffer[to] = IF field.value THEN Yes ELSE 0
  BY <1>2, <1>3 DEF Written
<1>6. ByteAt(position + 1) = IF field.value THEN Yes ELSE 0
  <2>1. to \in 1..Len(buffer)
    BY <1>3, <1>5, Layout
  <2> QED
    BY <2>1, <1>4, <1>5, Layout, InExcerpt
<1>7. Yes # 0 /\ field.value \in BOOLEAN
  <2>1. Yes # 0
    BY FieldsAssumption
  <2> QED
    BY <2>1, <1>2, <1>3, FieldTypes
<1>8. b = field.value
  <2>1. CASE field.value = TRUE
    BY <2>1, <1>1, <1>6, <1>7
  <2>2. CASE field.value = FALSE
    BY <2>2, <1>1, <1>6, <1>7
  <2> QED
    BY <2>1, <2>2, <1>7
<1>9. low' \in 0..(Pow[Groups] - 1) /\ count' \in 0..Groups /\ number' \in Numeric
  BY <1>2 DEF FieldsInv, FieldsTypeOK, Numeric
<1> QED
  BY <1>2, <1>3, <1>4, <1>5, <1>8, <1>9, ReadsInv DEF Shown

LEMMA ReadStopBitInv ==
    ASSUME FieldsInv, ReadStopBit
    PROVE  FieldsInv'
<1>1. /\ pc = "ready" /\ pc' = "first" /\ current <= Len(fields) /\ HasNumber(fields[current])
      /\ UNCHANGED <<writer, limit, position, low, count, number, current, result>>
  BY DEF ReadStopBit, Reading, HasNumber, reader
<1>2. UNCHANGED <<buffer, fields, ends>> /\ Start(current)' = Start(current)
  BY <1>1 DEF writer, Start
<1>3. ReaderInv'
  BY <1>1, <1>2 DEF FieldsInv, ReaderInv, HasNumber
<1>4. /\ position' \in Nat /\ low' \in 0..(Pow[Groups] - 1) /\ count' \in 0..Groups
      /\ number' \in Numeric /\ current' \in 1..(Len(fields) + 1)
  BY <1>1 DEF FieldsInv, FieldsTypeOK, Numeric
<1> QED
  BY <1>1, <1>3, <1>4, ReaderMoves DEF Shown

\* The number v that stop_bit::read is reading, of a field with c characters.
NumberAt(field, from, body, v, c) ==
    /\ field = fields[current] /\ HasNumber(field) /\ v = NumberIn(field)
    /\ from = Start(current) /\ body = Body /\ Encoded(buffer, v, from, body)
    /\ c = CharsIn(field) /\ body + c = ends[current] /\ body + c <= Len(buffer)
    /\ field.kind = "chars" =>
         v = c /\ \A i \in 1..c : buffer[body + i] = field.value[i]
    /\ field.kind # "chars" => c = 0 /\ v = field.value

LEMMA NumberToRead ==
    ASSUME FieldsInv, pc \in {"first", "more", "take"}
    PROVE  \E field \in Field, from \in Nat, body \in Nat, v \in Numeric, c \in Nat :
             NumberAt(field, from, body, v, c)
<1>1. current <= Len(fields) /\ HasNumber(fields[current]) /\ pc \in Shown
  BY DEF FieldsInv, ReaderInv, Shown
<1>2. PICK field \in Field, from \in Nat, to \in Nat :
        /\ field = fields[current] /\ from = Start(current) /\ to = ends[current]
        /\ Written(buffer, field, from, to) /\ to <= Len(buffer)
  BY <1>1, FieldToRead
<1>3. PICK v \in Numeric, c \in Nat : v = NumberIn(field) /\ c = CharsIn(field)
  BY <1>1, <1>2, NumberRange
<1>4. PICK body \in Int : body = to - c /\ body = Body /\ body + c = to
  BY <1>2, <1>3 DEF Body
<1>5. ASSUME field.kind = "chars"
      PROVE  NumberAt(field, from, body, v, c) /\ body \in Nat
  <2>1. v = c /\ c = Len(field.value)
    BY <1>3, <1>5 DEF NumberIn, CharsIn
  <2>2. Encoded(buffer, v, from, body) /\ \A i \in 1..c : buffer[body + i] = field.value[i]
    BY <1>2, <1>4, <1>5, <2>1 DEF Written
  <2>3. body \in Nat
    <3>1. from + 1 <= body
      BY <2>2, ReadsFirst DEF FirstIs
    <3> QED
      BY <3>1
  <2> QED
    BY <1>1, <1>2, <1>3, <1>4, <1>5, <2>1, <2>2, <2>3 DEF NumberAt
<1>6. ASSUME field.kind # "chars"
      PROVE  NumberAt(field, from, body, v, c) /\ body \in Nat
  <2>1. c = 0 /\ v = field.value /\ field.kind = "stop_bit"
    BY <1>1, <1>2, <1>3, <1>6 DEF NumberIn, CharsIn, HasNumber
  <2>2. body = to
    BY <2>1, <1>4
  <2>3. Encoded(buffer, v, from, body)
    BY <1>2, <2>1, <2>2 DEF Written
  <2> QED
    BY <1>1, <1>2, <1>3, <1>4, <1>6, <2>1, <2>2, <2>3 DEF NumberAt
<1> QED
  BY <1>5, <1>6

\* A step within stop_bit::read.
LEMMA NumberMoves ==
    ASSUME FieldsInv, pc \in {"first", "more"}, UNCHANGED <<writer, limit, current, result>>,
           pc' \in {"more", "take"}, position' \in Nat, low' \in 0..(Pow[Groups] - 1),
           count' \in 0..Groups, number' \in Numeric,
           pc' = "more" =>
             /\ Half(NumberIn(fields[current]), Start(current), Body, count')
             /\ position' = Start(current) + count'
             /\ low' = Magnitude(NumberIn(fields[current])) % Pow[count'],
           pc' = "take" => number' = NumberIn(fields[current]) /\ position' = Body
    PROVE  FieldsInv'
<1>1. /\ UNCHANGED <<buffer, fields, ends>> /\ Start(current)' = Start(current) /\ Body' = Body
  BY DEF writer, Start, Body
<1>2. ReaderInv'
  BY <1>1 DEF FieldsInv, ReaderInv
<1>3. current' \in 1..(Len(fields) + 1)
  BY DEF FieldsInv, FieldsTypeOK
<1> QED
  BY <1>2, <1>3, ReaderMoves DEF Shown

LEMMA DigitsRange ==
    ASSUME NEW m \in Nat, NEW k \in 0..Groups
    PROVE  m % Pow[k] \in 0..(Pow[Groups] - 1)
<1>1. Groups \in 0..Groups
  BY Powers
<1>2. PICK p \in Nat \ {0}, q \in Nat \ {0} : p = Pow[k] /\ q = Pow[Groups]
  BY <1>1, Powers
<1>3. p <= q
  BY <1>1, <1>2, PowGrows, Powers
<1>4. m % p \in 0..(p - 1)
  BY DivMod
<1>5. m % p \in 0..(q - 1)
  BY <1>3, <1>4
<1> QED
  BY <1>2, <1>5

LEMMA FirstByteInv ==
    ASSUME FieldsInv, FirstByte
    PROVE  FieldsInv'
<1>1. PICK x : x = ByteAt(position + 1)
  OBVIOUS
<1>2. /\ pc = "first" /\ position' = position + 1 /\ UNCHANGED <<writer, limit, current, result>>
      /\ \/ x < Base /\ number' = x /\ low' = 0 /\ count' = 0 /\ pc' = "take"
         \/ x >= Base /\ low' = SevenBits(x) /\ count' = 1 /\ pc' = "more" /\ number' = number
  BY <1>1 DEF FirstByte, ReadsNumber
<1>3. PICK from \in Nat, body \in Nat, v \in Numeric :
        /\ v = NumberIn(fields[current]) /\ from = Start(current) /\ body = Body
        /\ Encoded(buffer, v, from, body) /\ body <= Len(buffer)
  <2>1. PICK field \in Field, from \in Nat, body \in Nat, v \in Numeric, c \in Nat :
          NumberAt(field, from, body, v, c)
    BY <1>2, NumberToRead
  <2>2. body <= Len(buffer)
    BY <2>1, Layout DEF NumberAt
  <2> QED
    BY <2>1, <2>2 DEF NumberAt
<1>4. position = from
  BY <1>2, <1>3 DEF FieldsInv, ReaderInv
<1>5. FirstIs(buffer[from + 1], v, from, body)
  <2>1. PICK to \in Int : to = body
    OBVIOUS
  <2>2. FirstIs(buffer[from + 1], v, from, to)
    BY <2>1, <1>3, ReadsFirst
  <2> QED
    BY <2>1, <2>2
<1>6. /\ x \in Byte
      /\ x < Base => v = x /\ body = from + 1
      /\ x >= Base => Half(v, from, body, 1) /\ SevenBits(x) = Magnitude(v) % Pow[1]
  <2>1. from + 1 \in 1..Len(buffer)
    BY <1>3, <1>5, Layout DEF FirstIs
  <2>2. x = buffer[from + 1]
    BY <2>1, <1>1, <1>4, Layout, InExcerpt
  <2> QED
    BY <2>2, <1>5 DEF FirstIs
<1>7. position' = from + 1
  BY <1>2, <1>4
<1>8. CASE x < Base
  <2>1. /\ number' = x /\ low' = 0 /\ count' = 0 /\ pc' = "take"
    <3>1. ~ x >= Base
      BY <1>6, <1>8, Powers DEF Byte
    <3> QED
      BY <3>1, <1>2
  <2>2. v = x /\ position' = body
    BY <1>6, <1>7, <1>8
  <2>3. low' \in 0..(Pow[Groups] - 1) /\ count' \in 0..Groups
    <3>1. Groups \in 0..Groups /\ 0 \in 0..Groups
      BY Powers
    <3>2. PICK p \in Nat : p = Pow[Groups] /\ p > 0
      BY <3>1, Powers
    <3>3. 0 \in 0..(p - 1)
      BY <3>2
    <3> QED
      BY <3>1, <3>2, <3>3, <2>1
  <2>4. pc' = "take" /\ number' = v /\ number' \in Numeric
    BY <2>1, <2>2, <1>3
  <2> QED
    BY <2>2, <2>3, <2>4, <1>2, <1>3, NumberMoves
<1>9. CASE x >= Base
  <2>1. low' = SevenBits(x) /\ count' = 1 /\ pc' = "more" /\ number' = number
    <3>1. ~ x < Base
      BY <1>6, <1>9, Powers DEF Byte
    <3> QED
      BY <3>1, <1>2
  <2>2. 1 \in 0..Groups /\ Magnitude(v) \in Nat
    BY Powers, MagnitudeRange
  <2>3. low' = Magnitude(v) % Pow[1] /\ low' \in 0..(Pow[Groups] - 1)
    BY <2>1, <2>2, <1>6, <1>9, DigitsRange
  <2>4. number' \in Numeric
    BY <2>1 DEF FieldsInv, FieldsTypeOK, Numeric
  <2> QED
    BY <2>1, <2>2, <2>3, <2>4, <1>2, <1>3, <1>6, <1>7, <1>9, NumberMoves
<1> QED
  <2>1. x < Base \/ x >= Base
    BY <1>2
  <2> QED
    BY <2>1, <1>8, <1>9

\* What stop_bit::read has, and what the next byte is.
HalfAt(x, from, body, v, k, m) ==
    /\ v = NumberIn(fields[current]) /\ from = Start(current) /\ body = Body
    /\ k = count /\ m = Magnitude(v) /\ low = m % Pow[k] /\ position = from + k
    /\ from + k + 1 <= body /\ body <= Len(buffer) /\ x \in Byte
    /\ x >= Base =>
         /\ Half(v, from, body, k + 1) /\ k + 1 <= Groups
         /\ (m % Pow[k]) + SevenBits(x) * Pow[k] = m % Pow[k + 1]
    /\ x < Base =>
         /\ body = from + k + 1
         /\ x # 0 => PositiveFits(k) /\ (m % Pow[k]) + x * Pow[k] = v
         /\ x = 0 => NegativeFits(k) /\ Complement(m % Pow[k]) = v

LEMMA HalfRead ==
    ASSUME FieldsInv, pc = "more", NEW x, x = ByteAt(position + 1)
    PROVE  \E from \in Nat, body \in Nat, v \in Numeric, k \in 1..Groups, m \in Nat :
             HalfAt(x, from, body, v, k, m)
<1>1. PICK field \in Field, from \in Nat, body \in Nat, v \in Numeric, c \in Nat :
        NumberAt(field, from, body, v, c)
  BY NumberToRead
<1>2. /\ v = NumberIn(fields[current]) /\ from = Start(current) /\ body = Body
      /\ Encoded(buffer, v, from, body) /\ body + c <= Len(buffer)
  BY <1>1 DEF NumberAt
<1>3. body <= Len(buffer)
  BY <1>2, Layout
<1>4. /\ Half(v, from, body, count) /\ position = from + count
      /\ low = Magnitude(v) % Pow[count]
  BY <1>2 DEF FieldsInv, ReaderInv
<1>5. PICK m \in Nat : m = Magnitude(v)
  BY MagnitudeRange
<1>6. NextIs(buffer[from + count + 1], v, from, body, count)
  <2>1. PICK to \in Int : to = body
    OBVIOUS
  <2>2. NextIs(buffer[from + count + 1], v, from, to, count)
    BY <2>1, <1>2, <1>4, ReadsOn
  <2> QED
    BY <2>1, <2>2
<1>7. PICK k \in 1..Groups : k = count /\ k \in Nat /\ from + k + 1 <= body
  BY <1>6 DEF NextIs
<1>8. x = buffer[from + k + 1]
  <2>1. from + k + 1 \in 1..Len(buffer) /\ position + 1 = from + k + 1
    BY <1>3, <1>4, <1>7, Layout
  <2> QED
    BY <2>1, Layout, InExcerpt
<1>9. NextIs(x, v, from, body, k)
  BY <1>6, <1>7, <1>8
<1>10. HalfAt(x, from, body, v, k, m)
  BY <1>2, <1>3, <1>4, <1>5, <1>7, <1>9 DEF HalfAt, NextIs
<1> QED
  BY <1>10

LEMMA MoreBytesInv ==
    ASSUME FieldsInv, MoreBytes
    PROVE  FieldsInv'
<1>1. PICK x : x = ByteAt(position + 1)
  OBVIOUS
<1>2. /\ pc = "more" /\ x >= Base /\ position' = position + 1
      /\ low' = low + SevenBits(x) * Pow[count] /\ count' = count + 1
      /\ pc' = "more" /\ number' = number /\ UNCHANGED <<writer, limit, current, result>>
  BY <1>1 DEF MoreBytes
<1>3. PICK from \in Nat, body \in Nat, v \in Numeric, k \in 1..Groups, m \in Nat :
        HalfAt(x, from, body, v, k, m)
  BY <1>1, <1>2, HalfRead
<1>4. /\ v = NumberIn(fields[current]) /\ from = Start(current) /\ body = Body
      /\ k = count /\ m = Magnitude(v) /\ low = m % Pow[k] /\ position = from + k
      /\ Half(v, from, body, k + 1) /\ k + 1 <= Groups
      /\ (m % Pow[k]) + SevenBits(x) * Pow[k] = m % Pow[k + 1]
  BY <1>3, <1>2 DEF HalfAt
<1>5. k \in Nat /\ k + 1 \in 0..Groups
  BY <1>4, Powers
<1>6. count' = k + 1 /\ low' = m % Pow[k + 1] /\ low' \in 0..(Pow[Groups] - 1)
  BY <1>2, <1>4, <1>5, DigitsRange
<1>7. position' = from + (k + 1) /\ position' \in Nat
  BY <1>2, <1>4, <1>5
<1>8. number' \in Numeric
  BY <1>2 DEF FieldsInv, FieldsTypeOK, Numeric
<1> QED
  BY <1>2, <1>4, <1>5, <1>6, <1>7, <1>8, NumberMoves

LEMMA LastByteInv ==
    ASSUME FieldsInv, LastByte
    PROVE  FieldsInv'
<1>1. PICK x : x = ByteAt(position + 1)
  OBVIOUS
<1>2. /\ pc = "more" /\ x < Base /\ position' = position + 1
      /\ \/ x # 0 /\ PositiveFits(count) /\ ReadsNumber(low + x * Pow[count])
         \/ x = 0 /\ NegativeFits(count) /\ ReadsNumber(Complement(low))
         \/ IF x # 0 THEN ~ PositiveFits(count) ELSE ~ NegativeFits(count)
      /\ UNCHANGED <<writer, limit, current, result>>
  BY <1>1 DEF LastByte
<1>3. PICK from \in Nat, body \in Nat, v \in Numeric, k \in 1..Groups, m \in Nat :
        HalfAt(x, from, body, v, k, m)
  BY <1>1, <1>2, HalfRead
<1>4. /\ v = NumberIn(fields[current]) /\ from = Start(current) /\ body = Body
      /\ k = count /\ m = Magnitude(v) /\ low = m % Pow[k] /\ position = from + k
      /\ body = from + k + 1
      /\ x # 0 => PositiveFits(k) /\ (m % Pow[k]) + x * Pow[k] = v
      /\ x = 0 => NegativeFits(k) /\ Complement(m % Pow[k]) = v
  BY <1>3, <1>2 DEF HalfAt
<1>5. ReadsNumber(v)
  <2>1. CASE x # 0
    <3>1. PositiveFits(count) /\ low + x * Pow[count] = v
      BY <2>1, <1>4
    <3> QED
      BY <2>1, <3>1, <1>2
  <2>2. CASE x = 0
    <3>1. NegativeFits(count) /\ Complement(low) = v
      BY <2>2, <1>4
    <3> QED
      BY <2>2, <3>1, <1>2
  <2> QED
    BY <2>1, <2>2
<1>6. number' = v /\ low' = 0 /\ count' = 0 /\ pc' = "take"
  BY <1>5 DEF ReadsNumber
<1>7. position' = body
  BY <1>2, <1>4
<1>8. low' \in 0..(Pow[Groups] - 1) /\ count' \in 0..Groups
  <2>1. Groups \in 0..Groups /\ 0 \in 0..Groups
    BY Powers
  <2>2. PICK p \in Nat : p = Pow[Groups] /\ p > 0
    BY <2>1, Powers
  <2>3. 0 \in 0..(p - 1)
    BY <2>2
  <2> QED
    BY <2>1, <2>2, <2>3, <1>6
<1> QED
  BY <1>2, <1>4, <1>6, <1>7, <1>8, NumberMoves

LEMMA TakeInv ==
    ASSUME FieldsInv, Take
    PROVE  FieldsInv'
<1>1. /\ pc = "take" /\ number' = 0 /\ UNCHANGED <<writer, limit, low, count>>
      /\ fields[current].kind = "chars" => Reads(Bytes(position, number), number)
      /\ fields[current].kind # "chars" => Reads(number, 0)
  BY DEF Take
<1>2. PICK field \in Field, from \in Nat, body \in Nat, v \in Numeric, c \in Nat :
        NumberAt(field, from, body, v, c)
  BY <1>1, NumberToRead
<1>3. /\ field = fields[current] /\ HasNumber(field) /\ v = NumberIn(field)
      /\ from = Start(current) /\ body = Body /\ c = CharsIn(field)
      /\ body + c = ends[current] /\ body + c <= Len(buffer)
      /\ field.kind = "chars" =>
           v = c /\ \A i \in 1..c : buffer[body + i] = field.value[i]
      /\ field.kind # "chars" => c = 0 /\ v = field.value
  BY <1>2 DEF NumberAt
<1>4. number = v /\ position = body /\ current <= Len(fields)
  BY <1>1, <1>3 DEF FieldsInv, ReaderInv
<1>5. low' \in 0..(Pow[Groups] - 1) /\ count' \in 0..Groups /\ number' \in Numeric
  <2>1. Groups \in 0..Groups
    BY Powers
  <2>2. PICK p \in Nat : p = Pow[Groups] /\ p > 0
    BY <2>1, Powers
  <2>3. 0 \in (-p)..(p - 1)
    BY <2>2
  <2> QED
    BY <2>2, <2>3, <1>1 DEF FieldsInv, FieldsTypeOK, Numeric
<1>6. CASE field.kind = "chars"
  <2>1. PICK s \in Seq(Byte) : s = field.value /\ c = Len(s)
    BY <1>3, <1>6, FieldTypes DEF CharsIn
  <2>2. Bytes(body, c) = s
    BY <2>1, <1>3, <1>6, Layout, BytesFound
  <2>3. Reads(s, c)
    BY <2>2, <1>1, <1>3, <1>4, <1>6
  <2> QED
    BY <2>1, <2>3, <1>1, <1>3, <1>4, <1>5, ReadsInv DEF Shown
<1>7. CASE field.kind # "chars"
  <2>1. Reads(v, 0) /\ v = field.value
    BY <1>1, <1>3, <1>4, <1>7
  <2>2. position + 0 = ends[current]
    BY <1>3, <1>4, <1>7
  <2> QED
    BY <2>1, <2>2, <1>1, <1>3, <1>4, <1>5, ReadsInv DEF Shown
<1> QED
  BY <1>6, <1>7

LEMMA RepositionInv ==
    ASSUME FieldsInv, NEW k \in 1..(Len(fields) + 1), Reposition(k)
    PROVE  FieldsInv'
<1>1. /\ pc = "ready" /\ pc' = "ready" /\ position' = Start(k) /\ current' = k
      /\ result' = NoResult /\ UNCHANGED <<writer, limit, low, count, number>>
  BY DEF Reposition
<1>2. UNCHANGED <<buffer, fields, ends>> /\ Start(current)' = Start(k)
  BY <1>1 DEF writer, Start
<1>3. ReaderInv'
  BY <1>1, <1>2 DEF FieldsInv, ReaderInv
<1>4. Start(k) \in Nat
  <2>1. Len(fields) = Len(ends)
    BY <1>1 DEF FieldsInv, WriterInv, InNumber, Layout
  <2> QED
    BY <2>1, Layout
<1>5. /\ low' \in 0..(Pow[Groups] - 1) /\ count' \in 0..Groups /\ number' \in Numeric
  BY <1>1 DEF FieldsInv, FieldsTypeOK, Numeric
<1> QED
  BY <1>1, <1>3, <1>4, <1>5, ReaderMoves DEF Shown

-----------------------------------------------------------------------------
(* The theorems.                                                           *)

LEMMA InitFieldsInv ==
    ASSUME Init
    PROVE  FieldsInv
<1>1. /\ pc = "open" /\ buffer = <<>> /\ rest = 0 /\ neg = FALSE /\ length = 0
      /\ limit = 0 /\ position = 0 /\ low = 0 /\ count = 0 /\ number = 0
      /\ fields = <<>> /\ ends = <<>> /\ current = 1 /\ result = NoResult
  BY DEF Init
<1>2. /\ buffer \in Seq(Byte) /\ Len(buffer) = 0 /\ ends \in Seq(Nat) /\ Len(ends) = 0
      /\ fields \in Seq(Field) /\ Len(fields) = 0
  BY <1>1
<1>3. FieldsTypeOK
  <2>1. Groups \in 0..Groups
    BY Powers
  <2>2. PICK p \in Nat : p = Pow[Groups] /\ p > 0
    BY <2>1, Powers
  <2>3. 0 \in 0..(p - 1) /\ 0 \in (-p)..(p - 1) /\ 0 \in 0..Groups /\ MaxFields >= 0
    BY <2>2, Powers, FieldsAssumption
  <2>4. 0 \in 0..(Pow[Groups] - 1) /\ 0 \in (-Pow[Groups])..(Pow[Groups] - 1)
    BY <2>2, <2>3
  <2>5. /\ Len(fields) <= MaxFields /\ Len(ends) <= Len(fields)
        /\ current \in 1..(Len(fields) + 1)
    BY <1>1, <1>2, <2>3
  <2>6. rest \in 0..(Pow[Groups] - 1) /\ low \in 0..(Pow[Groups] - 1) /\ count \in 0..Groups
    BY <1>1, <2>3, <2>4
  <2>7. number \in (-Pow[Groups])..(Pow[Groups] - 1)
    BY <1>1, <2>4
  <2>8. pc \in Places
    BY <1>1 DEF Places
  <2>9. neg \in BOOLEAN
    BY <1>1
  <2>10. length \in Int /\ limit \in Nat /\ position \in Nat
    BY <1>1
  <2> QED
    BY <1>2, <2>5, <2>6, <2>7, <2>8, <2>9, <2>10 DEF FieldsTypeOK
<1>4. WriterInv
  <2>1. Start(Len(ends) + 1) = 0 /\ \A k \in 1..0 : FALSE
    BY <1>2 DEF Start
  <2> QED
    BY <1>1, <1>2, <2>1 DEF WriterInv, InNumber
<1>5. ReaderInv
  BY <1>1 DEF ReaderInv
<1> QED
  BY <1>3, <1>4, <1>5 DEF FieldsInv

LEMMA StutterFieldsInv ==
    ASSUME FieldsInv, UNCHANGED vars
    PROVE  FieldsInv'
<1>1. /\ UNCHANGED <<pc, buffer, rest, neg, length, fields, ends>>
      /\ UNCHANGED <<limit, position, low, count, number, current, result>>
  BY DEF vars, writer, reader
<1>2. (\A k : Start(k)' = Start(k)) /\ Body' = Body /\ InNumber' = InNumber
  BY <1>1 DEF Start, Body, InNumber
<1>3. WriterInv'
  BY <1>1, <1>2 DEF FieldsInv, WriterInv
<1>4. ReaderInv'
  BY <1>1, <1>2 DEF FieldsInv, ReaderInv
<1>5. FieldsTypeOK'
  BY <1>1 DEF FieldsInv, FieldsTypeOK
<1> QED
  BY <1>3, <1>4, <1>5 DEF FieldsInv

LEMMA NextFieldsInv ==
    ASSUME FieldsInv, [Next]_vars
    PROVE  FieldsInv'
<1>1. ASSUME NEW v \in Numbers, WriteNumber(v)
      PROVE  FieldsInv'
  BY <1>1, WriteNumberInv
<1>2. ASSUME NEW s \in Strings, WriteChars(s)
      PROVE  FieldsInv'
  BY <1>2, WriteCharsInv
<1>3. ASSUME NEW value \in Values, WriteRaw(value)
      PROVE  FieldsInv'
  BY <1>3, WriteRawInv
<1>4. ASSUME NEW b \in BOOLEAN, WriteBoolean(b)
      PROVE  FieldsInv'
  BY <1>4, WriteBooleanInv
<1>5. CASE Group
  BY <1>5, GroupInv
<1>6. CASE FinalGroup
  BY <1>6, FinalGroupInv
<1>7. CASE WritePayload
  BY <1>7, WritePayloadInv
<1>8. CASE Finish
  BY <1>8, FinishInv
<1>9. CASE Show
  BY <1>9, ShowInv
<1>10. CASE ReadRaw
  BY <1>10, ReadRawInv
<1>11. CASE ReadBoolean
  BY <1>11, ReadBooleanInv
<1>12. CASE ReadStopBit
  BY <1>12, ReadStopBitInv
<1>13. CASE FirstByte
  BY <1>13, FirstByteInv
<1>14. CASE MoreBytes
  BY <1>14, MoreBytesInv
<1>15. CASE LastByte
  BY <1>15, LastByteInv
<1>16. CASE Take
  BY <1>16, TakeInv
<1>17. ASSUME NEW k \in 1..(Len(fields) + 1), Reposition(k)
       PROVE  FieldsInv'
  BY <1>17, RepositionInv
<1>18. CASE UNCHANGED vars
  BY <1>18, StutterFieldsInv
<1> QED
  BY <1>1, <1>2, <1>3, <1>4, <1>5, <1>6, <1>7, <1>8, <1>9, <1>10, <1>11, <1>12, <1>13, <1>14,
     <1>15, <1>16, <1>17, <1>18 DEF Next

(* The invariant: each field that is complete has its bytes, the one that  *)
(* stop_bit::write is at has the digits its loop has been through, and     *)
(* stop_bit::read has the digits of the bytes behind its position.         *)
THEOREM FieldsInvariant == Spec => []FieldsInv
<1>1. Init => FieldsInv
  BY InitFieldsInv
<1>2. FieldsInv /\ [Next]_vars => FieldsInv'
  BY NextFieldsInv
<1> QED
  BY <1>1, <1>2, PTL DEF Spec

(* Types: in particular what stop_bit::read has gathered never needs more  *)
(* than the bits of a long, whatever the numbers.                          *)
THEOREM FieldsTypeCorrect == Spec => []FieldsTypeOK
<1>1. FieldsInv => FieldsTypeOK
  BY DEF FieldsInv
<1> QED
  BY <1>1, FieldsInvariant, PTL

(* Whatever is written, each complete field has the stop-bit format, with  *)
(* no group too many, and the fields are one behind the other.             *)
THEOREM FieldsWellEncoded == Spec => []WellEncoded
<1>1. FieldsInv => WellEncoded
  BY DEF FieldsInv, WriterInv, WellEncoded
<1> QED
  BY <1>1, FieldsInvariant, PTL

(* A tailer reads every field as it was written, from whichever it begins. *)
THEOREM FieldsReadBack == Spec => []ReadsBack
<1>1. FieldsInv => ReadsBack
  BY DEF FieldsInv, ReaderInv, ReadsBack
<1> QED
  BY <1>1, FieldsInvariant, PTL

LEMMA InvStaysWithin ==
    ASSUME FieldsInv
    PROVE  StaysWithin
<1>1. Len(buffer) \in Nat /\ Len(ends) \in Nat /\ Len(fields) \in Nat /\ position \in Nat
  BY Layout DEF FieldsInv, FieldsTypeOK
<1>2. pc = "ready" => position = Start(current)
  BY DEF FieldsInv, ReaderInv
<1>3. CASE pc \in {"open", "group", "payload", "finished"}
  BY <1>2, <1>3 DEF FieldsInv, ReaderInv, StaysWithin
<1>4. CASE pc \in {"ready", "first"}
  <2>1. Len(fields) = Len(ends) /\ current \in 1..(Len(fields) + 1)
    BY <1>4 DEF FieldsInv, FieldsTypeOK, WriterInv, InNumber
  <2>2. Start(current) <= Len(buffer)
    BY <2>1, Layout
  <2>3. position = Start(current) /\ limit = Len(buffer)
    BY <1>4 DEF FieldsInv, ReaderInv
  <2> QED
    BY <2>2, <2>3, <1>2 DEF StaysWithin
<1>5. CASE pc = "more"
  <2>1. PICK from \in Nat, body \in Nat, k \in 1..Groups :
          position = from + k /\ from + k + 1 <= body /\ body <= Len(buffer)
    <3>1. PICK x : x = ByteAt(position + 1)
      OBVIOUS
    <3>2. PICK from \in Nat, body \in Nat, v \in Numeric, k \in 1..Groups, m \in Nat :
            HalfAt(x, from, body, v, k, m)
      BY <3>1, <1>5, HalfRead
    <3> QED
      BY <3>2 DEF HalfAt
  <2>2. limit = Len(buffer) /\ k \in Nat
    BY <1>5 DEF FieldsInv, ReaderInv
  <2> QED
    BY <2>1, <2>2, <1>1, <1>5 DEF StaysWithin
<1>6. CASE pc = "take"
  <2>1. PICK body \in Nat, c \in Nat : body = Body /\ body + c <= Len(buffer)
    <3>1. PICK field \in Field, from \in Nat, body \in Nat, v \in Numeric, c \in Nat :
            NumberAt(field, from, body, v, c)
      BY <1>6, NumberToRead
    <3> QED
      BY <3>1 DEF NumberAt
  <2>2. position = Body /\ limit = Len(buffer)
    BY <1>6 DEF FieldsInv, ReaderInv
  <2> QED
    BY <2>1, <2>2, <1>1, <1>6 DEF StaysWithin
<1> QED
  <2>1. pc \in Places /\ pc # "thrown"
    BY DEF FieldsInv, FieldsTypeOK, ReaderInv
  <2> QED
    BY <2>1, <1>3, <1>4, <1>5, <1>6 DEF Places

(* The tailer is at the beginning of a field between its calls, and no     *)
(* call leaves the excerpt.                                                *)
THEOREM FieldsStayWithin == Spec => []StaysWithin
<1>1. FieldsInv => StaysWithin
  BY InvStaysWithin
<1> QED
  BY <1>1, FieldsInvariant, PTL

(* stop_bit::read takes every number that stop_bit::write has written: the *)
(* bounds on its count are never hit.                                      *)
THEOREM FieldsNeverThrow == Spec => []NeverThrows
<1>1. FieldsInv => NeverThrows
  BY DEF FieldsInv, ReaderInv, NeverThrows
<1> QED
  BY <1>1, FieldsInvariant, PTL
=============================================================================
