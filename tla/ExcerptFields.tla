---------------------------- MODULE ExcerptFields ----------------------------
(***************************************************************************)
(* The contents of an excerpt.  An appender writes fields one behind the   *)
(* other: plain values, booleans, stop-bit numbers and strings, which are  *)
(* a stop-bit length and that many bytes.  After finish() a tailer shows   *)
(* the excerpt and reads fields of the same types, from the beginning or   *)
(* from a place position() has put it at.                                  *)
(*                                                                         *)
(* stop_bit::write and stop_bit::read are loops over the groups of seven   *)
(* bits of a number; one step of the model is one turn of a loop.  A byte  *)
(* is a number below 2 * Base, and the stop bit is set from Base on.       *)
(***************************************************************************)
EXTENDS Integers, Sequences

CONSTANTS
    Base,       \* 128: the values of seven bits
    Groups,     \* 9: the groups of seven bits in a 64-bit integer, sign apart
    Pow,        \* Pow[k] is the k-th power of Base
    Yes,        \* the byte 'Y'
    Numbers, Strings, Values,   \* what callers write: integers, strings and
                                \* the bytes of plain values
    MaxFields   \* bound on the fields of an excerpt

Byte == 0..(2 * Base - 1)

ASSUME FieldsAssumption ==
    /\ Base \in Nat /\ Base > 1
    /\ Groups \in Nat /\ Groups > 1
    /\ Pow \in [0..Groups -> Nat]
    /\ Pow[0] = 1 /\ \A k \in 0..(Groups - 1) : Pow[k + 1] = Base * Pow[k]
    /\ Yes \in 1..(Base - 1)
    /\ Numbers \subseteq (-Pow[Groups])..(Pow[Groups] - 1)
    /\ Strings \subseteq Seq(Byte) /\ \A s \in Strings : Len(s) < Pow[Groups]
    /\ Values \subseteq Seq(Byte)
    /\ MaxFields \in Nat

VARIABLES
    pc,       \* where the program is, see Places
    buffer,   \* the bytes from data() to the appender's position()
    rest,     \* value, in stop_bit::write
    neg,      \* neg, in stop_bit::write
    length,   \* the length word in front of the excerpt, zero before finish()
    limit,    \* the tailer's m_limit
    position, \* the tailer's m_position
    low,      \* l, in stop_bit::read
    count,    \* count, in stop_bit::read, in groups
    number,   \* what stop_bit::read returned
    fields,   \* ghost: the fields that have been written, and the one that is
    ends,     \* ghost: the position behind each of them
    current,  \* ghost: the number of the field to be read
    result    \* ghost: <<what the last read() returned>>, of field current - 1

writer == <<buffer, rest, neg, length, fields, ends>>
reader == <<limit, position, low, count, number, current, result>>
vars   == <<pc, writer, reader>>

(* "open": the appender has an excerpt; "group", "payload": in the loop of *)
(* stop_bit::write, and behind it; "finished"; "ready": a tailer shows the *)
(* excerpt; "first", "more", "take": in front of stop_bit::read, in its    *)
(* loop, and behind it; "thrown": it has thrown.                           *)
Places == {"open", "group", "payload", "finished",
           "ready", "first", "more", "take", "thrown"}

NoResult == <<>>

Init ==
    /\ pc = "open"
    /\ buffer = <<>> /\ rest = 0 /\ neg = FALSE
    /\ length = 0
    /\ limit = 0 /\ position = 0
    /\ low = 0 /\ count = 0 /\ number = 0
    /\ fields = <<>> /\ ends = <<>>
    /\ current = 1 /\ result = NoResult

-----------------------------------------------------------------------------
\* The field begins; the formatter is called with it.
Begins(kind, value) ==
    /\ pc = "open" /\ Len(fields) < MaxFields
    /\ fields' = Append(fields, [kind |-> kind, value |-> value])
    /\ UNCHANGED <<length, reader>>

\* A field of fixed size: its bytes are copied.
Copies(bytes) ==
    /\ buffer' = buffer \o bytes
    /\ ends' = Append(ends, Len(buffer'))
    /\ UNCHANGED <<pc, rest, neg>>

\* write(val), writers::raw, writers::open_hft_boolean
WriteRaw(value) == Begins("raw", value) /\ Copies(value)
WriteBoolean(b) == Begins("boolean", b) /\ Copies(<<IF b THEN Yes ELSE 0>>)

\* stop_bit::write as far as its loop: numbers of one and of two bytes are
\* done at once, a negative number is complemented.
TwoBytesAtMost(v) == v \in 0..(Base * Base)   \* mutant
TwoBytes(v) == v \in 0..(Base * Base - 1)
Negated(v) == - v          \* mutant
Complement(v) == - v - 1
Encodes(v) ==
    /\ UNCHANGED ends
    /\ \/ /\ v \in 0..(Base - 1)
          /\ buffer' = buffer \o <<v>>
          /\ pc' = "payload" /\ UNCHANGED <<rest, neg>>
       \/ /\ v \notin 0..(Base - 1) /\ TwoBytes(v)
          /\ buffer' = buffer \o <<Base + (v % Base), v \div Base>>
          /\ pc' = "payload" /\ UNCHANGED <<rest, neg>>
       \/ /\ ~ TwoBytes(v)
          /\ rest' = IF v < 0 THEN Complement(v) ELSE v
          /\ neg' = (v < 0)
          /\ pc' = "group" /\ UNCHANGED buffer

\* write(val, stop_bit::write); writers::chars
WriteNumber(v) == Begins("stop_bit", v) /\ Encodes(v)
WriteChars(s)  == Begins("chars", s) /\ Encodes(Len(s))

\* One turn of the loop, and what follows it.
Group ==
    /\ pc = "group" /\ rest >= Base
    /\ buffer' = Append(buffer, Base + (rest % Base))
    /\ rest' = rest \div Base
    /\ UNCHANGED <<pc, neg, length, fields, ends, reader>>
EndsWithoutZero(r, negative) == IF negative THEN <<Base + r>> ELSE <<r>>   \* mutant
FinalBytes(r, negative) == IF negative THEN <<Base + r, 0>> ELSE <<r>>
FinalGroup ==
    /\ pc = "group" /\ rest < Base
    /\ buffer' = buffer \o FinalBytes(rest, neg)
    /\ rest' = 0 /\ neg' = FALSE     \* locals of a call that is over
    /\ pc' = "payload"
    /\ UNCHANGED <<length, fields, ends, reader>>

\* The characters of a string follow its length; a number is complete.
Payload(field) == IF field.kind = "chars" THEN field.value ELSE <<>>
WritePayload ==
    /\ pc = "payload"
    /\ buffer' = buffer \o Payload(fields[Len(fields)])
    /\ ends' = Append(ends, Len(buffer'))
    /\ pc' = "open"
    /\ UNCHANGED <<rest, neg, length, fields, reader>>

\* finish() stores the complement of the length: not zero even when empty.
Finish ==
    /\ pc = "open"
    /\ length' = Complement(Len(buffer))
    /\ pc' = "finished"
    /\ UNCHANGED <<buffer, rest, neg, fields, ends, reader>>

-----------------------------------------------------------------------------
\* index() of a tailer ends: the buffer goes from the first byte to the length.
Show ==
    /\ pc = "finished" /\ length # 0
    /\ position' = 0
    /\ limit' = Complement(length)
    /\ pc' = "ready"
    /\ UNCHANGED <<writer, low, count, number, current, result>>

\* Bytes behind the excerpt: the file is zero there.
ByteAt(i) == IF i \in DOMAIN buffer THEN buffer[i] ELSE 0

Start(k) == IF k = 1 THEN 0 ELSE ends[k - 1]
Reads(value, size) ==
    /\ result' = <<value>>
    /\ position' = position + size
    /\ current' = current + 1
    /\ pc' = "ready"

Bytes(from, n) == [i \in 1..n |-> ByteAt(from + i)]
Reading(kind) ==
    /\ pc = "ready" /\ current <= Len(fields)
    /\ fields[current].kind = kind

\* read<T>(), readers::raw: as many bytes as T has
ReadRaw ==
    LET size == Len(fields[current].value)
    IN  /\ Reading("raw")
        /\ Reads(Bytes(position, size), size)
        /\ UNCHANGED <<writer, limit, low, count, number>>
\* readers::open_hft_boolean: any byte but zero is true
ReadBoolean ==
    /\ Reading("boolean")
    /\ Reads(ByteAt(position + 1) # 0, 1)
    /\ UNCHANGED <<writer, limit, low, count, number>>

\* read(stop_bit::read); readers::chars
ReadStopBit ==
    /\ Reading("stop_bit") \/ Reading("chars")
    /\ pc' = "first"
    /\ UNCHANGED <<writer, reader>>

\* stop_bit::read is over: its locals are gone.
ReadsNumber(n) ==
    /\ number' = n
    /\ low' = 0 /\ count' = 0
    /\ pc' = "take"

AllBits(b) == b       \* mutant: the stop bit is not masked
SevenBits(b) == b - Base

\* The first byte: without a stop bit it is the number, else seven of its bits.
FirstByte ==
    LET b == ByteAt(position + 1)
    IN  /\ pc = "first"
        /\ position' = position + 1
        /\ \/ b < Base /\ ReadsNumber(b)
           \/ /\ b >= Base
              /\ low' = SevenBits(b) /\ count' = 1 /\ pc' = "more"
              /\ UNCHANGED number
        /\ UNCHANGED <<writer, limit, current, result>>

\* One turn of the loop: a byte with a stop bit.  The bits of the groups do
\* not overlap, so that | is a sum.
MoreBytes ==
    LET b == ByteAt(position + 1)
    IN  /\ pc = "more" /\ b >= Base
        /\ count <= Groups           \* a longer number would shift out of l
        /\ position' = position + 1
        /\ low' = low + SevenBits(b) * Pow[count]
        /\ count' = count + 1
        /\ UNCHANGED <<pc, writer, limit, number, current, result>>

\* The last byte: zero ends a negative number.
PositiveBelow(k) == k < Groups - 1     \* mutant
PositiveFits(k) == k <= Groups - 1     \* ! (count > 56)
NegativeFits(k) == k <= Groups         \* ! (count > 63)
LastByte ==
    LET b == ByteAt(position + 1)
    IN  /\ pc = "more" /\ b < Base
        /\ position' = position + 1
        /\ \/ /\ b # 0 /\ PositiveFits(count)
              /\ ReadsNumber(low + b * Pow[count])
           \/ /\ b = 0 /\ NegativeFits(count)
              /\ ReadsNumber(Complement(low))
           \/ /\ IF b # 0 THEN ~ PositiveFits(count) ELSE ~ NegativeFits(count)
              /\ pc' = "thrown" /\ UNCHANGED <<low, count, number>>
        /\ UNCHANGED <<writer, limit, current, result>>

\* read() returns the number, or the string of that length behind it.
Take ==
    /\ pc = "take"
    /\ IF fields[current].kind = "chars"
       THEN Reads(Bytes(position, number), number)
       ELSE Reads(number, 0)
    /\ number' = 0
    /\ UNCHANGED <<writer, limit, low, count>>

\* position(p), refused beyond the limit: back, or on, to the k-th field
Reposition(k) ==
    /\ pc = "ready"
    /\ Start(k) <= limit
    /\ position' = Start(k)
    /\ current' = k
    /\ result' = NoResult
    /\ UNCHANGED <<pc, writer, limit, low, count, number>>

Next ==
    \/ \E v \in Numbers : WriteNumber(v)
    \/ \E s \in Strings : WriteChars(s)
    \/ \E value \in Values : WriteRaw(value)
    \/ \E b \in BOOLEAN : WriteBoolean(b)
    \/ Group \/ FinalGroup \/ WritePayload \/ Finish
    \/ Show \/ ReadRaw \/ ReadBoolean \/ ReadStopBit
    \/ FirstByte \/ MoreBytes \/ LastByte \/ Take
    \/ \E k \in 1..(Len(fields) + 1) : Reposition(k)

Spec == Init /\ [][Next]_vars

-----------------------------------------------------------------------------
FieldsTypeOK ==
    /\ pc \in Places
    /\ buffer \in Seq(Byte)
    /\ rest \in 0..(Pow[Groups] - 1) /\ neg \in BOOLEAN
    /\ length \in Int
    /\ limit \in Nat /\ position \in Nat
    /\ low \in 0..(Pow[Groups] - 1) /\ count \in 0..Groups
    /\ number \in (-Pow[Groups])..(Pow[Groups] - 1)
    /\ Len(fields) <= MaxFields
    /\ ends \in Seq(Nat) /\ Len(ends) <= Len(fields)
    /\ current \in 1..(Len(fields) + 1)

(* The reference for the encoding: the bytes from..to-1 (from 0) hold the  *)
(* groups of the magnitude m, least significant first and no more than it  *)
(* takes, all with a stop bit but the last; after a negative number that   *)
(* one has it too and a zero follows.                                      *)
Magnitude(v) == IF v < 0 THEN Complement(v) ELSE v
Digit(m, i) == (m \div Pow[i]) % Base
GroupsOf(v, from, to) == to - from - (IF v < 0 THEN 1 ELSE 0)
Encoded(bytes, v, from, to) ==
    LET m == Magnitude(v)
        n == GroupsOf(v, from, to)
    IN  /\ n \in 1..Groups
        /\ m < Pow[n] /\ (n > 1 => Pow[n - 1] <= m)
        /\ \A i \in 0..(n - 1) : bytes[from + i + 1] =
             Digit(m, i) + (IF i < n - 1 \/ v < 0 THEN Base ELSE 0)
        /\ v < 0 => bytes[to] = 0

Written(bytes, field, from, to) ==
    LET value == field.value
        body == to - Len(value)
    IN  CASE field.kind = "stop_bit" -> Encoded(bytes, value, from, to)
          [] field.kind = "chars" ->
               /\ Encoded(bytes, Len(value), from, body)
               /\ \A i \in 1..Len(value) : bytes[body + i] = value[i]
          [] field.kind = "raw" ->
               /\ body = from
               /\ \A i \in 1..Len(value) : bytes[body + i] = value[i]
          [] field.kind = "boolean" ->
               /\ to = from + 1
               /\ bytes[to] = IF value THEN Yes ELSE 0

(* Every field that has been written is in the excerpt in the stop-bit     *)
(* format which the Java library reads: the short cuts for one and two     *)
(* bytes give what the loop would, and ten bytes are enough for a number.  *)
WellEncoded == \A k \in 1..Len(ends) : Written(buffer, fields[k], Start(k), ends[k])

(* read() of a type gives the value that was written with that type,       *)
(* whatever is around it and from whichever field one begins.              *)
ReadsBack ==
    result # NoResult => result = <<fields[current - 1].value>>

(* Between calls the tailer is exactly at the next field, and within a     *)
(* call it never goes beyond the excerpt, into the next one in the file.   *)
StaysWithin ==
    /\ position <= limit
    /\ pc = "ready" => position = Start(current)

(* The reader never gives up on a number that the writer has written, the  *)
(* least and the greatest one included.                                    *)
NeverThrows == pc # "thrown"
=============================================================================
