--------------------------- MODULE TlsParseProofs ---------------------------
(***************************************************************************)
(* Theorems about TlsParse, for every set of messages that keep to the     *)
(* grammars of TLS and HTTP, every length in which they are passed, and    *)
(* every limit of the parsers: what the three parsers find is what the     *)
(* message says, it is laid over the text of the row, and every text keeps *)
(* its NUL.                                                                *)
(***************************************************************************)
EXTENDS TlsParse, SequenceTheorems, WellFoundedInduction, TLAPS

-----------------------------------------------------------------------------
(* Least elements and first offsets.                                       *)

LEMMA LeastIs ==
  ASSUME NEW S, S \subseteq Nat, S # {}
  PROVE  Least(S) \in S /\ \A y \in S : Least(S) <= y
<1> DEFINE R == OpToRel(<, Nat)
<1>1. IsWellFoundedOn(R, Nat)
  BY NatLessThanWellFounded
<1>2. \A x, y \in Nat : y < x => <<y, x>> \in R
  BY DEF OpToRel
<1> HIDE DEF R
<1>3. PICK x \in S : \A y \in S : ~ (<<y, x>> \in R)
  BY <1>1, WFMin, Zenon
<1>4. \A y \in S : ~ (y < x)
  BY <1>2, <1>3
<1>5. \A y \in S : x <= y
  BY <1>4
<1> QED BY <1>5 DEF Least

LEMMA LowerIs ==
  ASSUME NEW a \in Int, NEW b \in Int
  PROVE  /\ Lower(a, b) \in Int /\ Lower(a, b) <= a /\ Lower(a, b) <= b
         /\ Lower(a, b) = a \/ Lower(a, b) = b
         /\ a < b => Lower(a, b) = a
         /\ ~ (a < b) => Lower(a, b) = b
  BY DEF Lower

LEMMA SliceIs ==
  ASSUME NEW S, NEW s \in Seq(S), NEW a \in Nat \ {0}, NEW b \in 0..Len(s)
  PROVE  /\ SubSeq(s, a, b) \in Seq(S)
         /\ Len(SubSeq(s, a, b)) = IF a <= b THEN b - a + 1 ELSE 0
         /\ \A i \in 1..Len(SubSeq(s, a, b)) : SubSeq(s, a, b)[i] = s[i + a - 1]
<1>1. \A i \in a..b : s[i] \in S
  OBVIOUS
<1>2. /\ SubSeq(s, a, b) \in Seq(S)
      /\ Len(SubSeq(s, a, b)) = IF a <= b THEN b - a + 1 ELSE 0
      /\ \A i \in 1..(b - a + 1) : SubSeq(s, a, b)[i] = s[a + i - 1]
  BY <1>1, SubSeqProperties
<1>3. \A i \in 1..Len(SubSeq(s, a, b)) : i \in 1..(b - a + 1) /\ a + i - 1 = i + a - 1
  BY <1>2
<1> QED BY <1>2, <1>3

LEMMA FirstOfIs ==
  ASSUME NEW bytes, NEW m, NEW lo \in Nat, NEW hi \in Nat, lo <= hi
  PROVE  /\ FirstOf(bytes, m, lo, hi) \in lo..hi
         /\ \A i \in lo..(FirstOf(bytes, m, lo, hi) - 1) : ByteAt(m, i) \notin bytes
         /\ FirstOf(bytes, m, lo, hi) < hi => ByteAt(m, FirstOf(bytes, m, lo, hi)) \in bytes
<1> DEFINE found == {i \in lo..(hi - 1) : ByteAt(m, i) \in bytes} \cup {hi}
           first == Least(found)
<1>1. found \subseteq lo..hi /\ hi \in found
  OBVIOUS
<1>2. first \in found /\ \A y \in found : first <= y
  BY <1>1, LeastIs
<1>3. \A i \in lo..(first - 1) : ByteAt(m, i) \notin bytes
  BY <1>1, <1>2
<1>4. FirstOf(bytes, m, lo, hi) = first
  BY DEF FirstOf
<1> QED BY <1>1, <1>2, <1>3, <1>4

-----------------------------------------------------------------------------
(* The scratch area.                                                       *)

Buffer(msg, len) == [data |-> Filled(msg, len), len |-> len]

\* A call that passes len bytes of a message.
Passes(msg, len) == msg \in Message /\ len \in 1..Len(msg.bytes) /\ len <= ScratchLen

\* The first len bytes of the scratch area are the message's, and the parsers
\* see no other.
LEMMA BufferBytes ==
  ASSUME NEW msg, NEW len, Passes(msg, len), scratch \in Text(ScratchLen)
  PROVE  /\ Filled(msg, len) \in Text(ScratchLen)
         /\ msg.bytes \in Seq(BYTE) /\ len \in Nat /\ Len(msg.bytes) \in Nat
         /\ \A i \in 0..(len - 1) : /\ Filled(msg, len)[i] = msg.bytes[i + 1]
                                    /\ ByteAt(Buffer(msg, len), i) = msg.bytes[i + 1]
         /\ \A i \in Nat : i >= len => ByteAt(Buffer(msg, len), i) = 0
<1>1. /\ msg.bytes \in Seq(BYTE) /\ len \in Nat /\ Len(msg.bytes) \in Nat
      /\ len \in 1..Len(msg.bytes) /\ len <= ScratchLen /\ ScratchLen \in Nat
  BY ParseAssumption DEF Passes, Message
<1>2. \A i \in 0..(len - 1) : msg.bytes[i + 1] \in BYTE
  BY <1>1
<1>3. Filled(msg, len) \in Text(ScratchLen)
  BY <1>1, <1>2 DEF Filled, Text
<1>4. \A i \in 0..(len - 1) : Filled(msg, len)[i] = msg.bytes[i + 1]
  BY <1>1 DEF Filled
<1>5. \A i \in 0..(len - 1) : ByteAt(Buffer(msg, len), i) = msg.bytes[i + 1]
  BY <1>1, <1>4 DEF ByteAt, Buffer
<1>6. \A i \in Nat : i >= len => ByteAt(Buffer(msg, len), i) = 0
  BY <1>1 DEF ByteAt, Buffer
<1> QED BY <1>1, <1>3, <1>4, <1>5, <1>6

\* The first stop in a buffer is where the field ends, or where the buffer does.
LEMMA FieldEnd ==
  ASSUME NEW msg, NEW len, Passes(msg, len), scratch \in Text(ScratchLen), NEW stops,
         NEW from \in 0..len, NEW last \in from..Len(msg.bytes),
         \A i \in (from + 1)..last : msg.bytes[i] \notin stops,
         last < Len(msg.bytes) => msg.bytes[last + 1] \in stops
  PROVE  FirstOf(stops, Buffer(msg, len), from, len) = Lower(last, len)
<1> DEFINE m == Buffer(msg, len)
           first == FirstOf(stops, m, from, len)
<1>1. /\ len \in Nat /\ Len(msg.bytes) \in Nat /\ len <= Len(msg.bytes)
      /\ \A i \in 0..(len - 1) : ByteAt(m, i) = msg.bytes[i + 1]
  BY BufferBytes DEF Passes
<1>2. /\ first \in from..len
      /\ \A i \in from..(first - 1) : ByteAt(m, i) \notin stops
      /\ first < len => ByteAt(m, first) \in stops
  BY <1>1, FirstOfIs
<1> HIDE DEF m, first
<1>3. first < len => ~ (first < last)
  <2> SUFFICES ASSUME first < len, first < last PROVE FALSE
    OBVIOUS
  <2>1. first + 1 \in (from + 1)..last /\ first \in 0..(len - 1)
    BY <1>1, <1>2
  <2> QED BY <1>1, <1>2, <2>1
<1>4. last < len => ~ (last < first)
  <2> SUFFICES ASSUME last < len, last < first PROVE FALSE
    OBVIOUS
  <2>1. last \in from..(first - 1) /\ last \in 0..(len - 1) /\ last < Len(msg.bytes)
    BY <1>1, <1>2
  <2> QED BY <1>1, <1>2, <2>1
<1>5. first = Lower(last, len)
  BY <1>1, <1>2, <1>3, <1>4 DEF Lower
<1> QED BY <1>5 DEF first, m

-----------------------------------------------------------------------------
(* What a call says, and what it writes.                                   *)

\* The bytes of a part, as far as they are passed.
First(msg, field) == msg.parts[field].first
End(msg, len, field) == Lower(msg.parts[field].last, len)
Seen(msg, len, field) == SubSeq(msg.bytes, First(msg, field), End(msg, len, field))

LEMMA SeenIs ==
  ASSUME NEW msg, NEW len, Passes(msg, len), NEW field \in Fields
  PROVE  /\ First(msg, field) \in Nat \ {0} /\ End(msg, len, field) \in 0..len
         /\ msg.parts[field].last \in Nat /\ End(msg, len, field) <= msg.parts[field].last
         /\ Seen(msg, len, field) \in Seq(BYTE)
         /\ Len(Seen(msg, len, field)) =
              IF First(msg, field) <= End(msg, len, field)
              THEN End(msg, len, field) - First(msg, field) + 1 ELSE 0
         /\ \A i \in 1..Len(Seen(msg, len, field)) :
              Seen(msg, len, field)[i] = msg.bytes[i + First(msg, field) - 1]
<1>1. /\ msg.bytes \in Seq(BYTE) /\ len \in 1..Len(msg.bytes)
      /\ msg.parts[field].first \in Nat \ {0} /\ msg.parts[field].last \in Nat
  BY DEF Passes, Message
<1>2. /\ First(msg, field) \in Nat \ {0} /\ End(msg, len, field) \in 0..Len(msg.bytes)
      /\ End(msg, len, field) \in 0..len /\ End(msg, len, field) <= msg.parts[field].last
  <2>1. len \in Nat /\ len <= Len(msg.bytes) /\ Len(msg.bytes) \in Nat
    BY <1>1
  <2> QED BY <1>1, <2>1 DEF First, End, Lower
<1>3. msg.bytes \in Seq(BYTE)
  BY <1>1
<1>4. /\ Seen(msg, len, field) \in Seq(BYTE)
      /\ Len(Seen(msg, len, field)) =
           IF First(msg, field) <= End(msg, len, field)
           THEN End(msg, len, field) - First(msg, field) + 1 ELSE 0
      /\ \A i \in 1..Len(Seen(msg, len, field)) :
           Seen(msg, len, field)[i] = msg.bytes[i + First(msg, field) - 1]
  <2>1. ASSUME NEW s \in Seq(BYTE), NEW a \in Nat \ {0}, NEW b \in 0..Len(s)
        PROVE  /\ SubSeq(s, a, b) \in Seq(BYTE)
               /\ Len(SubSeq(s, a, b)) = IF a <= b THEN b - a + 1 ELSE 0
               /\ \A i \in 1..Len(SubSeq(s, a, b)) : SubSeq(s, a, b)[i] = s[i + a - 1]
    BY SliceIs
  <2>2. First(msg, field) \in Nat \ {0} /\ End(msg, len, field) \in 0..Len(msg.bytes)
    BY <1>2
  <2> QED BY <1>3, <2>1, <2>2, Zenon DEF Seen
<1> QED BY <1>1, <1>2, <1>4

LEMMA SaysIs ==
  ASSUME NEW msg, NEW len
  PROVE  /\ Says(msg, len, "http_method") =
              IF len >= 4
              THEN SubSeq(Seen(msg, len, "http_method"), 1,
                          Lower(MethodLen - 1, Len(Seen(msg, len, "http_method"))))
              ELSE <<>>
         /\ Says(msg, len, "http_status") =
              IF len >= 12 /\ msg.parts["http_status"].last <= len THEN Seen(msg, len, "http_status") ELSE <<>>
         /\ \A field \in {"http_path", "http_host"} :
              Says(msg, len, field) = IF len >= 4 THEN Seen(msg, len, field) ELSE <<>>
<1>1. \A field : Says(msg, len, field) =
        CASE field = "tls_sni" -> IF len = Len(msg.bytes) THEN Seen(msg, len, field) ELSE <<>>
          [] field = "http_method" ->
               IF len >= 4
               THEN SubSeq(Seen(msg, len, field), 1, Lower(MethodLen - 1, Len(Seen(msg, len, field))))
               ELSE <<>>
          [] field = "http_status" ->
               IF len >= 12 /\ msg.parts[field].last <= len THEN Seen(msg, len, field) ELSE <<>>
          [] OTHER -> IF len >= 4 THEN Seen(msg, len, field) ELSE <<>>
  BY DEF Says, Seen, First, End
<1> QED BY <1>1

\* A text with another laid over its front.
Laid(new, old, n) == [i \in 0..(n - 1) |-> IF i < Len(new) THEN new[i + 1] ELSE old[i]]

\* What copy_bytes_bounded does with bytes that are all in the buffer.
LEMMA CopyLays ==
  ASSUME NEW msg, NEW len, Passes(msg, len), scratch \in Text(ScratchLen),
         NEW n \in Nat, NEW old \in Text(n),
         NEW new \in Seq(BYTE), NEW from \in Nat,
         Len(new) # 0 => from + Len(new) <= len,
         \A i \in 1..Len(new) : new[i] = msg.bytes[from + i]
  PROVE  CopyBytes(old, Buffer(msg, len), Span(from, Len(new))) = Laid(new, old, n)
<1>1. Len(new) \in Nat /\ len \in Nat
  BY BufferBytes
<1>2. DOMAIN old = 0..(n - 1)
  BY DEF Text
<1>3. ASSUME NEW i \in 0..(n - 1)
      PROVE  (IF i < Len(new) /\ from + i < len THEN Filled(msg, len)[from + i] ELSE old[i])
             = IF i < Len(new) THEN new[i + 1] ELSE old[i]
  <2>1. CASE i < Len(new)
    <3>1. from + i \in 0..(len - 1) /\ i + 1 \in 1..Len(new) /\ from + i < len
      BY <1>1, <2>1
    <3>2. Filled(msg, len)[from + i] = msg.bytes[(from + i) + 1]
      BY <3>1, BufferBytes
    <3>3. (from + i) + 1 = from + (i + 1)
      OBVIOUS
    <3> QED BY <2>1, <3>1, <3>2, <3>3
  <2>2. CASE ~ (i < Len(new))
    BY <2>2
  <2> QED BY <2>1, <2>2
<1>4. CopyBytes(old, Buffer(msg, len), Span(from, Len(new)))
        = [i \in 0..(n - 1) |-> IF i < Len(new) /\ from + i < len
                                THEN Filled(msg, len)[from + i] ELSE old[i]]
  BY <1>2 DEF CopyBytes, Buffer, Span
<1> QED BY <1>3, <1>4 DEF Laid

\* A text that fits an array of n bytes with its NUL.
Fits(new, n) == new \in Seq(BYTE) /\ Len(new) < n /\ \A i \in 1..Len(new) : new[i] # 0

\* What a field of a message holds, seen up to there.
LEMMA HeldIs ==
  ASSUME NEW msg, NEW len, Passes(msg, len), NEW field \in Fields, NEW from \in Nat \ {0}, NEW stops,
         Holds(msg, field, from, stops)
  PROVE  /\ First(msg, field) = from
         /\ msg.parts[field].last \in (from - 1)..Len(msg.bytes)
         /\ \A i \in from..msg.parts[field].last : msg.bytes[i] \notin stops
         /\ msg.parts[field].last < Len(msg.bytes) => msg.bytes[msg.parts[field].last + 1] \in stops
         /\ \A i \in 1..Len(Seen(msg, len, field)) : Seen(msg, len, field)[i] # 0
<1>1. /\ First(msg, field) = from
      /\ msg.parts[field].last \in (from - 1)..Len(msg.bytes)
      /\ \A i \in from..msg.parts[field].last : msg.bytes[i] \notin stops /\ msg.bytes[i] # 0
      /\ msg.parts[field].last < Len(msg.bytes) => msg.bytes[msg.parts[field].last + 1] \in stops
  BY DEF Holds, First
<1>2. ASSUME NEW i \in 1..Len(Seen(msg, len, field))
      PROVE  Seen(msg, len, field)[i] # 0
  <2>1. Seen(msg, len, field)[i] = msg.bytes[i + from - 1]
    BY <1>1, SeenIs
  <2>2. i + from - 1 \in from..msg.parts[field].last
    BY <1>1, SeenIs
  <2> QED BY <1>1, <2>1, <2>2
<1> QED BY <1>1, <1>2

LEMMA MethodLaid ==
  ASSUME NEW msg, NEW len, Passes(msg, len), scratch \in Text(ScratchLen),
         RequestMessage(msg), len >= 4, NEW old \in Text(MethodLen)
  PROVE  /\ FirstSpace(Buffer(msg, len)) = End(msg, len, "http_method")
         /\ Fits(Says(msg, len, "http_method"), MethodLen)
         /\ CopyBytes(old, Buffer(msg, len), Method(Buffer(msg, len)))
              = Laid(Says(msg, len, "http_method"), old, MethodLen)
<1> DEFINE seen == Seen(msg, len, "http_method")
           end == End(msg, len, "http_method")
           last == msg.parts["http_method"].last
           new == Says(msg, len, "http_method")
<1>0. "http_method" \in Fields /\ len \in 1..Len(msg.bytes) /\ len \in Nat /\ MethodLen = 8
  BY DEF Passes, Fields, Texts, MethodLen
<1>1. Holds(msg, "http_method", 1, {SP})
  BY DEF RequestMessage
<1>2. /\ First(msg, "http_method") = 1 /\ last \in 0..Len(msg.bytes)
      /\ \A i \in 1..last : msg.bytes[i] \notin {SP}
      /\ last < Len(msg.bytes) => msg.bytes[last + 1] \in {SP}
      /\ \A i \in 1..Len(seen) : seen[i] # 0
  BY <1>0, <1>1, HeldIs
<1>3. FirstSpace(Buffer(msg, len)) = end
  <2>1. 0 \in 0..len /\ last \in 0..Len(msg.bytes) /\ 0 + 1 = 1
    BY <1>0, <1>2
  <2>2. FirstOf({SP}, Buffer(msg, len), 0, len) = Lower(last, len)
    <3> HIDE DEF last
    <3> QED BY <1>2, <2>1, FieldEnd
  <2> QED BY <2>2 DEF FirstSpace, Buffer, End
<1>4. /\ end \in 0..len /\ seen \in Seq(BYTE) /\ Len(seen) = end
      /\ \A i \in 1..Len(seen) : seen[i] = msg.bytes[i] /\ seen[i] # 0
  <2>1. /\ end \in 0..len /\ seen \in Seq(BYTE) /\ Len(seen) = IF 1 <= end THEN end - 1 + 1 ELSE 0
        /\ \A i \in 1..Len(seen) : seen[i] = msg.bytes[i + 1 - 1]
    BY <1>0, <1>2, SeenIs
  <2> HIDE DEF seen, end
  <2> QED BY <1>2, <2>1
<1>5. new = SubSeq(seen, 1, Lower(7, Len(seen)))
  BY <1>0, SaysIs
<1> HIDE DEF seen, end, new
<1>6. Lower(7, Len(seen)) \in 0..Len(seen) /\ Lower(7, Len(seen)) <= 7 /\ Lower(7, Len(seen)) = Lower(end, 7)
  BY <1>4 DEF Lower
<1>7. /\ new \in Seq(BYTE) /\ Len(new) = Lower(end, 7)
      /\ \A i \in 1..Len(new) : new[i] = msg.bytes[i] /\ new[i] # 0
  <2>1. /\ SubSeq(seen, 1, Lower(7, Len(seen))) \in Seq(BYTE)
        /\ Len(SubSeq(seen, 1, Lower(7, Len(seen)))) =
             IF 1 <= Lower(7, Len(seen)) THEN Lower(7, Len(seen)) - 1 + 1 ELSE 0
        /\ \A i \in 1..Len(SubSeq(seen, 1, Lower(7, Len(seen)))) :
             SubSeq(seen, 1, Lower(7, Len(seen)))[i] = seen[i + 1 - 1]
    BY <1>4, <1>6, SliceIs
  <2> QED BY <1>4, <1>5, <1>6, <2>1
<1>8. Fits(new, MethodLen)
  BY <1>0, <1>6, <1>7 DEF Fits
<1>9. CopyBytes(old, Buffer(msg, len), Span(0, Len(new))) = Laid(new, old, MethodLen)
  <2>1. Len(new) # 0 => 0 + Len(new) <= len
    BY <1>0, <1>4, <1>6, <1>7
  <2>2. /\ MethodLen \in Nat /\ 0 \in Nat /\ new \in Seq(BYTE)
        /\ \A i \in 1..Len(new) : new[i] = msg.bytes[0 + i]
    BY <1>0, <1>7
  <2>3. ASSUME NEW n \in Nat, old \in Text(n), NEW s \in Seq(BYTE),
               Len(s) # 0 => 0 + Len(s) <= len,
               \A i \in 1..Len(s) : s[i] = msg.bytes[0 + i]
        PROVE  CopyBytes(old, Buffer(msg, len), Span(0, Len(s))) = Laid(s, old, n)
    BY <2>2, <2>3, CopyLays
  <2>4. old \in Text(MethodLen)
    OBVIOUS
  <2> QED BY <2>1, <2>2, <2>3, <2>4, Zenon
<1>10. Method(Buffer(msg, len)) = Span(0, Len(new))
  BY <1>0, <1>3, <1>7 DEF Method
<1> QED BY <1>3, <1>8, <1>9, <1>10 DEF new, end

\* A parser that finds nothing writes nothing.
LEMMA NothingLaid ==
  ASSUME NEW m, NEW n \in Nat, NEW old \in Text(n)
  PROVE  CopyBytes(old, m, Nowhere) = Laid(<<>>, old, n) /\ Fits(<<>>, n + 1)
<1>1. DOMAIN old = 0..(n - 1) /\ Len(<<>>) = 0 /\ <<>> \in Seq(BYTE)
  BY DEF Text
<1>2. CopyBytes(old, m, Nowhere)
        = [i \in 0..(n - 1) |-> IF i < 0 /\ 1 + i < m.len THEN m.data[1 + i] ELSE old[i]]
  BY <1>1 DEF CopyBytes, Nowhere, Span
<1>3. \A i \in 0..(n - 1) : ~ (i < 0)
  OBVIOUS
<1>4. Laid(<<>>, old, n) = [i \in 0..(n - 1) |-> old[i]]
  BY <1>1, <1>3 DEF Laid
<1>5. CopyBytes(old, m, Nowhere) = [i \in 0..(n - 1) |-> old[i]]
  BY <1>2, <1>3
<1>6. Fits(<<>>, n + 1)
  BY <1>1 DEF Fits
<1> QED BY <1>4, <1>5, <1>6

\* What is read from an offset on up to a stop is the field that is there.
LEMMA FieldLaid ==
  ASSUME NEW msg, NEW len, Passes(msg, len), scratch \in Text(ScratchLen), NEW field \in Fields,
         NEW from \in Nat \ {0}, NEW stops, Holds(msg, field, from + 1, stops),
         NEW old \in Text(TextLen)
  PROVE  /\ Fits(Seen(msg, len, field), TextLen)
         /\ from < len =>
              /\ FirstOf(stops, Buffer(msg, len), from, Lower(from + TextLen, len)) - from
                   = Len(Seen(msg, len, field))
              /\ CopyBytes(old, Buffer(msg, len), Span(from, Len(Seen(msg, len, field))))
                   = Laid(Seen(msg, len, field), old, TextLen)
         /\ len <= from => Seen(msg, len, field) = <<>>
<1> DEFINE seen == Seen(msg, len, field)
           end == End(msg, len, field)
           last == msg.parts[field].last
<1>0. /\ len \in 1..Len(msg.bytes) /\ len \in Nat /\ Len(msg.bytes) \in Nat /\ msg.bytes \in Seq(BYTE)
      /\ len <= TextLen /\ TextLen \in Nat
  <2>1. ScratchLen \in Nat /\ TextLen \in Nat /\ ScratchLen <= TextLen
    BY ParseAssumption
  <2> QED BY <2>1 DEF Passes, Message
<1>1. /\ First(msg, field) = from + 1 /\ last \in from..Len(msg.bytes)
      /\ \A i \in (from + 1)..last : msg.bytes[i] \notin stops
      /\ last < Len(msg.bytes) => msg.bytes[last + 1] \in stops
      /\ \A i \in 1..Len(seen) : seen[i] # 0
  <2>1. from + 1 \in Nat \ {0} /\ (from + 1) - 1 = from
    OBVIOUS
  <2> QED BY <2>1, HeldIs
<1>2. /\ end \in 0..len /\ end = Lower(last, len) /\ seen \in Seq(BYTE)
      /\ Len(seen) = IF from + 1 <= end THEN end - from ELSE 0
      /\ \A i \in 1..Len(seen) : seen[i] = msg.bytes[from + i]
  <2>1. /\ end \in 0..len /\ seen \in Seq(BYTE)
        /\ Len(seen) = IF First(msg, field) <= end THEN end - First(msg, field) + 1 ELSE 0
        /\ \A i \in 1..Len(seen) : seen[i] = msg.bytes[i + First(msg, field) - 1]
    BY SeenIs
  <2>2. end = Lower(last, len)
    BY DEF End
  <2> HIDE DEF seen, end
  <2>3. Len(seen) = IF from + 1 <= end THEN end - from ELSE 0
    BY <1>0, <1>1, <2>1
  <2>4. ASSUME NEW i \in 1..Len(seen)
        PROVE  seen[i] = msg.bytes[from + i]
    <3>1. i + First(msg, field) - 1 = from + i
      BY <1>1, <2>1
    <3> QED BY <2>1, <3>1
  <2> QED BY <2>1, <2>2, <2>3, <2>4
<1>3. /\ from < len => FirstOf(stops, Buffer(msg, len), from, len) = end
      /\ from < len => Lower(from + TextLen, len) = len
  <2>1. ASSUME from < len PROVE FirstOf(stops, Buffer(msg, len), from, len) = Lower(last, len)
    <3>1. from \in 0..len
      BY <1>0, <2>1
    <3> QED BY <1>1, <3>1, FieldEnd
  <2> QED BY <1>0, <1>2, <2>1 DEF Lower
<1> HIDE DEF seen, end, last
<1>4. from < len => Len(seen) = end - from /\ from + Len(seen) <= len
  BY <1>0, <1>1, <1>2 DEF Lower
<1>5. Fits(seen, TextLen)
  <2>1. Len(seen) < TextLen
    BY <1>0, <1>2
  <2> QED BY <1>1, <1>2, <2>1 DEF Fits
<1>6. ASSUME from < len
      PROVE  CopyBytes(old, Buffer(msg, len), Span(from, Len(seen))) = Laid(seen, old, TextLen)
  <2>1. Len(seen) # 0 => from + Len(seen) <= len
    BY <1>4, <1>6
  <2>2. /\ TextLen \in Nat /\ from \in Nat /\ seen \in Seq(BYTE)
        /\ \A i \in 1..Len(seen) : seen[i] = msg.bytes[from + i]
    BY <1>0, <1>2
  <2>3. ASSUME NEW n \in Nat, old \in Text(n), NEW new \in Seq(BYTE),
               Len(new) # 0 => from + Len(new) <= len,
               \A i \in 1..Len(new) : new[i] = msg.bytes[from + i]
        PROVE  CopyBytes(old, Buffer(msg, len), Span(from, Len(new))) = Laid(new, old, n)
    <3>1. from \in Nat
      OBVIOUS
    <3> HIDE DEF seen
    <3> QED BY <2>3, <3>1, CopyLays
  <2>4. old \in Text(TextLen)
    OBVIOUS
  <2> QED BY <2>1, <2>2, <2>3, <2>4, Zenon
<1>7. len <= from => seen = <<>>
  BY <1>0, <1>2
<1> QED BY <1>3, <1>4, <1>5, <1>6, <1>7 DEF seen

LEMMA PathLaid ==
  ASSUME NEW msg, NEW len, Passes(msg, len), scratch \in Text(ScratchLen),
         RequestMessage(msg), len >= 4, NEW old \in Text(TextLen)
  PROVE  /\ Fits(Says(msg, len, "http_path"), TextLen)
         /\ CopyBytes(old, Buffer(msg, len), Path(Buffer(msg, len)))
              = Laid(Says(msg, len, "http_path"), old, TextLen)
<1> DEFINE seen == Seen(msg, len, "http_path")
           m == Buffer(msg, len)
           from == FirstSpace(m) + 1
           last == msg.parts["http_method"].last
<1>0. /\ "http_method" \in Fields /\ "http_path" \in Fields /\ len \in Nat /\ len <= TextLen
      /\ len \in 1..Len(msg.bytes) /\ Len(msg.bytes) \in Nat /\ TextLen \in Nat \ {0} /\ m.len = len
  <2>1. ScratchLen \in Nat \ {0} /\ TextLen \in Nat /\ ScratchLen <= TextLen
    BY ParseAssumption
  <2>2. len \in 1..Len(msg.bytes) /\ len <= ScratchLen
    BY DEF Passes
  <2>3. Len(msg.bytes) \in Nat
    BY BufferBytes
  <2> QED BY <2>1, <2>2, <2>3 DEF Fields, Texts, Buffer
<1>1. /\ from = Lower(last, len) + 1 /\ last \in 0..Len(msg.bytes)
  <2>1. FirstSpace(m) = End(msg, len, "http_method")
    <3>1. Blank(MethodLen) \in Text(MethodLen)
      BY DEF Blank, Text, MethodLen, BYTE
    <3> QED BY <3>1, MethodLaid
  <2>2. Holds(msg, "http_method", 1, {SP})
    BY DEF RequestMessage
  <2> QED BY <1>0, <2>1, <2>2, HeldIs DEF End
<1>2. Says(msg, len, "http_path") = seen
  BY <1>0, SaysIs
<1>3. Path(m) = IF from < len
                THEN Span(from, FirstOf({SP}, m, from, Lower(from + TextLen, len)) - from)
                ELSE Nowhere
  BY <1>0 DEF Path
<1>4. /\ Fits(seen, TextLen)
      /\ from < len => /\ FirstOf({SP}, m, from, Lower(from + TextLen, len)) - from = Len(seen)
                       /\ CopyBytes(old, m, Span(from, Len(seen))) = Laid(seen, old, TextLen)
      /\ ~ (from < len) => seen = <<>>
  <2>1. CASE last < Len(msg.bytes)
    <3>1. Holds(msg, "http_path", (last + 1) + 1, {SP})
      <4>1. last + 2 = (last + 1) + 1
        BY <1>1
      <4> QED BY <2>1, <4>1 DEF RequestMessage
    <3>2. last + 1 \in Nat \ {0}
      BY <1>1
    <3> HIDE DEF last, seen, m, from
    <3>3. /\ Fits(seen, TextLen)
          /\ last + 1 < len => /\ FirstOf({SP}, m, last + 1, Lower((last + 1) + TextLen, len)) - (last + 1) = Len(seen)
                               /\ CopyBytes(old, m, Span(last + 1, Len(seen))) = Laid(seen, old, TextLen)
          /\ len <= last + 1 => seen = <<>>
      BY <1>0, <3>1, <3>2, FieldLaid DEF m, seen
    <3>4. (from < len <=> last + 1 < len) /\ (from < len => from = last + 1)
      BY <1>0, <1>1 DEF Lower
    <3>5. ~ (from < len) => len <= last + 1
      BY <1>0, <1>1, <3>4
    <3> QED BY <3>3, <3>4, <3>5
  <2>2. CASE ~ (last < Len(msg.bytes))
    <3>1. msg.parts["http_path"].last = 0
      BY <2>2 DEF RequestMessage, Lacks
    <3>2. seen = <<>>
      <4>1. First(msg, "http_path") \in Nat \ {0} /\ End(msg, len, "http_path") \in 0..0
            /\ seen \in Seq(BYTE)
            /\ Len(seen) = IF First(msg, "http_path") <= End(msg, len, "http_path")
                           THEN End(msg, len, "http_path") - First(msg, "http_path") + 1 ELSE 0
        BY <1>0, <3>1, SeenIs
      <4> HIDE DEF seen
      <4> QED BY <4>1
    <3>3. ~ (from < len)
      BY <1>0, <1>1, <2>2 DEF Lower
    <3>4. Fits(<<>>, TextLen)
      BY <1>0 DEF Fits
    <3> QED BY <3>2, <3>3, <3>4
  <2> QED BY <2>1, <2>2
<1>5. CopyBytes(old, m, Path(m)) = Laid(seen, old, TextLen)
  <2>1. CASE from < len
    BY <1>3, <1>4, <2>1
  <2>2. CASE ~ (from < len)
    BY <1>0, <1>3, <1>4, <2>2, NothingLaid
  <2> QED BY <2>1, <2>2
<1> QED BY <1>2, <1>4, <1>5

\* The headers that the parser finds are those of the message that it sees whole.
LEMMA LinesSeen ==
  ASSUME NEW msg, NEW len, Passes(msg, len), scratch \in Text(ScratchLen), NEW p \in Nat
  PROVE  p \in 0..Lower(HostScan - 1, len - 6) /\ IsHostLine(Buffer(msg, len), p)
           <=> p + 1 \in HostLines(msg) /\ p + 6 <= len
<1> DEFINE m == Buffer(msg, len)
<1>1. /\ len \in Nat /\ Len(msg.bytes) \in Nat /\ len <= Len(msg.bytes) /\ HostScan \in Nat
      /\ \A i \in 0..(len - 1) : ByteAt(m, i) = msg.bytes[i + 1]
  <2>1. HostScan \in Nat
    BY ParseAssumption
  <2>2. /\ len \in Nat /\ Len(msg.bytes) \in Nat
        /\ \A i \in 0..(len - 1) : ByteAt(m, i) = msg.bytes[i + 1]
    BY BufferBytes
  <2>3. len <= Len(msg.bytes)
    BY <2>2 DEF Passes
  <2> QED BY <2>1, <2>2, <2>3
<1>2. DOMAIN HostLetters = 1..6
  BY DEF HostLetters
<1>3. p \in 0..Lower(HostScan - 1, len - 6) <=> p + 1 \in 1..HostScan /\ p + 6 <= len
  BY <1>1 DEF Lower
<1>4. ASSUME p + 6 <= len, NEW i \in 1..6
      PROVE  ByteAt(m, p + i - 1) = msg.bytes[(p + 1) + i - 1]
  <2>1. p + i - 1 \in 0..(len - 1) /\ (p + i - 1) + 1 = (p + 1) + i - 1
    BY <1>1, <1>4
  <2> QED BY <1>1, <2>1
<1> HIDE DEF m
<1>5. ASSUME p + 6 <= len
      PROVE  IsHostLine(m, p) <=> \A i \in 1..6 : msg.bytes[(p + 1) + i - 1] \in HostLetters[i]
  BY <1>2, <1>4, <1>5 DEF IsHostLine
<1>6. p + 6 <= len => (p + 1) + 5 <= Len(msg.bytes)
  BY <1>1
<1>7. p + 1 \in HostLines(msg)
        <=> /\ p + 1 \in 1..HostScan /\ (p + 1) + 5 <= Len(msg.bytes)
            /\ \A i \in 1..6 : msg.bytes[(p + 1) + i - 1] \in HostLetters[i]
  BY <1>2 DEF HostLines
<1> QED BY <1>3, <1>5, <1>6, <1>7 DEF m

\* The Host that the parser finds is the one of the request, unless some other
\* header is taken for it.
LEMMA HostLaid ==
  ASSUME NEW msg, NEW len, Passes(msg, len), scratch \in Text(ScratchLen),
         RequestMessage(msg), ~ Misleading(msg), len >= 4, NEW old \in Text(TextLen)
  PROVE  /\ Fits(Says(msg, len, "http_host"), TextLen)
         /\ CopyBytes(old, Buffer(msg, len), Host(Buffer(msg, len)))
              = Laid(Says(msg, len, "http_host"), old, TextLen)
<1> DEFINE seen == Seen(msg, len, "http_host")
           m == Buffer(msg, len)
           lines == {p \in 0..Lower(HostScan - 1, len - 6) : IsHostLine(m, p)}
           from == Least(lines) + 6
<1>0. /\ "http_host" \in Fields /\ len \in Nat /\ TextLen \in Nat \ {0} /\ m.len = len
  <2>1. ScratchLen \in Nat \ {0} /\ TextLen \in Nat /\ ScratchLen <= TextLen
    BY ParseAssumption
  <2>2. len \in Nat
    BY BufferBytes
  <2> QED BY <2>1, <2>2 DEF Fields, Texts, Buffer
<1>1. Says(msg, len, "http_host") = seen
  BY <1>0, SaysIs
<1>2. Host(m) = IF lines # {} /\ from < len
                THEN Span(from, FirstOf({CR, LF}, m, from, Lower(from + TextLen, len)) - from)
                ELSE Nowhere
  BY <1>0 DEF Host
<1>3. \A p \in Nat : p \in lines <=> p + 1 \in HostLines(msg) /\ p + 6 <= len
  BY LinesSeen
<1>4. lines # {} => Least(lines) \in lines /\ (\A o \in lines : Least(lines) <= o)
  <2>1. lines \subseteq Nat
    OBVIOUS
  <2> QED BY <2>1, LeastIs
<1>5. lines \subseteq Nat
  OBVIOUS
<1> HIDE DEF lines, m, seen
<1>6. CASE HostLines(msg) = {}
  <2>1. lines = {}
    BY <1>3, <1>5, <1>6
  <2>2. msg.parts["http_host"].last = 0
    BY <1>6 DEF RequestMessage, Lacks, HostHeaders
  <2>3. seen = <<>>
    <3>1. First(msg, "http_host") \in Nat \ {0} /\ End(msg, len, "http_host") \in 0..len
          /\ End(msg, len, "http_host") <= 0
          /\ seen \in Seq(BYTE)
          /\ Len(seen) = IF First(msg, "http_host") <= End(msg, len, "http_host")
                         THEN End(msg, len, "http_host") - First(msg, "http_host") + 1 ELSE 0
      BY <1>0, <2>2, SeenIs DEF seen
    <3> QED BY <1>0, <3>1
  <2>4. Host(m) = Nowhere
    BY <1>2, <2>1
  <2>5. Fits(<<>>, TextLen) /\ CopyBytes(old, m, Nowhere) = Laid(<<>>, old, TextLen)
    BY <1>0, NothingLaid DEF Fits
  <2> QED BY <1>1, <2>3, <2>4, <2>5 DEF m
<1>7. CASE HostLines(msg) # {}
  <2>1. PICK q \in HostLines(msg) : /\ \A o \in HostLines(msg) : q <= o
                                    /\ Holds(msg, "http_host", q + 6, {CR, LF})
    <3>1. HostLines(msg) \subseteq Nat /\ HostHeaders(msg) \subseteq HostLines(msg)
      BY ParseAssumption DEF HostLines, HostHeaders
    <3>2. /\ Least(HostLines(msg)) \in HostLines(msg)
          /\ \A o \in HostLines(msg) : Least(HostLines(msg)) <= o
      BY <1>7, <3>1, LeastIs
    <3>3. PICK p \in HostHeaders(msg) : ~ (Least(HostLines(msg)) < p) \/ Least(HostLines(msg)) = p
      BY <3>1, <3>2 DEF Misleading
    <3>4. PICK h \in HostHeaders(msg) : /\ \A o \in HostHeaders(msg) : h <= o
                                        /\ Holds(msg, "http_host", h + 6, {CR, LF})
      BY <3>3 DEF RequestMessage
    <3>5. h = Least(HostLines(msg))
      <4>1. h <= p /\ Least(HostLines(msg)) <= h /\ h \in Nat /\ p \in Nat
        BY <3>1, <3>2, <3>3, <3>4
      <4>2. Least(HostLines(msg)) \in Nat
        BY <3>1, <3>2
      <4> QED BY <3>3, <4>1, <4>2
    <3> QED BY <3>1, <3>2, <3>4, <3>5
  <2>2. q \in Nat \ {0}
    BY <2>1, ParseAssumption DEF HostLines
  <2>3. Holds(msg, "http_host", (q + 5) + 1, {CR, LF}) /\ q + 5 \in Nat \ {0}
    <3>1. (q + 5) + 1 = q + 6
      BY <2>2
    <3> QED BY <2>1, <2>2, <3>1
  <2>4. /\ Fits(seen, TextLen)
        /\ q + 5 < len => /\ FirstOf({CR, LF}, m, q + 5, Lower((q + 5) + TextLen, len)) - (q + 5) = Len(seen)
                          /\ CopyBytes(old, m, Span(q + 5, Len(seen))) = Laid(seen, old, TextLen)
        /\ len <= q + 5 => seen = <<>>
    BY <1>0, <2>3, FieldLaid DEF m, seen
  <2>5. CASE q + 5 <= len
    <3>1. q - 1 \in Nat /\ (q - 1) + 1 = q /\ (q - 1) + 6 <= len
      BY <1>0, <2>2, <2>5
    <3>2. q - 1 \in lines
      BY <1>3, <2>1, <3>1
    <3>3. Least(lines) \in lines /\ Least(lines) <= q - 1
      BY <1>4, <3>2
    <3>4. Least(lines) \in Nat /\ Least(lines) + 1 \in HostLines(msg)
      BY <1>3, <1>5, <3>3
    <3>5. q <= Least(lines) + 1
      BY <2>1, <3>4
    <3>6. from = q + 5 /\ lines # {}
      BY <2>2, <3>3, <3>4, <3>5
    <3> HIDE DEF from
    <3>7. CASE q + 5 < len
      <4>1. Host(m) = Span(q + 5, Len(seen))
        BY <1>2, <2>4, <3>6, <3>7
      <4> QED BY <1>1, <2>4, <3>7, <4>1 DEF m
    <3>8. CASE ~ (q + 5 < len)
      <4>1. Host(m) = Nowhere
        BY <1>2, <3>6, <3>8
      <4>2. seen = <<>>
        BY <2>4, <2>5, <1>0, <2>2, <3>8
      <4>3. CopyBytes(old, m, Nowhere) = Laid(<<>>, old, TextLen)
        BY <1>0, NothingLaid
      <4> QED BY <1>1, <2>4, <4>1, <4>2, <4>3 DEF m
    <3> QED BY <3>7, <3>8
  <2>6. CASE ~ (q + 5 <= len)
    <3>1. lines = {}
      <4> SUFFICES ASSUME NEW p \in lines PROVE FALSE
        OBVIOUS
      <4>1. p \in Nat /\ p + 1 \in HostLines(msg) /\ p + 6 <= len
        BY <1>3, <1>5
      <4>2. q <= p + 1
        BY <2>1, <4>1
      <4> QED BY <1>0, <2>2, <2>6, <4>1, <4>2
    <3>2. Host(m) = Nowhere
      BY <1>2, <3>1
    <3>3. seen = <<>>
      BY <1>0, <2>2, <2>4, <2>6
    <3>4. CopyBytes(old, m, Nowhere) = Laid(<<>>, old, TextLen)
      BY <1>0, NothingLaid
    <3> QED BY <1>1, <2>4, <3>2, <3>3, <3>4 DEF m
  <2> QED BY <2>5, <2>6
<1> QED BY <1>6, <1>7

\* The parser takes for a request what starts as one.
LEMMA RequestIs ==
  ASSUME NEW msg, NEW len, Passes(msg, len), scratch \in Text(ScratchLen)
  PROVE  IsRequest(Buffer(msg, len))
           <=> len >= 4 /\ \E method \in MethodStart : StartsAs(msg, method)
<1> DEFINE m == Buffer(msg, len)
           start == <<ByteAt(m, 0), ByteAt(m, 1), ByteAt(m, 2)>>
<1>1. /\ len \in Nat /\ Len(msg.bytes) \in Nat /\ len <= Len(msg.bytes)
      /\ \A i \in 0..(len - 1) : ByteAt(m, i) = msg.bytes[i + 1]
  BY BufferBytes DEF Passes
<1>2. ASSUME len >= 4
      PROVE  start = <<msg.bytes[1], msg.bytes[2], msg.bytes[3]>>
  <2>1. 0 \in 0..(len - 1) /\ 1 \in 0..(len - 1) /\ 2 \in 0..(len - 1)
    BY <1>1, <1>2
  <2>2. ByteAt(m, 0) = msg.bytes[0 + 1] /\ ByteAt(m, 1) = msg.bytes[1 + 1] /\ ByteAt(m, 2) = msg.bytes[2 + 1]
    BY <1>1, <2>1
  <2> QED BY <2>2
<1>3. \A method \in MethodStart :
        Len(method) = 3 /\ DOMAIN method = 1..3 /\ method = <<method[1], method[2], method[3]>>
  BY DEF MethodStart
<1>4. ASSUME len >= 4, NEW method \in MethodStart
      PROVE  StartsAs(msg, method) <=> start = method
  <2>1. StartsAs(msg, method) <=> \A i \in 1..3 : msg.bytes[i] = method[i]
    <3>1. Len(msg.bytes) >= 3
      BY <1>1, <1>4
    <3>2. Len(method) = 3 /\ DOMAIN method = 1..3
      BY <1>3, Zenon
    <3> QED BY <3>1, <3>2 DEF StartsAs
  <2>2. (\A i \in 1..3 : msg.bytes[i] = method[i])
          <=> msg.bytes[1] = method[1] /\ msg.bytes[2] = method[2] /\ msg.bytes[3] = method[3]
    OBVIOUS
  <2>3. (msg.bytes[1] = method[1] /\ msg.bytes[2] = method[2] /\ msg.bytes[3] = method[3])
          <=> <<msg.bytes[1], msg.bytes[2], msg.bytes[3]>> = <<method[1], method[2], method[3]>>
    OBVIOUS
  <2>4. start = <<msg.bytes[1], msg.bytes[2], msg.bytes[3]>>
    BY <1>2, <1>4
  <2>5. method = <<method[1], method[2], method[3]>>
    BY <1>3, Zenon
  <2> HIDE DEF start
  <2> QED BY <2>1, <2>2, <2>3, <2>4, <2>5
<1>5. IsRequest(m) <=> len >= 4 /\ start \in MethodStart
  BY DEF IsRequest, Buffer
<1> HIDE DEF start, m
<1>6. len >= 4 => (start \in MethodStart <=> \E method \in MethodStart : StartsAs(msg, method))
  BY <1>4, Zenon
<1> QED BY <1>5, <1>6 DEF m

\* A field that the message lacks says nothing.
LEMMA LacksIs ==
  ASSUME NEW msg, NEW len, Passes(msg, len), NEW field \in Fields, Lacks(msg, field)
  PROVE  Seen(msg, len, field) = <<>>
<1>1. /\ First(msg, field) \in Nat \ {0} /\ End(msg, len, field) \in 0..len
      /\ End(msg, len, field) <= 0 /\ Seen(msg, len, field) \in Seq(BYTE)
      /\ Len(Seen(msg, len, field)) =
           IF First(msg, field) <= End(msg, len, field)
           THEN End(msg, len, field) - First(msg, field) + 1 ELSE 0
  <2>1. msg.parts[field].last = 0
    BY DEF Lacks
  <2> QED BY <2>1, SeenIs
<1>2. len \in Nat
  BY DEF Passes, Message
<1> QED BY <1>1, <1>2

\* The number that three digits write.
Number(digits) == 100 * (digits[1] - 48) + 10 * (digits[2] - 48) + digits[3] - 48

\* Three digits that a status may have.
Digits(digits) ==
  digits \in Seq(BYTE) /\ Len(digits) = 3 /\ (\A i \in 1..3 : digits[i] \in DIGIT) /\ digits[1] # 48

\* The three bytes from an offset on, as the parser takes them for digits.
DigitsAt(m, at) == [i \in 0..2 |-> ByteAt(m, at + i) - 48]

LEMMA DigitsRead ==
  ASSUME NEW msg, NEW len, Passes(msg, len), scratch \in Text(ScratchLen),
         NEW at \in Nat, at + 3 <= len
  PROVE  LET digit == DigitsAt(Buffer(msg, len), at) IN
         /\ (\A i \in 0..2 : digit[i] \in 0..9)
              <=> \A i \in (at + 1)..(at + 3) : msg.bytes[i] \in DIGIT
         /\ 100 * digit[0] + 10 * digit[1] + digit[2]
              = Number(<<msg.bytes[at + 1], msg.bytes[at + 2], msg.bytes[at + 3]>>)
<1> DEFINE m == Buffer(msg, len)
           digit == DigitsAt(m, at)
<1>1. /\ len \in Nat /\ Len(msg.bytes) \in Nat /\ len <= Len(msg.bytes) /\ msg.bytes \in Seq(BYTE)
      /\ \A i \in 0..(len - 1) : ByteAt(m, i) = msg.bytes[i + 1]
  BY BufferBytes DEF Passes
<1>2. /\ digit[0] = ByteAt(m, at) - 48 /\ digit[1] = ByteAt(m, at + 1) - 48
      /\ digit[2] = ByteAt(m, at + 2) - 48
  BY at + 0 = at DEF DigitsAt
<1> HIDE DEF digit, m
<1>3. /\ ByteAt(m, at) = msg.bytes[at + 1] /\ ByteAt(m, at + 1) = msg.bytes[at + 2]
      /\ ByteAt(m, at + 2) = msg.bytes[at + 3]
  <2>1. /\ at \in 0..(len - 1) /\ at + 1 \in 0..(len - 1) /\ at + 2 \in 0..(len - 1)
        /\ (at + 1) + 1 = at + 2 /\ (at + 2) + 1 = at + 3
    BY <1>1
  <2> QED BY <1>1, <2>1
<1>4. msg.bytes[at + 1] \in BYTE /\ msg.bytes[at + 2] \in BYTE /\ msg.bytes[at + 3] \in BYTE
  <2>1. at + 1 \in 1..Len(msg.bytes) /\ at + 2 \in 1..Len(msg.bytes) /\ at + 3 \in 1..Len(msg.bytes)
    BY <1>1
  <2> QED BY <1>1, <2>1
<1>5. (\A i \in 0..2 : digit[i] \in 0..9)
        <=> digit[0] \in 0..9 /\ digit[1] \in 0..9 /\ digit[2] \in 0..9
  OBVIOUS
<1>6. (\A i \in (at + 1)..(at + 3) : msg.bytes[i] \in DIGIT)
        <=> /\ msg.bytes[at + 1] \in DIGIT /\ msg.bytes[at + 2] \in DIGIT
            /\ msg.bytes[at + 3] \in DIGIT
  <2>1. (at + 1)..(at + 3) = {at + 1, at + 2, at + 3}
    OBVIOUS
  <2> QED BY <2>1, Zenon
<1>7. \A b \in BYTE : b - 48 \in 0..9 <=> b \in DIGIT
  BY DEF BYTE, DIGIT
<1>8. /\ digit[0] \in 0..9 <=> msg.bytes[at + 1] \in DIGIT
      /\ digit[1] \in 0..9 <=> msg.bytes[at + 2] \in DIGIT
      /\ digit[2] \in 0..9 <=> msg.bytes[at + 3] \in DIGIT
  BY <1>2, <1>3, <1>4, <1>7
<1>9. 100 * digit[0] + 10 * digit[1] + digit[2]
        = Number(<<msg.bytes[at + 1], msg.bytes[at + 2], msg.bytes[at + 3]>>)
  BY <1>2, <1>3, <1>4 DEF Number, BYTE
<1> QED BY <1>5, <1>6, <1>8, <1>9 DEF digit, m

\* The parser's status, with the bytes that it looks at named.
LEMMA StatusParser ==
  ASSUME NEW msg, NEW len, Passes(msg, len), scratch \in Text(ScratchLen), len >= 12,
         NEW from \in 6..(len + 1), from = FirstOf({SP}, Buffer(msg, len), 5, len) + 1
  PROVE  Status(Buffer(msg, len)) =
           IF /\ StartsAs(msg, HttpSlash)
              /\ from + 3 <= len
              /\ \A i \in (from + 1)..(from + 3) : msg.bytes[i] \in DIGIT
           THEN Number(<<msg.bytes[from + 1], msg.bytes[from + 2], msg.bytes[from + 3]>>)
           ELSE 0
<1> DEFINE m == Buffer(msg, len)
           digit == DigitsAt(m, from)
<1>1. /\ len \in Nat /\ Len(msg.bytes) \in Nat /\ len <= Len(msg.bytes) /\ msg.bytes \in Seq(BYTE)
      /\ \A i \in 0..(len - 1) : ByteAt(m, i) = msg.bytes[i + 1]
  BY BufferBytes DEF Passes
<1>2. Status(m) =
        IF /\ len >= 12
           /\ \A i \in DOMAIN HttpSlash : ByteAt(m, i - 1) = HttpSlash[i]
           /\ from + 3 <= len
           /\ \A i \in 0..2 : digit[i] \in 0..9
        THEN 100 * digit[0] + 10 * digit[1] + digit[2]
        ELSE 0
  BY DEF Status, Buffer, DigitsAt
<1>3. (\A i \in DOMAIN HttpSlash : ByteAt(m, i - 1) = HttpSlash[i]) <=> StartsAs(msg, HttpSlash)
  <2>1. DOMAIN HttpSlash = 1..5 /\ Len(HttpSlash) = 5
    BY DEF HttpSlash
  <2>2. ASSUME NEW i \in 1..5
        PROVE  ByteAt(m, i - 1) = msg.bytes[i]
    <3>1. i - 1 \in 0..(len - 1) /\ (i - 1) + 1 = i
      BY <1>1
    <3> QED BY <1>1, <3>1
  <2> HIDE DEF m
  <2>3. Len(msg.bytes) >= 5
    BY <1>1
  <2> QED BY <2>1, <2>2, <2>3 DEF StartsAs
<1>4. from \in Nat
  BY <1>1
<1> HIDE DEF m, digit
<1>5. ASSUME from + 3 <= len
      PROVE  /\ (\A i \in 0..2 : digit[i] \in 0..9)
                  <=> \A i \in (from + 1)..(from + 3) : msg.bytes[i] \in DIGIT
             /\ 100 * digit[0] + 10 * digit[1] + digit[2]
                  = Number(<<msg.bytes[from + 1], msg.bytes[from + 2], msg.bytes[from + 3]>>)
  <2>1. ASSUME NEW at \in Nat, at + 3 <= len
        PROVE  /\ (\A i \in 0..2 : DigitsAt(m, at)[i] \in 0..9)
                    <=> \A i \in (at + 1)..(at + 3) : msg.bytes[i] \in DIGIT
               /\ 100 * DigitsAt(m, at)[0] + 10 * DigitsAt(m, at)[1] + DigitsAt(m, at)[2]
                    = Number(<<msg.bytes[at + 1], msg.bytes[at + 2], msg.bytes[at + 3]>>)
    BY <2>1, DigitsRead DEF m
  <2> QED BY <1>4, <1>5, <2>1, Zenon DEF digit
<1> QED BY <1>2, <1>3, <1>5 DEF m

\* The parser reads the three digits of a status that is there and was passed,
\* and no others.
LEMMA StatusIs ==
  ASSUME NEW msg \in Received, NEW len, Passes(msg, len), scratch \in Text(ScratchLen)
  PROVE  LET digits == Says(msg, len, "http_status")
         IN \/ digits = <<>> /\ Status(Buffer(msg, len)) = 0
            \/ Digits(digits) /\ Status(Buffer(msg, len)) = Number(digits)
<1> DEFINE m == Buffer(msg, len)
           part == msg.parts["http_status"]
           digits == Says(msg, len, "http_status")
           stop == FirstOf({SP}, m, 5, len)
<1>0. /\ len \in Nat /\ Len(msg.bytes) \in Nat /\ len <= Len(msg.bytes) /\ msg.bytes \in Seq(BYTE)
      /\ \A i \in 0..(len - 1) : ByteAt(m, i) = msg.bytes[i + 1]
      /\ "http_status" \in Fields /\ ResponseMessage(msg)
  BY BufferBytes, ParseAssumption DEF Passes, Fields
<1>1. digits = IF len >= 12 /\ part.last <= len THEN Seen(msg, len, "http_status") ELSE <<>>
  BY SaysIs
<1>2. CASE ~ (len >= 12)
  <2>1. Status(m) = 0
    BY <1>2 DEF Status, Buffer
  <2> QED BY <1>1, <1>2, <2>1
<1>3. CASE len >= 12 /\ \E p \in 1..Len(msg.bytes) : StatusLine(msg, p)
  <2> DEFINE p == part.first - 1
  <2>1. /\ StatusLine(msg, p) /\ part.last = p + 3 /\ msg.bytes[p + 1] # 48 /\ p \in Int
    <3>1. /\ StatusLine(msg, p) /\ part.last = part.first + 2 /\ msg.bytes[part.first] # 48
      BY <1>0, <1>3 DEF ResponseMessage
    <3>2. part.first \in Nat \ {0}
      BY <1>0, SeenIs DEF First
    <3>3. part.first + 2 = p + 3 /\ p + 1 = part.first /\ p \in Int
      BY <3>2
    <3> QED BY <3>1, <3>3
  <2>2. First(msg, "http_status") = p + 1
    <3>1. part.first \in Nat \ {0}
      BY <1>0, SeenIs DEF First
    <3> QED BY <3>1 DEF First
  <2> HIDE DEF p, part, m, digits
  <2>3. /\ StartsAs(msg, HttpSlash) /\ p > 5 /\ p + 3 <= Len(msg.bytes) /\ p \in Nat
        /\ msg.bytes[p] = SP /\ \A i \in 6..(p - 1) : msg.bytes[i] # SP
        /\ \A i \in (p + 1)..(p + 3) : msg.bytes[i] \in DIGIT
    BY <2>1 DEF StatusLine
  <2>4. stop = Lower(p - 1, len)
    <3>1. /\ 5 \in 0..len /\ p - 1 \in 5..Len(msg.bytes)
          /\ (p - 1) + 1 = p /\ 5 + 1 = 6
          /\ \A i \in 6..(p - 1) : msg.bytes[i] \notin {SP}
      BY <1>0, <1>3, <2>3
    <3>2. msg.bytes[(p - 1) + 1] \in {SP}
      BY <2>3, <3>1
    <3>3. \A i \in (5 + 1)..(p - 1) : msg.bytes[i] \notin {SP}
      BY <3>1
    <3> QED BY <3>1, <3>2, <3>3, FieldEnd DEF m
  <2> HIDE DEF stop
  <2>5. stop + 1 \in 6..(len + 1)
    BY <1>0, <1>3, <2>3, <2>4 DEF Lower
  <2>6. Status(m) = IF /\ StartsAs(msg, HttpSlash)
                       /\ stop + 1 + 3 <= len
                       /\ \A i \in (stop + 1 + 1)..(stop + 1 + 3) : msg.bytes[i] \in DIGIT
                    THEN Number(<<msg.bytes[stop + 1 + 1], msg.bytes[stop + 1 + 2], msg.bytes[stop + 1 + 3]>>)
                    ELSE 0
    BY <1>3, <2>5, StatusParser DEF m, stop
  <2>7. CASE p + 3 <= len
    <3>1. stop + 1 = p
      BY <1>0, <2>3, <2>4, <2>7 DEF Lower
    <3>2. Status(m) = Number(<<msg.bytes[p + 1], msg.bytes[p + 2], msg.bytes[p + 3]>>)
      BY <2>3, <2>6, <2>7, <3>1
    <3>3. digits = Seen(msg, len, "http_status")
      BY <1>1, <1>3, <2>1, <2>7
    <3>4. End(msg, len, "http_status") = p + 3
      BY <1>0, <2>1, <2>3, <2>7 DEF End, Lower, part
    <3>5. /\ digits \in Seq(BYTE) /\ Len(digits) = 3
          /\ \A i \in 1..3 : digits[i] = msg.bytes[i + (p + 1) - 1]
      <4>1. /\ digits \in Seq(BYTE)
            /\ Len(digits) = IF p + 1 <= p + 3 THEN (p + 3) - (p + 1) + 1 ELSE 0
            /\ \A i \in 1..Len(digits) : digits[i] = msg.bytes[i + (p + 1) - 1]
        BY <1>0, <2>2, <3>3, <3>4, SeenIs
      <4>2. Len(digits) = 3
        BY <2>3, <4>1
      <4> QED BY <4>1, <4>2
    <3>6. digits[1] = msg.bytes[p + 1] /\ digits[2] = msg.bytes[p + 2] /\ digits[3] = msg.bytes[p + 3]
      <4>1. /\ digits[1] = msg.bytes[1 + (p + 1) - 1] /\ digits[2] = msg.bytes[2 + (p + 1) - 1]
            /\ digits[3] = msg.bytes[3 + (p + 1) - 1]
        BY <3>5
      <4>2. 1 + (p + 1) - 1 = p + 1 /\ 2 + (p + 1) - 1 = p + 2 /\ 3 + (p + 1) - 1 = p + 3
        BY <2>3
      <4> QED BY <4>1, <4>2
    <3>7. Digits(digits)
      <4>1. p + 1 \in (p + 1)..(p + 3) /\ p + 2 \in (p + 1)..(p + 3) /\ p + 3 \in (p + 1)..(p + 3)
        BY <2>3
      <4>2. digits[1] \in DIGIT /\ digits[2] \in DIGIT /\ digits[3] \in DIGIT
        BY <2>3, <3>6, <4>1
      <4>3. \A i \in 1..3 : digits[i] \in DIGIT
        BY <4>2
      <4> QED BY <2>1, <3>5, <3>6, <4>3 DEF Digits
    <3>8. Status(m) = Number(digits)
      BY <3>2, <3>6 DEF Number
    <3> QED BY <3>7, <3>8 DEF m, digits
  <2>8. CASE ~ (p + 3 <= len)
    <3>1. ~ (stop + 1 + 3 <= len)
      BY <1>0, <2>3, <2>4, <2>8 DEF Lower
    <3>2. Status(m) = 0
      BY <2>6, <3>1
    <3>3. digits = <<>>
      BY <1>0, <1>1, <2>1, <2>3, <2>8
    <3> QED BY <3>2, <3>3 DEF m, digits
  <2> QED BY <2>7, <2>8
<1>4. CASE len >= 12 /\ ~ \E p \in 1..Len(msg.bytes) : StatusLine(msg, p)
  <2>1. digits = <<>>
    <3>1. Lacks(msg, "http_status")
      BY <1>0, <1>4 DEF ResponseMessage
    <3> QED BY <1>0, <1>1, <3>1, LacksIs
  <2>2. /\ stop \in 5..len
        /\ \A i \in 5..(stop - 1) : ByteAt(m, i) \notin {SP}
        /\ stop < len => ByteAt(m, stop) \in {SP}
    <3>1. 5 \in Nat /\ len \in Nat /\ 5 <= len
      BY <1>0, <1>4
    <3> QED BY <3>1, FirstOfIs
  <2> HIDE DEF stop, m, digits
  <2>3. stop + 1 \in 6..(len + 1)
    BY <1>0, <2>2
  <2>4. Status(m) = IF /\ StartsAs(msg, HttpSlash)
                       /\ stop + 1 + 3 <= len
                       /\ \A i \in (stop + 1 + 1)..(stop + 1 + 3) : msg.bytes[i] \in DIGIT
                    THEN Number(<<msg.bytes[stop + 1 + 1], msg.bytes[stop + 1 + 2], msg.bytes[stop + 1 + 3]>>)
                    ELSE 0
    BY <1>4, <2>3, StatusParser DEF m, stop
  <2>5. ASSUME StartsAs(msg, HttpSlash), stop + 1 + 3 <= len,
               \A i \in (stop + 1 + 1)..(stop + 1 + 3) : msg.bytes[i] \in DIGIT
        PROVE  FALSE
    <3> DEFINE p == stop + 1
    <3>1. p \in 1..Len(msg.bytes) /\ p > 5 /\ p + 3 <= Len(msg.bytes) /\ stop = p - 1 /\ p - 1 < len
      BY <1>0, <2>2, <2>5
    <3>2. \A i \in (p + 1)..(p + 3) : msg.bytes[i] \in DIGIT
      BY <2>5
    <3> HIDE DEF p
    <3>3. ByteAt(m, p - 1) = msg.bytes[p] /\ ByteAt(m, p - 1) = SP
      <4>1. p - 1 \in 0..(len - 1) /\ (p - 1) + 1 = p
        BY <1>0, <3>1
      <4> QED BY <1>0, <2>2, <3>1, <4>1
    <3>4. ASSUME NEW i \in 6..(p - 1)
          PROVE  msg.bytes[i] # SP
      <4>1. i - 1 \in 5..(stop - 1) /\ i - 1 \in 0..(len - 1) /\ (i - 1) + 1 = i
        BY <1>0, <2>2, <3>1
      <4>2. ByteAt(m, i - 1) = msg.bytes[(i - 1) + 1]
        BY <1>0, <4>1
      <4>3. ByteAt(m, i - 1) \notin {SP}
        BY <2>2, <4>1
      <4> QED BY <4>1, <4>2, <4>3
    <3>5. StatusLine(msg, p)
      BY <2>5, <3>1, <3>2, <3>3, <3>4 DEF StatusLine
    <3> QED BY <1>4, <3>1, <3>5
  <2>6. Status(m) = 0
    BY <2>4, <2>5
  <2> QED BY <2>1, <2>6 DEF m, digits
<1> QED BY <1>2, <1>3, <1>4

-----------------------------------------------------------------------------
(* Text over text.                                                         *)

\* One text over the front of another, without an array around it.
Over(new, old) == new \o SubSeq(old, Len(new) + 1, Len(old))

LEMMA OverIs ==
  ASSUME NEW new \in Seq(BYTE), NEW old \in Seq(BYTE)
  PROVE  /\ Over(new, old) \in Seq(BYTE)
         /\ Len(Over(new, old)) = IF Len(new) < Len(old) THEN Len(old) ELSE Len(new)
         /\ \A i \in 1..Len(Over(new, old)) :
              Over(new, old)[i] = IF i <= Len(new) THEN new[i] ELSE old[i]
<1> DEFINE rest == SubSeq(old, Len(new) + 1, Len(old))
<1>1. /\ rest \in Seq(BYTE)
      /\ Len(rest) = IF Len(new) + 1 <= Len(old) THEN Len(old) - (Len(new) + 1) + 1 ELSE 0
      /\ \A i \in 1..Len(rest) : rest[i] = old[i + (Len(new) + 1) - 1]
  <2>1. Len(new) + 1 \in Nat \ {0} /\ Len(old) \in 0..Len(old)
    OBVIOUS
  <2> QED BY <2>1, SliceIs
<1> HIDE DEF rest
<1>2. /\ new \o rest \in Seq(BYTE) /\ Len(new \o rest) = Len(new) + Len(rest)
      /\ \A i \in 1..(Len(new) + Len(rest)) :
           (new \o rest)[i] = IF i <= Len(new) THEN new[i] ELSE rest[i - Len(new)]
  BY <1>1, ConcatProperties
<1>3. ASSUME NEW i \in 1..(Len(new) + Len(rest)), ~ (i <= Len(new))
      PROVE  rest[i - Len(new)] = old[i]
  <2>1. i - Len(new) \in 1..Len(rest) /\ (i - Len(new)) + (Len(new) + 1) - 1 = i
    BY <1>1, <1>3
  <2>2. rest[i - Len(new)] = old[(i - Len(new)) + (Len(new) + 1) - 1]
    BY <1>1, <2>1
  <2> QED BY <2>1, <2>2
<1>4. Over(new, old) = new \o rest
  BY DEF Over, rest
<1>5. Len(new) + Len(rest) = IF Len(new) < Len(old) THEN Len(old) ELSE Len(new)
  BY <1>1
<1> QED BY <1>2, <1>3, <1>4, <1>5

\* Laying two texts after each other is laying one over the other.
LEMMA LaidOver ==
  ASSUME NEW n \in Nat, NEW new, NEW old, Fits(new, n), Fits(old, n)
  PROVE  /\ Fits(Over(new, old), n)
         /\ Laid(new, Laid(old, Blank(n), n), n) = Laid(Over(new, old), Blank(n), n)
<1>1. /\ new \in Seq(BYTE) /\ Len(new) < n /\ old \in Seq(BYTE) /\ Len(old) < n
      /\ \A i \in 1..Len(new) : new[i] # 0
      /\ \A i \in 1..Len(old) : old[i] # 0
  BY DEF Fits
<1> DEFINE over == Over(new, old)
<1>2. /\ over \in Seq(BYTE)
      /\ Len(over) = IF Len(new) < Len(old) THEN Len(old) ELSE Len(new)
      /\ \A i \in 1..Len(over) : over[i] = IF i <= Len(new) THEN new[i] ELSE old[i]
  BY <1>1, OverIs
<1> HIDE DEF over
<1>3. Fits(over, n)
  <2>1. ASSUME NEW i \in 1..Len(over)
        PROVE  over[i] # 0
    <3>1. CASE i <= Len(new)
      BY <1>1, <1>2, <3>1
    <3>2. CASE ~ (i <= Len(new))
      <4>1. i \in 1..Len(old)
        BY <1>1, <1>2, <3>2
      <4> QED BY <1>1, <1>2, <3>2, <4>1
    <3> QED BY <3>1, <3>2
  <2> QED BY <1>1, <1>2, <2>1 DEF Fits
<1>4. ASSUME NEW i \in 0..(n - 1)
      PROVE  (IF i < Len(new) THEN new[i + 1] ELSE IF i < Len(old) THEN old[i + 1] ELSE Blank(n)[i])
             = IF i < Len(over) THEN over[i + 1] ELSE Blank(n)[i]
  <2>1. CASE i < Len(new)
    <3>1. i + 1 \in 1..Len(over) /\ i < Len(over) /\ i + 1 <= Len(new)
      BY <1>1, <1>2, <2>1
    <3> QED BY <1>2, <2>1, <3>1
  <2>2. CASE ~ (i < Len(new)) /\ i < Len(old)
    <3>1. i + 1 \in 1..Len(over) /\ i < Len(over) /\ ~ (i + 1 <= Len(new))
      BY <1>1, <1>2, <2>2
    <3> QED BY <1>2, <2>2, <3>1
  <2>3. CASE ~ (i < Len(new)) /\ ~ (i < Len(old))
    <3>1. ~ (i < Len(over))
      BY <1>1, <1>2, <2>3
    <3> QED BY <2>3, <3>1
  <2> QED BY <2>1, <2>2, <2>3
<1>5. Laid(new, Laid(old, Blank(n), n), n)
        = [i \in 0..(n - 1) |-> IF i < Len(new) THEN new[i + 1]
                                ELSE IF i < Len(old) THEN old[i + 1] ELSE Blank(n)[i]]
  BY DEF Laid
<1>6. Laid(over, Blank(n), n)
        = [i \in 0..(n - 1) |-> IF i < Len(over) THEN over[i + 1] ELSE Blank(n)[i]]
  BY DEF Laid
<1> QED BY <1>3, <1>4, <1>5, <1>6 DEF over

\* A text laid on an empty array is what the array shows.
LEMMA LaidShows ==
  ASSUME NEW n \in Nat, NEW s, Fits(s, n)
  PROVE  LET text == Laid(s, Blank(n), n)
             ends == {i \in DOMAIN text : text[i] = 0}
         IN /\ text \in Text(n) /\ text[n - 1] = 0 /\ ends # {}
            /\ [i \in 1..Least(ends) |-> text[i - 1]] = s
<1> DEFINE text == Laid(s, Blank(n), n)
           ends == {i \in DOMAIN text : text[i] = 0}
<1>1. /\ s \in Seq(BYTE) /\ Len(s) \in Nat /\ Len(s) < n /\ \A i \in 1..Len(s) : s[i] # 0 /\ s[i] \in BYTE
  BY DEF Fits
<1>2. /\ DOMAIN text = 0..(n - 1)
      /\ \A i \in 0..(n - 1) : text[i] = IF i < Len(s) THEN s[i + 1] ELSE 0
  BY DEF Laid, Blank
<1>3. text \in Text(n)
  <2>1. \A i \in 0..(n - 1) : text[i] \in BYTE
    <3> SUFFICES ASSUME NEW i \in 0..(n - 1) PROVE text[i] \in BYTE
      OBVIOUS
    <3>1. i < Len(s) => i + 1 \in 1..Len(s)
      BY <1>1
    <3>2. 0 \in BYTE
      BY DEF BYTE
    <3> HIDE DEF text
    <3> QED BY <1>1, <1>2, <3>1, <3>2
  <2>2. text = [i \in 0..(n - 1) |-> text[i]]
    BY DEF Laid
  <2> HIDE DEF text
  <2> QED BY <2>1, <2>2 DEF Text
<1> HIDE DEF text
<1>4. Len(s) \in ends /\ \A i \in ends : i \in Nat /\ Len(s) <= i
  <2>1. Len(s) \in 0..(n - 1)
    BY <1>1
  <2>2. ASSUME NEW i \in 0..(n - 1), i < Len(s)
        PROVE  text[i] # 0
    <3>1. i + 1 \in 1..Len(s)
      BY <1>1, <2>2
    <3> QED BY <1>1, <1>2, <2>2, <3>1
  <2>3. Len(s) \in ends
    BY <1>1, <1>2, <2>1
  <2>4. ASSUME NEW i \in ends
        PROVE  i \in Nat /\ Len(s) <= i
    <3>1. i \in 0..(n - 1) /\ text[i] = 0
      BY <1>2
    <3> QED BY <1>1, <2>2, <3>1
  <2> QED BY <2>3, <2>4
<1> HIDE DEF ends
<1>5. Least(ends) = Len(s)
  <2>1. Least(ends) \in ends /\ \A i \in ends : Least(ends) <= i
    BY <1>4, LeastIs
  <2> QED BY <1>1, <1>4, <2>1
<1>6. [i \in 1..Least(ends) |-> text[i - 1]] = s
  <2>1. ASSUME NEW i \in 1..Len(s)
        PROVE  text[i - 1] = s[i]
    <3>1. i - 1 \in 0..(n - 1) /\ i - 1 < Len(s) /\ (i - 1) + 1 = i
      BY <1>1
    <3> QED BY <1>2, <3>1
  <2>2. s = [i \in 1..Len(s) |-> s[i]]
    BY <1>1
  <2> QED BY <1>5, <2>1, <2>2
<1>7. text[n - 1] = 0
  <2>1. n - 1 \in 0..(n - 1) /\ ~ (n - 1 < Len(s))
    BY <1>1
  <2> QED BY <1>2, <2>1
<1> QED BY <1>3, <1>4, <1>6, <1>7 DEF text, ends

-----------------------------------------------------------------------------
(* The server name.                                                        *)

LEMMA BytesAre ==
  ASSUME NEW msg, NEW len, Passes(msg, len), scratch \in Text(ScratchLen), NEW i \in Nat
  PROVE  ByteAt(Buffer(msg, len), i) \in BYTE /\ WordAt(Buffer(msg, len), i) \in Nat
<1> DEFINE m == Buffer(msg, len)
<1>1. /\ len \in Nat /\ Len(msg.bytes) \in Nat /\ msg.bytes \in Seq(BYTE)
      /\ \A j \in 0..(len - 1) : ByteAt(m, j) = msg.bytes[j + 1]
      /\ \A j \in Nat : j >= len => ByteAt(m, j) = 0
  BY BufferBytes
<1>2. len <= Len(msg.bytes)
  BY <1>1 DEF Passes
<1>3. ASSUME NEW j \in Nat
      PROVE  ByteAt(m, j) \in BYTE
  <2>1. CASE j < len
    <3>1. j \in 0..(len - 1) /\ j + 1 \in 1..Len(msg.bytes)
      BY <1>1, <1>2, <2>1
    <3>2. msg.bytes[j + 1] \in BYTE
      BY <1>1, <3>1
    <3> QED BY <1>1, <3>1, <3>2
  <2>2. CASE ~ (j < len)
    <3>1. ByteAt(m, j) = 0
      BY <1>1, <2>2
    <3> QED BY <3>1 DEF BYTE
  <2> QED BY <2>1, <2>2
<1> HIDE DEF m
<1>4. ByteAt(m, i) \in BYTE /\ ByteAt(m, i + 1) \in BYTE
  BY <1>3
<1>5. \A a, b \in BYTE : 256 * a + b \in Nat
  BY DEF BYTE
<1> QED BY <1>4, <1>5 DEF m, WordAt

LEMMA ExtensionsFollow ==
  ASSUME NEW msg, NEW len, Passes(msg, len), scratch \in Text(ScratchLen)
  PROVE  ExtensionsAt(Buffer(msg, len)) \in Nat /\ ExtensionsEnd(Buffer(msg, len)) \in Nat
<1> DEFINE m == Buffer(msg, len)
<1>1. \A i \in Nat : ByteAt(m, i) \in Nat /\ WordAt(m, i) \in Nat
  BY BytesAre DEF BYTE
<1> HIDE DEF m
<1>2. SessionAt \in Nat
  BY ParseAssumption DEF SessionAt
<1>3. CiphersAt(m) \in Nat
  BY <1>1, <1>2 DEF CiphersAt
<1>4. CompressionAt(m) \in Nat
  BY <1>1, <1>3 DEF CompressionAt
<1>5. ExtTotalAt(m) \in Nat
  BY <1>1, <1>4 DEF ExtTotalAt
<1>6. ExtensionsAt(m) \in Nat
  BY <1>5 DEF ExtensionsAt
<1>7. ExtensionsEnd(m) \in Nat
  BY <1>1, <1>5, <1>6 DEF ExtensionsEnd
<1> QED BY <1>6, <1>7 DEF m

\* Where the extensions start, as the parser goes through them: the function that
\* ExtStart chooses exists, since there is one up to every n.
StartsUpTo(m, f, n) ==
  f = [i \in 0..n |-> IF i = 0 THEN ExtensionsAt(m) ELSE f[i - 1] + 4 + WordAt(m, f[i - 1] + 2)]

LEMMA StartsExist ==
  ASSUME NEW m, NEW n \in Nat
  PROVE  \E f : StartsUpTo(m, f, n)
<1> DEFINE bad == {k \in Nat : ~ \E f : StartsUpTo(m, f, k)}
           k == Least(bad)
<1>3. SUFFICES ASSUME bad # {} PROVE FALSE
  OBVIOUS
<1>4. k \in bad /\ \A y \in bad : k <= y
  <2>1. bad \subseteq Nat
    OBVIOUS
  <2> HIDE DEF bad
  <2> QED BY <1>3, <2>1, LeastIs
<1> HIDE DEF k
<1>5. k \in Nat /\ ~ \E f : StartsUpTo(m, f, k)
  BY <1>4
<1>6. CASE k = 0
  <2> DEFINE f == [i \in 0..0 |-> ExtensionsAt(m)]
  <2>1. StartsUpTo(m, f, 0)
    BY DEF StartsUpTo
  <2> QED BY <1>5, <1>6, <2>1
<1>7. CASE k # 0
  <2>1. k - 1 \in Nat /\ k - 1 < k
    BY <1>5, <1>7
  <2>2. k - 1 \notin bad
    BY <1>4, <1>5, <2>1
  <2>3. PICK g : StartsUpTo(m, g, k - 1)
    BY <2>1, <2>2
  <2> DEFINE f == [i \in 0..k |-> IF i = k THEN g[k - 1] + 4 + WordAt(m, g[k - 1] + 2) ELSE g[i]]
  <2>4. \A i \in 0..(k - 1) :
          g[i] = IF i = 0 THEN ExtensionsAt(m) ELSE g[i - 1] + 4 + WordAt(m, g[i - 1] + 2)
    BY <2>3 DEF StartsUpTo
  <2>5. ASSUME NEW i \in 0..k
        PROVE  f[i] = IF i = 0 THEN ExtensionsAt(m) ELSE f[i - 1] + 4 + WordAt(m, f[i - 1] + 2)
    <3>1. CASE i = k
      <4>1. f[i] = g[k - 1] + 4 + WordAt(m, g[k - 1] + 2)
        BY <3>1
      <4>2. f[i - 1] = g[k - 1]
        BY <1>5, <2>1, <3>1
      <4> QED BY <1>7, <3>1, <4>1, <4>2
    <3>2. CASE i # k
      <4>1. i \in 0..(k - 1) /\ f[i] = g[i]
        BY <1>5, <3>2
      <4>2. i # 0 => i - 1 \in 0..k /\ i - 1 # k
        BY <1>5, <3>2
      <4>3. i # 0 => f[i - 1] = g[i - 1]
        BY <4>2
      <4> HIDE DEF f
      <4> QED BY <2>4, <4>1, <4>3
    <3> QED BY <3>1, <3>2
  <2>6. f = [i \in 0..k |-> f[i]]
    OBVIOUS
  <2> HIDE DEF f
  <2>7. StartsUpTo(m, f, k)
    BY <2>5, <2>6 DEF StartsUpTo
  <2> QED BY <1>5, <2>7
<1> QED BY <1>6, <1>7

LEMMA ExtStartIs ==
  ASSUME NEW m, NEW i \in 0..MaxExts
  PROVE  ExtStart(m)[i] = IF i = 0 THEN ExtensionsAt(m)
                          ELSE ExtStart(m)[i - 1] + 4 + WordAt(m, ExtStart(m)[i - 1] + 2)
<1>1. ExtStart(m) = CHOOSE f : StartsUpTo(m, f, MaxExts)
  BY DEF ExtStart, StartsUpTo
<1>2. \E f : StartsUpTo(m, f, MaxExts)
  BY StartsExist, ParseAssumption
<1>3. StartsUpTo(m, ExtStart(m), MaxExts)
  BY <1>1, <1>2, Zenon
<1> DEFINE start == ExtStart(m)
<1>4. start = [j \in 0..MaxExts |-> IF j = 0 THEN ExtensionsAt(m) ELSE start[j - 1] + 4 + WordAt(m, start[j - 1] + 2)]
  BY <1>3, Zenon DEF StartsUpTo
<1> HIDE DEF start
<1>5. start[i] = IF i = 0 THEN ExtensionsAt(m) ELSE start[i - 1] + 4 + WordAt(m, start[i - 1] + 2)
  BY <1>4
<1> QED BY <1>5 DEF start

-----------------------------------------------------------------------------
(* A hello that is passed whole.                                           *)

\* Only a hello that is there to its end is one to the parser.
LEMMA HelloCut ==
  ASSUME NEW msg \in Written, NEW len, Passes(msg, len), scratch \in Text(ScratchLen),
         IsHello(Buffer(msg, len))
  PROVE  ClientHello(msg) /\ len = Len(msg.bytes)
<1> DEFINE m == Buffer(msg, len)
<1>1. /\ len \in Nat /\ Len(msg.bytes) \in Nat /\ len <= Len(msg.bytes)
      /\ \A i \in 0..(len - 1) : ByteAt(m, i) = msg.bytes[i + 1]
  BY BufferBytes DEF Passes
<1>2. len >= 11
  <2>1. len >= SessionAt
    BY DEF IsHello, Buffer
  <2>2. RandomLen \in Nat
    BY ParseAssumption
  <2> QED BY <1>1, <2>1, <2>2 DEF SessionAt
<1>3. /\ ByteAt(m, 0) = msg.bytes[0 + 1] /\ ByteAt(m, 1) = msg.bytes[1 + 1]
      /\ ByteAt(m, 3) = msg.bytes[3 + 1] /\ ByteAt(m, 3 + 1) = msg.bytes[4 + 1]
      /\ ByteAt(m, 5) = msg.bytes[5 + 1]
  <2>1. /\ 0 \in 0..(len - 1) /\ 1 \in 0..(len - 1) /\ 3 \in 0..(len - 1) /\ 4 \in 0..(len - 1)
        /\ 5 \in 0..(len - 1)
    BY <1>1, <1>2
  <2> HIDE DEF m
  <2> QED BY <1>1, <2>1
<1>4. ByteAt(m, 0) = 22 /\ ByteAt(m, 1) = 3 /\ ByteAt(m, 5) = 1 /\ WordAt(m, 3) <= len - 5
  BY DEF IsHello, Buffer
<1> HIDE DEF m
<1>5. ClientHello(msg)
  <2>1. msg.bytes[1] = 22 /\ msg.bytes[2] = 3 /\ msg.bytes[6] = 1
    BY <1>3, <1>4
  <2>2. Len(msg.bytes) >= 11
    BY <1>1, <1>2
  <2>3. StartsAs(msg, <<22, 3>>)
    BY <1>1, <2>1, <2>2 DEF StartsAs
  <2> QED BY <1>1, <2>1, <2>2, <2>3 DEF ClientHello
<1>6. Word(msg, 4) = Len(msg.bytes) - 5
  BY <1>5, ParseAssumption DEF HelloMessage
<1>7. WordAt(m, 3) = Word(msg, 4)
  BY <1>3 DEF WordAt, Word
<1> QED BY <1>1, <1>4, <1>5, <1>6, <1>7

LEMMA WholeReads ==
  ASSUME NEW msg, NEW len, Passes(msg, len), scratch \in Text(ScratchLen), len = Len(msg.bytes)
  PROVE  /\ len \in Nat /\ Buffer(msg, len).len = len
         /\ \A i \in 1..len : ByteAt(Buffer(msg, len), i - 1) = msg.bytes[i] /\ msg.bytes[i] \in BYTE
         /\ \A i \in 1..(len - 1) : WordAt(Buffer(msg, len), i - 1) = Word(msg, i) /\ Word(msg, i) \in Nat
<1> DEFINE m == Buffer(msg, len)
<1>1. /\ len \in Nat /\ msg.bytes \in Seq(BYTE)
      /\ \A i \in 0..(len - 1) : ByteAt(m, i) = msg.bytes[i + 1]
  BY BufferBytes
<1>2. m.len = len
  BY DEF Buffer
<1> HIDE DEF m
<1>3. ASSUME NEW i \in 1..len
      PROVE  ByteAt(m, i - 1) = msg.bytes[i] /\ msg.bytes[i] \in BYTE
  <2>1. i - 1 \in 0..(len - 1) /\ (i - 1) + 1 = i /\ i \in 1..Len(msg.bytes)
    BY <1>1
  <2>2. msg.bytes[i] \in BYTE
    BY <1>1, <2>1
  <2> QED BY <1>1, <2>1, <2>2
<1>4. ASSUME NEW i \in 1..(len - 1)
      PROVE  WordAt(m, i - 1) = Word(msg, i) /\ Word(msg, i) \in Nat
  <2>1. i \in 1..len /\ i + 1 \in 1..len /\ (i - 1) + 1 = (i + 1) - 1
    BY <1>1
  <2>2. /\ ByteAt(m, i - 1) = msg.bytes[i] /\ ByteAt(m, (i - 1) + 1) = msg.bytes[i + 1]
        /\ msg.bytes[i] \in BYTE /\ msg.bytes[i + 1] \in BYTE
    BY <1>3, <2>1
  <2>3. \A a, b \in BYTE : 256 * a + b \in Nat
    BY DEF BYTE
  <2> QED BY <2>2, <2>3 DEF WordAt, Word
<1> QED BY <1>1, <1>2, <1>3, <1>4 DEF m

\* The parser's places in the hello are the hello's.
LEMMA HelloPlaces ==
  ASSUME NEW msg, NEW len, Passes(msg, len), scratch \in Text(ScratchLen), len = Len(msg.bytes),
         ClientHello(msg), HelloMessage(msg)
  PROVE  /\ ExtensionsAt(Buffer(msg, len)) = ExtensionsPlace(msg) + 1 /\ ExtensionsPlace(msg) \in Nat
         /\ ExtensionsEnd(Buffer(msg, len)) = len
         /\ IsHello(Buffer(msg, len)) <=> WithinLimits(msg)
<1> DEFINE m == Buffer(msg, len)
<1>1. /\ len \in Nat /\ m.len = len
      /\ \A i \in 1..len : ByteAt(m, i - 1) = msg.bytes[i] /\ msg.bytes[i] \in BYTE
      /\ \A i \in 1..(len - 1) : WordAt(m, i - 1) = Word(msg, i) /\ Word(msg, i) \in Nat
  BY WholeReads
<1>2. /\ SessionPlace <= len /\ CiphersPlace(msg) < len
      /\ CompressionPlace(msg) <= len /\ ExtensionsPlace(msg) < len
      /\ Word(msg, 4) = len - 5 /\ Word(msg, ExtensionsPlace(msg)) = len - (ExtensionsPlace(msg) + 1)
  BY DEF HelloMessage
<1>3. \A b \in BYTE : b \in Nat
  BY DEF BYTE
<1> HIDE DEF m
<1>4. SessionPlace \in Nat /\ SessionPlace >= 12 /\ SessionAt = SessionPlace - 1
  BY ParseAssumption DEF SessionPlace, SessionAt
<1>5. /\ CiphersPlace(msg) \in Nat /\ CiphersPlace(msg) > SessionPlace
      /\ CiphersAt(m) = CiphersPlace(msg) - 1
      /\ ByteAt(m, SessionAt) = msg.bytes[SessionPlace]
  <2>1. SessionPlace \in 1..len
    BY <1>1, <1>2, <1>4
  <2>2. ByteAt(m, SessionAt) = msg.bytes[SessionPlace] /\ msg.bytes[SessionPlace] \in Nat
    BY <1>1, <1>3, <1>4, <2>1
  <2>3. /\ CiphersPlace(msg) = SessionPlace + 1 + msg.bytes[SessionPlace]
        /\ CiphersAt(m) = SessionAt + 1 + msg.bytes[SessionPlace]
    BY <2>2 DEF CiphersPlace, CiphersAt
  <2> HIDE DEF SessionPlace, SessionAt
  <2>4. \A a, b \in Nat : a + 1 + b \in Nat /\ a + 1 + b > a /\ (a - 1) + 1 + b = (a + 1 + b) - 1
    OBVIOUS
  <2> QED BY <1>4, <2>2, <2>3, <2>4, Zenon
<1>6. /\ CompressionPlace(msg) \in Nat /\ CompressionPlace(msg) > CiphersPlace(msg)
      /\ CompressionAt(m) = CompressionPlace(msg) - 1
      /\ WordAt(m, CiphersAt(m)) = Word(msg, CiphersPlace(msg))
  <2>1. CiphersPlace(msg) \in 1..(len - 1)
    BY <1>1, <1>2, <1>4, <1>5
  <2>2. WordAt(m, CiphersAt(m)) = Word(msg, CiphersPlace(msg)) /\ Word(msg, CiphersPlace(msg)) \in Nat
    BY <1>1, <1>5, <2>1
  <2> QED BY <1>5, <2>2 DEF CompressionPlace, CompressionAt
<1>7. /\ ExtensionsPlace(msg) \in Nat /\ ExtensionsPlace(msg) > CompressionPlace(msg)
      /\ ExtTotalAt(m) = ExtensionsPlace(msg) - 1
      /\ ByteAt(m, CompressionAt(m)) = msg.bytes[CompressionPlace(msg)]
  <2>1. CompressionPlace(msg) \in 1..len
    BY <1>1, <1>2, <1>4, <1>5, <1>6
  <2>2. /\ ByteAt(m, CompressionAt(m)) = msg.bytes[CompressionPlace(msg)]
        /\ msg.bytes[CompressionPlace(msg)] \in Nat
    BY <1>1, <1>3, <1>6, <2>1
  <2> QED BY <1>6, <2>2 DEF ExtensionsPlace, ExtTotalAt
<1>8. WordAt(m, ExtTotalAt(m)) = Word(msg, ExtensionsPlace(msg))
  <2>1. ExtensionsPlace(msg) \in Nat /\ ExtensionsPlace(msg) > 0 /\ ExtensionsPlace(msg) < len
    <3>1. ExtensionsPlace(msg) > CompressionPlace(msg) /\ CompressionPlace(msg) \in Nat
      BY <1>6, <1>7
    <3> QED BY <1>2, <1>7, <3>1
  <2>2. ExtensionsPlace(msg) \in 1..(len - 1)
    BY <1>1, <2>1
  <2> QED BY <1>1, <1>7, <2>2
<1>9. ExtensionsAt(m) = ExtensionsPlace(msg) + 1 /\ ExtensionsEnd(m) = len
  BY <1>1, <1>2, <1>7, <1>8 DEF ExtensionsAt, ExtensionsEnd
<1>10. ByteAt(m, 0) = 22 /\ ByteAt(m, 1) = 3 /\ ByteAt(m, 5) = 1 /\ WordAt(m, 3) = len - 5
  <2>1. msg.bytes[1] = 22 /\ msg.bytes[2] = 3 /\ msg.bytes[6] = 1
    BY DEF ClientHello, StartsAs
  <2>2. 1 \in 1..len /\ 2 \in 1..len /\ 6 \in 1..len /\ 4 \in 1..(len - 1)
    BY <1>1, <1>2, <1>4
  <2>3. /\ ByteAt(m, 1 - 1) = msg.bytes[1] /\ ByteAt(m, 2 - 1) = msg.bytes[2]
        /\ ByteAt(m, 6 - 1) = msg.bytes[6] /\ WordAt(m, 4 - 1) = Word(msg, 4)
    BY <1>1, <2>2
  <2> QED BY <1>2, <2>1, <2>3
<1>11. /\ len >= SessionAt /\ SessionAt < len /\ len - 5 <= len - 5
       /\ CiphersAt(m) + 2 <= len /\ CompressionAt(m) < len
       /\ ExtTotalAt(m) + 2 <= len /\ ExtensionsEnd(m) <= len
  <2>1. /\ SessionPlace \in Nat /\ CiphersPlace(msg) \in Nat /\ CompressionPlace(msg) \in Nat
        /\ ExtensionsPlace(msg) \in Nat /\ len \in Nat
    BY <1>1, <1>4, <1>5, <1>6, <1>7
  <2>2. /\ SessionPlace <= len /\ CiphersPlace(msg) < len
        /\ CompressionPlace(msg) <= len /\ ExtensionsPlace(msg) < len
    BY <1>2
  <2>3. /\ SessionAt = SessionPlace - 1 /\ CiphersAt(m) = CiphersPlace(msg) - 1
        /\ CompressionAt(m) = CompressionPlace(msg) - 1 /\ ExtTotalAt(m) = ExtensionsPlace(msg) - 1
        /\ ExtensionsEnd(m) = len
    BY <1>4, <1>5, <1>6, <1>7, <1>9
  <2> QED BY <2>1, <2>2, <2>3
<1>12. IsHello(m) <=> WithinLimits(msg)
  BY <1>1, <1>5, <1>6, <1>7, <1>8, <1>10, <1>11 DEF IsHello, WithinLimits
<1> QED BY <1>7, <1>9, <1>12 DEF m

\* The parser goes from one extension of the hello to the next.
LEMMA StartsAre ==
  ASSUME NEW msg, NEW len, Passes(msg, len), scratch \in Text(ScratchLen), len = Len(msg.bytes),
         ClientHello(msg), HelloMessage(msg)
  PROVE  \A n \in 0..Len(msg.exts) : n <= MaxExts =>
           /\ ExtPlace(msg, n + 1) \in Nat /\ ExtPlace(msg, n + 1) >= ExtensionsPlace(msg) + 2
           /\ ExtStart(Buffer(msg, len))[n] = ExtPlace(msg, n + 1) - 1
<1> DEFINE m == Buffer(msg, len)
           start == ExtStart(m)
           Is(n) == /\ ExtPlace(msg, n + 1) \in Nat /\ ExtPlace(msg, n + 1) >= ExtensionsPlace(msg) + 2
                    /\ start[n] = ExtPlace(msg, n + 1) - 1
           bad == {n \in 0..Len(msg.exts) : n <= MaxExts /\ ~ Is(n)}
           n == Least(bad)
<1>1. /\ len \in Nat
      /\ \A i \in 1..(len - 1) : WordAt(m, i - 1) = Word(msg, i) /\ Word(msg, i) \in Nat
  BY WholeReads
<1>2. /\ ExtensionsAt(m) = ExtensionsPlace(msg) + 1 /\ ExtensionsPlace(msg) \in Nat
  BY HelloPlaces
<1>3. /\ \A i \in 1..Len(msg.exts) : msg.exts[i] = ExtPlace(msg, i) /\ msg.exts[i] + 3 <= len
      /\ Len(msg.exts) \in Nat
  BY DEF HelloMessage, Passes, Message
<1>4. \A i \in 0..MaxExts : start[i] = IF i = 0 THEN ExtensionsAt(m)
                                     ELSE start[i - 1] + 4 + WordAt(m, start[i - 1] + 2)
  BY ExtStartIs
<1>5. MaxExts \in Nat
  BY ParseAssumption
<1> HIDE DEF m, start
<1>6. SUFFICES ASSUME bad # {} PROVE FALSE
  BY DEF start, m
<1>7. n \in bad /\ \A y \in bad : n <= y
  <2>1. bad \subseteq Nat
    BY <1>3
  <2> HIDE DEF bad
  <2> QED BY <1>6, <2>1, LeastIs
<1>8. n \in 0..Len(msg.exts) /\ n <= MaxExts /\ ~ Is(n)
  BY <1>7
<1> HIDE DEF n
<1>9. CASE n = 0
  <2>1. ExtPlace(msg, n + 1) = ExtensionsPlace(msg) + 2
    BY <1>9 DEF ExtPlace
  <2>2. start[n] = ExtensionsPlace(msg) + 1
    BY <1>2, <1>4, <1>5, <1>9
  <2> QED BY <1>2, <1>8, <2>1, <2>2
<1>10. CASE n # 0
  <2> DEFINE p == ExtPlace(msg, n)
  <2>1. n - 1 \in 0..Len(msg.exts) /\ n - 1 <= MaxExts /\ (n - 1) + 1 = n /\ n - 1 < n
        /\ n \in 1..Len(msg.exts) /\ n \in 0..MaxExts /\ n + 1 # 1 /\ (n + 1) - 1 = n
    BY <1>3, <1>5, <1>8, <1>10
  <2>2. Is(n - 1)
    <3>1. ~ (n - 1 \in bad)
      BY <1>3, <1>7, <2>1
    <3> QED BY <2>1, <3>1
  <2>3. p \in Nat /\ p >= ExtensionsPlace(msg) + 2 /\ start[n - 1] = p - 1
    BY <2>1, <2>2
  <2>4. msg.exts[n] = p /\ p + 3 <= len
    BY <1>3, <2>1
  <2>5. ExtPlace(msg, n + 1) = p + 4 + Word(msg, p + 2)
    BY <2>1, <2>4 DEF ExtPlace
  <2>6. start[n] = (p - 1) + 4 + WordAt(m, (p - 1) + 2)
    BY <1>4, <1>10, <2>1, <2>3
  <2> HIDE DEF p
  <2>7. WordAt(m, (p - 1) + 2) = Word(msg, p + 2) /\ Word(msg, p + 2) \in Nat
    <3>1. p + 2 \in 1..(len - 1) /\ (p + 2) - 1 = (p - 1) + 2
      BY <1>1, <1>2, <2>3, <2>4
    <3> QED BY <1>1, <3>1
  <2>8. /\ ExtPlace(msg, n + 1) \in Nat /\ ExtPlace(msg, n + 1) >= ExtensionsPlace(msg) + 2
        /\ start[n] = ExtPlace(msg, n + 1) - 1
    BY <1>2, <2>3, <2>5, <2>6, <2>7
  <2> QED BY <1>8, <2>8
<1> QED BY <1>9, <1>10

\* An extension of the hello, as the parser reads it.
LEMMA ExtReads ==
  ASSUME NEW msg, NEW len, Passes(msg, len), scratch \in Text(ScratchLen), len = Len(msg.bytes),
         ClientHello(msg), HelloMessage(msg), NEW i \in 1..Len(msg.exts), i <= MaxExts
  PROVE  /\ msg.exts[i] \in Nat \ {0} /\ ExtStart(Buffer(msg, len))[i - 1] = msg.exts[i] - 1
         /\ Word(msg, msg.exts[i]) \in Nat
         /\ WordAt(Buffer(msg, len), msg.exts[i] - 1) = Word(msg, msg.exts[i])
         /\ Word(msg, msg.exts[i] + 2) \in Nat /\ msg.exts[i] + 3 + Word(msg, msg.exts[i] + 2) <= len
         /\ WholeExt(Buffer(msg, len), msg.exts[i] - 1) <=> Word(msg, msg.exts[i] + 2) <= MaxExtLen
<1> DEFINE m == Buffer(msg, len)
           p == msg.exts[i]
<1>1. /\ len \in Nat
      /\ \A j \in 1..(len - 1) : WordAt(m, j - 1) = Word(msg, j) /\ Word(msg, j) \in Nat
  BY WholeReads
<1>2. /\ ExtensionsAt(m) = ExtensionsPlace(msg) + 1 /\ ExtensionsPlace(msg) \in Nat /\ ExtensionsEnd(m) = len
  BY HelloPlaces
<1>3. p = ExtPlace(msg, i) /\ p + 3 <= len /\ ExtPlace(msg, i + 1) <= len + 1
  BY DEF HelloMessage
<1>4. /\ i - 1 \in 0..Len(msg.exts) /\ i - 1 <= MaxExts /\ (i - 1) + 1 = i /\ i + 1 # 1 /\ (i + 1) - 1 = i
  BY ParseAssumption
<1>5. ExtPlace(msg, i) \in Nat /\ ExtPlace(msg, i) >= ExtensionsPlace(msg) + 2
      /\ ExtStart(m)[i - 1] = ExtPlace(msg, i) - 1
  BY <1>4, StartsAre
<1> HIDE DEF m
<1>6. ExtPlace(msg, i + 1) = p + 4 + Word(msg, p + 2)
  BY <1>4 DEF ExtPlace
<1> HIDE DEF p
<1>7. p \in Nat /\ p >= ExtensionsPlace(msg) + 2 /\ p + 3 <= len
  BY <1>3, <1>5
<1>8. p \in 1..(len - 1) /\ p + 2 \in 1..(len - 1) /\ (p + 2) - 1 = (p - 1) + 2
  BY <1>1, <1>2, <1>7
<1>9. /\ WordAt(m, p - 1) = Word(msg, p) /\ Word(msg, p) \in Nat
      /\ WordAt(m, (p - 1) + 2) = Word(msg, p + 2) /\ Word(msg, p + 2) \in Nat
  BY <1>1, <1>8
<1>10. p + 3 + Word(msg, p + 2) <= len
  <2>1. p + 4 + Word(msg, p + 2) <= len + 1
    BY <1>3, <1>6, Zenon
  <2>2. p \in Nat /\ len \in Nat /\ Word(msg, p + 2) \in Nat
    BY <1>1, <1>7, <1>9
  <2> QED BY <2>1, <2>2
<1>11. p - 1 \in ExtensionsAt(m)..(ExtensionsEnd(m) - 4)
  BY <1>1, <1>2, <1>7
<1>12. (p - 1) + 4 + Word(msg, p + 2) <= ExtensionsEnd(m)
  BY <1>1, <1>2, <1>7, <1>9, <1>10
<1>13. WholeExt(m, p - 1) <=> Word(msg, p + 2) <= MaxExtLen
  BY <1>9, <1>11, <1>12 DEF WholeExt
<1> QED BY <1>2, <1>3, <1>5, <1>7, <1>9, <1>10, <1>13 DEF m, p

\* A server_name of the hello, as the parser reads it.
LEMMA NameReads ==
  ASSUME NEW msg, NEW len, Passes(msg, len), scratch \in Text(ScratchLen), len = Len(msg.bytes),
         NEW p \in Nat \ {0}, Word(msg, p) = 0, ServerName(msg, p), Word(msg, p + 2) \in Nat,
         p + 3 + Word(msg, p + 2) <= len
  PROVE  /\ NamesHost(Buffer(msg, len), p - 1)
         /\ Word(msg, p + 7) \in Nat \ {0} /\ p + 8 + Word(msg, p + 7) <= len
         /\ WordAt(Buffer(msg, len), (p - 1) + 7) = Word(msg, p + 7)
         /\ \A i \in (p + 9)..(p + 8 + Word(msg, p + 7)) : msg.bytes[i] # 0
<1> DEFINE m == Buffer(msg, len)
           elen == Word(msg, p + 2)
<1>1. /\ len \in Nat
      /\ \A j \in 1..len : ByteAt(m, j - 1) = msg.bytes[j]
      /\ \A j \in 1..(len - 1) : WordAt(m, j - 1) = Word(msg, j) /\ Word(msg, j) \in Nat
  BY WholeReads
<1>2. /\ elen - 5 > 0 /\ Word(msg, p + 4) = (elen - 5) + 3 /\ msg.bytes[p + 6] = 0
      /\ Word(msg, p + 7) = elen - 5
      /\ \A i \in (p + 9)..(p + 8 + (elen - 5)) : msg.bytes[i] # 0
  BY DEF ServerName
<1>3. len <= TextLen /\ TextLen \in Nat
  <2>1. ScratchLen \in Nat /\ TextLen \in Nat /\ ScratchLen <= TextLen
    BY ParseAssumption
  <2>2. len <= ScratchLen
    BY DEF Passes
  <2> QED BY <1>1, <2>1, <2>2
<1> HIDE DEF m, elen
<1>4. elen \in Nat /\ p + 3 + elen <= len /\ len \in Nat /\ elen > 5
  <2>1. elen \in Nat /\ p + 3 + elen <= len
    BY DEF elen
  <2> QED BY <1>1, <1>2, <2>1
<1>5. /\ p \in 1..(len - 1) /\ p + 2 \in 1..(len - 1) /\ p + 4 \in 1..(len - 1) /\ p + 7 \in 1..(len - 1)
      /\ (p + 2) - 1 = (p - 1) + 2 /\ (p + 4) - 1 = (p - 1) + 4 /\ (p + 7) - 1 = (p - 1) + 7
  BY <1>4
<1>6. p + 6 \in 1..len /\ (p + 6) - 1 = (p - 1) + 6
  BY <1>4
<1>7. /\ WordAt(m, p - 1) = 0 /\ WordAt(m, (p - 1) + 2) = elen
      /\ WordAt(m, (p - 1) + 4) = elen - 2 /\ WordAt(m, (p - 1) + 7) = elen - 5
      /\ ByteAt(m, (p - 1) + 6) = 0
  <2>1. /\ WordAt(m, p - 1) = Word(msg, p) /\ WordAt(m, (p - 1) + 2) = Word(msg, p + 2)
        /\ WordAt(m, (p - 1) + 4) = Word(msg, p + 4) /\ WordAt(m, (p - 1) + 7) = Word(msg, p + 7)
    BY <1>1, <1>5
  <2>2. ByteAt(m, (p - 1) + 6) = msg.bytes[p + 6]
    BY <1>1, <1>6
  <2>3. (elen - 5) + 3 = elen - 2
    BY <1>4
  <2> QED BY <1>2, <2>1, <2>2, <2>3 DEF elen
<1>8. /\ elen >= 5 /\ elen - 2 >= 3 /\ 2 + (elen - 2) <= elen /\ elen - 5 \in 1..TextLen /\ 5 + (elen - 5) <= elen
      /\ p + 8 + (elen - 5) <= len /\ elen - 5 \in Nat \ {0}
  BY <1>3, <1>4
<1>9. NamesHost(m, p - 1)
  BY <1>7, <1>8 DEF NamesHost
<1> QED BY <1>2, <1>7, <1>8, <1>9 DEF m

\* The hello shows the name of the first server_name that the parser comes to.
LEMMA SniIs ==
  ASSUME NEW msg \in Written, NEW len, Passes(msg, len), scratch \in Text(ScratchLen),
         len = Len(msg.bytes), ClientHello(msg)
  PROVE  \/ Lacks(msg, "tls_sni") /\ Sni(Buffer(msg, len)) = Nowhere
         \/ \E p \in Nat \ {0} :
              /\ First(msg, "tls_sni") = p + 9
              /\ msg.parts["tls_sni"].last = p + 8 + Word(msg, p + 7)
              /\ Word(msg, p + 7) \in Nat \ {0} /\ p + 8 + Word(msg, p + 7) <= len
              /\ \A i \in (p + 9)..(p + 8 + Word(msg, p + 7)) : msg.bytes[i] # 0
              /\ Sni(Buffer(msg, len)) = Span(p + 8, Word(msg, p + 7))
<1> DEFINE m == Buffer(msg, len)
           start == ExtStart(m)
           exts == msg.exts
           named == {n \in 0..(MaxExts - 1) :
                       /\ \A j \in 0..n : WholeExt(m, start[j])
                       /\ NamesHost(m, start[n])}
<1>1. HelloMessage(msg) /\ NamedMessage(msg)
  BY ParseAssumption
<1>2. Sni(m) = IF IsHello(m) /\ named # {}
               THEN Span(start[Least(named)] + 9, WordAt(m, start[Least(named)] + 7))
               ELSE Nowhere
  BY DEF Sni
<1>3. IsHello(m) <=> WithinLimits(msg)
  BY <1>1, HelloPlaces
<1>4. ASSUME NEW i \in 1..Len(exts), i <= MaxExts
      PROVE  /\ exts[i] \in Nat \ {0} /\ start[i - 1] = exts[i] - 1
             /\ WordAt(m, exts[i] - 1) = Word(msg, exts[i])
             /\ Word(msg, exts[i] + 2) \in Nat /\ exts[i] + 3 + Word(msg, exts[i] + 2) <= len
             /\ WholeExt(m, exts[i] - 1) <=> Word(msg, exts[i] + 2) <= MaxExtLen
  BY <1>1, <1>4, ExtReads
<1>5. len \in Nat /\ Len(exts) \in Nat /\ MaxExts \in Nat /\ DOMAIN exts = 1..Len(exts)
  BY ParseAssumption DEF Passes, Message
\* The parser stops where the extensions do.
<1>6. ASSUME NEW n \in named
      PROVE  n \in 0..(MaxExts - 1) /\ n < Len(exts)
  <2>1. n \in 0..(MaxExts - 1) /\ \A j \in 0..n : WholeExt(m, start[j])
    OBVIOUS
  <2>2. ASSUME ~ (n < Len(exts)) PROVE FALSE
    <3>1. Len(exts) \in 0..n /\ Len(exts) \in 0..Len(exts) /\ Len(exts) <= MaxExts
      BY <1>5, <2>1, <2>2
    <3>2. start[Len(exts)] = ExtPlace(msg, Len(exts) + 1) - 1
      BY <1>1, <3>1, StartsAre
    <3>3. ExtPlace(msg, Len(exts) + 1) = len + 1
      BY <1>1 DEF HelloMessage
    <3>4. WholeExt(m, start[Len(exts)])
      BY <2>1, <3>1
    <3>5. ExtensionsEnd(m) = len /\ ExtensionsAt(m) \in Nat
      <4>1. ExtensionsAt(m) = ExtensionsPlace(msg) + 1 /\ ExtensionsPlace(msg) \in Nat /\ ExtensionsEnd(m) = len
        BY <1>1, HelloPlaces
      <4> QED BY <4>1
    <3> HIDE DEF start, m, exts
    <3>6. start[Len(exts)] = len
      BY <1>5, <3>2, <3>3
    <3>7. start[Len(exts)] \in ExtensionsAt(m)..(ExtensionsEnd(m) - 4)
      BY <3>4 DEF WholeExt
    <3> QED BY <1>5, <3>5, <3>6, <3>7
  <2> QED BY <2>1, <2>2
\* What it takes for a name, and what a name is to it.
<1>7. ASSUME NEW n \in named
      PROVE  /\ n + 1 \in 1..Len(exts) /\ n + 1 <= MaxExts /\ Word(msg, exts[n + 1]) = 0
             /\ \A j \in 1..(n + 1) : Word(msg, exts[j] + 2) <= MaxExtLen
  <2>1. n + 1 \in 1..Len(exts) /\ n + 1 <= MaxExts /\ (n + 1) - 1 = n
    BY <1>5, <1>6
  <2>2. /\ \A j \in 0..n : WholeExt(m, start[j])
        /\ NamesHost(m, start[n])
    OBVIOUS
  <2>3. start[n] = exts[n + 1] - 1 /\ WordAt(m, exts[n + 1] - 1) = Word(msg, exts[n + 1])
    BY <1>4, <2>1
  <2> HIDE DEF start, m, named, exts
  <2>4. Word(msg, exts[n + 1]) = 0
    BY <2>2, <2>3 DEF NamesHost
  <2>5. ASSUME NEW j \in 1..(n + 1)
        PROVE  Word(msg, exts[j] + 2) <= MaxExtLen
    <3>1. j \in 1..Len(exts) /\ j <= MaxExts /\ j - 1 \in 0..n
      BY <1>5, <1>6, <2>1
    <3>2. WholeExt(m, start[j - 1]) /\ start[j - 1] = exts[j] - 1
      BY <1>4, <2>2, <3>1
    <3> QED BY <1>4, <3>1, <3>2
  <2> QED BY <2>1, <2>4, <2>5
<1>8. ASSUME NEW i \in 1..Len(exts), FirstName(msg, i)
      PROVE  /\ i - 1 \in named /\ NamesHost(m, exts[i] - 1)
             /\ Word(msg, exts[i] + 7) \in Nat \ {0} /\ exts[i] + 8 + Word(msg, exts[i] + 7) <= len
             /\ WordAt(m, (exts[i] - 1) + 7) = Word(msg, exts[i] + 7)
             /\ \A k \in (exts[i] + 9)..(exts[i] + 8 + Word(msg, exts[i] + 7)) : msg.bytes[k] # 0
  <2>1. /\ Word(msg, exts[i]) = 0 /\ i <= MaxExts /\ \A j \in 1..i : Word(msg, exts[j] + 2) <= MaxExtLen
    BY <1>8 DEF FirstName
  <2>2. ServerName(msg, exts[i])
    BY <1>1, <1>5, <2>1 DEF NamedMessage
  <2>3. /\ exts[i] \in Nat \ {0} /\ start[i - 1] = exts[i] - 1
        /\ Word(msg, exts[i] + 2) \in Nat /\ exts[i] + 3 + Word(msg, exts[i] + 2) <= len
    BY <1>4, <2>1
  <2>4. /\ NamesHost(m, exts[i] - 1)
        /\ Word(msg, exts[i] + 7) \in Nat \ {0} /\ exts[i] + 8 + Word(msg, exts[i] + 7) <= len
        /\ WordAt(m, (exts[i] - 1) + 7) = Word(msg, exts[i] + 7)
        /\ \A k \in (exts[i] + 9)..(exts[i] + 8 + Word(msg, exts[i] + 7)) : msg.bytes[k] # 0
    <3> HIDE DEF exts
    <3>1. ASSUME NEW p \in Nat \ {0}, Word(msg, p) = 0, ServerName(msg, p), Word(msg, p + 2) \in Nat,
                 p + 3 + Word(msg, p + 2) <= len
          PROVE  /\ NamesHost(m, p - 1)
                 /\ Word(msg, p + 7) \in Nat \ {0} /\ p + 8 + Word(msg, p + 7) <= len
                 /\ WordAt(m, (p - 1) + 7) = Word(msg, p + 7)
                 /\ \A k \in (p + 9)..(p + 8 + Word(msg, p + 7)) : msg.bytes[k] # 0
      BY <3>1, NameReads
    <3> QED BY <2>1, <2>2, <2>3, <3>1, Zenon
  <2>5. i - 1 \in 0..(MaxExts - 1)
    BY <1>5, <2>1
  <2> HIDE DEF start, m, exts
  <2>6. ASSUME NEW j \in 0..(i - 1)
        PROVE  WholeExt(m, start[j])
    <3>1. j + 1 \in 1..Len(exts) /\ j + 1 <= MaxExts /\ (j + 1) - 1 = j /\ j + 1 \in 1..i
      BY <1>5, <2>1
    <3>2. start[j] = exts[j + 1] - 1 /\ WholeExt(m, exts[j + 1] - 1)
      BY <1>4, <2>1, <3>1
    <3> QED BY <3>2
  <2>7. i - 1 \in named
    BY <2>3, <2>4, <2>5, <2>6
  <2> HIDE DEF named
  <2> QED BY <2>4, <2>7
<1> HIDE DEF named, start, m, exts
<1>9. named \subseteq Nat
  BY <1>5, <1>6
<1>10. CASE WithinLimits(msg) /\ \E i \in DOMAIN exts : FirstName(msg, i)
  <2>1. PICK i \in 1..Len(exts) :
          /\ FirstName(msg, i)
          /\ msg.parts["tls_sni"].first = exts[i] + 9
          /\ msg.parts["tls_sni"].last = exts[i] + 8 + Word(msg, exts[i] + 7)
    BY <1>1, <1>5, <1>10 DEF NamedMessage, exts
  <2>2. i - 1 \in named /\ i \in Nat
    BY <1>5, <1>8, <2>1
  <2>3. ASSUME NEW n \in named PROVE i - 1 <= n
    <3>1. n + 1 \in 1..Len(exts) /\ Word(msg, exts[n + 1]) = 0
      BY <1>7
    <3>2. ~ (n + 1 \in 1..(i - 1))
      BY <2>1, <3>1 DEF FirstName, exts
    <3> QED BY <1>5, <1>9, <2>2, <3>1, <3>2
  <2>4. Least(named) = i - 1
    <3>1. Least(named) \in named /\ \A n \in named : Least(named) <= n
      BY <1>9, <2>2, LeastIs
    <3>2. Least(named) <= i - 1 /\ i - 1 <= Least(named) /\ Least(named) \in Nat
      BY <1>9, <2>2, <2>3, <3>1
    <3> HIDE DEF named
    <3> QED BY <2>2, <3>2
  <2>5. exts[i] \in Nat \ {0} /\ start[i - 1] = exts[i] - 1
    BY <1>4, <2>1 DEF FirstName
  <2>6. Sni(m) = Span((exts[i] - 1) + 9, WordAt(m, (exts[i] - 1) + 7))
    BY <1>2, <1>3, <1>10, <2>2, <2>4, <2>5
  <2>7. (exts[i] - 1) + 9 = exts[i] + 8
    BY <2>5
  <2>8. Sni(m) = Span(exts[i] + 8, Word(msg, exts[i] + 7))
    BY <1>8, <2>1, <2>6, <2>7
  <2> QED BY <1>8, <2>1, <2>5, <2>8 DEF First, m
<1>11. CASE ~ (WithinLimits(msg) /\ \E i \in DOMAIN exts : FirstName(msg, i))
  <2>1. Lacks(msg, "tls_sni")
    BY <1>1, <1>11 DEF NamedMessage, exts
  <2>2. ASSUME NEW n \in named PROVE \E i \in DOMAIN exts : FirstName(msg, i)
    <3> DEFINE names == {i \in 1..Len(exts) : Word(msg, exts[i]) = 0}
               i == Least(names)
    <3>1. n + 1 \in names /\ names \subseteq Nat
      BY <1>5, <1>7
    <3>2. i \in names /\ \A k \in names : i <= k
      <4> HIDE DEF names
      <4> QED BY <3>1, LeastIs
    <3> HIDE DEF i
    <3>3. i \in 1..Len(exts) /\ Word(msg, exts[i]) = 0 /\ i <= n + 1
      BY <3>1, <3>2
    <3>4. ASSUME NEW j \in 1..(i - 1) PROVE Word(msg, exts[j]) # 0
      <4>1. j \in 1..Len(exts) /\ ~ (i <= j)
        BY <1>5, <3>3
      <4> QED BY <3>2, <4>1
    <3>5. i <= MaxExts /\ \A j \in 1..i : Word(msg, exts[j] + 2) <= MaxExtLen
      <4>1. n + 1 <= MaxExts /\ \A j \in 1..(n + 1) : Word(msg, exts[j] + 2) <= MaxExtLen
        BY <1>7
      <4>2. i \in Nat /\ n \in Nat /\ 1..i \subseteq 1..(n + 1)
        BY <1>5, <1>9, <3>3
      <4> QED BY <1>5, <3>3, <4>1, <4>2
    <3>6. FirstName(msg, i)
      BY <3>3, <3>4, <3>5 DEF FirstName, exts
    <3> QED BY <1>5, <3>3, <3>6
  <2>3. Sni(m) = Nowhere
    BY <1>2, <1>3, <1>11, <2>2
  <2> QED BY <2>1, <2>3 DEF m
<1> QED BY <1>10, <1>11

LEMMA SniLaid ==
  ASSUME NEW msg \in Written, NEW len, Passes(msg, len), scratch \in Text(ScratchLen),
         NEW old \in Text(TextLen)
  PROVE  /\ Fits(Says(msg, len, "tls_sni"), TextLen)
         /\ CopyBytes(old, Buffer(msg, len), Sni(Buffer(msg, len)))
              = Laid(Says(msg, len, "tls_sni"), old, TextLen)
<1> DEFINE m == Buffer(msg, len)
           seen == Seen(msg, len, "tls_sni")
<1>0. /\ TextLen \in Nat \ {0} /\ len \in Nat /\ len <= TextLen /\ "tls_sni" \in Fields
      /\ Fits(<<>>, TextLen)
  <2>1. ScratchLen \in Nat \ {0} /\ TextLen \in Nat /\ ScratchLen <= TextLen
    BY ParseAssumption
  <2>2. len \in Nat /\ len <= ScratchLen
    BY BufferBytes DEF Passes
  <2> QED BY <2>1, <2>2 DEF Fields, Texts, Fits
<1>1. Says(msg, len, "tls_sni") = IF len = Len(msg.bytes) THEN seen ELSE <<>>
  BY DEF Says, Seen, First, End
<1>2. CASE ~ (len = Len(msg.bytes) /\ ClientHello(msg))
  <2>1. Sni(m) = Nowhere
    <3>1. ~ IsHello(m)
      BY <1>2, HelloCut
    <3> QED BY <3>1 DEF Sni
  <2>2. Says(msg, len, "tls_sni") = <<>>
    <3>1. CASE len # Len(msg.bytes)
      BY <1>1, <3>1
    <3>2. CASE ~ ClientHello(msg)
      <4>1. Lacks(msg, "tls_sni")
        BY <3>2, ParseAssumption
      <4>2. seen = <<>>
        BY <1>0, <4>1, LacksIs
      <4> QED BY <1>1, <4>2
    <3> QED BY <1>2, <3>1, <3>2
  <2> QED BY <1>0, <2>1, <2>2, NothingLaid
<1>3. CASE len = Len(msg.bytes) /\ ClientHello(msg)
  <2>1. Says(msg, len, "tls_sni") = seen
    BY <1>1, <1>3
  <2>2. CASE Lacks(msg, "tls_sni") /\ Sni(m) = Nowhere
    <3>1. seen = <<>>
      BY <1>0, <2>2, LacksIs
    <3> QED BY <1>0, <2>1, <2>2, <3>1, NothingLaid
  <2>3. CASE \E p \in Nat \ {0} :
              /\ First(msg, "tls_sni") = p + 9
              /\ msg.parts["tls_sni"].last = p + 8 + Word(msg, p + 7)
              /\ Word(msg, p + 7) \in Nat \ {0} /\ p + 8 + Word(msg, p + 7) <= len
              /\ \A i \in (p + 9)..(p + 8 + Word(msg, p + 7)) : msg.bytes[i] # 0
              /\ Sni(m) = Span(p + 8, Word(msg, p + 7))
    <3>1. PICK p \in Nat \ {0} :
              /\ First(msg, "tls_sni") = p + 9
              /\ msg.parts["tls_sni"].last = p + 8 + Word(msg, p + 7)
              /\ Word(msg, p + 7) \in Nat \ {0} /\ p + 8 + Word(msg, p + 7) <= len
              /\ \A i \in (p + 9)..(p + 8 + Word(msg, p + 7)) : msg.bytes[i] # 0
              /\ Sni(m) = Span(p + 8, Word(msg, p + 7))
      BY <2>3
    <3> DEFINE size == Word(msg, p + 7)
               from == p + 8
    <3>2. /\ seen \in Seq(BYTE)
          /\ Len(seen) = IF First(msg, "tls_sni") <= End(msg, len, "tls_sni")
                         THEN End(msg, len, "tls_sni") - First(msg, "tls_sni") + 1 ELSE 0
          /\ \A i \in 1..Len(seen) : seen[i] = msg.bytes[i + First(msg, "tls_sni") - 1]
      BY <1>0, SeenIs
    <3> HIDE DEF size, seen, m
    <3>3. /\ First(msg, "tls_sni") = p + 9 /\ msg.parts["tls_sni"].last = p + 8 + size
          /\ size \in Nat \ {0} /\ p + 8 + size <= len /\ Sni(m) = Span(from, size)
          /\ \A i \in (p + 9)..(p + 8 + size) : msg.bytes[i] # 0
      BY <3>1 DEF size
    <3>4. End(msg, len, "tls_sni") = p + 8 + size
      BY <1>0, <3>3 DEF End, Lower
    <3>5. Len(seen) = size /\ from + Len(seen) <= len /\ Len(seen) < TextLen
      BY <1>0, <3>2, <3>3, <3>4
    <3>6. ASSUME NEW i \in 1..Len(seen)
          PROVE  seen[i] = msg.bytes[from + i] /\ seen[i] # 0
      <4>1. i + (p + 9) - 1 = from + i /\ from + i \in (p + 9)..(p + 8 + size)
        BY <3>3, <3>5
      <4> QED BY <3>2, <3>3, <4>1
    <3>7. Fits(seen, TextLen)
      BY <3>2, <3>5, <3>6 DEF Fits
    <3>8. CopyBytes(old, m, Span(from, Len(seen))) = Laid(seen, old, TextLen)
      <4>1. from \in Nat /\ TextLen \in Nat
        BY <1>0
      <4> HIDE DEF from
      <4>2. ASSUME NEW n \in Nat, old \in Text(n), NEW new \in Seq(BYTE),
                   Len(new) # 0 => from + Len(new) <= len,
                   \A i \in 1..Len(new) : new[i] = msg.bytes[from + i]
            PROVE  CopyBytes(old, m, Span(from, Len(new))) = Laid(new, old, n)
        BY <4>1, <4>2, CopyLays DEF m
      <4>3. old \in Text(TextLen)
        OBVIOUS
      <4> QED BY <3>2, <3>5, <3>6, <4>1, <4>2, <4>3, Zenon
    <3> QED BY <2>1, <3>3, <3>5, <3>7, <3>8 DEF m
  <2> QED BY <1>3, <2>2, <2>3, SniIs
<1> QED BY <1>2, <1>3

-----------------------------------------------------------------------------
(* What a write leaves in a text.                                          *)

\* The array of a text.
SizeOf(field) == IF field = "http_method" THEN MethodLen ELSE TextLen

Wrote(msg, len, field, old) ==
  LET m == Buffer(msg, len) IN
  CASE field = "tls_sni" -> CopyBytes(old, m, Sni(m))
    [] field = "http_method" -> IF IsRequest(m) THEN CopyBytes(old, m, Method(m)) ELSE old
    [] field = "http_path" -> IF IsRequest(m) THEN CopyBytes(old, m, Path(m)) ELSE old
    [] field = "http_host" -> IF IsRequest(m) THEN CopyBytes(old, m, Host(m)) ELSE old

\* A write lays what it says over the text, unless a header was taken for Host.
LEMMA WriteLays ==
  ASSUME NEW msg \in Written, NEW len, Passes(msg, len), scratch \in Text(ScratchLen),
         NEW field \in Texts, NEW old \in Text(SizeOf(field)),
         field = "http_host" /\ IsRequest(Buffer(msg, len)) => ~ Misleading(msg)
  PROVE  /\ Fits(Says(msg, len, field), SizeOf(field))
         /\ Wrote(msg, len, field, old) = Laid(Says(msg, len, field), old, SizeOf(field))
<1>0. /\ Texts \subseteq Fields /\ MethodLen \in Nat /\ MethodLen # 0 /\ TextLen \in Nat /\ TextLen # 0
      /\ len \in Nat
  <2>1. ScratchLen \in Nat \ {0} /\ TextLen \in Nat /\ ScratchLen <= TextLen
    BY ParseAssumption
  <2> QED BY <2>1, BufferBytes DEF Fields, MethodLen
<1> DEFINE httpTexts == {"http_method", "http_path", "http_host"}
<1>1. CASE field \in httpTexts /\ len >= 4 /\ \E method \in MethodStart : StartsAs(msg, method)
  <2>1. RequestMessage(msg)
    BY <1>1, ParseAssumption
  <2>2. IsRequest(Buffer(msg, len))
    BY <1>1, RequestIs
  <2>3. CASE field = "http_method"
    BY <1>1, <2>1, <2>2, <2>3, MethodLaid DEF Wrote, SizeOf
  <2>4. CASE field = "http_path"
    BY <1>1, <2>1, <2>2, <2>4, PathLaid DEF Wrote, SizeOf
  <2>5. CASE field = "http_host"
    BY <1>1, <2>1, <2>2, <2>5, HostLaid DEF Wrote, SizeOf
  <2> QED BY <1>1, <2>3, <2>4, <2>5
<1>2. CASE field \in httpTexts /\ ~ (len >= 4 /\ \E method \in MethodStart : StartsAs(msg, method))
  <2>1. ~ IsRequest(Buffer(msg, len))
    BY <1>2, RequestIs
  <2>2. len >= 4 => Seen(msg, len, field) = <<>>
    <3>1. len >= 4 => Lacks(msg, field)
      BY <1>2, ParseAssumption
    <3> QED BY <1>0, <3>1, LacksIs
  <2>3. Says(msg, len, field) = <<>>
    <3>1. SubSeq(<<>>, 1, Lower(MethodLen - 1, Len(<<>>))) = <<>>
      <4>1. Lower(MethodLen - 1, Len(<<>>)) = 0 /\ <<>> \in Seq(BYTE) /\ Len(<<>>) = 0
        BY DEF Lower, MethodLen
      <4>2. SubSeq(<<>>, 1, 0) \in Seq(BYTE) /\ Len(SubSeq(<<>>, 1, 0)) = 0
        BY <4>1, SliceIs
      <4> QED BY <4>1, <4>2
    <3>2. CASE field = "http_method"
      BY <2>2, <3>1, <3>2, SaysIs
    <3>3. CASE field # "http_method"
      BY <1>2, <2>2, <3>3, SaysIs
    <3> QED BY <3>2, <3>3
  <2>4. SizeOf(field) \in Nat /\ SizeOf(field) # 0
    BY <1>0 DEF SizeOf
  <2>5. Fits(<<>>, SizeOf(field))
    BY <2>4 DEF Fits
  <2>6. Wrote(msg, len, field, old) = old
    BY <1>2, <2>1 DEF Wrote
  <2>7. Laid(<<>>, old, SizeOf(field)) = old
    BY <2>4 DEF Laid, Text
  <2> QED BY <2>3, <2>5, <2>6, <2>7
<1>3. CASE field = "tls_sni"
  BY <1>3, SniLaid DEF Wrote, SizeOf
<1> QED BY <1>1, <1>2, <1>3 DEF Texts

-----------------------------------------------------------------------------
(* The invariant.                                                          *)

RowFields == {"tls_sni", "http_host", "http_path", "http_method", "http_status", "has_tls", "has_http"}

\* A text that starts with another.
Begins(text, s) == s \in Seq(BYTE) /\ Len(s) <= Len(text) /\ \A i \in 1..Len(s) : text[i] = s[i]

\* Each text is as long as the longest that was said, starts with the last that
\* was said, and has zeros behind it.
TextHeld(field) ==
  \E text : /\ Fits(text, SizeOf(field))
            /\ row[field] = Laid(text, Blank(SizeOf(field)), SizeOf(field))
            /\ Len(text) = longest[field]
            /\ Begins(text, latest[field])

\* The host keeps its NUL even when other headers are taken for it.
HostEnded == row["http_host"] \in Text(TextLen) /\ row["http_host"][TextLen - 1] = 0

\* The status is the number of what was said.
StatusHeld ==
  \/ latest["http_status"] = <<>> /\ row.http_status = 0
  \/ Digits(latest["http_status"]) /\ row.http_status = Number(latest["http_status"])

ParseInv ==
  /\ scratch \in Text(ScratchLen)
  /\ DOMAIN row = RowFields
  /\ \A f \in Texts : (f = "http_host" => ~ misled) => TextHeld(f)
  /\ HostEnded
  /\ StatusHeld

LEMMA SizesAre ==
  /\ MethodLen = 8 /\ TextLen \in Nat \ {0}
  /\ \A f \in Texts : SizeOf(f) \in Nat \ {0}
<1>1. ScratchLen \in Nat \ {0} /\ TextLen \in Nat /\ ScratchLen <= TextLen
  BY ParseAssumption
<1> QED BY <1>1 DEF SizeOf, MethodLen

LEMMA ParseInitInv == ParseInit => ParseInv
<1> SUFFICES ASSUME ParseInit PROVE ParseInv
  OBVIOUS
<1>1. ScratchLen \in Nat /\ TextLen \in Nat \ {0}
  BY SizesAre, ParseAssumption
<1>2. scratch \in Text(ScratchLen)
  BY <1>1 DEF ParseInit, Blank, Text, BYTE
<1>3. DOMAIN row = RowFields
  BY DEF ParseInit, RowFields
<1>4. HostEnded
  <2>1. row["http_host"] = Blank(TextLen) /\ TextLen - 1 \in 0..(TextLen - 1)
    BY <1>1 DEF ParseInit
  <2> QED BY <1>1, <2>1 DEF HostEnded, Blank, Text, BYTE
<1>5. ASSUME NEW f \in Texts
      PROVE  TextHeld(f)
  <2>1. SizeOf(f) \in Nat \ {0}
    BY SizesAre
  <2>2. latest[f] = <<>> /\ longest[f] = 0 /\ row[f] = Blank(SizeOf(f))
    <3>1. latest[f] = <<>> /\ longest[f] = 0
      BY DEF ParseInit, Fields, Texts
    <3>2. /\ row["http_method"] = Blank(MethodLen) /\ row["http_path"] = Blank(TextLen)
          /\ row["http_host"] = Blank(TextLen) /\ row["tls_sni"] = Blank(TextLen)
      BY DEF ParseInit
    <3> QED BY <3>1, <3>2 DEF Texts, SizeOf
  <2>3. Fits(<<>>, SizeOf(f)) /\ Len(<<>>) = 0 /\ Begins(<<>>, <<>>)
    BY <2>1 DEF Fits, Begins
  <2>4. Laid(<<>>, Blank(SizeOf(f)), SizeOf(f)) = Blank(SizeOf(f))
    BY <2>1 DEF Laid, Blank
  <2> QED BY <2>2, <2>3, <2>4 DEF TextHeld
<1>6. StatusHeld
  BY DEF ParseInit, StatusHeld, Fields
<1> QED BY <1>2, <1>3, <1>4, <1>5, <1>6 DEF ParseInv

\* A call passes no more than the message and the scratch area have.
LEMMA CallPasses ==
  ASSUME NEW msg \in Message, NEW num \in 1..Len(msg.bytes)
  PROVE  Passes(msg, Lower(num, ScratchLen))
<1>1. ScratchLen \in Nat \ {0} /\ Len(msg.bytes) \in Nat
  BY ParseAssumption DEF Message
<1> QED BY <1>1 DEF Passes, Lower

\* What a call says of a text becomes the last and, if need be, the longest.
LEMMA SaidIs ==
  ASSUME NEW msg, NEW len, NEW fields, Say(msg, len, fields), NEW f \in Fields
  PROVE  /\ f \notin fields => latest'[f] = latest[f]
         /\ f \notin fields /\ longest[f] \in Nat => longest'[f] = longest[f]
         /\ f \in fields =>
              LET new == Says(msg, len, f) IN
              /\ latest'[f] = IF new # <<>> THEN new ELSE latest[f]
              /\ longest'[f] = IF Len(new) > longest[f] THEN Len(new) ELSE longest[f]
<1> DEFINE said == [g \in Fields |-> IF g \in fields THEN Says(msg, len, g) ELSE <<>>]
<1>1. /\ latest' = [g \in Fields |-> IF said[g] # <<>> THEN said[g] ELSE latest[g]]
      /\ longest' = [g \in Fields |-> IF Len(said[g]) > longest[g] THEN Len(said[g]) ELSE longest[g]]
  BY DEF Say
<1>2. said[f] = IF f \in fields THEN Says(msg, len, f) ELSE <<>>
  OBVIOUS
<1> HIDE DEF said
<1>3. /\ latest'[f] = IF said[f] # <<>> THEN said[f] ELSE latest[f]
      /\ longest'[f] = IF Len(said[f]) > longest[f] THEN Len(said[f]) ELSE longest[f]
  BY <1>1
<1>4. Len(<<>>) = 0
  OBVIOUS
<1> QED BY <1>2, <1>3, <1>4

\* A text laid over another is no shorter than either and starts with the last.
LEMMA OverHolds ==
  ASSUME NEW n \in Nat, NEW new, NEW old, Fits(new, n), Fits(old, n),
         NEW recent, Begins(old, recent)
  PROVE  /\ Len(Over(new, old)) = IF Len(new) > Len(old) THEN Len(new) ELSE Len(old)
         /\ Begins(Over(new, old), IF new # <<>> THEN new ELSE recent)
<1>1. new \in Seq(BYTE) /\ old \in Seq(BYTE)
  BY DEF Fits
<1>2. /\ Over(new, old) \in Seq(BYTE)
      /\ Len(Over(new, old)) = IF Len(new) < Len(old) THEN Len(old) ELSE Len(new)
      /\ \A i \in 1..Len(Over(new, old)) :
           Over(new, old)[i] = IF i <= Len(new) THEN new[i] ELSE old[i]
  BY <1>1, OverIs
<1>3. Begins(Over(new, old), new)
  BY <1>1, <1>2 DEF Begins
<1>4. ASSUME new = <<>>
      PROVE  Begins(Over(new, old), recent)
  <2>1. Len(new) = 0
    BY <1>4
  <2> QED BY <1>1, <1>2, <2>1 DEF Begins
<1>5. Len(Over(new, old)) = IF Len(new) > Len(old) THEN Len(new) ELSE Len(old)
  BY <1>1, <1>2
<1>6. Begins(Over(new, old), IF new # <<>> THEN new ELSE recent)
  BY <1>3, <1>4, Zenon
<1> QED BY <1>5, <1>6

\* A copy from behind the first byte never reaches the end of a long array.
LEMMA CopyKeepsEnd ==
  ASSUME NEW msg, NEW len, Passes(msg, len), scratch \in Text(ScratchLen),
         NEW old \in Text(TextLen), NEW at \in Nat \ {0}, NEW count
  PROVE  /\ CopyBytes(old, Buffer(msg, len), Span(at, count)) \in Text(TextLen)
         /\ CopyBytes(old, Buffer(msg, len), Span(at, count))[TextLen - 1] = old[TextLen - 1]
<1> DEFINE new == CopyBytes(old, Buffer(msg, len), Span(at, count))
<1>1. /\ ScratchLen \in Nat \ {0} /\ TextLen \in Nat \ {0} /\ ScratchLen <= TextLen
      /\ len \in Nat /\ len <= ScratchLen
  BY SizesAre, ParseAssumption, BufferBytes DEF Passes
<1>2. DOMAIN old = 0..(TextLen - 1) /\ \A i \in 0..(TextLen - 1) : old[i] \in BYTE
  BY DEF Text
<1>3. new = [i \in 0..(TextLen - 1) |-> IF i < count /\ at + i < len THEN Filled(msg, len)[at + i] ELSE old[i]]
  BY <1>2 DEF CopyBytes, Buffer, Span
<1>4. ASSUME NEW i \in 0..(TextLen - 1), at + i < len
      PROVE  Filled(msg, len)[at + i] \in BYTE
  <2>1. at + i \in 0..(ScratchLen - 1)
    BY <1>1, <1>4
  <2>2. Filled(msg, len) \in [0..(ScratchLen - 1) -> BYTE]
    BY BufferBytes DEF Text
  <2> QED BY <2>1, <2>2
<1>5. new \in Text(TextLen)
  BY <1>2, <1>3, <1>4 DEF Text
<1>6. TextLen - 1 \in 0..(TextLen - 1) /\ ~ (at + (TextLen - 1) < len)
  BY <1>1
<1> QED BY <1>3, <1>5, <1>6

LEMMA HostKeepsEnd ==
  ASSUME NEW msg, NEW len, Passes(msg, len), scratch \in Text(ScratchLen), NEW old \in Text(TextLen)
  PROVE  LET new == CopyBytes(old, Buffer(msg, len), Host(Buffer(msg, len))) IN
         new \in Text(TextLen) /\ new[TextLen - 1] = old[TextLen - 1]
<1> DEFINE m == Buffer(msg, len)
           lines == {p \in 0..Lower(HostScan - 1, m.len - 6) : IsHostLine(m, p)}
<1>1. \E at \in Nat \ {0} : \E count : Host(m) = Span(at, count)
  <2>1. CASE lines # {}
    <3>1. lines \subseteq Nat
      OBVIOUS
    <3>2. Least(lines) \in Nat
      BY <2>1, <3>1, LeastIs
    <3>3. Host(m) = (IF lines # {} /\ Least(lines) + 6 < m.len
                     THEN Span(Least(lines) + 6,
                               FirstOf({CR, LF}, m, Least(lines) + 6, Lower((Least(lines) + 6) + TextLen, m.len))
                                 - (Least(lines) + 6))
                     ELSE Nowhere)
      BY DEF Host
    <3> HIDE DEF lines, m
    <3>4. Least(lines) + 6 \in Nat \ {0} /\ 1 \in Nat \ {0}
      BY <3>2
    <3> QED BY <3>3, <3>4 DEF Nowhere
  <2>2. CASE lines = {}
    <3>1. Host(m) = Nowhere
      BY <2>2 DEF Host
    <3>2. 1 \in Nat \ {0}
      OBVIOUS
    <3> QED BY <3>1, <3>2 DEF Nowhere
  <2> QED BY <2>1, <2>2
<1> HIDE DEF m
<1>2. PICK at \in Nat \ {0} : \E count : Host(m) = Span(at, count)
  BY <1>1
<1>3. PICK count : Host(m) = Span(at, count)
  BY <1>2
<1> QED BY <1>3, CopyKeepsEnd DEF m

LEMMA WriteInv ==
  ASSUME ParseInv, NEW msg \in Written, NEW len, Passes(msg, len), SslWrite(msg, len)
  PROVE  ParseInv'
<1> DEFINE m == Buffer(msg, len)
<1>1. scratch \in Text(ScratchLen) /\ DOMAIN row = RowFields
  BY DEF ParseInv
<1>2. /\ scratch' = Filled(msg, len)
      /\ row' = [row EXCEPT
           !.tls_sni = CopyBytes(@, m, Sni(m)),
           !.http_method = IF IsRequest(m) THEN CopyBytes(@, m, Method(m)) ELSE @,
           !.http_path = IF IsRequest(m) THEN CopyBytes(@, m, Path(m)) ELSE @,
           !.http_host = IF IsRequest(m) THEN CopyBytes(@, m, Host(m)) ELSE @,
           !.has_tls = IF Sni(m).count > 0 \/ LooksLikeHello(m) THEN 1 ELSE @,
           !.has_http = IF IsRequest(m) THEN 1 ELSE @]
      /\ Say(msg, len, Texts)
      /\ misled' = (misled \/ (IsRequest(m) /\ Misleading(msg)))
  BY DEF SslWrite, Buffer
<1> HIDE DEF m
<1>3. /\ DOMAIN row' = RowFields
      /\ row'["tls_sni"] = CopyBytes(row["tls_sni"], m, Sni(m))
      /\ row'.http_status = row.http_status
      /\ row'["http_method"] = (IF IsRequest(m) THEN CopyBytes(row["http_method"], m, Method(m)) ELSE row["http_method"])
      /\ row'["http_path"] = (IF IsRequest(m) THEN CopyBytes(row["http_path"], m, Path(m)) ELSE row["http_path"])
      /\ row'["http_host"] = (IF IsRequest(m) THEN CopyBytes(row["http_host"], m, Host(m)) ELSE row["http_host"])
  BY <1>1, <1>2 DEF RowFields
<1>4. scratch' \in Text(ScratchLen)
  BY <1>1, <1>2, BufferBytes
<1>5. ASSUME NEW f \in Texts, f = "http_host" => ~ misled'
      PROVE  TextHeld(f)'
  <2> DEFINE n == SizeOf(f)
             new == Says(msg, len, f)
  <2>1. n \in Nat
    BY SizesAre
  <2>2. TextHeld(f)
    BY <1>2, <1>5 DEF ParseInv
  <2>3. PICK old : /\ Fits(old, n) /\ row[f] = Laid(old, Blank(n), n)
                   /\ Len(old) = longest[f] /\ Begins(old, latest[f])
    BY <2>2 DEF TextHeld
  <2>4. row[f] \in Text(n)
    BY <2>1, <2>3, LaidShows
  <2>5. f = "http_host" /\ IsRequest(Buffer(msg, len)) => ~ Misleading(msg)
    BY <1>2, <1>5 DEF m
  <2>6. Fits(new, n) /\ Wrote(msg, len, f, row[f]) = Laid(new, row[f], n)
    BY <1>1, <2>4, <2>5, WriteLays
  <2>7. row'[f] = Wrote(msg, len, f, row[f])
    BY <1>3 DEF Wrote, Texts, m
  <2>8. /\ latest'[f] = (IF new # <<>> THEN new ELSE latest[f])
        /\ longest'[f] = (IF Len(new) > longest[f] THEN Len(new) ELSE longest[f])
    <3>1. f \in Fields
      BY DEF Fields
    <3> QED BY <1>2, <3>1, SaidIs
  <2> HIDE DEF new
  <2>9. /\ Fits(Over(new, old), n)
        /\ Laid(new, Laid(old, Blank(n), n), n) = Laid(Over(new, old), Blank(n), n)
    BY <2>1, <2>3, <2>6, LaidOver
  <2>10. Len(Over(new, old)) = longest'[f] /\ Begins(Over(new, old), latest'[f])
    BY <2>1, <2>3, <2>6, <2>8, OverHolds
  <2>11. row'[f] = Laid(Over(new, old), Blank(n), n)
    BY <2>3, <2>6, <2>7, <2>9
  <2> QED BY <2>9, <2>10, <2>11 DEF TextHeld
<1>6. HostEnded'
  <2>1. HostEnded
    BY DEF ParseInv
  <2>2. CASE IsRequest(m)
    <3>1. row'["http_host"] = CopyBytes(row["http_host"], m, Host(m))
      BY <1>3, <2>2
    <3> QED BY <1>1, <2>1, <3>1, HostKeepsEnd DEF HostEnded, m
  <2>3. CASE ~ IsRequest(m)
    BY <1>3, <2>1, <2>3 DEF HostEnded
  <2> QED BY <2>2, <2>3
<1>7. StatusHeld'
  <2>1. StatusHeld
    BY DEF ParseInv
  <2>2. latest'["http_status"] = latest["http_status"]
    <3>1. "http_status" \in Fields /\ "http_status" \notin Texts
      BY DEF Fields, Texts
    <3> QED BY <1>2, <3>1, SaidIs
  <2> QED BY <1>3, <2>1, <2>2 DEF StatusHeld
<1> QED BY <1>3, <1>4, <1>5, <1>6, <1>7 DEF ParseInv

LEMMA ReadInv ==
  ASSUME ParseInv, NEW msg \in Received, NEW len, Passes(msg, len), SslRead(msg, len)
  PROVE  ParseInv'
<1> DEFINE m == Buffer(msg, len)
           new == Says(msg, len, "http_status")
<1>1. scratch \in Text(ScratchLen) /\ DOMAIN row = RowFields
  BY DEF ParseInv
<1>2. /\ scratch' = Filled(msg, len)
      /\ row' = [row EXCEPT !.http_status = IF Status(m) # 0 THEN Status(m) ELSE @]
      /\ Say(msg, len, {"http_status"})
      /\ misled' = misled
  BY DEF SslRead, Buffer
<1> HIDE DEF m
<1>3. /\ DOMAIN row' = RowFields
      /\ row'.http_status = (IF Status(m) # 0 THEN Status(m) ELSE row.http_status)
      /\ \A f \in RowFields : f # "http_status" => row'[f] = row[f]
  BY <1>1, <1>2 DEF RowFields
<1>4. latest'["http_status"] = (IF new # <<>> THEN new ELSE latest["http_status"])
  <2>1. "http_status" \in Fields
    BY DEF Fields
  <2> QED BY <1>2, <2>1, SaidIs
<1>5. scratch' \in Text(ScratchLen)
  BY <1>1, <1>2, BufferBytes
<1>6. ASSUME NEW f \in Texts, f = "http_host" => ~ misled'
      PROVE  TextHeld(f)'
  <2>1. TextHeld(f)
    BY <1>2, <1>6 DEF ParseInv
  <2>2. PICK text : /\ Fits(text, SizeOf(f)) /\ row[f] = Laid(text, Blank(SizeOf(f)), SizeOf(f))
                    /\ Len(text) = longest[f] /\ Begins(text, latest[f])
    BY <2>1 DEF TextHeld
  <2>3. longest[f] \in Nat
    BY <2>2 DEF Fits
  <2>4. latest'[f] = latest[f] /\ longest'[f] = longest[f]
    <3>1. f \in Fields /\ f \notin {"http_status"}
      BY DEF Fields, Texts
    <3> QED BY <1>2, <2>3, <3>1, SaidIs
  <2>5. row'[f] = row[f]
    BY <1>3 DEF RowFields, Texts
  <2> QED BY <2>2, <2>4, <2>5 DEF TextHeld
<1>7. HostEnded'
  <2>1. row'["http_host"] = row["http_host"]
    BY <1>3 DEF RowFields
  <2> QED BY <2>1 DEF ParseInv, HostEnded
<1>8. StatusHeld'
  <2>1. StatusHeld
    BY DEF ParseInv
  <2>2. (new = <<>> /\ Status(m) = 0) \/ (Digits(new) /\ Status(m) = Number(new))
    BY <1>1, StatusIs DEF m
  <2> HIDE DEF new
  <2>3. CASE new = <<>> /\ Status(m) = 0
    BY <1>3, <1>4, <2>1, <2>3 DEF StatusHeld
  <2>4. CASE Digits(new) /\ Status(m) = Number(new)
    <3>1. Number(new) # 0 /\ new # <<>>
      <4>1. new[1] \in DIGIT /\ new[1] # 48 /\ new[2] \in DIGIT /\ new[3] \in DIGIT /\ Len(new) = 3
        BY <2>4 DEF Digits
      <4>2. Number(new) # 0
        BY <4>1 DEF Number, DIGIT
      <4>3. Len(new) # 0
        BY <4>1
      <4>4. \A s : Len(s) # 0 => s # <<>>
        OBVIOUS
      <4> QED BY <4>2, <4>3, <4>4, Zenon
    <3> QED BY <1>3, <1>4, <2>4, <3>1 DEF StatusHeld
  <2> QED BY <2>2, <2>3, <2>4
<1> QED BY <1>3, <1>5, <1>6, <1>7, <1>8 DEF ParseInv

LEMMA ParseStepInv == ParseInv /\ [ParseNext]_parseVars => ParseInv'
<1> SUFFICES ASSUME ParseInv, [ParseNext]_parseVars PROVE ParseInv'
  OBVIOUS
<1>1. Written \subseteq Message /\ Received \subseteq Message
  BY ParseAssumption
<1>2. CASE \E msg \in Written : \E num \in 1..Len(msg.bytes) : SslWrite(msg, Lower(num, ScratchLen))
  BY <1>1, <1>2, CallPasses, WriteInv
<1>3. CASE \E msg \in Received : \E num \in 1..Len(msg.bytes) : SslRead(msg, Lower(num, ScratchLen))
  BY <1>1, <1>3, CallPasses, ReadInv
<1>4. CASE UNCHANGED parseVars
  BY <1>4 DEF ParseInv, parseVars, TextHeld, HostEnded, StatusHeld
<1> QED BY <1>2, <1>3, <1>4 DEF ParseNext

LEMMA ParseInvariant == ParseSpec => []ParseInv
<1> QED BY ParseInitInv, ParseStepInv, PTL DEF ParseSpec

-----------------------------------------------------------------------------
(* What a row shows.                                                       *)

LEMMA TextsShow ==
  ASSUME NEW f \in Texts, TextHeld(f)
  PROVE  StartsWithLast(f) /\ row[f][SizeOf(f) - 1] = 0
<1> DEFINE n == SizeOf(f)
<1>1. n \in Nat
  BY SizesAre
<1>2. PICK s : Fits(s, n) /\ row[f] = Laid(s, Blank(n), n) /\ Len(s) = longest[f] /\ Begins(s, latest[f])
  BY DEF TextHeld
<1> DEFINE text == Laid(s, Blank(n), n)
           ends == {i \in DOMAIN text : text[i] = 0}
<1>3. text[n - 1] = 0 /\ ends # {} /\ [i \in 1..Least(ends) |-> text[i - 1]] = s
  BY <1>1, <1>2, LaidShows
<1>4. Shown(f) = IF ends = {} THEN <<>> ELSE [i \in 1..Least(ends) |-> text[i - 1]]
  BY <1>2 DEF Shown
<1>5. Shown(f) = s /\ row[f][n - 1] = 0
  BY <1>2, <1>3, <1>4
<1> HIDE DEF text, ends
<1>6. SubSeq(s, 1, Len(latest[f])) = latest[f]
  <2>1. s \in Seq(BYTE) /\ latest[f] \in Seq(BYTE) /\ Len(latest[f]) \in 0..Len(s)
        /\ \A i \in 1..Len(latest[f]) : s[i] = latest[f][i]
    BY <1>2 DEF Fits, Begins
  <2>2. 1 \in Nat \ {0}
    OBVIOUS
  <2>3. /\ SubSeq(s, 1, Len(latest[f])) \in Seq(BYTE)
        /\ Len(SubSeq(s, 1, Len(latest[f]))) =
             IF 1 <= Len(latest[f]) THEN Len(latest[f]) - 1 + 1 ELSE 0
        /\ \A i \in 1..Len(SubSeq(s, 1, Len(latest[f]))) :
             SubSeq(s, 1, Len(latest[f]))[i] = s[i + 1 - 1]
    BY <2>1, <2>2, SliceIs
  <2>4. /\ Len(SubSeq(s, 1, Len(latest[f]))) = Len(latest[f])
        /\ \A i \in 1..Len(latest[f]) : SubSeq(s, 1, Len(latest[f]))[i] = latest[f][i]
    BY <2>1, <2>3
  <2> QED BY <2>1, <2>3, <2>4
<1> QED BY <1>2, <1>5, <1>6 DEF StartsWithLast

\* The server name that is shown starts with that of the last hello that was
\* passed whole and keeps to the limits, and is as long as the longest of them,
\* whichever extensions are before it and whatever an earlier call left in the
\* scratch area (tls.rs:101-221).
THEOREM SniIsShown == ParseSpec => []SniShown
<1>1. ParseInv => SniShown
  <2>1. "tls_sni" \in Texts
    BY DEF Texts
  <2> QED BY <2>1, TextsShow DEF SniShown, ParseInv
<1> QED BY <1>1, ParseInvariant, PTL

\* Method, path and host start with those of the last request that had them,
\* the host unless some other header was taken for it, whatever the lengths of
\* the calls and whatever an earlier call left in the scratch area
\* (tls.rs:277-329).
THEOREM RequestIsShown == ParseSpec => []RequestShown
<1>1. ParseInv => RequestShown
  <2>1. {"http_method", "http_path", "http_host"} \subseteq Texts
    BY DEF Texts
  <2> QED BY <2>1, TextsShow DEF RequestShown, ParseInv
<1> QED BY <1>1, ParseInvariant, PTL

\* The status is the one of the last status line that came with its three
\* digits, and is not touched by any other call (tls.rs:344-379).
THEOREM StatusIsShown == ParseSpec => []StatusShown
<1>1. ParseInv => StatusShown
  BY DEF ParseInv, StatusHeld, StatusShown, Digits, Number
<1> QED BY <1>1, ParseInvariant, PTL

\* No call writes the last byte of a text, so that there is always a NUL
\* (tls.rs:283, 288, 317; lib.rs:219).
THEOREM TextsAreEnded == ParseSpec => []TextsEnd
<1>1. ParseInv => TextsEnd
  <2> SUFFICES ASSUME ParseInv PROVE TextsEnd
    OBVIOUS
  <2>1. \A f \in {"tls_sni", "http_path", "http_method"} : f \in Texts /\ TextHeld(f)
    BY DEF ParseInv, Texts
  <2>2. \A f \in {"tls_sni", "http_path", "http_method"} : row[f][SizeOf(f) - 1] = 0
    BY <2>1, TextsShow
  <2>3. row["http_host"][TextLen - 1] = 0
    BY DEF ParseInv, HostEnded
  <2> QED BY <2>2, <2>3 DEF TextsEnd, SizeOf
<1> QED BY <1>1, ParseInvariant, PTL
=============================================================================
