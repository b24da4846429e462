-------------------------- MODULE HttpCodecProofs --------------------------
(***************************************************************************)
(* What HttpCodec promises of every stream of messages, wherever the reads *)
(* end, if no message comes before the last one is answered: the types,    *)
(* the header blocks, the framing of chunks, the URI, the streaming of     *)
(* responses and the one assertion of the decoder.                         *)
(***************************************************************************)
EXTENDS HttpCodec, SequenceTheorems, WellFoundedInduction, TLAPS

(* Types.                                                                   *)
Blocks == UNION {[S -> Text] : S \in SUBSET Text}
BodyTokens == [kind : {"byte"}, value : Characters] \cup [kind : {"size", "crlf", "end"}, value : Nat]
Tokens == BodyTokens \cup [kind : {"first"}, value : Text] \cup [kind : {"headers"}, value : Blocks]
Decoders == [headers_completed : BOOLEAN, message_completed : BOOLEAN, chunked : BOOLEAN,
             field : Text, value : Text]
MessageTypes == [first : Text, headers : Blocks, body : Seq(BodyTokens),
                 headers_completed : BOOLEAN, message_completed : BOOLEAN]
Encoders == [state : {"BEGIN", "FIRST_LINE", "HEADERS", "BODY", "END"}, body_encoded : Nat]

At == Unread => at \in 1..Len(Input) /\ off \in 0..Len(Current.text)
Typed ==
  /\ stream \in DOMAIN Streams
  /\ number \in 1..(Len(Messages) + 1)
  /\ At
  /\ phase \in {"idle", "begun", "reading", "decoded", "encoded"}
  /\ decoder \in Decoders /\ msg \in MessageTypes /\ encoder \in Encoders
  /\ out \in Seq(Tokens) /\ sent \in Seq(Seq(Tokens)) /\ asserted \in BOOLEAN

\* Where the message is, between the parser and the peer.
Place ==
  /\ number = Len(sent) + IF msg.message_completed THEN 2 ELSE 1
  /\ msg.message_completed =>
       phase \in {"decoded", "encoded"} /\ at = 1 /\ off = 0 /\ ~asserted /\ msg.headers_completed
  /\ phase = "encoded" => msg.message_completed
  /\ phase \in {"begun", "reading"} => Unread
  /\ msg.headers_completed => msg.message_completed \/ Unread
  /\ encoder.state = "END" => phase = "encoded"
  /\ encoder.state \in {"BEGIN", "BODY", "END"}
  /\ encoder.state = "BEGIN" <=> out = << >>
  /\ encoder.state = "BEGIN" => encoder.body_encoded = 0
  /\ encoder.body_encoded <= Len(msg.body)
  /\ asserted => phase = "reading"
  /\ ~msg.headers_completed => encoder = NewEncoder /\ msg.body = << >> /\ ~decoder.chunked

\* Where the parser is in the message decides what the decoder holds.
HeadersEnd(m) == 2 * Len(m.headers) + 3
Before(pairs, j, x) == IF j = 1 THEN << >> ELSE pairs[j - 1][x]
Position ==
  ~msg.message_completed /\ Unread =>
    LET m == Reading
        h == m.headers
    IN /\ at = 1 => decoder = NewDecoder /\ msg = NewMessage
       /\ at = 2 => decoder = NewDecoder
       /\ msg.headers_completed <=> at > HeadersEnd(m) /\ ~asserted
       /\ asserted => at > HeadersEnd(m) /\ (h = << >> \/ Last(h)[2] = << >>)
       /\ \A j \in 1..(Len(h) + 1) :
            at = 2 * j + 1 => decoder.value = IF off = 0 THEN Before(h, j, 2) ELSE << >>
       /\ \A j \in 1..Len(h) : at = 2 * j + 2 => decoder.value = SubSeq(h[j][2], 1, off)
       /\ at \in (HeadersEnd(m) + 1)..(HeadersEnd(m) + Len(m.body) + 1) /\ ~asserted =>
            decoder.value = << >>

\* The headers so far, if none of them has no value.
Holds(block, pairs, n) ==
  /\ DOMAIN block = {pairs[i][1] : i \in 1..n}
  /\ \A i \in 1..n : (\A j \in 1..(i - 1) : pairs[j][1] # pairs[i][1]) => block[pairs[i][1]] = pairs[i][2]
Collected ==
  ~msg.message_completed /\ Unread /\ Valued(Reading.headers) =>
    LET h == Reading.headers
    IN /\ at <= 2 => DOMAIN msg.headers = {}
       /\ \A j \in 1..(Len(h) + 1) :
            at = 2 * j + 1 =>
              /\ decoder.field = IF off = 0 THEN Before(h, j, 1) ELSE SubSeq(h[j][1], 1, off)
              /\ Holds(msg.headers, h, IF off > 0 THEN j - 1 ELSE IF j = 1 THEN 0 ELSE j - 2)
       /\ \A j \in 1..Len(h) :
            at = 2 * j + 2 => decoder.field = h[j][1] /\ Holds(msg.headers, h, j - 1)

\* What the message holds, once its headers are complete.
Taken ==
  /\ msg.headers_completed =>
       /\ Valued(Sending.headers) => HeaderBlock(msg.headers, Sending)
       /\ decoder.chunked = Sending.chunked
       /\ Sending.chunked => Framed(msg.body)
  /\ Type = "request" /\ (msg.message_completed \/ (Unread /\ at > 2)) /\ Len(sent) + 1 \notin cut =>
       msg.first = origin_form(Sending.connect, Sending.origin \o Sending.path)

\* What has been written of it.
Output ==
  out # << >> =>
    /\ Len(out) = encoder.body_encoded + 2
    /\ out[1] = Token("first", msg.first) /\ out[2].kind = "headers"
    /\ Valued(Sending.headers) => HeaderBlock(out[2].value, Sending)
    /\ \A i \in 3..Len(out) : out[i] = msg.body[i - 2]
    /\ Sending.chunked => Framed(SubSeq(out, 3, Len(out)))

\* What was written of the messages before it.
BlockFirst(o, m) ==
  o # << >> /\ Valued(m.headers) =>
    /\ o[1].kind = "first" /\ HeaderBlock(o[2].value, m)
    /\ \A i \in DOMAIN o : o[i].kind = "headers" <=> i = 2
InChunks(o, m) == o # << >> /\ m.chunked => Framed(SubSeq(o, 3, Len(o)))
Past == \A k \in 1..Len(sent) : BlockFirst(sent[k], Messages[k]) /\ InChunks(sent[k], Messages[k])

CodecInv == Typed /\ Place /\ Position /\ Collected /\ Taken /\ Output /\ Past /\ Streamed

-----------------------------------------------------------------------------
(* The elements of a message.                                               *)

LEMMA MessageParts ==
  ASSUME NEW m \in HttpMessages
  PROVE  /\ m.connect \in BOOLEAN /\ m.chunked \in BOOLEAN
         /\ m.origin \in Text /\ m.path \in Text /\ m.origin \o m.path \in Text
         /\ m.headers \in Pairs /\ m.trailers \in Pairs
         /\ m.body \in Seq(Text \ {<< >>})
         /\ Len(m.headers) \in Nat /\ Len(m.trailers) \in Nat /\ Len(m.body) \in Nat
BY DEF HttpMessages, Text, Pairs

LEMMA PairParts ==
  ASSUME NEW pairs \in Pairs, NEW j \in 1..Len(pairs)
  PROVE  pairs[j][1] \in Text /\ pairs[j][2] \in Text
<1>1. pairs[j] \in Text \X Text
  BY DEF Pairs
<1> QED
  BY <1>1

Callbacks == {"begin", "first", "field", "value", "headers_complete", "body", "message_complete"}
AllElements == [call : Callbacks, text : Text]

LEMMA ElementParts ==
  ASSUME NEW c \in Callbacks, NEW t \in Text
  PROVE  Element(c, t) \in AllElements /\ Element(c, t).call = c /\ Element(c, t).text = t
BY DEF Element, AllElements

LEMMA FieldsLayout ==
  ASSUME NEW pairs \in Pairs
  PROVE  /\ Fields(pairs) \in Seq(AllElements) /\ Len(Fields(pairs)) = 2 * Len(pairs)
         /\ \A j \in 1..Len(pairs) : /\ Fields(pairs)[2 * j - 1] = Element("field", pairs[j][1])
                                     /\ Fields(pairs)[2 * j] = Element("value", pairs[j][2])
<1> DEFINE n == Len(pairs)
           F(i) == IF i % 2 = 1 THEN Element("field", pairs[(i + 1) \div 2][1])
                                ELSE Element("value", pairs[i \div 2][2])
<1>1. n \in Nat /\ 2 * n \in Nat
  BY DEF Pairs
<1>2. ASSUME NEW i \in 1..(2 * n)
      PROVE  F(i) \in AllElements
  <2>1. CASE i % 2 = 1
    <3>1. (i + 1) \div 2 \in 1..n
      BY <1>1, <2>1
    <3>2. pairs[(i + 1) \div 2][1] \in Text
      BY <3>1, PairParts
    <3>3. PICK x \in Text : F(i) = Element("field", x)
      BY <3>2, <2>1
    <3>4. Element("field", x) \in AllElements /\ Element("field", x).call = "field"
      BY ElementParts DEF Callbacks
    <3> HIDE DEF F
    <3> QED
      BY <3>3, <3>4
  <2>2. CASE ~(i % 2 = 1)
    <3>1. i \div 2 \in 1..n
      BY <1>1, <2>2
    <3>2. pairs[i \div 2][2] \in Text
      BY <3>1, PairParts
    <3>3. PICK x \in Text : F(i) = Element("value", x)
      BY <3>2, <2>2
    <3>4. Element("value", x) \in AllElements /\ Element("value", x).call = "value"
      BY ElementParts DEF Callbacks
    <3> HIDE DEF F
    <3> QED
      BY <3>3, <3>4
  <2> QED
    BY <2>1, <2>2
<1>3. ASSUME NEW j \in 1..n
      PROVE  /\ 2 * j - 1 \in 1..(2 * n) /\ 2 * j \in 1..(2 * n)
             /\ F(2 * j - 1) = Element("field", pairs[j][1]) /\ F(2 * j) = Element("value", pairs[j][2])
  <2>1. 2 * j - 1 \in 1..(2 * n) /\ 2 * j \in 1..(2 * n)
    BY <1>1
  <2>2. (2 * j - 1) % 2 = 1 /\ ((2 * j - 1) + 1) \div 2 = j
    BY <1>1
  <2>3. ~((2 * j) % 2 = 1) /\ (2 * j) \div 2 = j
    BY <1>1
  <2> QED
    BY <2>1, <2>2, <2>3
<1>4. Fields(pairs) = [i \in 1..(2 * n) |-> F(i)]
  BY DEF Fields
<1> HIDE DEF F
<1>5. Fields(pairs) \in Seq(AllElements) /\ Len(Fields(pairs)) = 2 * n
  BY <1>1, <1>2, <1>4
<1>6. \A i \in 1..(2 * n) : Fields(pairs)[i] = F(i)
  BY <1>4
<1> QED
  BY <1>2, <1>3, <1>5, <1>6

LEMMA Joined ==
  ASSUME NEW S, NEW s \in Seq(S), NEW t \in Seq(S)
  PROVE  /\ s \o t \in Seq(S) /\ Len(s \o t) = Len(s) + Len(t)
         /\ \A i \in 1..Len(s) : (s \o t)[i] = s[i]
         /\ \A i \in 1..Len(t) : (s \o t)[Len(s) + i] = t[i]
<1>1. Len(s) \in Nat /\ Len(t) \in Nat
  OBVIOUS
<1>2. /\ s \o t \in Seq(S) /\ Len(s \o t) = Len(s) + Len(t)
      /\ \A i \in 1..(Len(s) + Len(t)) : (s \o t)[i] = IF i <= Len(s) THEN s[i] ELSE t[i - Len(s)]
  BY ConcatProperties
<1>3. \A i \in 1..Len(s) : (s \o t)[i] = s[i]
  BY <1>1, <1>2
<1>4. ASSUME NEW i \in 1..Len(t) PROVE (s \o t)[Len(s) + i] = t[i]
  <2>1. Len(s) + i \in 1..(Len(s) + Len(t)) /\ ~(Len(s) + i <= Len(s)) /\ (Len(s) + i) - Len(s) = i
    BY <1>1
  <2> QED
    BY <1>2, <2>1
<1> QED
  BY <1>2, <1>3, <1>4

\* The elements of a message, by their number.
LEMMA Layout ==
  ASSUME NEW m \in HttpMessages
  PROVE  LET h == m.headers
             n == HeadersEnd(m)
             b == Len(m.body)
             t == m.trailers
             e == Elements(m)
         IN /\ e \in Seq(AllElements) /\ Len(e) = n + b + 2 * Len(t) + 1
            /\ e[1] = Element("begin", << >>) /\ e[2] = Element("first", m.origin \o m.path)
            /\ \A j \in 1..Len(h) : /\ e[2 * j + 1] = Element("field", h[j][1])
                                    /\ e[2 * j + 2] = Element("value", h[j][2])
            /\ e[n] = Element("headers_complete", << >>)
            /\ \A i \in 1..b : e[n + i] = Element("body", m.body[i])
            /\ \A j \in 1..Len(t) : /\ e[n + b + 2 * j - 1] = Element("field", t[j][1])
                                    /\ e[n + b + 2 * j] = Element("value", t[j][2])
            /\ e[n + b + 2 * Len(t) + 1] = Element("message_complete", << >>)
<1> DEFINE h == m.headers
           k == Len(m.headers)
           b == Len(m.body)
           t == Len(m.trailers)
           S == AllElements
           s1 == << Element("begin", << >>), Element("first", m.origin \o m.path) >>
           f1 == Fields(m.headers)
           c == << Element("headers_complete", << >>) >>
           bd == [i \in 1..b |-> Element("body", m.body[i])]
           f2 == Fields(m.trailers)
           z == << Element("message_complete", << >>) >>
           s2 == s1 \o f1
           s3 == s2 \o c
           s4 == s3 \o bd
           s5 == s4 \o f2
           s6 == s5 \o z
<1>0. k \in Nat /\ b \in Nat /\ t \in Nat /\ m.headers \in Pairs /\ m.trailers \in Pairs
  BY MessageParts
<1>1. /\ s1 \in Seq(S) /\ Len(s1) = 2 /\ s1[1] = Element("begin", << >>)
      /\ s1[2] = Element("first", m.origin \o m.path)
  <2>1. << >> \in Text
    BY DEF Text
  <2>2. Element("begin", << >>) \in S
    BY <2>1, ElementParts DEF Callbacks
  <2>3. m.origin \o m.path \in Text
    BY MessageParts
  <2>4. Element("first", m.origin \o m.path) \in S
    BY <2>3, ElementParts DEF Callbacks
  <2> HIDE DEF S
  <2> QED
    BY <2>2, <2>4
<1>2. /\ c \in Seq(S) /\ Len(c) = 1 /\ c[1] = Element("headers_complete", << >>)
      /\ z \in Seq(S) /\ Len(z) = 1 /\ z[1] = Element("message_complete", << >>)
  <2>1. << >> \in Text
    BY DEF Text
  <2>2. Element("headers_complete", << >>) \in S
    BY <2>1, ElementParts DEF Callbacks
  <2>3. Element("message_complete", << >>) \in S
    BY <2>1, ElementParts DEF Callbacks
  <2> HIDE DEF S
  <2> QED
    BY <2>2, <2>3
<1>3. bd \in Seq(S) /\ Len(bd) = b /\ \A i \in 1..b : bd[i] = Element("body", m.body[i])
  <2>1. ASSUME NEW i \in 1..b PROVE Element("body", m.body[i]) \in S
    <3>1. m.body[i] \in Text
      BY MessageParts
    <3> QED
      BY <3>1, ElementParts DEF Callbacks
  <2> HIDE DEF S
  <2> QED
    BY <2>1, <1>0
<1>4. /\ f1 \in Seq(S) /\ Len(f1) = 2 * k
      /\ \A j \in 1..k : f1[2 * j - 1] = Element("field", h[j][1]) /\ f1[2 * j] = Element("value", h[j][2])
  BY <1>0, FieldsLayout
<1>5. /\ f2 \in Seq(S) /\ Len(f2) = 2 * t
      /\ \A j \in 1..t : /\ f2[2 * j - 1] = Element("field", m.trailers[j][1])
                         /\ f2[2 * j] = Element("value", m.trailers[j][2])
  BY <1>0, FieldsLayout
<1> DEFINE p2 == 2 + 2 * k
           p3 == p2 + 1
           p4 == p3 + b
           p5 == p4 + 2 * t
           p6 == p5 + 1
<1>p. /\ p2 \in Nat /\ p3 \in Nat /\ p4 \in Nat /\ p5 \in Nat /\ p6 \in Nat /\ 2 * k \in Nat /\ 2 * t \in Nat
      /\ p2 < p3 /\ p3 <= p4 /\ p4 <= p5 /\ p5 < p6 /\ p3 = 2 * k + 3
  <2> HIDE DEF k, b, t
  <2>1. 2 * k \in Nat /\ 2 * t \in Nat /\ p2 \in Nat
    BY <1>0
  <2>2. p3 \in Nat /\ p2 < p3 /\ p3 = 2 * k + 3
    BY <1>0
  <2>3. p4 \in Nat /\ p3 <= p4
    <3> HIDE DEF p3
    <3> QED
      BY <1>0, <2>2
  <2>4. p5 \in Nat /\ p4 <= p5 /\ p6 \in Nat /\ p5 < p6
    <3> HIDE DEF p4
    <3> QED
      BY <2>1, <2>3
  <2> QED
    BY <2>1, <2>2, <2>3, <2>4
<1> HIDE DEF s1, f1, c, bd, f2, z, S, h, k, b, t
<1>6. /\ s2 \in Seq(S) /\ Len(s2) = p2
      /\ \A i \in 1..2 : s2[i] = s1[i]
      /\ \A i \in 1..(2 * k) : s2[2 + i] = f1[i]
  <2>1. s2 = s1 \o f1 /\ p2 = 2 + 2 * k
    OBVIOUS
  <2>0. s1 \in Seq(S) /\ f1 \in Seq(S)
    BY <1>1, <1>4
  <2>2. /\ s1 \o f1 \in Seq(S) /\ Len(s1 \o f1) = Len(s1) + Len(f1)
        /\ \A i \in 1..Len(s1) : (s1 \o f1)[i] = s1[i]
        /\ \A i \in 1..Len(f1) : (s1 \o f1)[Len(s1) + i] = f1[i]
    BY <2>0, Joined
  <2> HIDE DEF s2, p2
  <2> QED
    BY <1>1, <1>4, <2>1, <2>2, Zenon
<1> HIDE DEF s2, p2
<1>7. /\ s3 \in Seq(S) /\ Len(s3) = p3
      /\ \A i \in 1..p2 : s3[i] = s2[i]
      /\ \A i \in 1..1 : s3[p2 + i] = c[i]
  <2>1. s3 = s2 \o c /\ p3 = p2 + 1
    OBVIOUS
  <2>0. s2 \in Seq(S) /\ c \in Seq(S)
    BY <1>2, <1>6
  <2>2. /\ s2 \o c \in Seq(S) /\ Len(s2 \o c) = Len(s2) + Len(c)
        /\ \A i \in 1..Len(s2) : (s2 \o c)[i] = s2[i]
        /\ \A i \in 1..Len(c) : (s2 \o c)[Len(s2) + i] = c[i]
    BY <2>0, Joined
  <2> HIDE DEF s3, p3
  <2> QED
    BY <1>2, <1>6, <2>1, <2>2, Zenon
<1> HIDE DEF s3
<1>q. s3[p3] = c[1]
  BY <1>7
<1> HIDE DEF p3
<1>8. /\ s4 \in Seq(S) /\ Len(s4) = p4
      /\ \A i \in 1..p3 : s4[i] = s3[i]
      /\ \A i \in 1..b : s4[p3 + i] = bd[i]
  <2>1. s4 = s3 \o bd /\ p4 = p3 + b
    OBVIOUS
  <2>0. s3 \in Seq(S) /\ bd \in Seq(S)
    BY <1>3, <1>7
  <2>2. /\ s3 \o bd \in Seq(S) /\ Len(s3 \o bd) = Len(s3) + Len(bd)
        /\ \A i \in 1..Len(s3) : (s3 \o bd)[i] = s3[i]
        /\ \A i \in 1..Len(bd) : (s3 \o bd)[Len(s3) + i] = bd[i]
    BY <2>0, Joined
  <2> HIDE DEF s4, p4
  <2> QED
    BY <1>3, <1>7, <2>1, <2>2, Zenon
<1> HIDE DEF s4
<1>9. /\ s5 \in Seq(S) /\ Len(s5) = p5
      /\ \A i \in 1..p4 : s5[i] = s4[i]
      /\ \A i \in 1..(2 * t) : s5[p4 + i] = f2[i]
  <2>1. s5 = s4 \o f2 /\ p5 = p4 + 2 * t
    OBVIOUS
  <2>0. s4 \in Seq(S) /\ f2 \in Seq(S)
    BY <1>5, <1>8
  <2>2. /\ s4 \o f2 \in Seq(S) /\ Len(s4 \o f2) = Len(s4) + Len(f2)
        /\ \A i \in 1..Len(s4) : (s4 \o f2)[i] = s4[i]
        /\ \A i \in 1..Len(f2) : (s4 \o f2)[Len(s4) + i] = f2[i]
    BY <2>0, Joined
  <2> HIDE DEF s5, p5, p4
  <2> QED
    BY <1>5, <1>8, <2>1, <2>2, Zenon
<1> HIDE DEF s5
<1>10. /\ s6 \in Seq(S) /\ Len(s6) = p6
       /\ \A i \in 1..p5 : s6[i] = s5[i]
       /\ \A i \in 1..1 : s6[p5 + i] = z[i]
  <2>1. s6 = s5 \o z /\ p6 = p5 + 1
    OBVIOUS
  <2>0. s5 \in Seq(S) /\ z \in Seq(S)
    BY <1>2, <1>9
  <2>2. /\ s5 \o z \in Seq(S) /\ Len(s5 \o z) = Len(s5) + Len(z)
        /\ \A i \in 1..Len(s5) : (s5 \o z)[i] = s5[i]
        /\ \A i \in 1..Len(z) : (s5 \o z)[Len(s5) + i] = z[i]
    BY <2>0, Joined
  <2> HIDE DEF s6, p6, p5
  <2> QED
    BY <1>2, <1>9, <2>1, <2>2, Zenon
<1>11. Elements(m) = s6
  BY DEF Elements, s1, s2, s3, s4, s5, f1, c, bd, f2, z, b
<1> HIDE DEF s6
<1>r. s6[p6] = z[1]
  BY <1>10
<1>12. HeadersEnd(m) = p3
  BY <1>p DEF HeadersEnd, k
<1>13. \A i \in 1..p3 : s6[i] = s3[i]
  <2> SUFFICES ASSUME NEW i \in 1..p3 PROVE s6[i] = s3[i]
    OBVIOUS
  <2>1. i \in 1..p4 /\ i \in 1..p5
    BY <1>p
  <2> QED
    BY <1>8, <1>9, <1>10, <2>1
<1>14. s6[1] = s1[1] /\ s6[2] = s1[2] /\ s6[p3] = c[1]
  <2>1. 1 \in 1..p3 /\ 2 \in 1..p3 /\ p3 \in 1..p3 /\ 1 \in 1..p2 /\ 2 \in 1..p2
    BY <1>p, <1>0 DEF p2
  <2> QED
    BY <1>6, <1>7, <1>q, <1>13, <2>1
<1>15. ASSUME NEW j \in 1..k
       PROVE  s6[2 * j + 1] = f1[2 * j - 1] /\ s6[2 * j + 2] = f1[2 * j]
  <2>1. /\ 2 * j - 1 \in 1..(2 * k) /\ 2 * j \in 1..(2 * k)
        /\ 2 * j + 1 = 2 + (2 * j - 1) /\ 2 * j + 2 = 2 + 2 * j
    BY <1>0 DEF k
  <2>2. /\ 2 * j + 1 \in 1..p2 /\ 2 * j + 2 \in 1..p2
        /\ 2 * j + 1 \in 1..p3 /\ 2 * j + 2 \in 1..p3
    BY <1>0, <1>p DEF k, p2
  <2>3. s2[2 * j + 1] = f1[2 * j - 1] /\ s2[2 * j + 2] = f1[2 * j]
    BY <1>6, <2>1, Zenon
  <2>4. s6[2 * j + 1] = s3[2 * j + 1] /\ s6[2 * j + 2] = s3[2 * j + 2]
    BY <1>13, <2>2
  <2> QED
    BY <1>7, <2>2, <2>3, <2>4
<1>16. ASSUME NEW i \in 1..b PROVE s6[p3 + i] = bd[i]
  <2>1. p3 + i \in 1..p4 /\ p3 + i \in 1..p5
    <3>1. b \in Nat /\ p3 \in Nat /\ p4 = p3 + b /\ p4 <= p5 /\ p5 \in Nat
      BY <1>0, <1>p DEF b
    <3> HIDE DEF p4, p5
    <3> QED
      BY <3>1
  <2> HIDE DEF p4
  <2> QED
    BY <1>8, <1>9, <1>10, <2>1, Zenon
<1>17. ASSUME NEW i \in 1..(2 * t) PROVE s6[p4 + i] = f2[i]
  <2>1. p4 + i \in 1..p5
    BY <1>0, <1>p DEF t
  <2> HIDE DEF p4, p5
  <2> QED
    BY <1>9, <1>10, <2>1, Zenon
<1>t. ASSUME NEW j \in 1..t
      PROVE  s6[p4 + 2 * j - 1] = f2[2 * j - 1] /\ s6[p4 + 2 * j] = f2[2 * j]
  <2>1. 2 * j - 1 \in 1..(2 * t) /\ 2 * j \in 1..(2 * t) /\ p4 + 2 * j - 1 = p4 + (2 * j - 1)
    <3> HIDE DEF p4
    <3> QED
      BY <1>0, <1>p DEF t
  <2> HIDE DEF p4
  <2> QED
    BY <1>17, <2>1, Zenon
<1>18. \A j \in 1..k : /\ s6[2 * j + 1] = Element("field", h[j][1])
                       /\ s6[2 * j + 2] = Element("value", h[j][2])
  BY <1>4, <1>15, Zenon
<1>19. \A i \in 1..b : s6[p3 + i] = Element("body", m.body[i])
  BY <1>3, <1>16, Zenon
<1>20. \A j \in 1..t : /\ s6[p4 + 2 * j - 1] = Element("field", m.trailers[j][1])
                       /\ s6[p4 + 2 * j] = Element("value", m.trailers[j][2])
  <2> HIDE DEF p4
  <2> QED
    BY <1>5, <1>t, Zenon
<1> QED
  BY <1>1, <1>2, <1>10, <1>11, <1>12, <1>14, <1>r, <1>18, <1>19, <1>20, Zenon DEF S, h, k, b, t, p4, p5, p6

\* Which elements are headers, body and trailers.
LEMMA Where ==
  ASSUME NEW m \in HttpMessages, NEW i \in 1..Len(Elements(m))
  PROVE  LET h == m.headers
             n == HeadersEnd(m)
             b == Len(m.body)
             t == m.trailers
             e == Elements(m)[i]
         IN /\ e \in AllElements
            /\ e.call = "begin" => i = 1
            /\ e.call = "first" => i = 2 /\ e.text = m.origin \o m.path
            /\ e.call = "field" => \/ \E j \in 1..Len(h) : i = 2 * j + 1 /\ e.text = h[j][1]
                                   \/ \E j \in 1..Len(t) : i = n + b + 2 * j - 1
            /\ e.call = "value" => \/ \E j \in 1..Len(h) : i = 2 * j + 2 /\ e.text = h[j][2]
                                   \/ \E j \in 1..Len(t) : i = n + b + 2 * j
            /\ e.call = "headers_complete" => i = n
            /\ e.call = "body" => i \in (n + 1)..(n + b) /\ e.text # << >>
            /\ e.call = "message_complete" => i = Len(Elements(m))
            /\ e.call \in {"begin", "headers_complete", "message_complete"} => e.text = << >>
<1> DEFINE h == m.headers
           n == HeadersEnd(m)
           b == Len(m.body)
           t == m.trailers
           s == Elements(m)
           k == Len(h)
           l == Len(t)
<1>1. k \in Nat /\ b \in Nat /\ l \in Nat /\ n = 2 * k + 3
  BY MessageParts DEF HeadersEnd
<1>2. /\ s \in Seq(AllElements) /\ Len(s) = n + b + 2 * l + 1
      /\ s[1] = Element("begin", << >>) /\ s[2] = Element("first", m.origin \o m.path)
      /\ \A j \in 1..k : s[2 * j + 1] = Element("field", h[j][1]) /\ s[2 * j + 2] = Element("value", h[j][2])
      /\ s[n] = Element("headers_complete", << >>)
      /\ \A j \in 1..b : s[n + j] = Element("body", m.body[j])
      /\ \A j \in 1..l : s[n + b + 2 * j - 1] = Element("field", t[j][1]) /\ s[n + b + 2 * j] = Element("value", t[j][2])
      /\ s[n + b + 2 * l + 1] = Element("message_complete", << >>)
  BY Layout
<1>3. s[i] \in AllElements
  BY <1>2
<1>4. i \in 1..(n + b + 2 * l + 1)
  BY <1>2
<1>5. \A j \in 1..b : m.body[j] # << >>
  BY MessageParts
<1> HIDE DEF h, n, b, t, s, k, l
<1>6. \/ i = 1 \/ i = 2 \/ i = n \/ i = n + b + 2 * l + 1
      \/ \E j \in 1..k : i = 2 * j + 1 \/ i = 2 * j + 2
      \/ \E j \in 1..b : i = n + j
      \/ \E j \in 1..l : i = n + b + 2 * j - 1 \/ i = n + b + 2 * j
  <2>1. CASE i \in 3..(n - 1)
    <3>1. CASE i % 2 = 1
      <4>1. (i - 1) \div 2 \in 1..k /\ i = 2 * ((i - 1) \div 2) + 1
        BY <1>1, <2>1, <3>1
      <4> QED
        BY <4>1
    <3>2. CASE i % 2 # 1
      <4>1. (i - 2) \div 2 \in 1..k /\ i = 2 * ((i - 2) \div 2) + 2
        BY <1>1, <2>1, <3>2
      <4> QED
        BY <4>1
    <3> QED
      BY <3>1, <3>2
  <2>2. CASE i \in (n + 1)..(n + b)
    <3>1. i - n \in 1..b /\ i = n + (i - n)
      BY <1>1, <2>2
    <3> QED
      BY <3>1
  <2>3. CASE i \in (n + b + 1)..(n + b + 2 * l)
    <3> DEFINE d == i - n - b
    <3>0. d \in 1..(2 * l) /\ i = n + b + d
      BY <1>1, <2>3
    <3> HIDE DEF d
    <3>1. CASE d % 2 = 1
      <4>1. (d + 1) \div 2 \in 1..l /\ d = 2 * ((d + 1) \div 2) - 1
        BY <1>1, <3>0, <3>1
      <4>2. PICK j \in 1..l : d = 2 * j - 1
        BY <4>1
      <4>3. i = n + b + 2 * j - 1
        BY <1>1, <3>0, <4>2
      <4> QED
        BY <4>3
    <3>2. CASE d % 2 # 1
      <4>1. d \div 2 \in 1..l /\ d = 2 * (d \div 2)
        BY <1>1, <3>0, <3>2
      <4>2. PICK j \in 1..l : d = 2 * j
        BY <4>1
      <4>3. i = n + b + 2 * j
        BY <3>0, <4>2
      <4> QED
        BY <4>3
    <3> QED
      BY <3>1, <3>2
  <2> QED
    BY <1>1, <1>4, <2>1, <2>2, <2>3
<1> DEFINE c == s[i].call
           x == s[i].text
           Goal ==
      /\ c = "begin" => i = 1
      /\ c = "first" => i = 2 /\ x = m.origin \o m.path
      /\ c = "field" => \/ \E j \in 1..k : i = 2 * j + 1 /\ x = h[j][1]
                        \/ \E j \in 1..l : i = n + b + 2 * j - 1
      /\ c = "value" => \/ \E j \in 1..k : i = 2 * j + 2 /\ x = h[j][2]
                        \/ \E j \in 1..l : i = n + b + 2 * j
      /\ c = "headers_complete" => i = n
      /\ c = "body" => i \in (n + 1)..(n + b) /\ x # << >>
      /\ c = "message_complete" => i = n + b + 2 * l + 1
      /\ c \in {"begin", "headers_complete", "message_complete"} => x = << >>
<1>7. ASSUME i = 1 \/ i = 2 \/ i = n \/ i = n + b + 2 * l + 1 PROVE Goal
  <2>1. CASE i = 1
    <3>1. c = "begin" /\ x = << >>
      <4>1. s[i] = Element("begin", << >>)
        BY <1>2, <2>1, Zenon
      <4> QED
        BY <4>1 DEF Element
    <3> HIDE DEF c, x
    <3> QED
      BY <2>1, <3>1
  <2>2. CASE i = 2
    <3>1. c = "first" /\ x = m.origin \o m.path
      <4> DEFINE y == m.origin \o m.path
      <4>1. s[i] = Element("first", y)
        BY <1>2, <2>2, Zenon
      <4> HIDE DEF y
      <4>2. s[i].call = "first" /\ s[i].text = y
        BY <4>1 DEF Element
      <4> QED
        BY <4>2 DEF y
    <3> HIDE DEF c, x
    <3> QED
      BY <2>2, <3>1
  <2>3. CASE i = n
    <3>1. c = "headers_complete" /\ x = << >>
      <4>1. s[i] = Element("headers_complete", << >>)
        BY <1>2, <2>3, Zenon
      <4> QED
        BY <4>1 DEF Element
    <3> HIDE DEF c, x
    <3> QED
      BY <2>3, <3>1
  <2>4. CASE i = n + b + 2 * l + 1
    <3>1. c = "message_complete" /\ x = << >>
      <4>1. s[i] = Element("message_complete", << >>)
        BY <1>2, <2>4, Zenon
      <4> QED
        BY <4>1 DEF Element
    <3> HIDE DEF c, x
    <3> QED
      BY <2>4, <3>1
  <2> QED
    BY <1>7, <2>1, <2>2, <2>3, <2>4
<1>8. ASSUME NEW j \in 1..k, i = 2 * j + 1 \/ i = 2 * j + 2 PROVE Goal
  <2>1. CASE i = 2 * j + 1
    <3>1. c = "field" /\ x = h[j][1]
      <4>1. s[i] = Element("field", h[j][1])
        BY <1>2, <2>1, Zenon
      <4> QED
        BY <4>1 DEF Element
    <3> HIDE DEF c, x
    <3> QED
      BY <2>1, <3>1
  <2>2. CASE i = 2 * j + 2
    <3>1. c = "value" /\ x = h[j][2]
      <4>1. s[i] = Element("value", h[j][2])
        BY <1>2, <2>2, Zenon
      <4> QED
        BY <4>1 DEF Element
    <3> HIDE DEF c, x
    <3> QED
      BY <2>2, <3>1
  <2> QED
    BY <1>8, <2>1, <2>2
<1>9. ASSUME NEW j \in 1..b, i = n + j PROVE Goal
  <2>1. c = "body" /\ x = m.body[j]
    <3>1. s[i] = Element("body", m.body[j])
      BY <1>2, <1>9, Zenon
    <3> QED
      BY <3>1 DEF Element
  <2>2. i \in (n + 1)..(n + b)
    BY <1>1, <1>9
  <2>3. x # << >>
    BY <1>5, <2>1
  <2> HIDE DEF c, x
  <2> QED
    BY <2>1, <2>2, <2>3
<1>10. ASSUME NEW j \in 1..l, i = n + b + 2 * j - 1 \/ i = n + b + 2 * j PROVE Goal
  <2>1. CASE i = n + b + 2 * j - 1
    <3>1. c = "field"
      <4>1. s[i] = Element("field", t[j][1])
        BY <1>2, <2>1, Zenon
      <4> QED
        BY <4>1 DEF Element
    <3> HIDE DEF c, x
    <3> QED
      BY <2>1, <3>1
  <2>2. CASE i = n + b + 2 * j
    <3>1. c = "value"
      <4>1. s[i] = Element("value", t[j][2])
        BY <1>2, <2>2, Zenon
      <4> QED
        BY <4>1 DEF Element
    <3> HIDE DEF c, x
    <3> QED
      BY <2>2, <3>1
  <2> QED
    BY <1>10, <2>1, <2>2
<1>11. Goal
  <2> HIDE DEF Goal
  <2> QED
    BY <1>6, <1>7, <1>8, <1>9, <1>10, Zenon
<1> QED
  BY <1>2, <1>3, <1>11, Zenon DEF h, n, b, t, s, k, l

-----------------------------------------------------------------------------
(* Texts, URLs, header blocks and chunks.                                   *)

LEMMA TextParts ==
  ASSUME NEW s \in Text, NEW a \in 0..Len(s), NEW n \in a..Len(s)
  PROVE  /\ SubSeq(s, a + 1, n) \in Text /\ SubSeq(s, 1, n) \in Text
         /\ SubSeq(s, 1, a) \o SubSeq(s, a + 1, n) = SubSeq(s, 1, n)
         /\ SubSeq(s, 1, Len(s)) = s /\ SubSeq(s, 1, 0) = << >>
         /\ SubSeq(s, a + 1, n) = << >> <=> n = a
<1>1. s \in Seq(Characters) /\ Len(s) \in Nat /\ \A i \in 1..Len(s) : s[i] \in Characters
  BY DEF Text
<1>2. a \in Nat /\ n \in Nat /\ a <= n /\ n <= Len(s)
  BY <1>1
<1>3. SubSeq(s, a + 1, n) \in Seq(Characters) /\ Len(SubSeq(s, a + 1, n)) = n - a
  BY <1>1, <1>2, SubSeqProperties
<1>4. SubSeq(s, 1, n) \in Seq(Characters)
  BY <1>1, <1>2, SubSeqProperties
<1>5. SubSeq(s, 1, a) \o SubSeq(s, a + 1, n) = SubSeq(s, 1, n)
  <2>1. 1 \in 1..(Len(s) + 1) /\ a \in (1 - 1)..Len(s) /\ n \in a..Len(s)
    BY <1>1
  <2> QED
    BY <1>1, <2>1, ConcatAdjacentSubSeq
<1>6. SubSeq(s, 1, Len(s)) = s
  BY <1>1, SubSeqFull
<1>7. SubSeq(s, 1, 0) = << >>
  BY SubSeqEmpty
<1>8. SubSeq(s, a + 1, n) = << >> <=> n = a
  <2> DEFINE u == SubSeq(s, a + 1, n)
  <2> HIDE DEF u
  <2>1. u \in Seq(Characters) /\ Len(u) = n - a
    BY <1>3 DEF u
  <2>2. u = << >> <=> Len(u) = 0
    BY <2>1
  <2>3. u = << >> <=> n = a
    BY <1>2, <2>1, <2>2
  <2> QED
    BY <2>3 DEF u
<1> QED
  BY <1>3, <1>4, <1>5, <1>6, <1>7, <1>8 DEF Text

LEMMA MinIs ==
  ASSUME NEW S \in SUBSET Nat, NEW x \in S, \A y \in S : x <= y
  PROVE  Min(S) = x
<1>1. Min(S) \in S /\ \A y \in S : Min(S) <= y
  BY DEF Min
<1>2. Min(S) <= x /\ x <= Min(S) /\ Min(S) \in Nat /\ x \in Nat
  BY <1>1
<1> QED
  BY <1>2

LEMMA MinIn ==
  ASSUME NEW S \in SUBSET Nat, S # {}
  PROVE  Min(S) \in S
<1> DEFINE R == OpToRel(<, Nat)
<1>2. IsWellFoundedOn(R, Nat)
  BY NatLessThanWellFounded
<1>3. \A x, y \in Nat : <<y, x>> \in R <=> y < x
  BY DEF OpToRel
<1> HIDE DEF R
<1>4. PICK x \in S : \A y \in S : ~(<<y, x>> \in R)
  BY <1>2, WFMin
<1>1. ASSUME NEW y \in S PROVE x <= y
  <2>1. ~(y < x)
    BY <1>3, <1>4, Zenon
  <2> QED
    BY <2>1
<1> QED
  BY <1>1, MinIs

LEMMA OriginFormText ==
  ASSUME NEW connect \in BOOLEAN, NEW uri \in Text
  PROVE  origin_form(connect, uri) \in Text
<1> DEFINE from == IF IsPrefix(Http, uri) THEN Len(Http) ELSE 0
           slash == {i \in DOMAIN uri : i > from /\ uri[i] = "/"}
<1>1. uri \in Seq(Characters) /\ Len(uri) \in Nat /\ DOMAIN uri = 1..Len(uri)
  BY DEF Text
<1>2. <<"/">> \in Text
  <2>1. "/" \in Characters
    BY CodecAssumption
  <2>2. \A c \in Characters : <<c>> \in Seq(Characters)
    OBVIOUS
  <2>3. <<"/">> \in Seq(Characters)
    BY <2>1, <2>2, Zenon
  <2> QED
    BY <2>1 DEF Text
<1>3. slash \subseteq 1..Len(uri) /\ slash \subseteq Nat
  BY <1>1
<1>4. slash # {} => SubSeq(uri, Min(slash), Len(uri)) \in Text
  <2> HIDE DEF slash
  <2> SUFFICES ASSUME slash # {} PROVE SubSeq(uri, Min(slash), Len(uri)) \in Text
    OBVIOUS
  <2>1. Min(slash) \in 1..Len(uri)
    BY <1>3, MinIn
  <2>2. \A i \in Min(slash)..Len(uri) : uri[i] \in Characters
    BY <1>1, <2>1
  <2>3. Min(slash) \in Int /\ Len(uri) \in Int
    BY <1>1, <2>1
  <2> HIDE DEF from
  <2>4. SubSeq(uri, Min(slash), Len(uri)) \in Seq(Characters)
    BY <2>2, <2>3, SubSeqProperties
  <2> QED
    BY <2>4 DEF Text
<1>5. origin_form(connect, uri) = IF connect \/ (uri # << >> /\ uri[1] = "/") THEN uri
                                  ELSE IF slash = {} THEN <<"/">> ELSE SubSeq(uri, Min(slash), Len(uri))
  BY DEF origin_form
<1> HIDE DEF slash
<1> QED
  BY <1>2, <1>4, <1>5

\* What on_url makes of a whole URL.
LEMMA OriginFormPath ==
  ASSUME NEW m \in HttpMessages
  PROVE  LET uri == origin_form(m.connect, m.origin \o m.path)
         IN IF m.connect THEN uri = m.origin \o m.path
            ELSE WellFormed(m) => uri = IF m.path = << >> THEN <<"/">> ELSE m.path
<1> DEFINE o == m.origin
           p == m.path
           u == o \o p
           from == IF IsPrefix(Http, u) THEN Len(Http) ELSE 0
           slash == {i \in DOMAIN u : i > from /\ u[i] = "/"}
<1>1. o \in Seq(Characters) /\ p \in Seq(Characters) /\ u \in Seq(Characters)
  BY MessageParts DEF Text
<1>2. /\ Len(u) = Len(o) + Len(p) /\ Len(o) \in Nat /\ Len(p) \in Nat
      /\ \A i \in 1..Len(o) : u[i] = o[i]
      /\ \A i \in 1..Len(p) : u[Len(o) + i] = p[i]
  <2>1. Len(o) \in Nat /\ Len(p) \in Nat
    BY <1>1
  <2> HIDE DEF o, p
  <2>2. /\ Len(u) = Len(o) + Len(p)
        /\ \A i \in 1..Len(o) : u[i] = o[i]
        /\ \A i \in 1..Len(p) : u[Len(o) + i] = p[i]
    BY <1>1, Joined
  <2> QED
    BY <2>1, <2>2
<1>3. origin_form(m.connect, u) = IF m.connect \/ (u # << >> /\ u[1] = "/") THEN u
                                  ELSE IF slash = {} THEN <<"/">> ELSE SubSeq(u, Min(slash), Len(u))
  BY DEF origin_form
<1>4. CASE m.connect
  BY <1>3, <1>4
<1>u. u = o \o p /\ o = m.origin /\ p = m.path
  OBVIOUS
<1> HIDE DEF o, p, u
<1>5. ASSUME ~m.connect, WellFormed(m), o = << >>
      PROVE  origin_form(m.connect, u) = IF p = << >> THEN <<"/">> ELSE p
  <2>1. u = p
    BY <1>1, <1>5, <1>u, ConcatEmptySeq
  <2>2. CASE p = << >>
    <3>1. u = << >> /\ DOMAIN u = {}
      BY <2>1, <2>2
    <3>2. slash = {}
      BY <3>1
    <3> HIDE DEF u, slash
    <3> QED
      BY <1>3, <1>5, <2>2, <3>1, <3>2
  <2>3. CASE p # << >>
    <3>1. p[1] = "/"
      BY <1>5, <1>u, <2>3 DEF WellFormed
    <3> HIDE DEF u, slash, p
    <3> QED
      BY <1>3, <2>1, <2>3, <3>1
  <2> QED
    BY <2>2, <2>3
<1>6. ASSUME ~m.connect, WellFormed(m), o # << >>
      PROVE  origin_form(m.connect, u) = IF p = << >> THEN <<"/">> ELSE p
  <2>1. /\ IsPrefix(Http, o) /\ (\A i \in DOMAIN o : o[i] = "/" => i <= Len(Http))
        /\ p # << >> => p[1] = "/"
    BY <1>6, <1>u DEF WellFormed
  <2>2. Len(Http) = 3 /\ Http[1] = "http:" /\ Http \in Seq({"http:", "/"})
    BY DEF Http
  <2>3. 3 <= Len(o) /\ SubSeq(Http, 1, 3) = SubSeq(o, 1, 3)
    BY <2>1, <2>2 DEF IsPrefix
  <2>4. 3 <= Len(u) /\ SubSeq(u, 1, 3) = SubSeq(o, 1, 3)
    <3>1. 3 <= Len(u) /\ 1 \in 1..Len(o) /\ 3 \in 1..Len(o)
      BY <1>2, <2>3
    <3>2. SubSeq(o \o p, 1, 3) = SubSeq(o, 1, 3)
      <4>1. o \in Seq(Characters) /\ p \in Seq(Characters)
        BY <1>1
      <4> QED
        BY <3>1, <4>1, SubSeqOfConcat1
    <3> QED
      BY <1>u, <3>1, <3>2
  <2>5. IsPrefix(Http, u)
    BY <2>2, <2>3, <2>4 DEF IsPrefix
  <2>6. from = 3
    BY <2>2, <2>5
  <2>7. o[1] = "http:"
    <3>1. SubSeq(Http, 1, 3)[1] = Http[1] /\ SubSeq(o, 1, 3)[1] = o[1]
      <4>1. \A i \in 1..3 : o[i] \in Characters
        BY <1>1, <2>3
      <4>2. \A i \in 1..3 : Http[i] \in {"http:", "/"}
        BY <2>2
      <4>3. \A i \in 1..(3 - 1 + 1) : SubSeq(o, 1, 3)[i] = o[1 + i - 1]
        BY <4>1, SubSeqProperties
      <4>4. \A i \in 1..(3 - 1 + 1) : SubSeq(Http, 1, 3)[i] = Http[1 + i - 1]
        BY <4>2, SubSeqProperties
      <4> QED
        BY <4>3, <4>4
    <3> QED
      BY <2>2, <2>3, <3>1
  <2>8. u # << >> /\ u[1] = "http:"
    <3>1. 1 \in 1..Len(o)
      BY <1>2, <2>3
    <3> QED
      BY <1>1, <1>2, <2>7, <2>4, <3>1
  <2>9. DOMAIN u = 1..(Len(o) + Len(p)) /\ DOMAIN o = 1..Len(o) /\ DOMAIN p = 1..Len(p)
    <3> QED
      BY <1>1, <1>2
  <2>10. \A i \in slash : i \in (Len(o) + 1)..(Len(o) + Len(p))
    <3> SUFFICES ASSUME NEW i \in slash PROVE i \in (Len(o) + 1)..(Len(o) + Len(p))
      OBVIOUS
    <3>1. i \in 1..(Len(o) + Len(p)) /\ i > 3 /\ u[i] = "/"
      BY <2>6, <2>9
    <3>2. ~(i \in 1..Len(o))
      <4> SUFFICES ASSUME i \in 1..Len(o) PROVE FALSE
        OBVIOUS
      <4>1. u[i] = o[i]
        BY <1>2
      <4>2. i <= 3
        BY <2>1, <2>2, <2>9, <3>1, <4>1
      <4> QED
        BY <3>1, <4>2
    <3> HIDE DEF slash
    <3> QED
      BY <1>2, <3>1, <3>2
  <2>11. CASE p = << >>
    <3>1. Len(p) = 0
      BY <2>11
    <3>2. slash = {}
      <4> HIDE DEF slash
      <4> QED
        BY <1>2, <2>10, <3>1
    <3> HIDE DEF u, slash
    <3> QED
      BY <1>3, <1>6, <2>8, <2>11, <3>2
  <2>12. CASE p # << >>
    <3> DEFINE x == Len(o) + 1
    <3>1. Len(p) > 0 /\ 1 \in 1..Len(p)
      BY <1>1, <1>2, <2>12
    <3>2. u[x] = "/"
      BY <1>2, <2>1, <2>12, <3>1
    <3>3. x \in slash
      <4>1. x \in 1..(Len(o) + Len(p)) /\ x > 3
        BY <1>2, <2>3, <3>1
      <4> HIDE DEF x
      <4> QED
        BY <2>6, <2>9, <3>2, <4>1
    <3>4. slash \in SUBSET Nat /\ \A y \in slash : x <= y
      <4>1. \A y \in slash : y \in Nat /\ x <= y
        <5> HIDE DEF slash
        <5> QED
          BY <1>2, <2>10
      <4> HIDE DEF slash
      <4> QED
        BY <4>1
    <3>5. Min(slash) = x
      <4> HIDE DEF slash, x
      <4> QED
        BY <3>3, <3>4, MinIs
    <3>6. SubSeq(u, x, Len(u)) = p
      <4>1. x \in (Len(o) + 1)..(Len(o) + Len(p)) /\ Len(u) \in (Len(o) + 1)..(Len(o) + Len(p))
            /\ x - Len(o) = 1 /\ Len(u) - Len(o) = Len(p)
        BY <1>2, <3>1
      <4>0. o \in Seq(Characters) /\ p \in Seq(Characters)
        BY <1>1
      <4>u. u = o \o p
        BY <1>u
      <4>2. SubSeq(u, x, Len(u)) = SubSeq(p, x - Len(o), Len(u) - Len(o))
        <5> HIDE DEF x
        <5> QED
          BY <4>0, <4>1, <4>u, SubSeqOfConcat2
      <4> QED
        BY <1>1, <4>1, <4>2, SubSeqFull
    <3> HIDE DEF u, slash, x
    <3> QED
      BY <1>3, <1>6, <2>8, <2>12, <3>3, <3>5, <3>6
  <2> QED
    BY <2>11, <2>12
<1> QED
  BY <1>4, <1>5, <1>6, <1>u

LEMMA AddHeader ==
  ASSUME NEW block \in Blocks, NEW name \in Text, NEW value \in Text
  PROVE  LET added == add_header(block, name, value)
         IN /\ added \in Blocks
            /\ DOMAIN added = DOMAIN block \cup {name}
            /\ \A x \in DOMAIN block : added[x] = block[x]
            /\ name \notin DOMAIN block => added[name] = value
<1> DEFINE added == add_header(block, name, value)
<1>1. PICK S \in SUBSET Text : block \in [S -> Text]
  BY DEF Blocks
<1>2. added = [x \in S \cup {name} |-> IF x \in S THEN block[x] ELSE value]
  BY <1>1 DEF add_header
<1>3. DOMAIN added = S \cup {name} /\ \A x \in S : added[x] = block[x]
  BY <1>2
<1>4. name \notin S => added[name] = value
  BY <1>2
<1>5. added = [x \in S \cup {name} |-> added[x]]
  BY <1>2
<1>6. \A x \in S \cup {name} : added[x] \in Text
  BY <1>1, <1>3, <1>4
<1> HIDE DEF added
<1>7. added \in [S \cup {name} -> Text]
  BY <1>5, <1>6
<1>8. added \in Blocks
  <2>1. S \cup {name} \in SUBSET Text
    OBVIOUS
  <2> QED
    BY <1>7, <2>1 DEF Blocks
<1> QED
  BY <1>1, <1>3, <1>4, <1>8 DEF added

LEMMA HoldsMore ==
  ASSUME NEW block \in Blocks, NEW pairs \in Pairs, NEW n \in 0..(Len(pairs) - 1), Holds(block, pairs, n)
  PROVE  Holds(add_header(block, pairs[n + 1][1], pairs[n + 1][2]), pairs, n + 1)
<1> DEFINE x == pairs[n + 1][1]
           v == pairs[n + 1][2]
           a == add_header(block, x, v)
<1>1. Len(pairs) \in Nat /\ n \in Nat /\ n + 1 \in 1..Len(pairs)
  BY DEF Pairs
<1>2. x \in Text /\ v \in Text
  BY <1>1, PairParts
<1>3. /\ DOMAIN a = DOMAIN block \cup {x}
      /\ \A y \in DOMAIN block : a[y] = block[y]
      /\ x \notin DOMAIN block => a[x] = v
  <2> HIDE DEF x, v
  <2> QED
    BY <1>2, AddHeader
<1> HIDE DEF a
<1>4. DOMAIN block = {pairs[i][1] : i \in 1..n}
  BY DEF Holds
<1>5. 1..(n + 1) = (1..n) \cup {n + 1}
  BY <1>1
<1>6. DOMAIN a = {pairs[i][1] : i \in 1..(n + 1)}
  BY <1>3, <1>4, <1>5
<1>7. ASSUME NEW i \in 1..(n + 1), \A j \in 1..(i - 1) : pairs[j][1] # pairs[i][1]
      PROVE  a[pairs[i][1]] = pairs[i][2]
  <2>1. CASE i \in 1..n
    <3>1. block[pairs[i][1]] = pairs[i][2] /\ pairs[i][1] \in DOMAIN block
      BY <1>4, <1>7, <2>1 DEF Holds
    <3> QED
      BY <1>3, <3>1
  <2>2. CASE i = n + 1
    <3>1. x \notin DOMAIN block
      BY <1>1, <1>4, <1>7, <2>2
    <3> QED
      BY <1>3, <2>2, <3>1
  <2> QED
    BY <1>5, <2>1, <2>2
<1> QED
  BY <1>6, <1>7 DEF Holds, a

LEMMA HoldsAll ==
  ASSUME NEW block, NEW pairs \in Pairs, Holds(block, pairs, Len(pairs))
  PROVE  FirstValues(block, pairs) /\ DOMAIN block = Names(pairs)
<1>1. DOMAIN pairs = 1..Len(pairs)
  BY DEF Pairs
<1> QED
  BY <1>1 DEF Holds, FirstValues, Names

LEMMA FirstValuesKept ==
  ASSUME NEW block \in Blocks, NEW name \in Text, NEW value \in Text, NEW pairs, FirstValues(block, pairs)
  PROVE  FirstValues(add_header(block, name, value), pairs)
<1>1. \A x \in DOMAIN block : /\ x \in DOMAIN add_header(block, name, value)
                              /\ add_header(block, name, value)[x] = block[x]
  <2>1. DOMAIN add_header(block, name, value) = DOMAIN block \cup {name}
    BY AddHeader
  <2>2. \A x \in DOMAIN block : add_header(block, name, value)[x] = block[x]
    BY AddHeader
  <2> QED
    BY <2>1, <2>2
<1> QED
  BY <1>1 DEF FirstValues

-----------------------------------------------------------------------------
LEMMA BodyToken ==
  ASSUME NEW x \in BodyTokens
  PROVE  x.kind \in {"byte", "size", "crlf", "end"} /\ (x.kind = "size" => x.value \in Nat)
BY DEF BodyTokens

LEMMA BytesOfTokens ==
  ASSUME NEW text \in Text
  PROVE  /\ BytesOf(text) \in Seq(BodyTokens) /\ Len(BytesOf(text)) = Len(text)
         /\ \A i \in 1..Len(text) : BytesOf(text)[i].kind = "byte"
<1>1. text \in Seq(Characters) /\ Len(text) \in Nat /\ DOMAIN text = 1..Len(text)
  BY DEF Text
<1>2. ASSUME NEW i \in 1..Len(text)
      PROVE  Token("byte", text[i]) \in BodyTokens /\ Token("byte", text[i]).kind = "byte"
  BY <1>1 DEF Token, BodyTokens
<1>3. BytesOf(text) = [i \in 1..Len(text) |-> Token("byte", text[i])]
  BY <1>1 DEF BytesOf
<1>4. \A i \in 1..Len(text) : BytesOf(text)[i] = Token("byte", text[i])
  BY <1>3
<1>5. BytesOf(text) \in Seq(BodyTokens) /\ Len(BytesOf(text)) = Len(text)
  BY <1>1, <1>2, <1>3
<1> QED
  BY <1>2, <1>4, <1>5

LEMMA FramedText ==
  ASSUME NEW text \in Text
  PROVE  framed(text) \in Seq(BodyTokens) /\ Framed(framed(text))
<1> DEFINE n == Len(text)
           b == BytesOf(text)
           s == << Token("size", n) >>
           c == << Token("crlf", 0) >>
           u == s \o b
           f == u \o c
<1>1. n \in Nat
  BY DEF Text
<1>2. b \in Seq(BodyTokens) /\ Len(b) = n /\ \A i \in 1..n : b[i].kind = "byte"
  BY BytesOfTokens
<1>3. /\ s \in Seq(BodyTokens) /\ Len(s) = 1 /\ s[1].kind = "size" /\ s[1].value = n
      /\ c \in Seq(BodyTokens) /\ Len(c) = 1 /\ c[1].kind = "crlf"
  <2>1. Token("size", n) \in BodyTokens /\ Token("crlf", 0) \in BodyTokens
    BY <1>1 DEF Token, BodyTokens
  <2>2. Token("size", n).kind = "size" /\ Token("size", n).value = n /\ Token("crlf", 0).kind = "crlf"
    BY DEF Token
  <2> QED
    BY <2>1, <2>2
<1> HIDE DEF n, b, s, c
<1>4. u \in Seq(BodyTokens) /\ Len(u) = 1 + n /\ u[1] = s[1] /\ \A i \in 1..n : u[1 + i] = b[i]
  <2>1. /\ u \in Seq(BodyTokens) /\ Len(u) = Len(s) + Len(b)
        /\ \A i \in 1..Len(s) : u[i] = s[i]
        /\ \A i \in 1..Len(b) : u[Len(s) + i] = b[i]
    BY <1>2, <1>3, Joined
  <2> HIDE DEF u
  <2> QED
    BY <1>2, <1>3, <2>1
<1> HIDE DEF u
<1>5. f \in Seq(BodyTokens) /\ Len(f) = n + 2 /\ (\A i \in 1..(1 + n) : f[i] = u[i]) /\ f[n + 2] = c[1]
  <2>1. /\ f \in Seq(BodyTokens) /\ Len(f) = Len(u) + Len(c)
        /\ \A i \in 1..Len(u) : f[i] = u[i]
        /\ \A i \in 1..Len(c) : f[Len(u) + i] = c[i]
    BY <1>3, <1>4, Joined
  <2> HIDE DEF f
  <2>2. f[Len(u) + 1] = c[1]
    BY <1>3, <2>1
  <2> QED
    BY <1>1, <1>3, <1>4, <2>1, <2>2
<1>6. framed(text) = f
  BY DEF framed, f, u, s, b, c, n
<1> HIDE DEF f
<1>7. f[1].kind = "size" /\ f[1].value = n /\ f[n + 2].kind = "crlf"
  BY <1>1, <1>3, <1>4, <1>5
<1>8. ASSUME NEW i \in 2..(n + 1) PROVE f[i].kind = "byte"
  <2>1. i - 1 \in 1..n /\ i = 1 + (i - 1) /\ i \in 1..(1 + n)
    BY <1>1
  <2>2. f[i] = b[i - 1]
    BY <1>4, <1>5, <2>1, Zenon
  <2> QED
    BY <1>2, <2>1, <2>2
<1>9. DOMAIN f = 1..(n + 2) /\ f # << >>
  BY <1>1, <1>5
<1>10. ASSUME NEW i \in DOMAIN f, f[i].kind = "size" PROVE i = 1
  BY <1>1, <1>7, <1>8, <1>9, <1>10
<1>11. Framed(f)
  <2> SUFFICES ASSUME NEW i \in DOMAIN f, f[i].kind = "size"
               PROVE  LET j == i + f[i].value + 1
                      IN /\ j <= Len(f)
                         /\ \A l \in (i + 1)..(j - 1) : f[l].kind = "byte"
                         /\ f[j].kind = "crlf"
                         /\ j < Len(f) => f[j + 1].kind \in {"size", "end"}
    BY <1>7, <1>9 DEF Framed
  <2>1. i = 1 /\ f[i].value = n /\ i + f[i].value + 1 = n + 2
    BY <1>1, <1>7, <1>10
  <2>2. \A l \in (i + 1)..(n + 2 - 1) : f[l].kind = "byte"
    BY <1>1, <1>8, <2>1
  <2> QED
    BY <1>1, <1>5, <1>7, <2>1, <2>2
<1> QED
  BY <1>5, <1>6, <1>11

\* Whole chunks stay whole when others follow.
LEMMA FramedJoin ==
  ASSUME NEW a \in Seq(BodyTokens), NEW b \in Seq(BodyTokens), Framed(a), Framed(b)
  PROVE  Framed(a \o b)
<1> DEFINE n == Len(a)
           k == Len(b)
           u == a \o b
           Chunk(s, i) == LET j == i + s[i].value + 1
                          IN /\ j <= Len(s)
                             /\ \A l \in (i + 1)..(j - 1) : s[l].kind = "byte"
                             /\ s[j].kind = "crlf"
                             /\ j < Len(s) => s[j + 1].kind \in {"size", "end"}
<1>1. /\ n \in Nat /\ k \in Nat /\ DOMAIN a = 1..n /\ DOMAIN b = 1..k
      /\ a # << >> <=> n > 0
      /\ b # << >> <=> k > 0
  OBVIOUS
<1>2. /\ u \in Seq(BodyTokens) /\ Len(u) = n + k
      /\ \A i \in 1..n : u[i] = a[i]
      /\ \A i \in 1..k : u[n + i] = b[i]
  BY Joined
<1>3. /\ a # << >> => a[1].kind \in {"size", "end"}
      /\ \A i \in DOMAIN a : a[i].kind = "size" => Chunk(a, i)
      /\ b # << >> => b[1].kind \in {"size", "end"}
      /\ \A i \in DOMAIN b : b[i].kind = "size" => Chunk(b, i)
  BY DEF Framed
<1>4. /\ \A i \in 1..n : a[i].kind = "size" => a[i].value \in Nat
      /\ \A i \in 1..k : b[i].kind = "size" => b[i].value \in Nat
  <2>1. /\ \A i \in 1..n : a[i] \in BodyTokens
        /\ \A i \in 1..k : b[i] \in BodyTokens
    OBVIOUS
  <2> QED
    BY <2>1, BodyToken
<1>5. DOMAIN u = 1..(n + k)
  BY <1>1, <1>2
<1> HIDE DEF n, k, u
<1>6. u # << >> => u[1].kind \in {"size", "end"}
  <2>1. CASE n > 0
    <3>1. u[1] = a[1]
      BY <1>1, <1>2, <2>1
    <3> QED
      BY <1>1, <1>3, <2>1, <3>1
  <2>2. CASE n = 0 /\ k > 0
    <3>1. u[1] = b[1]
      <4>1. 1 \in 1..k /\ n + 1 = 1
        BY <1>1, <2>2
      <4>2. u[n + 1] = b[1]
        BY <1>2, <4>1, Zenon
      <4> QED
        BY <4>1, <4>2
    <3> QED
      BY <1>1, <1>3, <2>2, <3>1
  <2>3. CASE n = 0 /\ k = 0
    <3>1. u = << >>
      BY <1>2, <2>3
    <3> QED
      BY <3>1
  <2> QED
    BY <1>1, <2>1, <2>2, <2>3
<1>7. ASSUME NEW i \in 1..n, a[i].kind = "size" PROVE Chunk(u, i)
  <2> DEFINE v == a[i].value
             j == i + v + 1
  <2>1. /\ j <= n
        /\ \A l \in (i + 1)..(j - 1) : a[l].kind = "byte"
        /\ a[j].kind = "crlf"
        /\ j < n => a[j + 1].kind \in {"size", "end"}
    BY <1>1, <1>3, <1>7 DEF n
  <2>2. v \in Nat /\ u[i].value = v
    BY <1>2, <1>4, <1>7
  <2> HIDE DEF v
  <2>3. j \in Nat /\ j \in 1..n /\ j <= n + k
    BY <1>1, <2>1, <2>2
  <2>4. \A l \in (i + 1)..(j - 1) : u[l].kind = "byte"
    <3> SUFFICES ASSUME NEW l \in (i + 1)..(j - 1) PROVE u[l].kind = "byte"
      OBVIOUS
    <3>1. l \in 1..n
      BY <1>1, <2>2, <2>3
    <3> QED
      BY <1>2, <2>1, <3>1
  <2>5. u[j].kind = "crlf"
    <3> HIDE DEF j
    <3> QED
      BY <1>2, <2>1, <2>3
  <2>6. j < n + k => u[j + 1].kind \in {"size", "end"}
    <3> HIDE DEF j
    <3>1. CASE j < n
      <4>1. j + 1 \in 1..n
        BY <1>1, <2>3, <3>1
      <4> QED
        BY <1>2, <2>1, <3>1, <4>1
    <3>2. CASE j = n /\ k > 0
      <4>1. 1 \in 1..k
        BY <1>1, <3>2
      <4>2. u[j + 1] = b[1]
        BY <1>2, <3>2, <4>1, Zenon
      <4> QED
        BY <1>1, <1>3, <3>2, <4>2
    <3> QED
      BY <1>1, <2>3, <3>1, <3>2
  <2>7. Len(u) = n + k
    BY <1>2
  <2> QED
    BY <2>2, <2>3, <2>4, <2>5, <2>6, <2>7
<1>8. ASSUME NEW i \in 1..k, b[i].kind = "size" PROVE Chunk(u, n + i)
  <2> DEFINE v == b[i].value
             j == i + v + 1
  <2>1. /\ j <= k
        /\ \A l \in (i + 1)..(j - 1) : b[l].kind = "byte"
        /\ b[j].kind = "crlf"
        /\ j < k => b[j + 1].kind \in {"size", "end"}
    BY <1>1, <1>3, <1>8 DEF k
  <2>2. v \in Nat /\ u[n + i].value = v
    <3>1. u[n + i] = b[i]
      BY <1>2
    <3> QED
      BY <1>4, <1>8, <3>1
  <2> HIDE DEF v
  <2>3. j \in Nat /\ j \in 1..k /\ n + j <= n + k /\ (n + i) + v + 1 = n + j
    BY <1>1, <2>1, <2>2
  <2>4. \A l \in ((n + i) + 1)..((n + j) - 1) : u[l].kind = "byte"
    <3> SUFFICES ASSUME NEW l \in ((n + i) + 1)..((n + j) - 1) PROVE u[l].kind = "byte"
      OBVIOUS
    <3>1. l - n \in 1..k /\ l - n \in (i + 1)..(j - 1) /\ l = n + (l - n)
      BY <1>1, <2>2, <2>3
    <3>2. u[l] = b[l - n]
      BY <1>2, <3>1, Zenon
    <3> QED
      BY <2>1, <3>1, <3>2
  <2>5. u[n + j].kind = "crlf"
    <3>1. u[n + j] = b[j]
      <4> HIDE DEF j
      <4> QED
        BY <1>2, <2>3
    <3> QED
      BY <2>1, <3>1
  <2>6. n + j < n + k => u[(n + j) + 1].kind \in {"size", "end"}
    <3> HIDE DEF j
    <3> SUFFICES ASSUME n + j < n + k PROVE u[(n + j) + 1].kind \in {"size", "end"}
      OBVIOUS
    <3>1. j + 1 \in 1..k /\ (n + j) + 1 = n + (j + 1) /\ j < k
      BY <1>1, <2>3
    <3> DEFINE y == j + 1
    <3>0. u[n + y] = b[y]
      <4> HIDE DEF y
      <4> QED
        BY <1>2, <3>1 DEF y
    <3>2. u[(n + j) + 1] = b[j + 1]
      BY <3>0, <3>1
    <3> QED
      BY <2>1, <3>1, <3>2
  <2>7. Len(u) = n + k
    BY <1>2
  <2> HIDE DEF j
  <2> QED
    BY <2>2, <2>3, <2>4, <2>5, <2>6, <2>7
<1>9. ASSUME NEW i \in DOMAIN u, u[i].kind = "size" PROVE Chunk(u, i)
  <2>1. CASE i \in 1..n
    <3>1. a[i].kind = "size"
      BY <1>2, <1>9, <2>1
    <3> QED
      BY <1>7, <2>1, <3>1
  <2>2. CASE i \notin 1..n
    <3>1. i - n \in 1..k /\ i = n + (i - n)
      BY <1>1, <1>5, <2>2
    <3>2. PICK l \in 1..k : i = n + l
      BY <3>1
    <3>3. b[l].kind = "size"
      BY <1>2, <1>9, <3>2
    <3>4. \A y \in 1..k : b[y].kind = "size" => Chunk(u, n + y)
      BY <1>8, Zenon
    <3>5. Chunk(u, n + l)
      BY <3>3, <3>4, Zenon
    <3> QED
      BY <3>2, <3>5, Zenon
  <2> QED
    BY <2>1, <2>2
<1> QED
  BY <1>6, <1>9 DEF Framed, u

LEMMA FramedEnd ==
  LET e == << Token("end", 0) >>
  IN e \in Seq(BodyTokens) /\ Framed(e)
<1> DEFINE x == Token("end", 0)
           e == << x >>
<1>1. x \in BodyTokens /\ x.kind = "end"
  BY DEF Token, BodyTokens
<1> HIDE DEF x
<1>2. e \in Seq(BodyTokens) /\ DOMAIN e = {1} /\ e[1] = x
  BY <1>1
<1> HIDE DEF e
<1>3. Framed(e)
  BY <1>1, <1>2 DEF Framed
<1> QED
  BY <1>2, <1>3 DEF e, x

LEMMA FramedEmpty == Framed(<< >>)
BY DEF Framed

-----------------------------------------------------------------------------
(* The stream, the message being read and the element the parser is in.     *)

LEMMA StreamParts ==
  ASSUME stream \in DOMAIN Streams
  PROVE  /\ Type \in {"request", "response"} /\ Messages \in Seq(HttpMessages)
         /\ Len(Messages) \in Nat
         /\ \A k \in 1..Len(Messages) : Messages[k] \in HttpMessages
<1> DEFINE S == [type : {"request", "response"}, messages : Seq(HttpMessages)]
<1>1. Streams \in Seq(S)
  BY CodecAssumption
<1>2. Streams[stream] \in S
  <2> HIDE DEF S
  <2>1. DOMAIN Streams = 1..Len(Streams)
    BY <1>1
  <2> QED
    BY <1>1, <2>1
<1>3. Type \in {"request", "response"} /\ Messages \in Seq(HttpMessages)
  BY <1>2 DEF Type, Messages
<1> QED
  BY <1>3

LEMMA Here ==
  ASSUME stream \in DOMAIN Streams, number \in 1..(Len(Messages) + 1), Unread
  PROVE  /\ number \in 1..Len(Messages) /\ Reading \in HttpMessages
         /\ Input = Elements(Reading)
         /\ Len(Input) \in Nat /\ Len(Input) >= 4
         /\ Input[1].text = << >>
<1>1. /\ Messages \in Seq(HttpMessages) /\ Len(Messages) \in Nat
  BY StreamParts
<1>2. number \in 1..Len(Messages)
  BY <1>1 DEF Unread
<1>3. Reading \in HttpMessages
  BY <1>1, <1>2 DEF Reading
<1>4. DOMAIN Messages = 1..Len(Messages)
  BY <1>1
<1>5. Input = Elements(Reading)
  <2>1. Inputs[stream] = [n \in DOMAIN Streams[stream].messages |-> Elements(Streams[stream].messages[n])]
    BY DEF Inputs
  <2>2. number \in DOMAIN Streams[stream].messages
    BY <1>2, <1>4 DEF Messages
  <2> QED
    BY <2>1, <2>2 DEF Input, Reading, Messages
<1>6. /\ Len(Elements(Reading)) = HeadersEnd(Reading) + Len(Reading.body) + 2 * Len(Reading.trailers) + 1
      /\ Elements(Reading)[1] = Element("begin", << >>)
  BY <1>3, Layout
<1>7. /\ Len(Reading.headers) \in Nat /\ Len(Reading.body) \in Nat /\ Len(Reading.trailers) \in Nat
  BY <1>3, MessageParts
<1>8. Len(Elements(Reading)) \in Nat /\ Len(Elements(Reading)) >= 4
  <2> DEFINE h == Len(Reading.headers)
             b == Len(Reading.body)
             l == Len(Reading.trailers)
             n == Len(Elements(Reading))
  <2>1. n = (2 * h + 3) + b + 2 * l + 1 /\ h \in Nat /\ b \in Nat /\ l \in Nat
    BY <1>6, <1>7, Zenon DEF HeadersEnd
  <2> HIDE DEF h, b, l, n
  <2>2. n \in Nat /\ n >= 4
    BY <2>1
  <2> QED
    BY <2>2 DEF n
<1>9. Elements(Reading)[1].text = << >>
  BY <1>6 DEF Element
<1> QED
  BY <1>2, <1>3, <1>5, <1>8, <1>9

LEMMA CurrentParts ==
  ASSUME Typed, Unread
  PROVE  /\ Current = Elements(Reading)[at] /\ at \in 1..Len(Elements(Reading))
         /\ Current \in AllElements /\ Current.text \in Text
         /\ Len(Current.text) \in Nat /\ off \in 0..Len(Current.text)
<1>1. Reading \in HttpMessages /\ Input = Elements(Reading)
  BY Here DEF Typed
<1>2. Current = Elements(Reading)[at] /\ at \in 1..Len(Elements(Reading))
  BY <1>1 DEF Typed, At, Current
<1>3. Elements(Reading)[at] \in AllElements
  BY <1>1, <1>2, Where
<1>4. Current.text \in Text
  BY <1>2, <1>3 DEF AllElements
<1>5. Len(Current.text) \in Nat
  BY <1>4 DEF Text
<1>6. off \in 0..Len(Current.text)
  BY DEF Typed, At
<1> QED
  BY <1>2, <1>3, <1>4, <1>5, <1>6

\* The parser is still in the message: the message and its elements are the
\* same, and the parser is in this element or the next one.
LEMMA SameMessage ==
  ASSUME UNCHANGED <<stream, number>>
  PROVE  /\ Type' = Type /\ Messages' = Messages /\ Reading' = Reading
         /\ Input' = Input /\ (Unread' <=> Unread)
BY DEF Type, Messages, Reading, Input, Unread

LEMMA Advances ==
  ASSUME Typed, Unread, Current.call # "message_complete", UNCHANGED <<stream, number>>,
         at' = at + 1, off' = 0
  PROVE  At' /\ at + 1 \in 1..Len(Elements(Reading))
<1>1. Reading \in HttpMessages /\ Input = Elements(Reading) /\ Len(Input) \in Nat
  BY Here DEF Typed
<1>2. Input' = Input
  BY SameMessage
<1>3. at \in 1..Len(Input) /\ Current = Elements(Reading)[at]
  BY <1>1, CurrentParts
<1>4. at # Len(Input)
  <2>1. Elements(Reading)[Len(Elements(Reading))] = Element("message_complete", << >>)
    BY <1>1, Layout
  <2> QED
    BY <1>1, <1>3, <2>1 DEF Element
<1>5. at + 1 \in 1..Len(Input)
  BY <1>1, <1>3, <1>4
<1>6. Elements(Reading)[at + 1] \in AllElements
  BY <1>1, <1>5, Where
<1>7. Len(Elements(Reading)[at + 1].text) \in Nat
  BY <1>6 DEF AllElements, Text
<1>8. Current' = Elements(Reading)[at + 1]
  BY <1>1, <1>2 DEF Current
<1> QED
  BY <1>1, <1>2, <1>5, <1>7, <1>8 DEF At

\* What a read brings of an element.
LEMMA DataStep ==
  ASSUME Typed, Unread, NEW text, Data(text), UNCHANGED <<stream, number>>,
         Current.call # "message_complete"
  PROVE  /\ text \in Text /\ At'
         /\ \/ /\ at' = at + 1 /\ off' = 0 /\ phase' = "reading"
               /\ text = SubSeq(Current.text, off + 1, Len(Current.text))
            \/ /\ at' = at /\ phase' = "decoded" /\ off' \in (off + 1)..Len(Current.text)
               /\ text = SubSeq(Current.text, off + 1, off')
<1>1. Current.text \in Text /\ Len(Current.text) \in Nat /\ off \in 0..Len(Current.text)
  BY CurrentParts
<1>2. CASE /\ text = SubSeq(Current.text, off + 1, Len(Current.text))
           /\ at' = at + 1 /\ off' = 0 /\ phase' = "reading"
  <2>1. text \in Text
    BY <1>1, <1>2, TextParts
  <2>2. At'
    BY <1>2, Advances
  <2> QED
    BY <1>2, <2>1, <2>2
<1>3. CASE /\ \E n \in (off + 1)..Len(Current.text) :
                /\ Current.call = "body" => n < Len(Current.text)
                /\ text = SubSeq(Current.text, off + 1, n)
                /\ off' = n
           /\ phase' = "decoded" /\ at' = at
  <2>1. off' \in (off + 1)..Len(Current.text) /\ text = SubSeq(Current.text, off + 1, off')
    BY <1>3
  <2>2. off' \in off..Len(Current.text) /\ off' \in 0..Len(Current.text)
    BY <1>1, <2>1
  <2>3. text \in Text
    BY <1>1, <2>1, <2>2, TextParts
  <2>4. At'
    <3>1. Input' = Input /\ Current' = Current
      BY <1>3, SameMessage DEF Current
    <3> QED
      BY <1>3, <2>2, <3>1 DEF At, Typed
  <2> QED
    BY <1>3, <2>1, <2>3, <2>4
<1> QED
  BY <1>2, <1>3 DEF Data

-----------------------------------------------------------------------------
(* The invariant is kept.                                                   *)

LEMMA NewTypes ==
  NewDecoder \in Decoders /\ NewMessage \in MessageTypes /\ NewEncoder \in Encoders
<1>1. << >> \in Text /\ << >> \in Seq(BodyTokens)
  BY DEF Text
<1>2. NewDecoder \in Decoders
  BY <1>1 DEF NewDecoder, Decoders
<1>3. [x \in {} |-> << >>] \in Blocks
  <2>1. [x \in {} |-> << >>] \in [{} -> Text]
    OBVIOUS
  <2> QED
    BY <2>1 DEF Blocks
<1>4. NewMessage \in MessageTypes
  BY <1>1, <1>3 DEF NewMessage, MessageTypes
<1>5. NewEncoder \in Encoders
  BY DEF NewEncoder, Encoders
<1> QED
  BY <1>2, <1>4, <1>5

LEMMA NewParts ==
  /\ NewDecoder.value = << >> /\ NewDecoder.field = << >> /\ ~NewDecoder.chunked
  /\ DOMAIN NewMessage.headers = {} /\ NewMessage.body = << >>
  /\ ~NewMessage.headers_completed /\ ~NewMessage.message_completed
  /\ NewEncoder.state = "BEGIN" /\ NewEncoder.body_encoded = 0
BY DEF NewDecoder, NewMessage, NewEncoder

\* A message whose first element comes next has left no trace yet.
LEMMA Fresh ==
  ASSUME stream \in DOMAIN Streams, number \in 1..(Len(Messages) + 1), at = 1,
         decoder = NewDecoder, msg = NewMessage, ~asserted
  PROVE  Position /\ Collected
<1> SUFFICES ASSUME Unread PROVE Position /\ Collected
  BY DEF Position, Collected
<1>1. Reading \in HttpMessages
  BY Here
<1>2. Len(Reading.headers) \in Nat
  BY <1>1, MessageParts
<1>3. HeadersEnd(Reading) >= 3 /\ HeadersEnd(Reading) \in Nat
  <2> DEFINE h == Len(Reading.headers)
  <2> HIDE DEF h
  <2>1. 2 * h + 3 \in Nat /\ 2 * h + 3 >= 3
    BY <1>2 DEF h
  <2> QED
    BY <2>1 DEF h, HeadersEnd
<1>4. Position
  <2>1. /\ at = 1 => decoder = NewDecoder /\ msg = NewMessage
        /\ at = 2 => decoder = NewDecoder
        /\ msg.headers_completed <=> at > HeadersEnd(Reading) /\ ~asserted
        /\ asserted => FALSE
    BY <1>3, NewParts
  <2>2. \A j \in 1..(Len(Reading.headers) + 1) : at # 2 * j + 1 /\ at # 2 * j + 2
    BY <1>2
  <2>3. \A j \in 1..Len(Reading.headers) : at # 2 * j + 1 /\ at # 2 * j + 2
    BY <1>2
  <2>4. decoder.value = << >>
    BY NewParts
  <2> QED
    BY <2>1, <2>2, <2>3, <2>4 DEF Position
<1>5. Collected
  <2>2. \A j \in 1..(Len(Reading.headers) + 1) : at # 2 * j + 1 /\ at # 2 * j + 2
    BY <1>2
  <2>3. \A j \in 1..Len(Reading.headers) : at # 2 * j + 1 /\ at # 2 * j + 2
    BY <1>2
  <2>4. DOMAIN msg.headers = {}
    BY NewParts
  <2> QED
    BY <2>2, <2>3, <2>4 DEF Collected
<1> QED
  BY <1>4, <1>5

LEMMA InitInv == Init => CodecInv
<1> SUFFICES ASSUME Init PROVE CodecInv
  OBVIOUS
<1>1. stream \in DOMAIN Streams /\ Len(Messages) \in Nat
  BY StreamParts DEF Init
<1>2. number = 1 /\ number \in 1..(Len(Messages) + 1)
  BY <1>1 DEF Init
<1>3. Typed
  <2>1. At
    <3> SUFFICES ASSUME Unread PROVE at \in 1..Len(Input) /\ off \in 0..Len(Current.text)
      BY DEF At
    <3>1. Len(Input) \in Nat /\ Len(Input) >= 4 /\ Input[1].text = << >>
      BY <1>1, <1>2, Here
    <3>2. at = 1 /\ off = 0 /\ Current.text = << >>
      BY <3>1 DEF Init, Current
    <3> QED
      BY <3>1, <3>2
  <2>2. << >> \in Seq(Tokens) /\ << >> \in Seq(Seq(Tokens))
    OBVIOUS
  <2> QED
    BY <1>1, <1>2, <2>1, <2>2, NewTypes DEF Typed, Init
<1>4. Position /\ Collected
  BY <1>1, <1>2, Fresh DEF Init
<1>5. sent = << >> /\ Len(sent) = 0 /\ out = << >>
  BY DEF Init
<1>6. Place
  BY <1>2, <1>5, NewParts DEF Place, Init
<1>7. Taken /\ Output /\ Past /\ Streamed
  BY <1>5, NewParts DEF Taken, Output, Past, Streamed, Init
<1> QED
  BY <1>3, <1>4, <1>6, <1>7 DEF CodecInv

LEMMA SameSending ==
  ASSUME UNCHANGED <<stream, sent>>
  PROVE  Type' = Type /\ Messages' = Messages /\ Sending' = Sending
BY DEF Type, Messages, Sending

\* A step that changes the phase alone.
LEMMA PhaseStep ==
  ASSUME CodecInv, UNCHANGED <<stream, number, at, off, cut, decoder, msg, encoder, out, sent, asserted>>,
         phase' \in {"begun", "decoded"}
  PROVE  Position' /\ Collected' /\ Taken' /\ Output' /\ Past' /\ Streamed' /\ Typed'
<1>1. /\ Type' = Type /\ Messages' = Messages /\ Reading' = Reading
      /\ Input' = Input /\ (Unread' <=> Unread) /\ Sending' = Sending /\ Current' = Current
  BY SameMessage, SameSending DEF Current
<1>2. Position'
  BY <1>1 DEF CodecInv, Position
<1>3. Collected'
  BY <1>1 DEF CodecInv, Collected
<1>4. Taken' /\ Output' /\ Past'
  BY <1>1 DEF CodecInv, Taken, Output, Past
<1>5. Streamed'
  BY DEF Streamed
<1>6. Typed'
  BY <1>1 DEF CodecInv, Typed, At
<1> QED
  BY <1>2, <1>3, <1>4, <1>5, <1>6

LEMMA DecodeInv == CodecInv /\ decode => CodecInv'
<1> SUFFICES ASSUME CodecInv, decode PROVE CodecInv'
  OBVIOUS
<1>1. /\ UNCHANGED <<stream, number, at, off, cut, decoder, msg, encoder, out, sent, asserted>>
      /\ phase = "idle" /\ phase' = "begun" /\ Unread /\ ~asserted
  BY DEF decode
<1>2. Unread'
  BY <1>1, SameMessage
<1>3. Place'
  BY <1>1, <1>2 DEF CodecInv, Place
<1> QED
  BY <1>1, <1>3, PhaseStep DEF CodecInv

LEMMA DecodedInv == CodecInv /\ decoded /\ ~asserted => CodecInv'
<1> SUFFICES ASSUME CodecInv, decoded, ~asserted PROVE CodecInv'
  OBVIOUS
<1>1. /\ UNCHANGED <<stream, number, at, off, cut, decoder, msg, encoder, out, sent, asserted>>
      /\ phase = "reading" /\ phase' = "decoded"
  BY DEF decoded
<1>2. Unread' <=> Unread
  BY <1>1, SameMessage
<1>3. Place'
  BY <1>1, <1>2 DEF CodecInv, Place
<1> QED
  BY <1>1, <1>3, PhaseStep DEF CodecInv

\* In a callback the message being read is the one being passed on.
LEMMA InCall ==
  ASSUME CodecInv, NEW c, Calls(c)
  PROVE  /\ Unread /\ Current.call = c /\ phase \in {"begun", "reading"}
         /\ ~msg.message_completed /\ msg.message_completed = FALSE
         /\ encoder.state # "END" /\ encoder.state \in {"BEGIN", "BODY"}
         /\ number = Len(sent) + 1 /\ Sending = Reading /\ Reading \in HttpMessages
         /\ Len(Reading.headers) \in Nat /\ Len(Reading.body) \in Nat /\ Len(Reading.trailers) \in Nat
<1>1. Unread /\ Current.call = c /\ phase \in {"begun", "reading"}
  BY DEF Calls
<1>2. ~msg.message_completed /\ encoder.state # "END"
  BY <1>1 DEF CodecInv, Place
<1>3. msg.message_completed \in BOOLEAN
  BY DEF CodecInv, Typed, MessageTypes
<1>4. number = Len(sent) + 1 /\ Sending = Reading
  BY <1>2 DEF CodecInv, Place, Sending, Reading
<1>5. Reading \in HttpMessages
  BY <1>1, Here DEF CodecInv, Typed
<1>6. /\ Len(Reading.headers) \in Nat /\ Len(Reading.body) \in Nat /\ Len(Reading.trailers) \in Nat
  BY <1>5, MessageParts
<1>7. encoder.state \in {"BEGIN", "BODY"}
  BY <1>2 DEF CodecInv, Place
<1> QED
  BY <1>1, <1>2, <1>3, <1>4, <1>5, <1>6, <1>7

\* Most callbacks touch neither what was written nor which message this is.
LEMMA PlaceKept ==
  ASSUME CodecInv, NEW c, Calls(c), ~asserted, phase' \in {"reading", "decoded"},
         UNCHANGED <<stream, number, encoder, out, sent>>,
         msg'.message_completed = FALSE,
         Len(msg.body) <= Len(msg'.body) /\ Len(msg.body) \in Nat /\ Len(msg'.body) \in Nat,
         asserted' => phase' = "reading",
         ~msg'.headers_completed => ~msg.headers_completed /\ msg'.body = << >> /\ ~decoder'.chunked
  PROVE  Place' /\ Streamed'
<1>1. Unread' <=> Unread
  BY SameMessage
<1>2. encoder.body_encoded \in Nat
  BY DEF CodecInv, Typed, Encoders
<1>3. /\ Unread /\ ~msg.message_completed /\ encoder.state \in {"BEGIN", "BODY"}
  BY InCall
<1>4. encoder'.body_encoded <= Len(msg'.body)
  BY <1>2 DEF CodecInv, Place
<1>5. Place'
  BY <1>1, <1>3, <1>4 DEF CodecInv, Place
<1>6. Streamed'
  BY DEF Streamed
<1> QED
  BY <1>5, <1>6

LEMMA PastKept ==
  ASSUME CodecInv, UNCHANGED <<stream, sent>>
  PROVE  Past'
BY SameSending DEF CodecInv, Past

\* What was written is still the beginning of the message.
LEMMA OutputKept ==
  ASSUME CodecInv, UNCHANGED <<stream, encoder, out, sent>>,
         out # << >> => /\ msg'.first = msg.first
                        /\ \A i \in 1..Len(msg.body) : msg'.body[i] = msg.body[i]
  PROVE  Output'
<1> SUFFICES ASSUME out # << >> PROVE Output'
  BY DEF Output
<1>1. Sending' = Sending
  BY SameSending
<1>2. /\ Len(out) = encoder.body_encoded + 2
      /\ out[1] = Token("first", msg.first) /\ out[2].kind = "headers"
      /\ Valued(Sending.headers) => HeaderBlock(out[2].value, Sending)
      /\ \A i \in 3..Len(out) : out[i] = msg.body[i - 2]
      /\ Sending.chunked => Framed(SubSeq(out, 3, Len(out)))
  BY DEF CodecInv, Output
<1>3. encoder.body_encoded <= Len(msg.body) /\ encoder.body_encoded \in Nat /\ Len(msg.body) \in Nat
  BY DEF CodecInv, Place, Typed, Encoders, MessageTypes
<1>4. \A i \in 3..Len(out) : out[i] = msg'.body[i - 2]
  <2> SUFFICES ASSUME NEW i \in 3..Len(out) PROVE out[i] = msg'.body[i - 2]
    OBVIOUS
  <2>1. i - 2 \in 1..Len(msg.body)
    BY <1>2, <1>3
  <2> QED
    BY <1>2, <2>1
<1>5. msg'.first = msg.first
  OBVIOUS
<1> QED
  BY <1>1, <1>2, <1>4, <1>5 DEF Output

LEMMA BeginInv == CodecInv /\ on_message_begin /\ ~asserted => CodecInv'
<1> SUFFICES ASSUME CodecInv, on_message_begin, ~asserted PROVE CodecInv'
  OBVIOUS
<1>1. /\ Calls("begin") /\ at' = at + 1 /\ phase' = "reading" /\ off' = off /\ decoder' = NewDecoder
      /\ UNCHANGED <<stream, number, cut, msg, encoder, out, sent, asserted>>
  BY DEF on_message_begin, NoData
<1>2. /\ Unread /\ Current.call = "begin" /\ ~msg.message_completed /\ Reading \in HttpMessages
      /\ msg.message_completed = FALSE
      /\ Len(Reading.headers) \in Nat /\ Len(Reading.body) \in Nat
  BY <1>1, InCall
<1>3. at = 1 /\ off = 0
  <2>1. Current = Elements(Reading)[at] /\ at \in 1..Len(Elements(Reading)) /\ off \in 0..Len(Current.text)
    BY <1>2, CurrentParts DEF CodecInv
  <2>2. at = 1 /\ Current.text = << >>
    BY <1>2, <2>1, Where
  <2> QED
    BY <2>1, <2>2
<1>4. msg = NewMessage
  BY <1>2, <1>3 DEF CodecInv, Position
<1>5. /\ Type' = Type /\ Messages' = Messages /\ Reading' = Reading
      /\ Input' = Input /\ (Unread' <=> Unread) /\ Sending' = Sending
  BY <1>1, SameMessage, SameSending
<1>6. At'
  BY <1>1, <1>2, <1>3, Advances DEF CodecInv
<1>7. Typed'
  BY <1>1, <1>5, <1>6, NewTypes DEF CodecInv, Typed
<1>8. at' = 2 /\ off' = 0
  BY <1>1, <1>3
<1>9. HeadersEnd(Reading) >= 3 /\ HeadersEnd(Reading) \in Nat
  <2> DEFINE h == Len(Reading.headers)
  <2> HIDE DEF h
  <2>1. 2 * h + 3 \in Nat /\ 2 * h + 3 >= 3
    BY <1>2 DEF h
  <2> QED
    BY <2>1 DEF h, HeadersEnd
<1>10. /\ \A j \in 1..(Len(Reading.headers) + 1) : at' # 2 * j + 1 /\ at' # 2 * j + 2
       /\ \A j \in 1..Len(Reading.headers) : at' # 2 * j + 1 /\ at' # 2 * j + 2
  BY <1>2, <1>8
<1>11. Position'
  <2>1. /\ at' # 1
        /\ msg'.headers_completed <=> at' > HeadersEnd(Reading) /\ ~asserted'
        /\ decoder'.value = << >>
    BY <1>1, <1>4, <1>8, <1>9, NewParts
  <2> QED
    BY <1>1, <1>5, <1>10, <2>1 DEF Position
<1>12. Collected'
  <2>1. DOMAIN msg'.headers = {}
    BY <1>1, <1>4, NewParts
  <2> QED
    BY <1>5, <1>10, <2>1 DEF Collected
<1>13. Taken'
  BY <1>1, <1>4, <1>8, NewParts DEF Taken
<1>14. Place' /\ Streamed'
  <2>1. /\ msg'.message_completed = FALSE /\ msg'.body = << >> /\ ~msg.headers_completed
        /\ Len(msg.body) <= Len(msg'.body) /\ Len(msg.body) \in Nat /\ Len(msg'.body) \in Nat
        /\ ~decoder'.chunked
    BY <1>1, <1>2, <1>4, NewParts
  <2> QED
    BY <1>1, <2>1, PlaceKept
<1>15. Output' /\ Past'
  BY <1>1, OutputKept, PastKept
<1> QED
  BY <1>7, <1>11, <1>12, <1>13, <1>14, <1>15 DEF CodecInv

LEMMA HeadersEndIs ==
  ASSUME NEW m \in HttpMessages
  PROVE  /\ HeadersEnd(m) = 2 * Len(m.headers) + 3 /\ HeadersEnd(m) \in Nat /\ HeadersEnd(m) >= 3
         /\ Len(m.headers) \in Nat
<1> DEFINE h == Len(m.headers)
<1>1. h \in Nat
  BY MessageParts
<1> HIDE DEF h
<1>2. 2 * h + 3 \in Nat /\ 2 * h + 3 >= 3
  BY <1>1
<1> QED
  BY <1>1, <1>2 DEF h, HeadersEnd

LEMMA SetFirst ==
  ASSUME msg \in MessageTypes, NEW first \in Text
  PROVE  LET m == [msg EXCEPT !.first = first]
         IN /\ m \in MessageTypes /\ m.first = first /\ m.headers = msg.headers /\ m.body = msg.body
            /\ m.headers_completed = msg.headers_completed
            /\ m.message_completed = msg.message_completed
BY DEF MessageTypes

\* What on_url and on_status do to the message.
LEMMA FirstLineInv ==
  ASSUME CodecInv, Calls("first"), ~asserted, NEW text, FirstLine(text), NEW first \in Text,
         msg' = [msg EXCEPT !.first = first],
         UNCHANGED <<stream, number, decoder, encoder, out, sent, asserted>>,
         Type = "request" => first = origin_form(Reading.connect, text)
  PROVE  CodecInv'
<1>1. /\ Unread /\ Current.call = "first" /\ ~msg.message_completed /\ Reading \in HttpMessages
      /\ msg.message_completed = FALSE /\ Sending = Reading /\ number = Len(sent) + 1
  BY InCall
<1>2. at = 2 /\ Current.text = Reading.origin \o Reading.path
  <2>1. Current = Elements(Reading)[at] /\ at \in 1..Len(Elements(Reading))
    BY <1>1, CurrentParts DEF CodecInv
  <2> QED
    BY <1>1, <2>1, Where
<1>3. /\ HeadersEnd(Reading) = 2 * Len(Reading.headers) + 3 /\ HeadersEnd(Reading) \in Nat
      /\ HeadersEnd(Reading) >= 3 /\ Len(Reading.headers) \in Nat
  BY <1>1, HeadersEndIs
<1>4. /\ Type' = Type /\ Messages' = Messages /\ Reading' = Reading
      /\ Input' = Input /\ (Unread' <=> Unread) /\ Sending' = Sending
  BY SameMessage, SameSending
<1>5. /\ text \in Text /\ At'
      /\ \/ /\ at' = at + 1 /\ off' = 0 /\ phase' = "reading"
            /\ text = SubSeq(Current.text, off + 1, Len(Current.text))
         \/ /\ at' = at /\ phase' = "decoded" /\ off' \in (off + 1)..Len(Current.text)
            /\ text = SubSeq(Current.text, off + 1, off')
  BY <1>1, DataStep DEF FirstLine, CodecInv
<1>6. msg \in MessageTypes
  BY DEF CodecInv, Typed
<1>7. /\ msg' \in MessageTypes /\ msg'.first = first /\ msg'.headers = msg.headers /\ msg'.body = msg.body
      /\ msg'.headers_completed = msg.headers_completed
      /\ msg'.message_completed = msg.message_completed
  BY <1>6, SetFirst
<1>8. (at' = 2 /\ phase' = "decoded") \/ (at' = 3 /\ off' = 0 /\ phase' = "reading")
  <2>1. (at' = at /\ phase' = "decoded") \/ (at' = at + 1 /\ off' = 0 /\ phase' = "reading")
    BY <1>5, Zenon
  <2> QED
    BY ONLY <1>2, <2>1
<1>9. Typed'
  BY <1>4, <1>5, <1>7, <1>8 DEF CodecInv, Typed
<1>10. decoder = NewDecoder /\ ~msg.headers_completed /\ msg.headers_completed = FALSE
  <2>1. msg.headers_completed \in BOOLEAN
    BY <1>6 DEF MessageTypes
  <2>2. ~(at > HeadersEnd(Reading))
    BY <1>2, <1>3
  <2> QED
    BY <1>1, <1>2, <2>1, <2>2 DEF CodecInv, Position
<1>11. decoder'.value = << >> /\ decoder'.field = << >> /\ ~decoder'.chunked
  BY <1>10, NewParts
<1>12. \A j \in 1..(Len(Reading.headers) + 1) : at' = 2 * j + 1 => j = 1 /\ off' = 0
  BY <1>3, <1>8
<1>13. \A j \in 1..Len(Reading.headers) : at' # 2 * j + 2
  BY <1>3, <1>8
<1>14. Position'
  <2>1. at' # 1 /\ ~(at' > HeadersEnd(Reading)) /\ ~asserted'
    BY <1>3, <1>8
  <2>2. \A j \in 1..(Len(Reading.headers) + 1) :
          at' = 2 * j + 1 => decoder'.value = IF off' = 0 THEN Before(Reading.headers, j, 2) ELSE << >>
    BY <1>11, <1>12 DEF Before
  <2>3. decoder' = NewDecoder /\ ~msg'.headers_completed
    BY <1>7, <1>10
  <2> QED
    BY <1>4, <1>11, <1>13, <2>1, <2>2, <2>3 DEF Position
<1>15. Collected'
  <2> SUFFICES ASSUME Valued(Reading.headers) PROVE Collected'
    BY <1>4 DEF Collected
  <2>1. DOMAIN msg.headers = {}
    BY <1>1, <1>2 DEF CodecInv, Collected
  <2>2. Holds(msg'.headers, Reading.headers, 0)
    BY <1>7, <2>1 DEF Holds
  <2>3. \A j \in 1..(Len(Reading.headers) + 1) :
          at' = 2 * j + 1 =>
            /\ decoder'.field = IF off' = 0 THEN Before(Reading.headers, j, 1) ELSE SubSeq(Reading.headers[j][1], 1, off')
            /\ Holds(msg'.headers, Reading.headers, IF off' > 0 THEN j - 1 ELSE IF j = 1 THEN 0 ELSE j - 2)
    BY <1>11, <1>12, <2>2 DEF Before
  <2>4. DOMAIN msg'.headers = {}
    BY <1>7, <2>1
  <2> QED
    BY <1>4, <1>13, <2>3, <2>4 DEF Collected
<1>16. Taken'
  <2>1. ~msg'.headers_completed /\ ~msg'.message_completed
    BY <1>1, <1>7, <1>10
  <2>2. ASSUME Type = "request", at' > 2, number \notin cut'
        PROVE  msg'.first = origin_form(Reading.connect, Reading.origin \o Reading.path)
    <3>1. text = Current.text
      BY <2>2 DEF FirstLine
    <3>2. first = origin_form(Reading.connect, text)
      BY <2>2
    <3> QED
      BY <1>2, <1>7, <3>1, <3>2
  <2>3. Len(sent') + 1 = number /\ Sending' = Reading
    BY <1>1, <1>4
  <2> QED
    BY <1>4, <2>1, <2>2, <2>3 DEF Taken
<1>17. Place' /\ Streamed'
  <2>1. /\ msg'.message_completed = FALSE
        /\ Len(msg.body) <= Len(msg'.body) /\ Len(msg.body) \in Nat /\ Len(msg'.body) \in Nat
    BY <1>1, <1>6, <1>7 DEF MessageTypes
  <2>2. phase' \in {"reading", "decoded"}
    BY <1>8
  <2>3. msg'.body = << >>
    BY <1>7, <1>10 DEF CodecInv, Place
  <2> QED
    BY <1>10, <1>11, <2>1, <2>2, <2>3, PlaceKept
<1>18. out = << >>
  BY <1>10, NewParts DEF CodecInv, Place
<1>19. Output' /\ Past'
  BY <1>18, OutputKept, PastKept
<1> QED
  BY <1>9, <1>14, <1>15, <1>16, <1>17, <1>19 DEF CodecInv

LEMMA UrlInv == CodecInv /\ on_url /\ ~asserted => CodecInv'
<1> SUFFICES ASSUME CodecInv, on_url, ~asserted PROVE CodecInv'
  OBVIOUS
<1>1. PICK text : /\ FirstLine(text)
                  /\ msg' = [msg EXCEPT !.first = origin_form(Reading.connect, text)]
  BY DEF on_url
<1>2. Calls("first") /\ UNCHANGED <<stream, number, decoder, encoder, out, sent, asserted>>
  BY DEF on_url
<1>3. Unread /\ Current.call = "first" /\ Reading \in HttpMessages
  BY <1>2, InCall
<1>4. text \in Text
  BY <1>1, <1>2, <1>3, DataStep DEF FirstLine, CodecInv
<1>5. Reading.connect \in BOOLEAN
  BY <1>3, MessageParts
<1>6. origin_form(Reading.connect, text) \in Text
  BY <1>4, <1>5, OriginFormText
<1> QED
  BY <1>1, <1>2, <1>6, FirstLineInv

LEMMA StatusInv == CodecInv /\ on_status /\ ~asserted => CodecInv'
<1> SUFFICES ASSUME CodecInv, on_status, ~asserted PROVE CodecInv'
  OBVIOUS
<1>1. PICK text : FirstLine(text) /\ msg' = [msg EXCEPT !.first = text]
  BY DEF on_status
<1>2. Calls("first") /\ Type = "response" /\ UNCHANGED <<stream, number, decoder, encoder, out, sent, asserted>>
  BY DEF on_status
<1>3. Unread /\ Current.call = "first"
  BY <1>2, InCall
<1>4. text \in Text
  BY <1>1, <1>2, <1>3, DataStep DEF FirstLine, CodecInv
<1>5. Type # "request"
  BY <1>2
<1> QED
  BY <1>1, <1>2, <1>4, <1>5, FirstLineInv

\* Where in the message each callback comes.
LEMMA CallPlace ==
  ASSUME CodecInv, NEW c, Calls(c)
  PROVE  /\ c = "field" =>
              \/ \E j \in 1..Len(Reading.headers) : at = 2 * j + 1 /\ Current.text = Reading.headers[j][1]
              \/ \E j \in 1..Len(Reading.trailers) : at = HeadersEnd(Reading) + Len(Reading.body) + 2 * j - 1
         /\ c = "value" =>
              \/ \E j \in 1..Len(Reading.headers) : at = 2 * j + 2 /\ Current.text = Reading.headers[j][2]
              \/ \E j \in 1..Len(Reading.trailers) : at = HeadersEnd(Reading) + Len(Reading.body) + 2 * j
         /\ c = "headers_complete" => at = HeadersEnd(Reading) /\ Current.text = << >>
         /\ c = "body" => at \in (HeadersEnd(Reading) + 1)..(HeadersEnd(Reading) + Len(Reading.body))
         /\ c = "message_complete" => at = Len(Elements(Reading)) /\ Current.text = << >>
<1>1. Typed /\ Unread /\ Current.call = c /\ Reading \in HttpMessages
  BY InCall DEF CodecInv
<1>2. Current = Elements(Reading)[at] /\ at \in 1..Len(Elements(Reading))
  BY <1>1, CurrentParts
<1> QED
  BY ONLY <1>1, <1>2, Where

\* Where the part of an element that a read brings ends.
LEMMA DataEnd ==
  ASSUME CodecInv, NEW c \in {"field", "value", "body"}, Calls(c), NEW text, Data(text),
         UNCHANGED <<stream, number>>
  PROVE  /\ text \in Text /\ At' /\ phase' \in {"reading", "decoded"}
         /\ Len(Current.text) \in Nat /\ off \in Nat /\ off <= Len(Current.text)
         /\ \E n \in off..Len(Current.text) :
              /\ text = SubSeq(Current.text, off + 1, n)
              /\ \/ at' = at + 1 /\ off' = 0 /\ n = Len(Current.text)
                 \/ at' = at /\ off' = n /\ n > off
<1>1. Typed /\ Unread /\ Current.call = c
  BY InCall DEF CodecInv
<1>2. Current.call # "message_complete"
  BY <1>1
<1>3. Len(Current.text) \in Nat /\ off \in 0..Len(Current.text)
  BY <1>1, CurrentParts
<1>4. text \in Text /\ At'
  BY <1>1, <1>2, DataStep
<1>5. \/ /\ at' = at + 1 /\ off' = 0 /\ phase' = "reading"
         /\ text = SubSeq(Current.text, off + 1, Len(Current.text))
      \/ /\ at' = at /\ phase' = "decoded" /\ off' \in (off + 1)..Len(Current.text)
         /\ text = SubSeq(Current.text, off + 1, off')
  BY <1>1, <1>2, DataStep
<1>6. off \in Nat /\ off <= Len(Current.text)
  BY <1>3
<1>7. phase' \in {"reading", "decoded"}
  BY <1>5
<1>8. CASE /\ at' = at + 1 /\ off' = 0
           /\ text = SubSeq(Current.text, off + 1, Len(Current.text))
  <2>1. Len(Current.text) \in off..Len(Current.text)
    BY <1>3
  <2> QED
    BY <1>4, <1>6, <1>7, <1>3, <1>8, <2>1, Zenon
<1>9. CASE /\ at' = at /\ off' \in (off + 1)..Len(Current.text)
           /\ text = SubSeq(Current.text, off + 1, off')
  <2>1. off' \in off..Len(Current.text) /\ off' > off
    BY <1>3, <1>9
  <2> QED
    BY <1>4, <1>6, <1>7, <1>3, <1>9, <2>1, Zenon
<1> QED
  BY <1>5, <1>8, <1>9, Zenon

\* The callbacks for headers and trailers leave the rest of the message alone.
LEMMA HeaderCall ==
  ASSUME CodecInv, NEW c \in {"field", "value"}, Calls(c), ~asserted, NEW text, Data(text),
         UNCHANGED <<stream, number, cut, encoder, out, sent, asserted>>,
         decoder' \in Decoders, msg' \in MessageTypes, decoder'.chunked = decoder.chunked,
         msg'.first = msg.first, msg'.body = msg.body,
         msg'.headers_completed = msg.headers_completed,
         msg'.message_completed = msg.message_completed,
         msg.headers_completed /\ Valued(Reading.headers) => HeaderBlock(msg'.headers, Reading)
  PROVE  Typed' /\ Place' /\ Taken' /\ Output' /\ Past' /\ Streamed'
<1>1. /\ Unread /\ Current.call = c /\ msg.message_completed = FALSE /\ Reading \in HttpMessages
      /\ Sending = Reading /\ Len(Reading.body) \in Nat
  BY InCall
<1>2. At' /\ phase' \in {"reading", "decoded"}
  BY DataEnd
<1>3. /\ Type' = Type /\ Messages' = Messages /\ Reading' = Reading
      /\ Input' = Input /\ (Unread' <=> Unread) /\ Sending' = Sending
  BY SameMessage, SameSending
<1>4. Typed'
  BY <1>2, <1>3 DEF CodecInv, Typed
<1>5. msg.body \in Seq(BodyTokens) /\ Len(msg.body) \in Nat
  BY DEF CodecInv, Typed, MessageTypes
<1>6. ~msg.headers_completed => msg.body = << >> /\ ~decoder.chunked
  BY DEF CodecInv, Place
<1>7. Place' /\ Streamed'
  <2>1. /\ msg'.message_completed = FALSE /\ (asserted' => phase' = "reading")
        /\ Len(msg.body) <= Len(msg'.body) /\ Len(msg.body) \in Nat /\ Len(msg'.body) \in Nat
    BY <1>1, <1>5
  <2>2. ~msg'.headers_completed => ~msg.headers_completed /\ msg'.body = << >> /\ ~decoder'.chunked
    BY <1>6
  <2> QED
    BY <1>2, <2>1, <2>2, PlaceKept
<1>8. Output' /\ Past'
  BY OutputKept, PastKept
<1>9. at > 2 /\ at \in Nat
  <2>1. Current = Elements(Reading)[at] /\ at \in 1..Len(Elements(Reading))
    BY <1>1, CurrentParts DEF CodecInv
  <2>2. HeadersEnd(Reading) \in Nat /\ HeadersEnd(Reading) >= 3 /\ Len(Reading.headers) \in Nat
    BY <1>1, HeadersEndIs
  <2>3. \/ \E j \in 1..Len(Reading.headers) : at = 2 * j + 1 \/ at = 2 * j + 2
        \/ \E j \in 1..Len(Reading.trailers) : \/ at = HeadersEnd(Reading) + Len(Reading.body) + 2 * j - 1
                                                \/ at = HeadersEnd(Reading) + Len(Reading.body) + 2 * j
    <3>1. CASE c = "field"
      BY <3>1, CallPlace
    <3>2. CASE c = "value"
      BY <3>2, CallPlace
    <3> QED
      BY <3>1, <3>2
  <2> QED
    BY <1>1, <2>1, <2>2, <2>3
<1>10. Taken'
  <2>1. msg'.headers_completed =>
          /\ Valued(Reading.headers) => HeaderBlock(msg'.headers, Reading)
          /\ decoder'.chunked = Reading.chunked
          /\ Reading.chunked => Framed(msg'.body)
    BY <1>1 DEF CodecInv, Taken
  <2>2. Type = "request" /\ Len(sent) + 1 \notin cut =>
          msg'.first = origin_form(Reading.connect, Reading.origin \o Reading.path)
    BY <1>1, <1>9 DEF CodecInv, Taken
  <2> QED
    BY <1>1, <1>3, <2>1, <2>2 DEF Taken
<1> QED
  BY <1>4, <1>7, <1>8, <1>10

\* Behind the headers the decoder has nothing left of them.
LEMMA AfterHeaders ==
  ASSUME UNCHANGED <<stream, number>>, Reading \in HttpMessages, msg'.headers_completed, ~asserted',
         at' \in Nat, at' > HeadersEnd(Reading),
         at' <= HeadersEnd(Reading) + Len(Reading.body) + 1 => decoder'.value = << >>
  PROVE  Position' /\ Collected'
<1>1. Reading' = Reading
  BY SameMessage
<1>2. /\ HeadersEnd(Reading) = 2 * Len(Reading.headers) + 3 /\ HeadersEnd(Reading) \in Nat
      /\ HeadersEnd(Reading) >= 3 /\ Len(Reading.headers) \in Nat /\ Len(Reading.body) \in Nat
  BY HeadersEndIs, MessageParts
<1>3. \A j \in 1..(Len(Reading.headers) + 1) : at' # 2 * j + 1
  BY ONLY at' \in Nat, at' > HeadersEnd(Reading), <1>2
<1>4. \A j \in 1..Len(Reading.headers) : at' # 2 * j + 2
  BY ONLY at' \in Nat, at' > HeadersEnd(Reading), <1>2
<1>5. at' # 1 /\ at' # 2 /\ ~(at' <= 2)
  BY <1>2
<1>6. at' \in (HeadersEnd(Reading) + 1)..(HeadersEnd(Reading) + Len(Reading.body) + 1) => decoder'.value = << >>
  BY <1>2
<1>7. Position'
  BY <1>1, <1>3, <1>4, <1>5, <1>6 DEF Position
<1>8. Collected'
  BY <1>1, <1>3, <1>4, <1>5 DEF Collected
<1> QED
  BY <1>7, <1>8

LEMMA SetHeaders ==
  ASSUME msg \in MessageTypes, NEW block \in Blocks
  PROVE  LET m == [msg EXCEPT !.headers = block]
         IN /\ m \in MessageTypes /\ m.headers = block /\ m.first = msg.first /\ m.body = msg.body
            /\ m.headers_completed = msg.headers_completed
            /\ m.message_completed = msg.message_completed
BY DEF MessageTypes

LEMMA SetPair ==
  ASSUME decoder \in Decoders, NEW field \in Text, NEW value \in Text
  PROVE  LET d == [decoder EXCEPT !.field = field, !.value = value]
         IN d \in Decoders /\ d.field = field /\ d.value = value /\ d.chunked = decoder.chunked
BY DEF Decoders

LEMMA SetField ==
  ASSUME decoder \in Decoders, NEW field \in Text
  PROVE  LET d == [decoder EXCEPT !.field = field]
         IN d \in Decoders /\ d.field = field /\ d.value = decoder.value /\ d.chunked = decoder.chunked
BY DEF Decoders

LEMMA SetValue ==
  ASSUME decoder \in Decoders, NEW value \in Text
  PROVE  LET d == [decoder EXCEPT !.value = value]
         IN d \in Decoders /\ d.field = decoder.field /\ d.value = value /\ d.chunked = decoder.chunked
BY DEF Decoders

\* What on_header_field does, in either of its branches.
LEMMA FieldStep ==
  ASSUME CodecInv, NEW text \in Text,
         IF decoder.value # << >>
         THEN /\ msg' = [msg EXCEPT !.headers = add_header(@, decoder.field, decoder.value)]
              /\ decoder' = [decoder EXCEPT !.field = text, !.value = << >>]
         ELSE /\ decoder' = [decoder EXCEPT !.field = @ \o text]
              /\ UNCHANGED msg
  PROVE  /\ decoder' \in Decoders /\ msg' \in MessageTypes /\ decoder'.chunked = decoder.chunked
         /\ msg'.first = msg.first /\ msg'.body = msg.body
         /\ msg'.headers_completed = msg.headers_completed
         /\ msg'.message_completed = msg.message_completed
         /\ decoder'.value = << >>
         /\ msg.headers \in Blocks /\ decoder.field \in Text /\ decoder.value \in Text
         /\ decoder.value # << >> => /\ msg'.headers = add_header(msg.headers, decoder.field, decoder.value)
                                     /\ decoder'.field = text
         /\ decoder.value = << >> => msg'.headers = msg.headers /\ decoder'.field = decoder.field \o text
<1>1. decoder \in Decoders /\ msg \in MessageTypes
  BY DEF CodecInv, Typed
<1>2. msg.headers \in Blocks /\ decoder.field \in Text /\ decoder.value \in Text
  BY <1>1 DEF Decoders, MessageTypes
<1>3. << >> \in Text /\ decoder.field \o text \in Text
  BY <1>2 DEF Text
<1>4. CASE decoder.value # << >>
  <2> DEFINE block == add_header(msg.headers, decoder.field, decoder.value)
  <2>1. block \in Blocks
    BY <1>2, AddHeader
  <2>2. msg' = [msg EXCEPT !.headers = block] /\ decoder' = [decoder EXCEPT !.field = text, !.value = << >>]
    BY <1>4
  <2>3. /\ msg' \in MessageTypes /\ msg'.headers = block /\ msg'.first = msg.first /\ msg'.body = msg.body
        /\ msg'.headers_completed = msg.headers_completed
        /\ msg'.message_completed = msg.message_completed
    <3> HIDE DEF block
    <3> QED
      BY <1>1, <2>1, <2>2, SetHeaders
  <2>4. decoder' \in Decoders /\ decoder'.field = text /\ decoder'.value = << >> /\ decoder'.chunked = decoder.chunked
    BY <1>1, <1>3, <2>2, SetPair
  <2> QED
    BY <1>2, <1>4, <2>3, <2>4
<1>5. CASE decoder.value = << >>
  <2> DEFINE field == decoder.field \o text
  <2>1. decoder' = [decoder EXCEPT !.field = field] /\ msg' = msg
    BY <1>5
  <2>2. decoder' \in Decoders /\ decoder'.field = field /\ decoder'.value = decoder.value /\ decoder'.chunked = decoder.chunked
    <3>1. field \in Text
      BY <1>3
    <3> HIDE DEF field
    <3> QED
      BY <1>1, <2>1, <3>1, SetField
  <2> QED
    BY <1>1, <1>2, <1>5, <2>1, <2>2
<1> QED
  BY <1>4, <1>5

LEMMA FieldCallInv ==
  ASSUME CodecInv, ~asserted, Calls("field"), NEW text, Data(text),
         IF decoder.value # << >>
         THEN /\ msg' = [msg EXCEPT !.headers = add_header(@, decoder.field, decoder.value)]
              /\ decoder' = [decoder EXCEPT !.field = text, !.value = << >>]
         ELSE /\ decoder' = [decoder EXCEPT !.field = @ \o text]
              /\ UNCHANGED msg,
         UNCHANGED <<stream, number, cut, encoder, out, sent, asserted>>
  PROVE  CodecInv'
<1> DEFINE h == Reading.headers
           H == Len(Reading.headers)
           B == Len(Reading.body)
           E == HeadersEnd(Reading)
           T == Current.text
<1>1. /\ Unread /\ Current.call = "field" /\ msg.message_completed = FALSE /\ Reading \in HttpMessages
      /\ Sending = Reading /\ H \in Nat /\ B \in Nat
  BY InCall
<1>2. text \in Text /\ Len(T) \in Nat /\ off \in Nat /\ off <= Len(T)
  BY DataEnd
<1>3. PICK n \in off..Len(T) : /\ text = SubSeq(T, off + 1, n)
                               /\ \/ at' = at + 1 /\ off' = 0 /\ n = Len(T)
                                  \/ at' = at /\ off' = n /\ n > off
  BY DataEnd
<1>4. /\ decoder' \in Decoders /\ msg' \in MessageTypes /\ decoder'.chunked = decoder.chunked
      /\ msg'.first = msg.first /\ msg'.body = msg.body
      /\ msg'.headers_completed = msg.headers_completed
      /\ msg'.message_completed = msg.message_completed
      /\ decoder'.value = << >>
      /\ msg.headers \in Blocks /\ decoder.field \in Text /\ decoder.value \in Text
  BY <1>2, FieldStep
<1>5. /\ decoder.value # << >> => /\ msg'.headers = add_header(msg.headers, decoder.field, decoder.value)
                                  /\ decoder'.field = text
      /\ decoder.value = << >> => msg'.headers = msg.headers /\ decoder'.field = decoder.field \o text
  BY <1>2, FieldStep
<1>6. E = 2 * H + 3 /\ E \in Nat /\ E >= 3
  BY <1>1, HeadersEndIs
<1>7. Current = Elements(Reading)[at] /\ at \in 1..Len(Elements(Reading)) /\ T \in Text
  BY <1>1, CurrentParts DEF CodecInv
<1>8. \/ \E j \in 1..H : at = 2 * j + 1 /\ T = h[j][1]
      \/ \E j \in 1..Len(Reading.trailers) : at = E + B + 2 * j - 1
  BY CallPlace
<1>9. Reading' = Reading /\ (Unread' <=> Unread) /\ Len(Reading.trailers) \in Nat /\ h \in Pairs
  BY <1>1, SameMessage, MessageParts
<1>10. msg.headers_completed <=> at > E
  BY <1>1 DEF CodecInv, Position
<1>11. ASSUME NEW j \in 1..H, at = 2 * j + 1, T = h[j][1] PROVE CodecInv'
  <2> HIDE DEF E, H, B, T, h
  <2>1. j \in Nat /\ 1 <= j /\ j <= H
    BY <1>1, <1>11
  <2>2. at < E /\ at >= 3
    BY ONLY <1>1, <1>6, <1>11, <2>1
  <2>3. ~msg.headers_completed
    BY <1>6, <1>10, <2>2, <1>11, <2>1
  <2>4. Typed' /\ Place' /\ Taken' /\ Output' /\ Past' /\ Streamed'
    BY <1>4, <2>3, HeaderCall
  <2>5. (at' = 2 * j + 2 /\ off' = 0 /\ n = Len(T)) \/ (at' = 2 * j + 1 /\ off' = n /\ n > off)
    BY ONLY <1>3, <1>11, <2>1
  <2>6. at' < E /\ at' >= 3
    BY ONLY <1>1, <1>6, <2>1, <2>5
  <2>7. \A k \in 1..(H + 1) : at' = 2 * k + 1 => k = j /\ off' = n /\ n > off
    BY ONLY <1>1, <2>1, <2>5
  <2>8. \A k \in 1..H : at' = 2 * k + 2 => k = j /\ off' = 0 /\ n = Len(T)
    BY ONLY <1>1, <2>1, <2>5
  <2>9. n \in Nat /\ (n > off => n # 0)
    BY <1>2, <1>3
  <2>10. Position'
    <3>1. at' # 1 /\ at' # 2 /\ ~(at' > E) /\ ~asserted' /\ ~msg'.headers_completed
      BY <1>4, <1>6, <2>1, <2>3, <2>5, <2>6
    <3>2. \A k \in 1..(H + 1) : at' = 2 * k + 1 => decoder'.value = IF off' = 0 THEN Before(h, k, 2) ELSE << >>
      BY <1>4, <2>7, <2>9
    <3>3. \A k \in 1..H : at' = 2 * k + 2 => decoder'.value = SubSeq(h[k][2], 1, off')
      <4> SUFFICES ASSUME NEW k \in 1..H, at' = 2 * k + 2 PROVE decoder'.value = SubSeq(h[k][2], 1, off')
        OBVIOUS
      <4>1. off' = 0
        BY <2>8
      <4>2. h[k][2] \in Text
        BY <1>9, PairParts DEF H, h
      <4>3. SubSeq(h[k][2], 1, 0) = << >>
        BY <4>2, TextParts DEF Text
      <4> QED
        BY <1>4, <4>1, <4>3
    <3> QED
      BY <1>4, <1>9, <3>1, <3>2, <3>3 DEF Position, H, h, E
  <2>11. ASSUME Valued(h) PROVE decoder'.field = SubSeq(T, 1, n) /\ Holds(msg'.headers, h, j - 1)
    <3>1. j \in 1..(H + 1)
      BY <1>1, <2>1
    <3>2. decoder.value = IF off = 0 THEN Before(h, j, 2) ELSE << >>
      BY <1>1, <1>11, <3>1 DEF CodecInv, Position, H, h
    <3>3. /\ decoder.field = IF off = 0 THEN Before(h, j, 1) ELSE SubSeq(h[j][1], 1, off)
          /\ Holds(msg.headers, h, IF off > 0 THEN j - 1 ELSE IF j = 1 THEN 0 ELSE j - 2)
      BY <1>1, <1>11, <2>11, <3>1 DEF CodecInv, Collected, H, h
    <3>4. off \in 0..Len(T) /\ T \in Text
      BY <1>2, <1>7 DEF T
    <3>5. SubSeq(T, 1, off) \o SubSeq(T, off + 1, n) = SubSeq(T, 1, n)
      BY ONLY n \in off..Len(T), <3>4, TextParts
    <3>6. CASE off # 0
      <4>1. decoder.value = << >> /\ decoder.field = SubSeq(T, 1, off) /\ Holds(msg.headers, h, j - 1)
        BY <1>2, <1>11, <3>2, <3>3, <3>6
      <4> QED
        BY <1>3, <1>5, <3>5, <4>1 DEF T
    <3>7. CASE off = 0 /\ j = 1
      <4>1. decoder.value = << >> /\ decoder.field = << >> /\ Holds(msg.headers, h, 0)
        BY <3>2, <3>3, <3>7 DEF Before
      <4>2. << >> = SubSeq(T, 1, off)
        BY <3>4, <3>7, TextParts
      <4>3. decoder'.field = SubSeq(T, 1, n) /\ msg'.headers = msg.headers
        BY <1>3, <1>5, <3>5, <4>1, <4>2 DEF T
      <4>4. j - 1 = 0
        BY <3>7
      <4> QED
        BY <4>1, <4>3, <4>4
    <3>8. CASE off = 0 /\ j # 1
      <4>1. j - 1 \in 1..H /\ j - 2 \in 0..(H - 1) /\ j - 2 + 1 = j - 1
        BY <1>1, <2>1, <3>8
      <4>2. decoder.value = h[j - 1][2] /\ decoder.field = h[j - 1][1] /\ Holds(msg.headers, h, j - 2)
        BY <3>2, <3>3, <3>8 DEF Before
      <4>3. decoder.value # << >>
        <5>1. DOMAIN h = 1..H
          BY <1>9 DEF Pairs, h, H
        <5> QED
          BY <2>11, <4>1, <4>2, <5>1 DEF Valued
      <4>4. msg'.headers = add_header(msg.headers, h[j - 1][1], h[j - 1][2]) /\ decoder'.field = text
        BY <1>5, <4>2, <4>3
      <4>5. Holds(msg'.headers, h, j - 1)
        <5>1. Holds(add_header(msg.headers, h[j - 2 + 1][1], h[j - 2 + 1][2]), h, j - 2 + 1)
          <6> DEFINE i == j - 2
          <6>1. i \in 0..(Len(h) - 1) /\ Holds(msg.headers, h, i)
            BY <4>1, <4>2 DEF H, h
          <6> HIDE DEF i
          <6>2. Holds(add_header(msg.headers, h[i + 1][1], h[i + 1][2]), h, i + 1)
            BY <1>4, <1>9, <6>1, HoldsMore
          <6> QED
            BY <6>2 DEF i
        <5> QED
          BY <4>1, <4>4, <5>1
      <4>6. text = SubSeq(T, 1, n)
        BY <1>3, <3>8 DEF T
      <4> QED
        BY <4>4, <4>5, <4>6
    <3> QED
      BY <3>6, <3>7, <3>8
  <2>12. Collected'
    <3> SUFFICES ASSUME Valued(h) PROVE Collected'
      BY <1>9 DEF Collected, h
    <3>1. decoder'.field = SubSeq(T, 1, n) /\ Holds(msg'.headers, h, j - 1)
      BY <2>11
    <3>2. \A k \in 1..(H + 1) :
            at' = 2 * k + 1 =>
              /\ decoder'.field = IF off' = 0 THEN Before(h, k, 1) ELSE SubSeq(h[k][1], 1, off')
              /\ Holds(msg'.headers, h, IF off' > 0 THEN k - 1 ELSE IF k = 1 THEN 0 ELSE k - 2)
      <4> SUFFICES ASSUME NEW k \in 1..(H + 1), at' = 2 * k + 1
                   PROVE  /\ decoder'.field = IF off' = 0 THEN Before(h, k, 1) ELSE SubSeq(h[k][1], 1, off')
                          /\ Holds(msg'.headers, h, IF off' > 0 THEN k - 1 ELSE IF k = 1 THEN 0 ELSE k - 2)
        OBVIOUS
      <4>1. k = j /\ off' = n /\ off' > 0 /\ off' # 0
        BY <1>2, <2>7, <2>9
      <4> QED
        BY <1>11, <3>1, <4>1
    <3>3. \A k \in 1..H : at' = 2 * k + 2 => decoder'.field = h[k][1] /\ Holds(msg'.headers, h, k - 1)
      <4> SUFFICES ASSUME NEW k \in 1..H, at' = 2 * k + 2
                   PROVE  decoder'.field = h[k][1] /\ Holds(msg'.headers, h, k - 1)
        OBVIOUS
      <4>1. k = j /\ n = Len(T)
        BY <2>8
      <4>2. SubSeq(T, 1, Len(T)) = T
        BY <1>7, TextParts DEF Text, T
      <4> QED
        BY <1>11, <3>1, <4>1, <4>2
    <3>4. ~(at' <= 2)
      BY <1>6, <2>5, <2>1, <2>6
    <3> QED
      BY <1>9, <3>2, <3>3, <3>4 DEF Collected, h, H
  <2> QED
    BY <2>4, <2>10, <2>12 DEF CodecInv
<1>12. ASSUME NEW j \in 1..Len(Reading.trailers), at = E + B + 2 * j - 1 PROVE CodecInv'
  <2> HIDE DEF E, H, B, T, h
  <2>1. j \in Nat /\ 1 <= j
    BY <1>9, <1>12
  <2>2. at > E /\ at \in Nat /\ at >= E + B + 1
    BY ONLY <1>1, <1>6, <1>12, <2>1
  <2>3. at' \in Nat /\ at' > E
    BY ONLY <1>3, <1>6, <2>2
  <2>4. msg.headers_completed /\ msg'.headers_completed
    BY <1>4, <1>10, <2>2
  <2>5. Position' /\ Collected'
    BY <1>1, <1>4, <2>3, <2>4, AfterHeaders DEF E, B
  <2>6. ASSUME Valued(Reading.headers) PROVE HeaderBlock(msg'.headers, Reading)
    <3>1. HeaderBlock(msg.headers, Reading)
      BY <1>1, <2>4, <2>6 DEF CodecInv, Taken
    <3>2. CASE decoder.value = << >>
      BY <1>5, <3>1, <3>2
    <3>3. CASE decoder.value # << >>
      <4>1. FirstValues(msg'.headers, Reading.headers)
        BY <1>4, <1>5, <3>1, <3>3, FirstValuesKept DEF HeaderBlock
      <4>2. ~(Len(Reading.trailers) <= 1)
        <5> SUFFICES ASSUME Len(Reading.trailers) <= 1 PROVE FALSE
          OBVIOUS
        <5>1. j = 1
          BY <1>9, <2>1
        <5>2. at = E + B + 1
          BY ONLY <1>1, <1>6, <1>12, <5>1
        <5>3. at \in (E + 1)..(E + B + 1)
          BY ONLY <1>1, <1>6, <5>2
        <5>4. decoder.value = << >>
          BY <1>1, <5>3 DEF CodecInv, Position, E, B
        <5> QED
          BY <3>3, <5>4
      <4> QED
        BY <4>1, <4>2 DEF HeaderBlock
    <3> QED
      BY <3>2, <3>3
  <2>7. Typed' /\ Place' /\ Taken' /\ Output' /\ Past' /\ Streamed'
    BY <1>4, <2>6, HeaderCall
  <2> QED
    BY <2>5, <2>7 DEF CodecInv
<1> QED
  BY <1>8, <1>11, <1>12

LEMMA FieldInv == CodecInv /\ on_header_field /\ ~asserted => CodecInv'
<1> SUFFICES ASSUME CodecInv, on_header_field, ~asserted PROVE CodecInv'
  OBVIOUS
<1>1. PICK text : /\ Data(text)
                  /\ IF decoder.value # << >>
                     THEN /\ msg' = [msg EXCEPT !.headers = add_header(@, decoder.field, decoder.value)]
                          /\ decoder' = [decoder EXCEPT !.field = text, !.value = << >>]
                     ELSE /\ decoder' = [decoder EXCEPT !.field = @ \o text]
                          /\ UNCHANGED msg
  BY DEF on_header_field
<1>2. Calls("field") /\ UNCHANGED <<stream, number, cut, encoder, out, sent, asserted>>
  BY DEF on_header_field
<1> QED
  BY <1>1, <1>2, FieldCallInv

LEMMA ValueCallInv ==
  ASSUME CodecInv, ~asserted, Calls("value"), NEW text, Data(text),
         decoder' = [decoder EXCEPT !.value = @ \o text],
         UNCHANGED <<stream, number, cut, msg, encoder, out, sent, asserted>>
  PROVE  CodecInv'
<1> DEFINE h == Reading.headers
           H == Len(Reading.headers)
           B == Len(Reading.body)
           E == HeadersEnd(Reading)
           T == Current.text
<1>1. /\ Unread /\ Current.call = "value" /\ msg.message_completed = FALSE /\ Reading \in HttpMessages
      /\ Sending = Reading /\ H \in Nat /\ B \in Nat
  BY InCall
<1>2. text \in Text /\ Len(T) \in Nat /\ off \in Nat /\ off <= Len(T)
  BY DataEnd
<1>3. PICK n \in off..Len(T) : /\ text = SubSeq(T, off + 1, n)
                               /\ \/ at' = at + 1 /\ off' = 0 /\ n = Len(T)
                                  \/ at' = at /\ off' = n /\ n > off
  BY DataEnd
<1>4. /\ decoder' \in Decoders /\ decoder'.chunked = decoder.chunked
      /\ decoder'.field = decoder.field /\ decoder'.value = decoder.value \o text
  <2> DEFINE value == decoder.value \o text
  <2>1. decoder \in Decoders
    BY DEF CodecInv, Typed
  <2>2. value \in Text
    BY <1>2, <2>1 DEF Decoders, Text
  <2>3. decoder' = [decoder EXCEPT !.value = value]
    OBVIOUS
  <2> HIDE DEF value
  <2>4. /\ decoder' \in Decoders /\ decoder'.chunked = decoder.chunked
        /\ decoder'.field = decoder.field /\ decoder'.value = value
    BY ONLY <2>1, <2>2, <2>3, SetValue
  <2> QED
    BY <2>4 DEF value
<1>5. /\ msg' \in MessageTypes /\ msg'.first = msg.first /\ msg'.body = msg.body
      /\ msg'.headers_completed = msg.headers_completed
      /\ msg'.message_completed = msg.message_completed
      /\ msg.headers_completed /\ Valued(Reading.headers) => HeaderBlock(msg'.headers, Reading)
  BY <1>1 DEF CodecInv, Typed, Taken
<1>6. E = 2 * H + 3 /\ E \in Nat /\ E >= 3
  BY <1>1, HeadersEndIs
<1>7. T \in Text
  BY <1>1, CurrentParts DEF CodecInv
<1>8. \/ \E j \in 1..H : at = 2 * j + 2 /\ T = h[j][2]
      \/ \E j \in 1..Len(Reading.trailers) : at = E + B + 2 * j
  BY CallPlace
<1>9. Reading' = Reading /\ (Unread' <=> Unread) /\ Len(Reading.trailers) \in Nat /\ h \in Pairs
  BY <1>1, SameMessage, MessageParts
<1>10. msg.headers_completed <=> at > E
  BY <1>1 DEF CodecInv, Position
<1>11. Typed' /\ Place' /\ Taken' /\ Output' /\ Past' /\ Streamed'
  BY <1>4, <1>5, HeaderCall
<1>12. ASSUME NEW j \in 1..H, at = 2 * j + 2, T = h[j][2] PROVE Position' /\ Collected'
  <2> HIDE DEF E, H, B, T, h
  <2>1. j \in Nat /\ 1 <= j /\ j <= H
    BY <1>1, <1>12
  <2>2. ~(at > E)
    BY ONLY <1>1, <1>6, <1>12, <2>1
  <2>3. ~msg'.headers_completed
    BY <1>10, <2>2
  <2>4. (at' = 2 * j + 3 /\ off' = 0 /\ n = Len(T)) \/ (at' = 2 * j + 2 /\ off' = n)
    BY ONLY <1>3, <1>12, <2>1
  <2>5. ~(at' > E) /\ at' # 1 /\ at' # 2 /\ ~(at' <= 2)
    BY ONLY <1>1, <1>6, <2>1, <2>4
  <2>6. \A k \in 1..(H + 1) : at' = 2 * k + 1 => k = j + 1 /\ off' = 0 /\ n = Len(T)
    BY ONLY <1>1, <2>1, <2>4
  <2>7. \A k \in 1..H : at' = 2 * k + 2 => k = j /\ off' = n
    BY ONLY <1>1, <2>1, <2>4
  <2>8. j + 1 # 1 /\ (j + 1) - 1 = j /\ (j + 1) - 2 = j - 1
    BY ONLY <2>1
  <2>9. SubSeq(T, 1, Len(T)) = T
    BY <1>7, TextParts DEF Text, T
  <2>10. decoder'.value = SubSeq(T, 1, n)
    <3>1. decoder.value = SubSeq(T, 1, off)
      BY <1>1, <1>12 DEF CodecInv, Position, H, h
    <3>2. off \in 0..Len(T) /\ T \in Text
      BY <1>2, <1>7 DEF T
    <3>3. SubSeq(T, 1, off) \o SubSeq(T, off + 1, n) = SubSeq(T, 1, n)
      BY ONLY n \in off..Len(T), <3>2, TextParts
    <3> QED
      BY <1>3, <1>4, <3>1, <3>3
  <2>11. Position'
    <3>1. \A k \in 1..(H + 1) : at' = 2 * k + 1 => decoder'.value = IF off' = 0 THEN Before(h, k, 2) ELSE << >>
      <4> SUFFICES ASSUME NEW k \in 1..(H + 1), at' = 2 * k + 1
                   PROVE  decoder'.value = IF off' = 0 THEN Before(h, k, 2) ELSE << >>
        OBVIOUS
      <4>1. k = j + 1 /\ off' = 0 /\ n = Len(T)
        BY <2>6
      <4> QED
        BY ONLY <1>12, <2>8, <2>9, <2>10, <4>1 DEF Before
    <3>2. \A k \in 1..H : at' = 2 * k + 2 => decoder'.value = SubSeq(h[k][2], 1, off')
      BY <1>12, <2>7, <2>10
    <3>3. ~(at' \in (E + 1)..(E + B + 1))
      BY ONLY <1>1, <1>6, <2>5
    <3>4. ~asserted'
      OBVIOUS
    <3> QED
      BY <1>9, <2>3, <2>5, <3>1, <3>2, <3>3, <3>4 DEF Position, H, h, E, B
  <2>12. Collected'
    <3> SUFFICES ASSUME Valued(h) PROVE Collected'
      BY <1>9 DEF Collected, h
    <3>1. decoder'.field = h[j][1] /\ Holds(msg'.headers, h, j - 1)
      BY <1>1, <1>4, <1>12 DEF CodecInv, Collected, h, H
    <3>2. \A k \in 1..(H + 1) :
            at' = 2 * k + 1 =>
              /\ decoder'.field = IF off' = 0 THEN Before(h, k, 1) ELSE SubSeq(h[k][1], 1, off')
              /\ Holds(msg'.headers, h, IF off' > 0 THEN k - 1 ELSE IF k = 1 THEN 0 ELSE k - 2)
      <4> SUFFICES ASSUME NEW k \in 1..(H + 1), at' = 2 * k + 1
                   PROVE  /\ decoder'.field = IF off' = 0 THEN Before(h, k, 1) ELSE SubSeq(h[k][1], 1, off')
                          /\ Holds(msg'.headers, h, IF off' > 0 THEN k - 1 ELSE IF k = 1 THEN 0 ELSE k - 2)
        OBVIOUS
      <4>1. k = j + 1 /\ off' = 0 /\ ~(off' > 0)
        BY <2>6
      <4> QED
        BY ONLY <2>8, <3>1, <4>1 DEF Before
    <3>3. \A k \in 1..H : at' = 2 * k + 2 => decoder'.field = h[k][1] /\ Holds(msg'.headers, h, k - 1)
      BY <2>7, <3>1
    <3> QED
      BY <1>9, <2>5, <3>2, <3>3 DEF Collected, h, H
  <2> QED
    BY <2>11, <2>12
<1>13. ASSUME NEW j \in 1..Len(Reading.trailers), at = E + B + 2 * j PROVE Position' /\ Collected'
  <2> HIDE DEF E, H, B, T, h
  <2>1. j \in Nat /\ 1 <= j
    BY <1>9, <1>13
  <2>2. at > E /\ at \in Nat /\ at > E + B + 1
    BY ONLY <1>1, <1>6, <1>13, <2>1
  <2>3. at' \in Nat /\ at' > E /\ ~(at' <= E + B + 1)
    BY ONLY <1>1, <1>3, <1>6, <2>2
  <2>4. msg'.headers_completed
    BY <1>10, <2>2
  <2> QED
    BY <1>1, <2>3, <2>4, AfterHeaders DEF E, B
<1> QED
  BY <1>8, <1>11, <1>12, <1>13 DEF CodecInv

LEMMA ValueInv == CodecInv /\ on_header_value /\ ~asserted => CodecInv'
<1> SUFFICES ASSUME CodecInv, on_header_value, ~asserted PROVE CodecInv'
  OBVIOUS
<1>1. PICK text : Data(text) /\ decoder' = [decoder EXCEPT !.value = @ \o text]
  BY DEF on_header_value
<1>2. Calls("value") /\ UNCHANGED <<stream, number, cut, msg, encoder, out, sent, asserted>>
  BY DEF on_header_value
<1> QED
  BY <1>1, <1>2, ValueCallInv

LEMMA SetComplete ==
  ASSUME msg \in MessageTypes, NEW block \in Blocks
  PROVE  LET m == [msg EXCEPT !.headers = block, !.headers_completed = TRUE]
         IN /\ m \in MessageTypes /\ m.headers = block /\ m.first = msg.first /\ m.body = msg.body
            /\ m.headers_completed = TRUE
            /\ m.message_completed = msg.message_completed
BY DEF MessageTypes

LEMMA SetDone ==
  ASSUME decoder \in Decoders, NEW c \in BOOLEAN
  PROVE  LET d == [decoder EXCEPT !.field = << >>, !.value = << >>, !.headers_completed = TRUE, !.chunked = c]
         IN d \in Decoders /\ d.value = << >> /\ d.chunked = c
<1>1. << >> \in Text
  BY DEF Text
<1> QED
  BY <1>1 DEF Decoders

LEMMA CompleteInv == CodecInv /\ on_headers_complete /\ ~asserted => CodecInv'
<1> SUFFICES ASSUME CodecInv, on_headers_complete, ~asserted PROVE CodecInv'
  OBVIOUS
<1> DEFINE h == Reading.headers
           H == Len(Reading.headers)
           B == Len(Reading.body)
           E == HeadersEnd(Reading)
<1>1. /\ Calls("headers_complete") /\ at' = at + 1 /\ phase' = "reading" /\ off' = off
      /\ UNCHANGED <<stream, number, cut, encoder, out, sent>>
  BY DEF on_headers_complete, NoData
<1>2. /\ Unread /\ Current.call = "headers_complete" /\ msg.message_completed = FALSE /\ Reading \in HttpMessages
      /\ Sending = Reading /\ H \in Nat /\ B \in Nat
  BY <1>1, InCall
<1>3. E = 2 * H + 3 /\ E \in Nat /\ E >= 3
  BY <1>2, HeadersEndIs
<1>4. at = E /\ off = 0
  <2>1. at = E /\ Current.text = << >>
    BY <1>1, CallPlace
  <2>2. off \in 0..Len(Current.text)
    BY <1>2, CurrentParts DEF CodecInv
  <2> QED
    BY <2>1, <2>2
<1>5. At'
  <2>1. off' = 0
    BY <1>1, <1>4
  <2> QED
    BY <1>1, <1>2, <2>1, Advances DEF CodecInv
<1>6. /\ Type' = Type /\ Messages' = Messages /\ Reading' = Reading
      /\ Input' = Input /\ (Unread' <=> Unread) /\ Sending' = Sending
  BY <1>1, SameMessage, SameSending
<1>7. h \in Pairs /\ Reading.chunked \in BOOLEAN
  BY <1>2, MessageParts
<1>8. decoder \in Decoders /\ msg \in MessageTypes
  BY DEF CodecInv, Typed
<1>9. /\ msg.headers \in Blocks /\ msg.body \in Seq(BodyTokens) /\ Len(msg.body) \in Nat
      /\ decoder.field \in Text /\ decoder.value \in Text
      /\ msg.headers_completed \in BOOLEAN /\ decoder.chunked \in BOOLEAN
  BY <1>8 DEF Decoders, MessageTypes
<1>10. msg.headers_completed = FALSE
  <2>1. ~(at > E)
    BY <1>3, <1>4
  <2> QED
    BY <1>2, <1>9, <2>1 DEF CodecInv, Position
<1>11. msg.body = << >> /\ decoder.chunked = FALSE /\ out = << >>
  BY <1>9, <1>10, NewParts DEF CodecInv, Place
<1>12. H + 1 \in 1..(H + 1) /\ at = 2 * (H + 1) + 1
  BY <1>2, <1>3, <1>4
<1>13. decoder.value = Before(h, H + 1, 2)
  BY <1>2, <1>4, <1>12 DEF CodecInv, Position
<1>14. at' = E + 1 /\ at' \in Nat /\ at' > E
  BY <1>1, <1>3, <1>4
<1>15. H = 0 \/ (H # 0 /\ H + 1 # 1 /\ (H + 1) - 1 = H /\ (H + 1) - 2 = H - 1 /\ H \in 1..H /\ H - 1 \in 0..(H - 1))
  BY <1>2
<1>16. Type = "request" /\ Len(sent) + 1 \notin cut =>
         msg.first = origin_form(Reading.connect, Reading.origin \o Reading.path)
  <2>1. at > 2
    BY <1>3, <1>4
  <2> QED
    BY <1>2, <2>1 DEF CodecInv, Taken
<1>17. CASE decoder.value = << >> /\ asserted' = TRUE /\ decoder' = decoder /\ msg' = msg
  <2>1. Typed'
    BY <1>1, <1>5, <1>6, <1>17 DEF CodecInv, Typed
  <2>2. Place' /\ Streamed'
    <3>1. /\ msg'.message_completed = FALSE /\ (asserted' => phase' = "reading")
          /\ Len(msg.body) <= Len(msg'.body) /\ Len(msg.body) \in Nat /\ Len(msg'.body) \in Nat
          /\ phase' \in {"reading", "decoded"}
          /\ ~msg.headers_completed /\ msg'.body = << >> /\ ~decoder'.chunked
      BY <1>1, <1>2, <1>9, <1>10, <1>11, <1>17
    <3> QED
      BY <1>1, <3>1, PlaceKept
  <2>3. h = << >> \/ Last(h)[2] = << >>
    <3>1. CASE H = 0
      <4>1. h = << >>
        BY <1>7, <3>1 DEF Pairs
      <4> QED
        BY <4>1
    <3>2. CASE H # 0
      BY <1>13, <1>15, <1>17, <3>2 DEF Before, Last
    <3> QED
      BY <3>1, <3>2
  <2>4. /\ \A j \in 1..(H + 1) : at' # 2 * j + 1
        /\ \A j \in 1..H : at' # 2 * j + 2
        /\ at' # 1 /\ at' # 2 /\ ~(at' <= 2)
    <3> HIDE DEF E, H
    <3> QED
      BY ONLY <1>2, <1>3, <1>14
  <2>5. asserted' /\ ~msg'.headers_completed
    BY <1>10, <1>17
  <2>6. Position'
    BY <1>6, <1>14, <2>3, <2>4, <2>5 DEF Position
  <2>7. Collected'
    BY <1>6, <2>4 DEF Collected
  <2>8. Taken'
    <3>1. ~msg'.headers_completed /\ msg'.first = msg.first
      BY <1>10, <1>17
    <3> QED
      BY <1>1, <1>2, <1>6, <1>16, <3>1 DEF Taken
  <2>9. Output' /\ Past'
    BY <1>1, <1>11, OutputKept, PastKept
  <2> QED
    BY <2>1, <2>2, <2>6, <2>7, <2>8, <2>9 DEF CodecInv
<1>18. CASE /\ decoder.value # << >>
            /\ msg' = [msg EXCEPT !.headers = add_header(@, decoder.field, decoder.value),
                                  !.headers_completed = TRUE]
            /\ decoder' = [decoder EXCEPT !.field = << >>, !.value = << >>, !.headers_completed = TRUE,
                                          !.chunked = @ \/ Reading.chunked]
            /\ asserted' = asserted
  <2> DEFINE block == add_header(msg.headers, decoder.field, decoder.value)
             c == decoder.chunked \/ Reading.chunked
  <2>1. block \in Blocks
    BY <1>9, AddHeader
  <2>2. c \in BOOLEAN /\ c = Reading.chunked
    BY <1>7, <1>9, <1>11
  <2>3. msg' = [msg EXCEPT !.headers = block, !.headers_completed = TRUE]
    BY <1>18
  <2>4. decoder' = [decoder EXCEPT !.field = << >>, !.value = << >>, !.headers_completed = TRUE, !.chunked = c]
    BY <1>18
  <2>5. /\ msg' \in MessageTypes /\ msg'.headers = block /\ msg'.first = msg.first /\ msg'.body = msg.body
        /\ msg'.headers_completed = TRUE /\ msg'.message_completed = msg.message_completed
    <3> HIDE DEF block
    <3> QED
      BY <1>8, <2>1, <2>3, SetComplete
  <2>6. decoder' \in Decoders /\ decoder'.value = << >> /\ decoder'.chunked = Reading.chunked
    <3> HIDE DEF c
    <3>1. decoder' \in Decoders /\ decoder'.value = << >> /\ decoder'.chunked = c
      BY <1>8, <2>2, <2>4, SetDone
    <3> QED
      BY <2>2, <3>1
  <2>7. Typed'
    BY <1>1, <1>5, <1>6, <1>18, <2>5, <2>6 DEF CodecInv, Typed
  <2>8. Place' /\ Streamed'
    <3>1. /\ msg'.message_completed = FALSE /\ (asserted' => phase' = "reading")
          /\ Len(msg.body) <= Len(msg'.body) /\ Len(msg.body) \in Nat /\ Len(msg'.body) \in Nat
          /\ phase' \in {"reading", "decoded"} /\ msg'.headers_completed
      BY <1>1, <1>2, <1>9, <1>18, <2>5
    <3> QED
      BY <1>1, <3>1, PlaceKept
  <2>9. Position' /\ Collected'
    <3>1. msg'.headers_completed /\ ~asserted'
      BY <1>18, <2>5
    <3> QED
      BY <1>1, <1>2, <1>14, <2>6, <3>1, AfterHeaders
  <2>10. ASSUME Valued(h) PROVE HeaderBlock(block, Reading)
    <3>1. H # 0
      BY <1>13, <1>18 DEF Before
    <3>2. H \in 1..H /\ H - 1 \in 0..(Len(h) - 1) /\ H + 1 # 1 /\ (H + 1) - 1 = H /\ (H + 1) - 2 = H - 1
      BY <1>15, <3>1
    <3>3. decoder.field = Before(h, H + 1, 1) /\ Holds(msg.headers, h, IF H + 1 = 1 THEN 0 ELSE (H + 1) - 2)
      BY <1>2, <1>4, <1>12, <2>10 DEF CodecInv, Collected
    <3>4. decoder.field = h[H][1] /\ decoder.value = h[H][2] /\ Holds(msg.headers, h, H - 1)
      BY <1>13, <3>2, <3>3 DEF Before
    <3>5. Holds(block, h, H)
      <4> DEFINE i == H - 1
      <4>1. i \in 0..(Len(h) - 1) /\ i + 1 = H /\ Holds(msg.headers, h, i)
        BY <1>2, <3>2, <3>4
      <4> HIDE DEF i
      <4>2. Holds(add_header(msg.headers, h[i + 1][1], h[i + 1][2]), h, i + 1)
        BY ONLY <1>7, <1>9, <4>1, HoldsMore
      <4> QED
        BY <3>4, <4>1, <4>2
    <3> QED
      BY <1>7, <3>5, HoldsAll DEF HeaderBlock
  <2>11. Taken'
    <3>1. /\ msg'.headers_completed
          /\ Valued(Reading.headers) => HeaderBlock(msg'.headers, Reading)
          /\ decoder'.chunked = Reading.chunked
          /\ Framed(msg'.body)
      BY <1>11, <2>5, <2>6, <2>10, FramedEmpty
    <3>2. msg'.first = msg.first
      BY <2>5
    <3> QED
      BY <1>1, <1>2, <1>6, <1>16, <3>1, <3>2 DEF Taken
  <2>12. Output' /\ Past'
    BY <1>1, <1>11, OutputKept, PastKept
  <2> QED
    BY <2>7, <2>8, <2>9, <2>11, <2>12 DEF CodecInv
<1> QED
  BY <1>17, <1>18 DEF on_headers_complete

\* Between two messages.
AtStart == stream \in DOMAIN Streams /\ number \in 1..(Len(Messages) + 1) /\ at = 1 /\ off = 0

LEMMA StartAt == AtStart => At
<1> SUFFICES ASSUME AtStart, Unread PROVE at \in 1..Len(Input) /\ off \in 0..Len(Current.text)
  BY DEF At
<1>1. Len(Input) \in Nat /\ Len(Input) >= 4 /\ Input[1].text = << >>
  BY Here DEF AtStart
<1>2. Current.text = << >>
  BY <1>1 DEF Current, AtStart
<1> QED
  BY <1>1, <1>2 DEF AtStart

LEMMA StartAtNext == AtStart' => At'
<1>1. AtStart => At
  BY StartAt
<1> QED
  BY <1>1, PTL

Untouched == AtStart /\ decoder = NewDecoder /\ msg = NewMessage /\ ~asserted

LEMMA StartFresh == Untouched => Position /\ Collected
BY Fresh DEF AtStart, Untouched

LEMMA StartFreshNext == Untouched' => Position' /\ Collected'
<1>1. Untouched => Position /\ Collected
  BY StartFresh
<1> QED
  BY <1>1, PTL

LEMMA SetBody ==
  ASSUME msg \in MessageTypes, NEW body \in Seq(BodyTokens)
  PROVE  LET m == [msg EXCEPT !.body = body]
         IN /\ m \in MessageTypes /\ m.body = body /\ m.first = msg.first /\ m.headers = msg.headers
            /\ m.headers_completed = msg.headers_completed
            /\ m.message_completed = msg.message_completed
BY DEF MessageTypes

\* The headers are complete when a body or the end of the message comes.
LEMMA BodyPlace ==
  ASSUME CodecInv, ~asserted, NEW c \in {"body", "message_complete"}, Calls(c)
  PROVE  /\ msg.headers_completed /\ at > HeadersEnd(Reading) /\ at > 2
         /\ at \in Nat /\ HeadersEnd(Reading) \in Nat
         /\ decoder.chunked = Reading.chunked /\ decoder.chunked \in BOOLEAN
         /\ Reading.chunked => Framed(msg.body)
         /\ Valued(Reading.headers) => HeaderBlock(msg.headers, Reading)
         /\ Type = "request" /\ Len(sent) + 1 \notin cut =>
              msg.first = origin_form(Reading.connect, Reading.origin \o Reading.path)
<1>1. /\ Unread /\ Current.call = c /\ msg.message_completed = FALSE /\ Reading \in HttpMessages
      /\ Sending = Reading
  BY InCall
<1> DEFINE E == HeadersEnd(Reading)
           B == Len(Reading.body)
           L == Len(Reading.trailers)
<1>2. E \in Nat /\ E >= 3 /\ B \in Nat /\ L \in Nat
  BY <1>1, HeadersEndIs, MessageParts
<1>3. Len(Elements(Reading)) = E + B + 2 * L + 1
  BY <1>1, Layout
<1>4. at \in (E + 1)..(E + B) \/ at = Len(Elements(Reading))
  BY CallPlace
<1>5. at \in Nat /\ at > E /\ at > 2
  <2> DEFINE n == Len(Elements(Reading))
  <2> HIDE DEF E, B, L, n
  <2> QED
    BY ONLY <1>2, <1>3, <1>4 DEF n
<1>6. msg.headers_completed
  BY <1>1, <1>5 DEF CodecInv, Position
<1>7. /\ decoder.chunked = Reading.chunked /\ (Reading.chunked => Framed(msg.body))
      /\ Valued(Reading.headers) => HeaderBlock(msg.headers, Reading)
  BY <1>1, <1>6 DEF CodecInv, Taken
<1>8. Type = "request" /\ Len(sent) + 1 \notin cut =>
        msg.first = origin_form(Reading.connect, Reading.origin \o Reading.path)
  BY <1>1, <1>5 DEF CodecInv, Taken
<1>9. decoder.chunked \in BOOLEAN
  BY DEF CodecInv, Typed, Decoders
<1> QED
  BY <1>2, <1>5, <1>6, <1>7, <1>8, <1>9

LEMMA BodyCallInv ==
  ASSUME CodecInv, ~asserted, Calls("body"), NEW text, Data(text),
         msg' = [msg EXCEPT !.body = @ \o IF decoder.chunked THEN framed(text) ELSE BytesOf(text)],
         UNCHANGED <<stream, number, cut, decoder, encoder, out, sent, asserted>>
  PROVE  CodecInv'
<1> DEFINE E == HeadersEnd(Reading)
           B == Len(Reading.body)
           part == IF decoder.chunked THEN framed(text) ELSE BytesOf(text)
           body == msg.body \o part
<1>1. /\ Unread /\ Current.call = "body" /\ msg.message_completed = FALSE /\ Reading \in HttpMessages
      /\ Sending = Reading /\ B \in Nat
  BY InCall
<1>2. /\ text \in Text /\ At' /\ phase' \in {"reading", "decoded"}
  BY DataEnd
<1>3. at' = at + 1 \/ at' = at
  BY DataEnd
<1>4. /\ msg.headers_completed /\ at > E /\ at > 2 /\ at \in Nat /\ E \in Nat
      /\ decoder.chunked = Reading.chunked /\ decoder.chunked \in BOOLEAN
  BY BodyPlace
<1>5. /\ Reading.chunked => Framed(msg.body)
      /\ Valued(Reading.headers) => HeaderBlock(msg.headers, Reading)
      /\ Type = "request" /\ Len(sent) + 1 \notin cut =>
           msg.first = origin_form(Reading.connect, Reading.origin \o Reading.path)
  BY BodyPlace
<1>6. msg \in MessageTypes /\ msg.body \in Seq(BodyTokens)
  BY DEF CodecInv, Typed, MessageTypes
<1>7. part \in Seq(BodyTokens) /\ (Reading.chunked => Framed(part))
  BY <1>2, <1>4, FramedText, BytesOfTokens
<1>8. msg' = [msg EXCEPT !.body = body]
  OBVIOUS
<1> HIDE DEF part
<1>9. /\ body \in Seq(BodyTokens) /\ Len(body) = Len(msg.body) + Len(part)
      /\ \A i \in 1..Len(msg.body) : body[i] = msg.body[i]
  BY <1>6, <1>7, Joined
<1>10. Reading.chunked => Framed(body)
  BY <1>5, <1>6, <1>7, FramedJoin
<1>11. Len(msg.body) \in Nat /\ Len(body) \in Nat /\ Len(msg.body) <= Len(body)
  <2>1. Len(msg.body) \in Nat /\ Len(part) \in Nat
    BY <1>6, <1>7
  <2> QED
    BY <1>9, <2>1
<1> HIDE DEF body
<1>12. /\ msg' \in MessageTypes /\ msg'.body = body /\ msg'.first = msg.first /\ msg'.headers = msg.headers
       /\ msg'.headers_completed = msg.headers_completed
       /\ msg'.message_completed = msg.message_completed
  BY ONLY <1>6, <1>8, <1>9, SetBody
<1>13. /\ Type' = Type /\ Messages' = Messages /\ Reading' = Reading
       /\ Input' = Input /\ (Unread' <=> Unread) /\ Sending' = Sending
  BY SameMessage, SameSending
<1>14. Typed'
  BY <1>2, <1>12, <1>13 DEF CodecInv, Typed
<1>15. Place' /\ Streamed'
  <2>1. /\ msg'.message_completed = FALSE /\ (asserted' => phase' = "reading")
        /\ Len(msg.body) <= Len(msg'.body) /\ Len(msg.body) \in Nat /\ Len(msg'.body) \in Nat
        /\ msg'.headers_completed
    BY <1>1, <1>4, <1>11, <1>12
  <2> QED
    BY <1>2, <2>1, PlaceKept
<1>16. Position' /\ Collected'
  <2>1. at' \in Nat /\ at' > E
    BY ONLY <1>3, <1>4
  <2>2. at \in (E + 1)..(E + B)
    BY CallPlace
  <2>3. at \in (E + 1)..(E + B + 1)
    BY ONLY <1>1, <1>4, <2>2
  <2>4. decoder'.value = << >>
    BY <1>1, <2>3 DEF CodecInv, Position
  <2>5. msg'.headers_completed
    BY <1>4, <1>12
  <2> QED
    BY <1>1, <2>1, <2>4, <2>5, AfterHeaders
<1>17. Taken'
  BY <1>1, <1>4, <1>5, <1>10, <1>12, <1>13 DEF Taken
<1>18. Output' /\ Past'
  BY <1>9, <1>12, OutputKept, PastKept
<1> QED
  BY <1>14, <1>15, <1>16, <1>17, <1>18 DEF CodecInv

LEMMA BodyInv == CodecInv /\ on_body /\ ~asserted => CodecInv'
<1> SUFFICES ASSUME CodecInv, on_body, ~asserted PROVE CodecInv'
  OBVIOUS
<1>1. PICK text : /\ Data(text)
                  /\ msg' = [msg EXCEPT !.body = @ \o IF decoder.chunked THEN framed(text) ELSE BytesOf(text)]
  BY DEF on_body
<1>2. Calls("body") /\ UNCHANGED <<stream, number, cut, decoder, encoder, out, sent, asserted>>
  BY DEF on_body
<1> QED
  BY <1>1, <1>2, BodyCallInv

LEMMA SetEnd ==
  ASSUME msg \in MessageTypes, decoder \in Decoders, NEW body \in Seq(BodyTokens)
  PROVE  LET m == [msg EXCEPT !.message_completed = TRUE, !.body = body]
             d == [decoder EXCEPT !.message_completed = TRUE]
         IN /\ m \in MessageTypes /\ m.body = body /\ m.first = msg.first /\ m.headers = msg.headers
            /\ m.headers_completed = msg.headers_completed /\ m.message_completed = TRUE
            /\ d \in Decoders /\ d.chunked = decoder.chunked
BY DEF MessageTypes, Decoders

LEMMA EndInv == CodecInv /\ on_message_complete /\ ~asserted /\ ~Pipelined => CodecInv'
<1> SUFFICES ASSUME CodecInv, on_message_complete, ~asserted, ~Pipelined PROVE CodecInv'
  OBVIOUS
<1> DEFINE end == IF decoder.chunked THEN << Token("end", 0) >> ELSE << >>
           body == msg.body \o end
<1>1. /\ Calls("message_complete") /\ number' = number + 1 /\ at' = 1 /\ phase' = "decoded"
      /\ UNCHANGED <<stream, off, cut, encoder, out, sent, asserted>>
  BY DEF on_message_complete
<1>2. /\ msg' = [msg EXCEPT !.message_completed = TRUE, !.body = body]
      /\ decoder' = [decoder EXCEPT !.message_completed = TRUE]
  BY DEF on_message_complete
<1>3. /\ Unread /\ msg.message_completed = FALSE /\ Reading \in HttpMessages /\ Sending = Reading
      /\ number = Len(sent) + 1 /\ encoder.state # "END" /\ encoder.state \in {"BEGIN", "BODY"}
  BY <1>1, InCall
<1>4. off = 0
  <2>1. Current.text = << >>
    BY <1>1, CallPlace
  <2>2. off \in 0..Len(Current.text)
    BY <1>3, CurrentParts DEF CodecInv
  <2> QED
    BY <2>1, <2>2
<1>5. msg.headers_completed /\ decoder.chunked = Reading.chunked /\ decoder.chunked \in BOOLEAN
  BY <1>1, BodyPlace
<1>6. /\ Reading.chunked => Framed(msg.body)
      /\ Valued(Reading.headers) => HeaderBlock(msg.headers, Reading)
      /\ Type = "request" /\ Len(sent) + 1 \notin cut =>
           msg.first = origin_form(Reading.connect, Reading.origin \o Reading.path)
  BY <1>1, BodyPlace
<1>7. msg \in MessageTypes /\ msg.body \in Seq(BodyTokens) /\ decoder \in Decoders
  BY DEF CodecInv, Typed, MessageTypes
<1>8. end \in Seq(BodyTokens) /\ (Reading.chunked => Framed(end))
  <2>1. << >> \in Seq(BodyTokens)
    OBVIOUS
  <2>2. << Token("end", 0) >> \in Seq(BodyTokens) /\ Framed(<< Token("end", 0) >>)
    BY FramedEnd
  <2> QED
    BY <1>5, <2>1, <2>2
<1> HIDE DEF end
<1>9. /\ body \in Seq(BodyTokens) /\ Len(body) = Len(msg.body) + Len(end)
      /\ \A i \in 1..Len(msg.body) : body[i] = msg.body[i]
  BY <1>7, <1>8, Joined
<1>10. Reading.chunked => Framed(body)
  BY <1>6, <1>7, <1>8, FramedJoin
<1>11. Len(msg.body) \in Nat /\ Len(body) \in Nat /\ Len(msg.body) <= Len(body)
  <2>1. Len(msg.body) \in Nat /\ Len(end) \in Nat
    BY <1>7, <1>8
  <2> QED
    BY <1>9, <2>1
<1> HIDE DEF body
<1>12. /\ msg' \in MessageTypes /\ msg'.body = body /\ msg'.first = msg.first /\ msg'.headers = msg.headers
       /\ msg'.headers_completed = msg.headers_completed /\ msg'.message_completed = TRUE
       /\ decoder' \in Decoders /\ decoder'.chunked = decoder.chunked
  BY ONLY <1>2, <1>7, <1>9, SetEnd
<1>13. Type' = Type /\ Messages' = Messages /\ Sending' = Sending
  BY <1>1, SameSending
<1>14. number' \in 1..(Len(Messages') + 1)
  <2>1. number \in 1..Len(Messages) /\ Len(Messages) \in Nat
    BY <1>3, Here, StreamParts DEF CodecInv, Typed
  <2> QED
    BY <1>1, <1>13, <2>1
<1>15. At'
  <2>1. AtStart'
    BY <1>1, <1>4, <1>14 DEF AtStart, CodecInv, Typed
  <2> QED
    BY <2>1, StartAtNext
<1>16. Typed'
  BY <1>1, <1>12, <1>14, <1>15 DEF CodecInv, Typed
<1>17. Place'
  <2>1. number' = Len(sent) + 2
    <3>1. Len(sent) \in Nat
      BY DEF CodecInv, Typed
    <3> QED
      BY <1>1, <1>3, <3>1
  <2>2. encoder.body_encoded <= Len(msg'.body)
    <3>1. encoder.body_encoded \in Nat /\ encoder.body_encoded <= Len(msg.body)
      BY DEF CodecInv, Typed, Place, Encoders
    <3> QED
      BY <1>11, <1>12, <3>1
  <2>3. /\ encoder.state = "BEGIN" <=> out = << >>
        /\ encoder.state = "BEGIN" => encoder.body_encoded = 0
    BY DEF CodecInv, Place
  <2>4. msg'.headers_completed /\ msg'.message_completed
    BY <1>5, <1>12
  <2> QED
    BY <1>1, <1>3, <1>4, <2>1, <2>2, <2>3, <2>4 DEF Place
<1>18. Position' /\ Collected' /\ Streamed'
  BY <1>1, <1>12 DEF Position, Collected, Streamed
<1>19. Taken'
  BY <1>1, <1>3, <1>5, <1>6, <1>10, <1>12, <1>13 DEF Taken
<1>20. Output' /\ Past'
  BY <1>1, <1>9, <1>12, OutputKept, PastKept
<1> QED
  BY <1>16, <1>17, <1>18, <1>19, <1>20 DEF CodecInv

LEMMA TokenTypes ==
  ASSUME msg \in MessageTypes
  PROVE  /\ << Token("first", msg.first) >> \in Seq(Tokens) /\ Token("first", msg.first).kind = "first"
         /\ << Token("headers", msg.headers) >> \in Seq(Tokens)
         /\ Token("headers", msg.headers).kind = "headers" /\ Token("headers", msg.headers).value = msg.headers
<1>1. msg.first \in Text /\ msg.headers \in Blocks
  BY DEF MessageTypes
<1>2. Token("first", msg.first) \in Tokens /\ Token("headers", msg.headers) \in Tokens
  BY <1>1 DEF Token, Tokens
<1> QED
  BY <1>2 DEF Token

\* What has been written, once encode_body has written the rest.
WholeOutput(o, first, headers, body) ==
  /\ o \in Seq(Tokens) /\ Len(o) = Len(body) + 2
  /\ o[1] = first /\ o[2] = headers
  /\ \A i \in 3..Len(o) : o[i] = body[i - 2]

LEMMA FirstOutput ==
  ASSUME NEW first \in Tokens, NEW headers \in Tokens, NEW body \in Seq(BodyTokens)
  PROVE  WholeOutput(<< >> \o << first >> \o << headers >> \o SubSeq(body, 1, Len(body)), first, headers, body)
<1> DEFINE s == << first, headers >>
           o == s \o body
<1>1. s \in Seq(Tokens) /\ Len(s) = 2 /\ s[1] = first /\ s[2] = headers
  OBVIOUS
<1>2. body \in Seq(Tokens) /\ Len(body) \in Nat
  BY DEF Tokens
<1>3. << >> \o << first >> \o << headers >> = s
  <2> DEFINE f == << first >>
             g == << headers >>
  <2>1. f \in Seq(Tokens) /\ Len(f) = 1 /\ f[1] = first /\ g \in Seq(Tokens) /\ Len(g) = 1 /\ g[1] = headers
    OBVIOUS
  <2> HIDE DEF f, g
  <2>2. << >> \o f = f
    BY ONLY <2>1, ConcatEmptySeq
  <2>3. /\ f \o g \in Seq(Tokens) /\ Len(f \o g) = Len(f) + Len(g)
        /\ \A i \in 1..Len(f) : (f \o g)[i] = f[i]
        /\ \A i \in 1..Len(g) : (f \o g)[Len(f) + i] = g[i]
    <3>1. f \in Seq(Tokens) /\ g \in Seq(Tokens)
      BY <2>1
    <3> QED
      BY ONLY <3>1, Joined
  <2> DEFINE u == f \o g
  <2>4. u \in Seq(Tokens) /\ Len(u) = 2 /\ u[1] = s[1] /\ u[2] = s[2]
    BY <1>1, <2>1, <2>3
  <2> HIDE DEF u, s
  <2>5. \A i \in 1..Len(u) : u[i] = s[i]
    BY ONLY <2>4
  <2>6. u = s
    BY ONLY <1>1, <2>4, <2>5, SeqEqual
  <2> QED
    BY <2>2, <2>6 DEF u, f, g
<1>4. SubSeq(body, 1, Len(body)) = body
  OBVIOUS
<1> HIDE DEF s
<1>5. /\ o \in Seq(Tokens) /\ Len(o) = Len(s) + Len(body)
      /\ \A i \in 1..Len(s) : o[i] = s[i]
      /\ \A i \in 1..Len(body) : o[Len(s) + i] = body[i]
  <2>1. s \in Seq(Tokens) /\ body \in Seq(Tokens)
    BY <1>1, <1>2
  <2> QED
    BY ONLY <2>1, Joined
<1>6. << >> \o << first >> \o << headers >> \o SubSeq(body, 1, Len(body)) = o
  BY <1>3, <1>4
<1> HIDE DEF o
<1>7. Len(o) = Len(body) + 2 /\ o[1] = first /\ o[2] = headers
  BY <1>1, <1>2, <1>5
<1>8. ASSUME NEW i \in 3..Len(o) PROVE o[i] = body[i - 2]
  <2>1. i - 2 \in 1..Len(body) /\ 2 + (i - 2) = i
    BY <1>2, <1>7
  <2> QED
    BY <1>1, <1>5, <2>1
<1> QED
  BY <1>5, <1>6, <1>7, <1>8 DEF WholeOutput

LEMMA MoreOutput ==
  ASSUME NEW o \in Seq(Tokens), NEW body \in Seq(BodyTokens), NEW n \in 0..Len(body),
         Len(o) = n + 2, \A i \in 3..Len(o) : o[i] = body[i - 2]
  PROVE  WholeOutput(o \o << >> \o << >> \o SubSeq(body, n + 1, Len(body)), o[1], o[2], body)
<1> DEFINE r == SubSeq(body, n + 1, Len(body))
           u == o \o r
<1>1. body \in Seq(Tokens) /\ Len(body) \in Nat /\ n \in Nat /\ n <= Len(body)
  BY DEF Tokens
<1>2. r \in Seq(Tokens) /\ Len(r) = Len(body) - n /\ \A i \in 1..(Len(body) - n) : r[i] = body[n + i]
  <2>1. r \in Seq(Tokens) /\ Len(r) = Len(body) - n
    BY <1>1, SubSeqProperties
  <2>2. ASSUME NEW i \in 1..(Len(body) - n) PROVE r[i] = body[n + i]
    BY <1>1, <2>2
  <2> QED
    BY <2>1, <2>2
<1>3. o \o << >> \o << >> = o
  OBVIOUS
<1> HIDE DEF r
<1>4. /\ u \in Seq(Tokens) /\ Len(u) = Len(o) + Len(r)
      /\ \A i \in 1..Len(o) : u[i] = o[i]
      /\ \A i \in 1..Len(r) : u[Len(o) + i] = r[i]
  <2>1. o \in Seq(Tokens) /\ r \in Seq(Tokens)
    BY <1>2
  <2> QED
    BY ONLY <2>1, Joined
<1>5. o \o << >> \o << >> \o r = u
  BY <1>3
<1> HIDE DEF u
<1>6. Len(u) = Len(body) + 2 /\ u[1] = o[1] /\ u[2] = o[2]
  BY <1>1, <1>2, <1>4
<1>7. ASSUME NEW i \in 3..Len(u) PROVE u[i] = body[i - 2]
  <2>1. CASE i <= Len(o)
    <3>1. i \in 1..Len(o) /\ i \in 3..Len(o)
      BY <1>1, <1>6, <2>1
    <3> QED
      BY <1>4, <3>1
  <2>2. CASE i > Len(o)
    <3> DEFINE k == i - Len(o)
    <3>1. k \in 1..Len(r) /\ k \in 1..(Len(body) - n) /\ Len(o) + k = i /\ n + k = i - 2
      BY <1>1, <1>2, <1>6, <2>2
    <3> HIDE DEF k
    <3>2. u[Len(o) + k] = r[k] /\ r[k] = body[n + k]
      BY <1>2, <1>4, <3>1
    <3> QED
      BY <3>1, <3>2
  <2> QED
    BY <1>1, <1>6, <2>1, <2>2
<1> QED
  BY <1>4, <1>5, <1>6, <1>7 DEF WholeOutput, r

LEMMA WholeBody ==
  ASSUME NEW o, NEW first, NEW headers, NEW body \in Seq(BodyTokens), WholeOutput(o, first, headers, body)
  PROVE  SubSeq(o, 3, Len(o)) = body /\ o # << >>
<1> DEFINE r == SubSeq(o, 3, Len(o))
<1>1. o \in Seq(Tokens) /\ Len(o) = Len(body) + 2 /\ Len(body) \in Nat
  BY DEF WholeOutput
<1>2. body \in Seq(Tokens)
  BY DEF Tokens
<1>3. r \in Seq(Tokens) /\ Len(r) = Len(body)
  BY <1>1, SubSeqProperties
<1>4. ASSUME NEW i \in 1..Len(body) PROVE r[i] = body[i]
  <2>1. r[i] = o[i + 2]
    BY <1>1
  <2>2. i + 2 \in 3..Len(o) /\ (i + 2) - 2 = i
    BY <1>1
  <2>3. o[i + 2] = body[(i + 2) - 2]
    BY <2>2 DEF WholeOutput
  <2> QED
    BY <2>1, <2>2, <2>3
<1> HIDE DEF r
<1>5. r = body
  BY <1>2, <1>3, <1>4, SeqEqual
<1> QED
  BY <1>1, <1>5 DEF r

\* encode writes a message that is deliverable.
LEMMA DeliverInv ==
  ASSUME CodecInv, phase = "decoded", ~asserted,
         msg.headers_completed, encoder.state # "END",
         out' = out \o first_line \o header_block \o body_rest,
         encoder' = [state |-> IF msg.message_completed THEN "END" ELSE "BODY",
                     body_encoded |-> Len(msg.body)],
         phase' = IF msg.message_completed THEN "encoded" ELSE "idle",
         UNCHANGED <<stream, number, at, off, cut, decoder, msg, sent, asserted>>
  PROVE  CodecInv'
<1> DEFINE body == msg.body
           n == encoder.body_encoded
           first == Token("first", msg.first)
           headers == Token("headers", msg.headers)
<1>1. /\ Type' = Type /\ Messages' = Messages /\ Reading' = Reading /\ Sending' = Sending
      /\ Input' = Input /\ (Unread' <=> Unread) /\ Current' = Current
  BY SameMessage, SameSending DEF Current
<1>2. msg \in MessageTypes /\ out \in Seq(Tokens) /\ n \in Nat
  BY DEF CodecInv, Typed, Encoders
<1>3. body \in Seq(BodyTokens) /\ Len(body) \in Nat
  BY <1>2 DEF MessageTypes
<1>4. n <= Len(body) /\ encoder.state \in {"BEGIN", "BODY"} /\ (encoder.state = "BEGIN" => out = << >> /\ n = 0)
  BY DEF CodecInv, Place
<1>5. first \in Tokens /\ headers \in Tokens /\ headers.kind = "headers" /\ headers.value = msg.headers
  BY <1>2, TokenTypes DEF Tokens, Token, MessageTypes
<1>6. /\ Valued(Sending.headers) => HeaderBlock(msg.headers, Sending)
      /\ Sending.chunked => Framed(body)
  BY DEF CodecInv, Taken
<1>7. \E k \in Tokens : /\ WholeOutput(out', first, k, body) /\ k.kind = "headers"
                        /\ Valued(Sending.headers) => HeaderBlock(k.value, Sending)
  <2>1. CASE encoder.state = "BEGIN"
    <3>1. first_line = << first >> /\ header_block = << headers >>
      BY <2>1 DEF first_line, header_block
    <3>2. body_rest = SubSeq(body, 1, Len(body)) /\ out = << >>
      BY <1>4, <2>1 DEF body_rest
    <3>3. out' = << >> \o << first >> \o << headers >> \o SubSeq(body, 1, Len(body))
      BY <3>1, <3>2
    <3>4. WholeOutput(out', first, headers, body)
      <4> HIDE DEF first, headers, body
      <4> QED
        BY <1>3, <1>5, <3>3, FirstOutput
    <3> QED
      BY <1>5, <1>6, <3>4
  <2>2. CASE encoder.state = "BODY"
    <3>1. first_line = << >> /\ header_block = << >> /\ body_rest = SubSeq(body, n + 1, Len(body))
      BY <2>2 DEF first_line, header_block, body_rest
    <3>2. out # << >>
      BY <2>2 DEF CodecInv, Place
    <3>3. /\ Len(out) = n + 2 /\ out[1] = first /\ out[2].kind = "headers"
          /\ Valued(Sending.headers) => HeaderBlock(out[2].value, Sending)
          /\ \A i \in 3..Len(out) : out[i] = body[i - 2]
      BY <3>2 DEF CodecInv, Output
    <3>4. out' = out \o << >> \o << >> \o SubSeq(body, n + 1, Len(body))
      BY <3>1
    <3>5. WholeOutput(out', out[1], out[2], body)
      <4>1. n \in 0..Len(body)
        BY <1>2, <1>3, <1>4
      <4> HIDE DEF n, body
      <4> QED
        BY ONLY <1>2, <1>3, <3>3, <3>4, <4>1, MoreOutput
    <3>6. out[2] \in Tokens
      <4>1. 2 \in 1..Len(out)
        BY <1>2, <3>3
      <4> QED
        BY <1>2, <4>1
    <3> QED
      BY <3>3, <3>5, <3>6
  <2> QED
    BY <1>4, <2>1, <2>2
<1>8. PICK k \in Tokens : /\ WholeOutput(out', first, k, body) /\ k.kind = "headers"
                          /\ Valued(Sending.headers) => HeaderBlock(k.value, Sending)
  BY <1>7
<1>9. /\ out' \in Seq(Tokens) /\ Len(out') = Len(body) + 2 /\ out'[1] = first /\ out'[2] = k
      /\ \A i \in 3..Len(out') : out'[i] = body[i - 2]
  BY <1>8 DEF WholeOutput
<1>10. SubSeq(out', 3, Len(out')) = body /\ out' # << >>
  BY <1>3, <1>8, WholeBody
<1>11. encoder'.state = (IF msg.message_completed THEN "END" ELSE "BODY") /\ encoder'.body_encoded = Len(body)
  OBVIOUS
<1>12. Typed'
  <2>1. encoder' \in Encoders
    BY <1>3 DEF Encoders
  <2>2. phase' \in {"idle", "encoded"}
    OBVIOUS
  <2> QED
    BY <1>1, <1>9, <2>1, <2>2 DEF CodecInv, Typed, At
<1>13. Place'
  <2>1. /\ number = Len(sent) + IF msg.message_completed THEN 2 ELSE 1
        /\ msg.message_completed => at = 1 /\ off = 0
        /\ msg.headers_completed => msg.message_completed \/ Unread
    BY DEF CodecInv, Place
  <2>2. Len(body) <= Len(body)
    BY <1>3
  <2> QED
    BY <1>1, <1>10, <1>11, <2>1, <2>2 DEF Place
<1>14. Position'
  BY <1>1 DEF CodecInv, Position
<1>15. Collected'
  BY <1>1 DEF CodecInv, Collected
<1>16. Taken'
  BY <1>1 DEF CodecInv, Taken
<1>17. Output'
  <2>1. Len(out') = encoder'.body_encoded + 2 /\ msg'.first = msg.first /\ msg'.body = body
    BY <1>9, <1>11
  <2>2. Sending.chunked => Framed(SubSeq(out', 3, Len(out')))
    BY <1>6, <1>10
  <2> QED
    BY <1>1, <1>8, <1>9, <2>1, <2>2 DEF Output
<1>18. Past' /\ Streamed'
  BY <1>10, <1>11, PastKept DEF Streamed
<1> QED
  BY <1>12, <1>13, <1>14, <1>15, <1>16, <1>17, <1>18 DEF CodecInv

LEMMA EncodeInv == CodecInv /\ encode => CodecInv'
<1> SUFFICES ASSUME CodecInv, encode PROVE CodecInv'
  OBVIOUS
<1>1. /\ phase = "decoded" /\ ~asserted
      /\ phase' = IF msg.message_completed THEN "encoded" ELSE "idle"
      /\ UNCHANGED <<stream, number, at, off, cut, decoder, msg, sent, asserted>>
  BY DEF encode
<1>2. CASE (Type = "response" \/ msg.message_completed) /\ msg.headers_completed /\ encoder.state # "END"
  <2>1. /\ out' = out \o first_line \o header_block \o body_rest
        /\ encoder' = [state |-> IF msg.message_completed THEN "END" ELSE "BODY",
                       body_encoded |-> Len(msg.body)]
    BY <1>2 DEF encode
  <2> QED
    BY <1>1, <1>2, <2>1, DeliverInv
<1>3. CASE ~((Type = "response" \/ msg.message_completed) /\ msg.headers_completed /\ encoder.state # "END")
  <2>1. UNCHANGED <<out, encoder>>
    BY <1>3 DEF encode
  <2>2. encoder.state # "END" /\ (msg.message_completed => msg.headers_completed)
    BY <1>1 DEF CodecInv, Place
  <2>3. ~msg.message_completed /\ ~(Type = "response" /\ msg.headers_completed) /\ phase' = "idle"
    BY <1>1, <1>3, <2>2
  <2>4. /\ Type' = Type /\ Messages' = Messages /\ Reading' = Reading /\ Sending' = Sending
        /\ Input' = Input /\ (Unread' <=> Unread) /\ Current' = Current
    BY <1>1, SameMessage, SameSending DEF Current
  <2>5. Typed'
    BY <1>1, <2>1, <2>3, <2>4 DEF CodecInv, Typed, At
  <2>6. Place'
    BY <1>1, <2>1, <2>2, <2>3, <2>4 DEF CodecInv, Place
  <2>7. Position'
    BY <1>1, <2>4 DEF CodecInv, Position
  <2>8. Collected'
    BY <1>1, <2>4 DEF CodecInv, Collected
  <2>9. Taken'
    BY <1>1, <2>4 DEF CodecInv, Taken
  <2>10. Output' /\ Past'
    BY <1>1, <2>1, OutputKept, PastKept
  <2>11. Streamed'
    BY <1>1, <2>3, <2>4 DEF Streamed
  <2> QED
    BY <2>5, <2>6, <2>7, <2>8, <2>9, <2>10, <2>11 DEF CodecInv
<1> QED
  BY <1>2, <1>3

\* What has been written of this message is right so far.
LEMMA OutputRight ==
  ASSUME CodecInv
  PROVE  BlockFirst(out, Sending) /\ InChunks(out, Sending)
<1> SUFFICES ASSUME out # << >> PROVE BlockFirst(out, Sending) /\ InChunks(out, Sending)
  BY DEF BlockFirst, InChunks
<1>1. /\ Len(out) = encoder.body_encoded + 2
      /\ out[1] = Token("first", msg.first) /\ out[2].kind = "headers"
      /\ Valued(Sending.headers) => HeaderBlock(out[2].value, Sending)
      /\ \A i \in 3..Len(out) : out[i] = msg.body[i - 2]
      /\ Sending.chunked => Framed(SubSeq(out, 3, Len(out)))
  BY DEF CodecInv, Output
<1>2. /\ encoder.body_encoded \in Nat /\ encoder.body_encoded <= Len(msg.body)
      /\ msg.body \in Seq(BodyTokens) /\ Len(msg.body) \in Nat /\ DOMAIN out = 1..Len(out)
  BY DEF CodecInv, Place, Typed, Encoders, MessageTypes
<1>3. out[1].kind = "first"
  BY <1>1 DEF Token
<1>4. ASSUME NEW i \in DOMAIN out PROVE out[i].kind = "headers" <=> i = 2
  <2>1. CASE i = 1 \/ i = 2
    BY <1>1, <1>3, <2>1
  <2>2. CASE i # 1 /\ i # 2
    <3>1. i \in 3..Len(out) /\ i - 2 \in 1..Len(msg.body)
      BY <1>1, <1>2, <2>2
    <3>2. out[i] \in BodyTokens
      BY <1>1, <1>2, <3>1
    <3>3. out[i].kind \in {"byte", "size", "crlf", "end"}
      BY <3>2, BodyToken
    <3> QED
      BY <2>2, <3>3
  <2> QED
    BY <2>1, <2>2
<1> QED
  BY <1>1, <1>3, <1>4 DEF BlockFirst, InChunks

LEMMA ResetInv == CodecInv /\ reset => CodecInv'
<1> SUFFICES ASSUME CodecInv, reset PROVE CodecInv'
  OBVIOUS
<1>1. /\ phase = "encoded" /\ phase' = "idle" /\ decoder' = NewDecoder /\ msg' = NewMessage
      /\ encoder' = NewEncoder /\ sent' = Append(sent, out) /\ out' = << >>
      /\ UNCHANGED <<stream, number, at, off, cut, asserted>>
  BY DEF reset
<1>2. msg.message_completed /\ at = 1 /\ off = 0 /\ ~asserted /\ number = Len(sent) + 2
  BY <1>1 DEF CodecInv, Place
<1>3. /\ Type' = Type /\ Messages' = Messages /\ Reading' = Reading
      /\ Input' = Input /\ (Unread' <=> Unread) /\ Current' = Current
  BY <1>1, SameMessage DEF Current
<1>4. /\ sent \in Seq(Seq(Tokens)) /\ out \in Seq(Tokens) /\ Len(sent) \in Nat
      /\ stream \in DOMAIN Streams /\ number \in 1..(Len(Messages) + 1)
  BY DEF CodecInv, Typed
<1>5. /\ sent' \in Seq(Seq(Tokens)) /\ Len(sent') = Len(sent) + 1
      /\ \A i \in 1..Len(sent) : sent'[i] = sent[i]
      /\ sent'[Len(sent) + 1] = out
  <2> DEFINE S == Seq(Tokens)
  <2>1. sent \in Seq(S) /\ out \in S
    BY <1>4
  <2> HIDE DEF S
  <2>2. /\ sent' \in Seq(S) /\ Len(sent') = Len(sent) + 1
        /\ \A i \in 1..Len(sent) : sent'[i] = sent[i]
        /\ sent'[Len(sent) + 1] = out
    BY ONLY <1>1, <2>1, AppendProperties
  <2> QED
    BY <2>2 DEF S
<1>6. Typed'
  <2>1. At'
    BY <1>1, <1>3 DEF CodecInv, Typed, At
  <2>2. << >> \in Seq(Tokens)
    OBVIOUS
  <2>3. number' \in 1..(Len(Messages') + 1) /\ stream' \in DOMAIN Streams /\ asserted' \in BOOLEAN
    BY <1>1, <1>3, <1>4 DEF CodecInv, Typed
  <2> QED
    BY <1>1, <1>5, <2>1, <2>2, <2>3, NewTypes DEF Typed
<1>7. Place'
  <2>1. number' = Len(sent') + 1
    BY <1>1, <1>2, <1>4, <1>5
  <2>2. encoder'.body_encoded <= Len(msg'.body)
    BY <1>1, NewParts
  <2> QED
    BY <1>1, <1>2, <2>1, <2>2, NewParts DEF Place
<1>8. Position' /\ Collected'
  <2>1. Untouched'
    BY <1>1, <1>2, <1>3, <1>4 DEF AtStart, Untouched
  <2> QED
    BY <2>1, StartFreshNext
<1>9. Taken' /\ Output' /\ Streamed'
  <2>1. ~(at' > 2)
    BY <1>1, <1>2
  <2> QED
    BY <1>1, <2>1, NewParts DEF Taken, Output, Streamed
<1>10. Past'
  <2>1. ASSUME NEW k \in 1..Len(sent') PROVE BlockFirst(sent'[k], Messages[k]) /\ InChunks(sent'[k], Messages[k])
    <3>1. CASE k \in 1..Len(sent)
      BY <1>5, <3>1 DEF CodecInv, Past
    <3>2. CASE k = Len(sent) + 1
      <4>1. Sending = Messages[k] /\ sent'[k] = out
        BY <1>5, <3>2 DEF Sending
      <4> QED
        BY <4>1, OutputRight
    <3> QED
      BY <1>4, <1>5, <3>1, <3>2
  <2> QED
    BY <1>3, <2>1 DEF Past
<1> QED
  BY <1>6, <1>7, <1>8, <1>9, <1>10 DEF CodecInv

LEMMA StutterInv == CodecInv /\ UNCHANGED vars => CodecInv'
<1> SUFFICES ASSUME CodecInv, UNCHANGED vars PROVE CodecInv'
  OBVIOUS
<1>1. UNCHANGED <<stream, number, at, off, cut, phase, decoder, msg, encoder, out, sent, asserted>>
  BY DEF vars
<1>2. /\ Type' = Type /\ Messages' = Messages /\ Reading' = Reading /\ Sending' = Sending
      /\ Input' = Input /\ (Unread' <=> Unread) /\ Current' = Current
  BY <1>1, SameMessage, SameSending DEF Current
<1>3. Typed'
  BY <1>1, <1>2 DEF CodecInv, Typed, At
<1>4. Place'
  BY <1>1, <1>2 DEF CodecInv, Place
<1>5. Position'
  BY <1>1, <1>2 DEF CodecInv, Position
<1>6. Collected'
  BY <1>1, <1>2 DEF CodecInv, Collected
<1>7. Taken'
  BY <1>1, <1>2 DEF CodecInv, Taken
<1>8. Output' /\ Past'
  BY <1>1, OutputKept, PastKept
<1>9. Streamed'
  BY <1>1, <1>2 DEF CodecInv, Streamed
<1> QED
  BY <1>3, <1>4, <1>5, <1>6, <1>7, <1>8, <1>9 DEF CodecInv

LEMMA NextInv == CodecInv /\ ~Pipelined /\ [Next]_vars => CodecInv'
<1> SUFFICES ASSUME CodecInv, ~Pipelined, [Next]_vars PROVE CodecInv'
  OBVIOUS
<1>1. CASE decode
  BY <1>1, DecodeInv
<1>2. CASE Callback
  <2>1. ~asserted
    BY <1>2 DEF Callback
  <2>2. CASE on_message_begin
    BY <2>1, <2>2, BeginInv
  <2>3. CASE on_url
    BY <2>1, <2>3, UrlInv
  <2>4. CASE on_status
    BY <2>1, <2>4, StatusInv
  <2>5. CASE on_header_field
    BY <2>1, <2>5, FieldInv
  <2>6. CASE on_header_value
    BY <2>1, <2>6, ValueInv
  <2>7. CASE on_headers_complete
    BY <2>1, <2>7, CompleteInv
  <2>8. CASE on_body
    BY <2>1, <2>8, BodyInv
  <2>9. CASE on_message_complete
    BY <2>1, <2>9, EndInv
  <2>10. CASE decoded
    BY <2>1, <2>10, DecodedInv
  <2> QED
    BY <1>2, <2>2, <2>3, <2>4, <2>5, <2>6, <2>7, <2>8, <2>9, <2>10 DEF Callback
<1>3. CASE encode
  BY <1>3, EncodeInv
<1>4. CASE reset
  BY <1>4, ResetInv
<1>5. CASE UNCHANGED vars
  BY <1>5, StutterInv
<1> QED
  BY <1>1, <1>2, <1>3, <1>4, <1>5 DEF Next, Step, Done

-----------------------------------------------------------------------------
(* What follows from it, for a peer that waits for the answer to a message  *)
(* before it sends the next one.                                            *)

\* The decoder, the message and the encoder always agree with where the parser
\* is, however the reads cut the stream.
THEOREM CodecInvariance ==
  ASSUME ~Pipelined
  PROVE  Spec => []CodecInv
<1>1. Init => CodecInv
  BY InitInv
<1>2. CodecInv /\ [Next]_vars => CodecInv'
  BY NextInv
<1> QED
  BY <1>1, <1>2, PTL DEF Spec

\* The parser never leaves the message, and the encoder never the body.
THEOREM CodecTypes ==
  ASSUME ~Pipelined
  PROVE  Spec => []TypeOK
<1>1. CodecInv => TypeOK
  <2> SUFFICES ASSUME CodecInv PROVE TypeOK
    OBVIOUS
  <2>1. encoder.body_encoded \in 0..Len(msg.body)
    <3>1. encoder.body_encoded \in Nat /\ Len(msg.body) \in Nat /\ encoder.body_encoded <= Len(msg.body)
      BY DEF CodecInv, Typed, Place, Encoders, MessageTypes
    <3> QED
      BY <3>1
  <2>2. Len(sent) <= Len(Messages)
    <3>1. number \in 1..(Len(Messages) + 1) /\ Len(sent) \in Nat /\ Len(Messages) \in Nat
      BY StreamParts DEF CodecInv, Typed
    <3>2. number = Len(sent) + 1 \/ number = Len(sent) + 2
      BY DEF CodecInv, Place
    <3> QED
      BY <3>1, <3>2
  <2>3. encoder.state \in {"BEGIN", "FIRST_LINE", "HEADERS", "BODY", "END"}
    BY DEF CodecInv, Typed, Encoders
  <2> QED
    BY <2>1, <2>2, <2>3 DEF CodecInv, Typed, At, TypeOK
<1> QED
  BY <1>1, CodecInvariance, PTL

LEMMA AllRight ==
  ASSUME CodecInv
  PROVE  \A k \in 1..(Len(sent) + 1) : BlockFirst(Written(k), Messages[k]) /\ InChunks(Written(k), Messages[k])
<1>1. Len(sent) \in Nat
  BY DEF CodecInv, Typed
<1> SUFFICES ASSUME NEW k \in 1..(Len(sent) + 1)
             PROVE  BlockFirst(Written(k), Messages[k]) /\ InChunks(Written(k), Messages[k])
  OBVIOUS
<1>2. CASE k <= Len(sent)
  <2>1. k \in 1..Len(sent) /\ Written(k) = sent[k]
    BY <1>1, <1>2 DEF Written
  <2> QED
    BY <2>1 DEF CodecInv, Past
<1>3. CASE ~(k <= Len(sent))
  <2>1. k = Len(sent) + 1 /\ Written(k) = out
    BY <1>1, <1>3 DEF Written
  <2>2. Sending = Messages[k]
    BY <2>1 DEF Sending
  <2> QED
    BY <2>1, <2>2, OutputRight
<1> QED
  BY <1>2, <1>3

\* Wherever the reads split the names and values that on_header_field and
\* on_header_value are given, encode_headers writes one block, right behind
\* the first line, with the first value of every header of the message.
THEOREM HeaderBlocksRight ==
  ASSUME ~Pipelined
  PROVE  Spec => []HeadersFaithful
<1>1. CodecInv => HeadersFaithful
  BY AllRight DEF HeadersFaithful, BlockFirst
<1> QED
  BY <1>1, CodecInvariance, PTL

\* on_body cuts chunks wherever a read ends and encode_body writes what there
\* is of them, and yet every chunk that goes out is whole.
THEOREM ChunksWhole ==
  ASSUME ~Pipelined
  PROVE  Spec => []ChunksFramed
<1>1. CodecInv => ChunksFramed
  BY AllRight DEF ChunksFramed, InChunks
<1> QED
  BY <1>1, CodecInvariance, PTL

\* Between two reads nothing of a response is kept back.
THEOREM ResponsesStreamed ==
  ASSUME ~Pipelined
  PROVE  Spec => []Streamed
<1>1. CodecInv => Streamed
  BY DEF CodecInv
<1> QED
  BY <1>1, CodecInvariance, PTL

\* What on_url makes of a URL that comes in one read is the path of the request.
THEOREM UriRight ==
  ASSUME ~Pipelined
  PROVE  Spec => []UriKept
<1>1. CodecInv => UriKept
  <2> SUFFICES ASSUME CodecInv, Type = "request", out # << >>, Len(sent) + 1 \notin cut
               PROVE  IF Sending.connect THEN out[1].value = Sending.origin \o Sending.path
                      ELSE WellFormed(Sending) =>
                             out[1].value = IF Sending.path = << >> THEN <<"/">> ELSE Sending.path
    BY DEF UriKept
  <2>1. msg.headers_completed
    BY NewParts DEF CodecInv, Place
  <2>2. msg.message_completed \/ (Unread /\ at > 2 /\ ~msg.message_completed)
    <3> SUFFICES ASSUME ~msg.message_completed PROVE Unread /\ at > 2
      OBVIOUS
    <3>1. Unread
      BY <2>1 DEF CodecInv, Place
    <3>2. Reading \in HttpMessages /\ at \in 1..Len(Input) /\ Len(Input) \in Nat
      BY <3>1, Here DEF CodecInv, Typed, At
    <3>3. HeadersEnd(Reading) \in Nat /\ HeadersEnd(Reading) >= 3
      BY <3>2, HeadersEndIs
    <3>4. at > HeadersEnd(Reading)
      BY <2>1, <3>1 DEF CodecInv, Position
    <3> QED
      BY <3>1, <3>2, <3>3, <3>4
  <2>3. msg.first = origin_form(Sending.connect, Sending.origin \o Sending.path)
    BY <2>2 DEF CodecInv, Taken
  <2>4. out[1].value = msg.first
    BY DEF CodecInv, Output, Token
  <2>5. Sending \in HttpMessages
    <3>1. /\ number \in 1..(Len(Messages) + 1) /\ Len(sent) \in Nat /\ Len(Messages) \in Nat
          /\ \A k \in 1..Len(Messages) : Messages[k] \in HttpMessages
      BY StreamParts DEF CodecInv, Typed
    <3>2. (msg.message_completed /\ number = Len(sent) + 2) \/ (number = Len(sent) + 1 /\ number <= Len(Messages))
      BY <2>2 DEF CodecInv, Place, Unread
    <3>3. Len(sent) + 1 \in 1..Len(Messages)
      BY <3>1, <3>2
    <3> QED
      BY <3>1, <3>3 DEF Sending
  <2> QED
    BY <2>3, <2>4, <2>5, OriginFormPath
<1> QED
  BY <1>1, CodecInvariance, PTL

\* Nothing but a message without headers, or with no value for its last one,
\* fails the assertion of on_headers_complete.
THEOREM AssertionOfHeaders ==
  ASSUME ~Pipelined
  PROVE  Spec => []HeaderValueNotEmpty
<1>1. CodecInv => HeaderValueNotEmpty
  <2> SUFFICES ASSUME CodecInv, asserted
               PROVE  Sending.headers = << >> \/ Last(Sending.headers)[2] = << >>
    BY DEF HeaderValueNotEmpty
  <2>1. ~msg.message_completed /\ Unread
    BY DEF CodecInv, Place
  <2>2. Sending = Reading
    BY <2>1 DEF CodecInv, Place, Sending, Reading
  <2> QED
    BY <2>1, <2>2 DEF CodecInv, Position
<1> QED
  BY <1>1, CodecInvariance, PTL
=============================================================================
