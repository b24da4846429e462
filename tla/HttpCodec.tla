----------------------------- MODULE HttpCodec -----------------------------
(***************************************************************************)
(* http_decoder.cpp, http_encoder.cpp and the message between them, for    *)
(* one direction of a session: the bytes of a peer arrive in reads of any  *)
(* length, http_parser calls the decoder back, and what the message holds  *)
(* is encoded for the other peer when decode() returns.                    *)
(***************************************************************************)
EXTENDS Integers, Sequences, SequencesExt, FiniteSetsExt

CONSTANTS Characters, \* what texts are made of
          Streams,    \* the streams of requests or of responses a peer may send
          Pipelined   \* it sends a message before the last one is answered

\* A text is a sequence of characters.  A message has the parts of its URL, or
\* its status in origin, its headers, and its body as a sequence of chunks,
\* one if it is not chunked.
Text == Seq(Characters)
Pairs == Seq(Text \X Text)
HttpMessages ==
  [connect : BOOLEAN, origin : Text, path : Text, headers : Pairs,
   chunked : BOOLEAN, body : Seq(Text \ {<< >>}), trailers : Pairs]

ASSUME CodecAssumption ==
  /\ "/" \in Characters /\ Pipelined \in BOOLEAN
  /\ Streams \in Seq([type : {"request", "response"}, messages : Seq(HttpMessages)])

VARIABLES stream,    \* which of them the peer sends
          number,    \* the message the parser is in
          at,        \* the element of it the parser is in
          off,       \* how much of it the parser has passed on
          phase,     \* "idle", "begun" or "reading" in decode, "decoded", "encoded"
          decoder,   \* members of http_decoder
          msg,       \* members of http_message and its subclasses
          encoder,   \* state_ and body_encoded_
          out,       \* what has been encoded of this message
          sent,      \* what was encoded of the messages before it
          asserted,  \* an assertion of the decoder has failed
          cut        \* the messages whose first line came in several reads

vars == <<stream, number, at, off, cut, phase, decoder, msg, encoder, out, sent, asserted>>

-----------------------------------------------------------------------------
(* http_parser: the callbacks a message gives rise to.                      *)

Type == Streams[stream].type
Messages == Streams[stream].messages

Reading == Messages[number]

Element(call, text) == [call |-> call, text |-> text]
Fields(pairs) ==
  [i \in 1..(2 * Len(pairs)) |->
     IF i % 2 = 1 THEN Element("field", pairs[(i + 1) \div 2][1])
                  ELSE Element("value", pairs[i \div 2][2])]
Elements(m) ==
  << Element("begin", << >>), Element("first", m.origin \o m.path) >>
    \o Fields(m.headers) \o << Element("headers_complete", << >>) >>
    \o [i \in 1..Len(m.body) |-> Element("body", m.body[i])]
    \o Fields(m.trailers) \o << Element("message_complete", << >>) >>
Inputs ==
  [s \in DOMAIN Streams |-> [n \in DOMAIN Streams[s].messages |-> Elements(Streams[s].messages[n])]]
Input == Inputs[stream][number]

Unread == number <= Len(Messages)
Current == Input[at]
Calls(call) == phase \in {"begun", "reading"} /\ Unread /\ Current.call = call

\* The parser passes on what is left of the element, or the part of it that
\* ends the read.  If that part is all of a URL, status, field or value, the
\* end of the element is still to come, and is reported with no data.
Data(text) ==
  \/ /\ text = SubSeq(Current.text, off + 1, Len(Current.text))
     /\ at' = at + 1 /\ off' = 0 /\ phase' = "reading"
  \/ /\ \E n \in (off + 1)..Len(Current.text) :
          /\ Current.call = "body" => n < Len(Current.text)
          /\ text = SubSeq(Current.text, off + 1, n)
          /\ off' = n
     /\ phase' = "decoded"
     /\ UNCHANGED at

\* The part of the first line that comes, and whether it is all of it.
FirstLine(text) ==
  /\ Data(text)
  /\ cut' = IF text = Current.text /\ phase' = "reading" THEN cut ELSE cut \cup {number}

NoData == at' = at + 1 /\ phase' = "reading" /\ UNCHANGED off

-----------------------------------------------------------------------------
NewDecoder == [headers_completed |-> FALSE, message_completed |-> FALSE, chunked |-> FALSE,
               field |-> << >>, value |-> << >>]
NewMessage == [first |-> << >>, headers |-> [x \in {} |-> << >>], body |-> << >>,
               headers_completed |-> FALSE, message_completed |-> FALSE]
NewEncoder == [state |-> "BEGIN", body_encoded |-> 0]

Init ==
  /\ stream \in DOMAIN Streams /\ cut = {}
  /\ number = 1 /\ at = 1 /\ off = 0 /\ phase = "idle"
  /\ decoder = NewDecoder /\ msg = NewMessage /\ encoder = NewEncoder
  /\ out = << >> /\ sent = << >> /\ asserted = FALSE

\* on_read of the connection calls decode.
decode ==
  /\ phase = "idle" /\ Unread /\ ~asserted
  /\ phase' = "begun"
  /\ UNCHANGED <<stream, number, at, off, cut, decoder, msg, encoder, out, sent, asserted>>

on_message_begin ==
  /\ Calls("begin") /\ NoData
  /\ decoder' = NewDecoder
  /\ UNCHANGED <<stream, number, cut, msg, encoder, out, sent, asserted>>

Http == <<"http:", "/", "/">>

\* Mutant of origin_form: the '/' of "http://" is found.
origin_form_first(connect, uri) ==
  LET slash == {i \in DOMAIN uri : uri[i] = "/"}
  IN IF connect \/ (uri # << >> /\ uri[1] = "/") THEN uri
     ELSE IF slash = {} THEN <<"/">> ELSE SubSeq(uri, Min(slash), Len(uri))

\* What on_url makes of the URL it is given.
origin_form(connect, uri) ==
  LET from == IF IsPrefix(Http, uri) THEN Len(Http) ELSE 0
      slash == {i \in DOMAIN uri : i > from /\ uri[i] = "/"}
  IN IF connect \/ (uri # << >> /\ uri[1] = "/") THEN uri
     ELSE IF slash = {} THEN <<"/">> ELSE SubSeq(uri, Min(slash), Len(uri))

\* set_method and set_uri.
on_url ==
  /\ Type = "request" /\ Calls("first")
  /\ \E text \in {SubSeq(Current.text, off + 1, n) : n \in off..Len(Current.text)} :
       /\ FirstLine(text)
       /\ msg' = [msg EXCEPT !.first = origin_form(Reading.connect, text)]
  /\ UNCHANGED <<stream, number, decoder, encoder, out, sent, asserted>>

\* set_status and set_message.
on_status ==
  /\ Type = "response" /\ Calls("first")
  /\ \E text \in {SubSeq(Current.text, off + 1, n) : n \in off..Len(Current.text)} :
       /\ FirstLine(text)
       /\ msg' = [msg EXCEPT !.first = text]
  /\ UNCHANGED <<stream, number, decoder, encoder, out, sent, asserted>>

\* Mutant of add_header: the last value wins.
add_header_last(headers, name, value) ==
  [x \in DOMAIN headers \cup {name} |-> IF x = name THEN value ELSE headers[x]]

\* std::map::insert keeps the value that is there.
add_header(headers, name, value) ==
  [x \in DOMAIN headers \cup {name} |-> IF x \in DOMAIN headers THEN headers[x] ELSE value]

on_header_field ==
  /\ Calls("field")
  /\ \E text \in {SubSeq(Current.text, off + 1, n) : n \in off..Len(Current.text)} :
       /\ Data(text)
       /\ IF decoder.value # << >>
          THEN /\ msg' = [msg EXCEPT !.headers = add_header(@, decoder.field, decoder.value)]
               /\ decoder' = [decoder EXCEPT !.field = text, !.value = << >>]
          ELSE /\ decoder' = [decoder EXCEPT !.field = @ \o text]
               /\ UNCHANGED msg
  /\ UNCHANGED <<stream, number, cut, encoder, out, sent, asserted>>

\* Mutant of on_header_value: a second part replaces the first.
on_header_value_replaces ==
  /\ Calls("value")
  /\ \E text \in {SubSeq(Current.text, off + 1, n) : n \in off..Len(Current.text)} :
       /\ Data(text)
       /\ decoder' = [decoder EXCEPT !.value = text]
  /\ UNCHANGED <<stream, number, cut, msg, encoder, out, sent, asserted>>

on_header_value ==
  /\ Calls("value")
  /\ \E text \in {SubSeq(Current.text, off + 1, n) : n \in off..Len(Current.text)} :
       /\ Data(text)
       /\ decoder' = [decoder EXCEPT !.value = @ \o text]
  /\ UNCHANGED <<stream, number, cut, msg, encoder, out, sent, asserted>>

on_headers_complete ==
  /\ Calls("headers_complete") /\ NoData
  /\ \/ /\ decoder.value = << >>
        /\ asserted' = TRUE
        /\ UNCHANGED <<decoder, msg>>
     \/ /\ decoder.value # << >>
        /\ msg' = [msg EXCEPT !.headers = add_header(@, decoder.field, decoder.value),
                              !.headers_completed = TRUE]
        /\ decoder' = [decoder EXCEPT !.field = << >>, !.value = << >>, !.headers_completed = TRUE,
                                      !.chunked = @ \/ Reading.chunked]
        /\ UNCHANGED asserted
  /\ UNCHANGED <<stream, number, cut, encoder, out, sent>>

Token(kind, value) == [kind |-> kind, value |-> value]
BytesOf(text) == [i \in DOMAIN text |-> Token("byte", text[i])]

\* Mutant of framed: the length is that of the whole chunk.
framed_whole(text) ==
  << Token("size", Len(Current.text)) >> \o BytesOf(text) \o << Token("crlf", 0) >>

\* A part of a chunk becomes a chunk of its own.
framed(text) == << Token("size", Len(text)) >> \o BytesOf(text) \o << Token("crlf", 0) >>

on_body ==
  /\ Calls("body")
  /\ \E text \in {SubSeq(Current.text, off + 1, n) : n \in off..Len(Current.text)} :
       /\ Data(text)
       /\ msg' = [msg EXCEPT !.body = @ \o IF decoder.chunked THEN framed(text) ELSE BytesOf(text)]
  /\ UNCHANGED <<stream, number, cut, decoder, encoder, out, sent, asserted>>

\* Unless the peer pipelines, the read ends with the message.
on_message_complete ==
  /\ Calls("message_complete") /\ number' = number + 1 /\ at' = 1
  /\ msg' = [msg EXCEPT !.message_completed = TRUE,
                        !.body = @ \o IF decoder.chunked THEN << Token("end", 0) >> ELSE << >>]
  /\ decoder' = [decoder EXCEPT !.message_completed = TRUE]
  /\ phase' = IF Pipelined THEN "reading" ELSE "decoded"
  /\ UNCHANGED <<stream, off, cut, encoder, out, sent, asserted>>

\* The bytes of the read end.  A message whose end needs no byte of its own
\* completes in the read that brings its last byte.
decoded ==
  /\ phase = "reading"
  /\ Unread /\ Current.call = "message_complete" => Reading.chunked
  /\ phase' = "decoded"
  /\ UNCHANGED <<stream, number, at, off, cut, decoder, msg, encoder, out, sent, asserted>>

-----------------------------------------------------------------------------
\* encode_first_line, encode_headers: what they write and when.
first_line == IF encoder.state = "BEGIN" THEN << Token("first", msg.first) >> ELSE << >>
header_block ==
  IF encoder.state \in {"BEGIN", "FIRST_LINE"} THEN << Token("headers", msg.headers) >> ELSE << >>

\* Mutant of body_rest: body_encoded_ is not used.
body_rest_all == msg.body

\* encode_body: what has not been written yet.
body_rest == SubSeq(msg.body, encoder.body_encoded + 1, Len(msg.body))

\* Mutant of encode: an incomplete response is kept back.
encode_complete ==
  /\ phase = "decoded" /\ ~asserted
  /\ IF msg.headers_completed /\ msg.message_completed
     THEN /\ out' = out \o first_line \o header_block \o body_rest
          /\ encoder' = [state |-> "END", body_encoded |-> Len(msg.body)]
     ELSE UNCHANGED <<out, encoder>>
  /\ phase' = IF msg.message_completed THEN "encoded" ELSE "idle"
  /\ UNCHANGED <<stream, number, at, off, cut, decoder, msg, sent, asserted>>

\* Mutant of encode: a message that is complete is not written if it has no body.
encode_bodies ==
  /\ phase = "decoded" /\ ~asserted
  /\ IF (Type = "response" \/ msg.message_completed) /\ msg.headers_completed /\ encoder.state # "END"
        /\ (msg.message_completed => msg.body # << >>)
     THEN /\ out' = out \o first_line \o header_block \o body_rest
          /\ encoder' = [state |-> IF msg.message_completed THEN "END" ELSE "BODY",
                         body_encoded |-> Len(msg.body)]
     ELSE UNCHANGED <<out, encoder>>
  /\ phase' = IF ~msg.message_completed THEN "idle" ELSE IF encoder'.state = "END" THEN "encoded" ELSE phase
  /\ UNCHANGED <<stream, number, at, off, cut, decoder, msg, sent, asserted>>

\* decode has returned: the message is encoded if it is deliverable, a request
\* when it is complete, a response at once; else the connection reads on.
encode ==
  /\ phase = "decoded" /\ ~asserted
  /\ IF (Type = "response" \/ msg.message_completed) /\ msg.headers_completed /\ encoder.state # "END"
     THEN /\ out' = out \o first_line \o header_block \o body_rest
          /\ encoder' = [state |-> IF msg.message_completed THEN "END" ELSE "BODY",
                         body_encoded |-> Len(msg.body)]
     ELSE UNCHANGED <<out, encoder>>
  /\ phase' = IF msg.message_completed THEN "encoded" ELSE "idle"
  /\ UNCHANGED <<stream, number, at, off, cut, decoder, msg, sent, asserted>>

\* Mutant of reset: the encoder keeps its position.
reset_encoder_kept ==
  /\ phase = "encoded" /\ phase' = "idle"
  /\ decoder' = NewDecoder /\ msg' = NewMessage
  /\ sent' = Append(sent, out) /\ out' = << >>
  /\ UNCHANGED <<stream, number, at, off, cut, encoder, asserted>>

\* The exchange is over: reset() of the decoder, the encoder and the message.
reset ==
  /\ phase = "encoded" /\ phase' = "idle"
  /\ decoder' = NewDecoder /\ msg' = NewMessage /\ encoder' = NewEncoder
  /\ sent' = Append(sent, out) /\ out' = << >>
  /\ UNCHANGED <<stream, number, at, off, cut, asserted>>

\* Everything has been passed on, or the process has ended.
Done == (asserted \/ (phase = "idle" /\ ~Unread)) /\ UNCHANGED vars

Callback ==
  /\ ~asserted
  /\ \/ on_message_begin \/ on_url \/ on_status \/ on_header_field \/ on_header_value
     \/ on_headers_complete \/ on_body \/ on_message_complete \/ decoded

Step == decode \/ Callback \/ encode \/ reset
Next == Step \/ Done

\* The process runs while there is something to do, and peers send what they
\* have begun to send.
Spec == Init /\ [][Next]_vars /\ WF_vars(Step)

-----------------------------------------------------------------------------
TypeOK ==
  /\ number \in 1..(Len(Messages) + 1)
  /\ Unread => at \in 1..Len(Input) /\ off \in 0..Len(Current.text)
  /\ phase \in {"idle", "begun", "reading", "decoded", "encoded"}
  /\ encoder.state \in {"BEGIN", "FIRST_LINE", "HEADERS", "BODY", "END"}
  /\ encoder.body_encoded \in 0..Len(msg.body)
  /\ Len(sent) <= Len(Messages)

\* The message that is being passed on, and what was written of each one.
Sending == Messages[Len(sent) + 1]
Written(k) == IF k <= Len(sent) THEN sent[k] ELSE out

Select(tokens, kind) == SelectSeq(tokens, LAMBDA t : t.kind = kind)
Values(tokens) == [i \in DOMAIN tokens |-> tokens[i].value]

\* A header block has the value that each header had first.
Names(pairs) == {pairs[i][1] : i \in DOMAIN pairs}
FirstValues(block, pairs) ==
  \A i \in DOMAIN pairs :
    (\A j \in 1..(i - 1) : pairs[j][1] # pairs[i][1]) =>
      pairs[i][1] \in DOMAIN block /\ block[pairs[i][1]] = pairs[i][2]

\* The decoder cannot deal with a header that has no value.
Valued(pairs) == \A i \in DOMAIN pairs : pairs[i][2] # << >>

\* The first value of every header and nothing else, but for a message with
\* several trailers: the name of the second makes on_header_field add the
\* first to the headers.
HeaderBlock(block, m) ==
  /\ FirstValues(block, m.headers)
  /\ Len(m.trailers) <= 1 => DOMAIN block = Names(m.headers)

\* A header block is written once, before any of the body, and has the first
\* value of every header of that message, however the reads split names and
\* values.
HeadersFaithful ==
  \A k \in 1..(Len(sent) + 1) :
    LET o == Written(k)
    IN o # << >> /\ Valued(Messages[k].headers) =>
         /\ o[1].kind = "first" /\ HeaderBlock(o[2].value, Messages[k])
         /\ \A i \in DOMAIN o : o[i].kind = "headers" <=> i = 2

\* A chunked body is always written as whole chunks of the stated length,
\* although the decoder cuts chunks wherever a read ends.
Framed(tokens) ==
  /\ tokens # << >> => tokens[1].kind \in {"size", "end"}
  /\ \A i \in DOMAIN tokens : tokens[i].kind = "size" =>
       LET j == i + tokens[i].value + 1
       IN /\ j <= Len(tokens)
          /\ \A l \in (i + 1)..(j - 1) : tokens[l].kind = "byte"
          /\ tokens[j].kind = "crlf"
          /\ j < Len(tokens) => tokens[j + 1].kind \in {"size", "end"}
ChunksFramed ==
  \A k \in 1..(Len(sent) + 1) :
    LET o == Written(k) IN o # << >> /\ Messages[k].chunked => Framed(SubSeq(o, 3, Len(o)))

\* The bytes of the body pass in order and none twice, and a message that the
\* codec is reset after has passed whole, with the end of its chunks.
BodyFaithful ==
  /\ out # << >> => IsPrefix(Values(Select(out, "byte")), FlattenSeq(Sending.body))
  /\ \A k \in DOMAIN sent :
       /\ Values(Select(sent[k], "byte")) = FlattenSeq(Messages[k].body)
       /\ Select(sent[k], "end") = IF Messages[k].chunked THEN << Token("end", 0) >> ELSE << >>

\* A response is streamed: between two reads nothing that was decoded of it is
\* kept back.
Streamed ==
  Type = "response" /\ phase = "idle" /\ msg.headers_completed =>
    encoder.body_encoded = Len(msg.body) /\ out # << >>

\* A URL is a path, or "http://" and an authority before it.
WellFormed(m) ==
  /\ m.origin # << >> => IsPrefix(Http, m.origin) /\ \A i \in DOMAIN m.origin : m.origin[i] = "/" => i <= Len(Http)
  /\ m.path # << >> => m.path[1] = "/"

\* The URI that goes to the server is the path of the request, "/" if it has
\* none, and that of a CONNECT is unchanged, if the URL comes in one read.
UriKept ==
  Type = "request" /\ out # << >> /\ Len(sent) + 1 \notin cut =>
    LET m == Sending
    IN IF m.connect THEN out[1].value = m.origin \o m.path
       ELSE WellFormed(m) => out[1].value = IF m.path = << >> THEN <<"/">> ELSE m.path

\* "current_header_value_ MUST NOT be empty": nothing but a message whose last
\* header has no value, or that has no header, fails this assertion, wherever
\* reads end and whatever came before.
HeaderValueNotEmpty ==
  asserted => LET pairs == Sending.headers IN pairs = << >> \/ Last(pairs)[2] = << >>

\* Everything the peer sends is passed on in the end, message by message, if
\* the decoder can deal with it.
AllSent == <>(Len(sent) = Len(Messages) \/ asserted)
=============================================================================
