---------------------------- MODULE MCHttpCodec ----------------------------
(* Messages for HttpCodec: a text is a sequence of characters.              *)
EXTENDS HttpCodec

Message(origin, path, headers, chunked, body, trailers) ==
  [connect |-> FALSE, origin |-> origin, path |-> path, headers |-> headers,
   chunked |-> chunked, body |-> body, trailers |-> trailers]

Host == << <<"H">>, <<"h">> >>
Long == << <<"L", "o">>, <<"v", "w">> >>
Again == << <<"H">>, <<"i">> >>
Empty == << <<"E">>, << >> >>
Trailer == << <<"T">>, <<"t">> >>
Extra == << <<"X">>, <<"x">> >>

\* A response with a header twice, in chunks and with a trailer; then one
\* with a body that is not in chunks, and one without a body.
Responses ==
  << Message(<<"O", "K">>, << >>, <<Host, Long, Again>>, TRUE, << <<"a", "b", "c">>, <<"d", "e">> >>, <<Trailer>>),
     Message(<<"O", "K">>, << >>, <<Long, Host>>, FALSE, << <<"f", "g", "h", "i">> >>, << >>),
     Message(<<"N", "o">>, << >>, <<Long>>, FALSE, << >>, << >>) >>

\* A request with a body, a CONNECT, and requests for "/", with two trailers,
\* and for a path.
Requests ==
  << Message(Http \o <<"h">>, <<"/", "r">>, <<Host, Long>>, FALSE, << <<"a", "b">> >>, << >>),
     [Message(<<"h", ":p">>, << >>, <<Host>>, FALSE, << >>, << >>) EXCEPT !.connect = TRUE],
     Message(Http \o <<"h">>, << >>, <<Host>>, TRUE, << <<"a", "b">> >>, <<Trailer, Extra>>),
     Message(<< >>, <<"/", "r">>, <<Host>>, FALSE, << >>, << >>) >>

\* Headers without a value in the middle, and at the end, and none at all.
Valueless ==
  << Message(<<"O", "K">>, << >>, <<Long, Host>>, FALSE, << >>, << >>),
     Message(<<"O", "K">>, << >>, <<Empty, Host>>, TRUE, << <<"a">> >>, << >>),
     Message(<<"O", "K">>, << >>, <<Host, Empty>>, FALSE, << >>, << >>) >>
Headless == << Responses[3], Message(<<"O", "K">>, << >>, << >>, FALSE, << <<"a">> >>, << >>) >>

MCCharacters ==
  {"http:", "/", ":p", "h", "r", "H", "L", "o", "v", "w", "i", "E", "T", "t", "X", "x", "O", "K", "N",
   "a", "b", "c", "d", "e", "f", "g"}

Stream(type, messages) == [type |-> type, messages |-> messages]
MCStreams ==
  << Stream("request", Requests), Stream("response", Responses),
     Stream("response", Valueless), Stream("response", Headless) >>
=============================================================================
