----------------------------- MODULE HttpClient -----------------------------
(***************************************************************************)
(* httpGet and httpPost of the ESP32 port (core/husarnet/ports/esp32/      *)
(* port.cpp) with the HTTPMessage they use (core/husarnet/http.cpp): one   *)
(* request, one recv(), and a parser that knows where the answer ends only *)
(* from its Content-Length header.  One HTTPMessage is first the request   *)
(* and then the response: the Content-Length that encode() adds to a POST  *)
(* is still among its headers when the answer is parsed.                   *)
(*                                                                         *)
(* The server is the environment: its answer comes in segments cut         *)
(* anywhere, or stops half way.  Text is a sequence of tokens: a start     *)
(* line, a header line, CR, LF and the characters of a body.  An answer is *)
(* assumed to fit in the 2048 bytes HTTPMessage reserves: beyond them      *)
(* parse() goes on with an iterator of the old buffer, which is undefined. *)
(***************************************************************************)
EXTENDS Naturals, Sequences, FiniteSetsExt

CONSTANTS
    Status,      \* of the answers: statuses,
    BodyLength,  \* lengths of bodies,
    Undeclared,  \* and what stands for no Content-Length
    PostLength,  \* the length of the body of a POST
    MaxCalls     \* bound: calls of httpGet and httpPost

VARIABLES
    client,      \* what the caller of httpGet or httpPost is at
    headers,     \* the Content-Length of message.headers, or Undeclared
    result,      \* what the last call returned
    response,    \* the answer the server has chosen
    unsent,      \* of it: still to be sent
    wire,        \* of it: sent, not received
    calls

httpVars == <<client, headers, result, response, unsent, wire, calls>>

-----------------------------------------------------------------------------
Token(kind, value) == [kind |-> kind, value |-> value]
EOL == <<Token("CR", 0), Token("LF", 0)>>

\* Answers: a status, the length declared (or Undeclared), another header or none, a body.
Body(n) == [i \in 1..n |-> Token("char", i)]
Response ==
    {[status |-> s, length |-> l, other |-> o, body |-> Body(n)] :
        s \in Status, l \in BodyLength \cup {Undeclared}, o \in BOOLEAN, n \in BodyLength}
Honest == {r \in Response : r.length \in {Len(r.body), Undeclared}}

LineOf(present, token) == IF present THEN <<token>> \o EOL ELSE <<>>
Encoded(r) ==
    <<Token("start", r.status)>> \o EOL
    \o LineOf(r.other, Token("header", 0))
    \o LineOf(r.length # Undeclared, Token("Content-Length", r.length))
    \o EOL \o r.body

-----------------------------------------------------------------------------
(***************************************************************************)
(* HTTPMessage::parse of one chunk: start line, headers, body, each        *)
(* "OK", "INCOMPLETE" or "INVALID".                                        *)
(***************************************************************************)
Matches(text, pattern) ==
    {i \in 1..(Len(text) - Len(pattern) + 1) : SubSeq(text, i, i + Len(pattern) - 1) = pattern}
From(text, i) == SubSeq(text, i, Len(text))

\* _parseStartLine: the text after the start line, if that is whole.
parseStartLine(text) ==
    IF Matches(text, EOL) = {} THEN [result |-> "INCOMPLETE"]
    ELSE IF text[1].kind # "start" THEN [result |-> "INVALID"]
    ELSE [result |-> "OK", status |-> text[1].value, rest |-> From(text, Min(Matches(text, EOL)) + 2)]

\* _parseHeader: the separator is looked for after the end of the start line, so
\* that an answer without headers is never complete.
parseHeader(text, known) ==
    IF Matches(text, EOL \o EOL) = {} THEN [result |-> "INCOMPLETE"]
    ELSE LET sep == Min(Matches(text, EOL \o EOL))
             declared == {i \in 1..(sep - 1) : text[i].kind = "Content-Length"} IN
         [result |-> "OK",
          length |-> IF declared = {} THEN known ELSE text[Max(declared)].value,
          rest |-> From(text, sep + 4)]

parseBodyUnchecked(text, length) ==  \* wrong on purpose: what has come of the body is the body
    [result |-> "OK", body |-> IF length = Undeclared THEN <<>> ELSE SubSeq(text, 1, Min({length, Len(text)}))]
parseBody(text, length) ==
    IF length = Undeclared THEN [result |-> "OK", body |-> <<>>]
    ELSE IF Len(text) < length THEN [result |-> "INCOMPLETE"]
    ELSE [result |-> "OK", body |-> SubSeq(text, 1, length)]

Failure == [status |-> 0, body |-> <<>>]  \* {-1, ""}

\* What httpSendRecv makes of the chunk it received.
Parsed(chunk) ==
    LET start == parseStartLine(chunk) IN
    IF start.result # "OK" THEN Failure
    ELSE LET head == parseHeader(start.rest, headers) IN
      IF head.result # "OK" THEN Failure
      ELSE LET body == parseBody(head.rest, head.length) IN
        IF body.result # "OK" THEN Failure
        ELSE [status |-> start.status, body |-> body.body]

-----------------------------------------------------------------------------
HttpInit ==
    /\ client = "idle" /\ headers = Undeclared /\ result = Failure
    /\ response = CHOOSE r \in Honest : TRUE
    /\ unsent = <<>> /\ wire = <<>> /\ calls = 0

Return(r) == client' = "idle" /\ result' = r

\* A new HTTPMessage; encode() gives a message with a body its Content-Length.
call(length) ==
    /\ client = "idle" /\ calls < MaxCalls
    /\ calls' = calls + 1
    /\ headers' = length
    /\ client' = "connect"
    /\ UNCHANGED <<result, response, unsent, wire>>
httpGet == call(Undeclared)
httpPost == call(PostLength)

\* The host cannot be resolved, or connectUnmanagedTcpSocket or send() fails.
connectFails ==
    /\ client = "connect"
    /\ Return(Failure)
    /\ UNCHANGED <<headers, response, unsent, wire, calls>>

\* The request is sent whole; the server decides on its answer.
sendRequest ==
    /\ client = "connect"
    /\ client' = "recv"
    /\ response' \in Honest
    /\ unsent' = Encoded(response') /\ wire' = <<>>
    /\ UNCHANGED <<headers, result, calls>>

\* One recv(), whatever it brings; the socket is closed and the chunk parsed.
recvAnswer ==
    /\ client = "recv" /\ wire # <<>>
    /\ Return(Parsed(wire))
    /\ unsent' = <<>> /\ wire' = <<>>
    /\ UNCHANGED <<headers, response, calls>>

recvFails ==
    /\ client = "recv" /\ wire = <<>> /\ unsent = <<>>
    /\ Return(Failure)
    /\ UNCHANGED <<headers, response, unsent, wire, calls>>

\* The server: a segment more of its answer, or the end of the connection.
ServerSends ==
    /\ client = "recv" /\ unsent # <<>>
    /\ \E n \in 1..Len(unsent) :
         /\ wire' = wire \o SubSeq(unsent, 1, n)
         /\ unsent' = From(unsent, n + 1)
    /\ UNCHANGED <<client, headers, result, response, calls>>

ServerCloses ==
    /\ client = "recv" /\ unsent # <<>>
    /\ unsent' = <<>>
    /\ UNCHANGED <<client, headers, result, response, wire, calls>>

HttpNext ==
    \/ httpGet \/ httpPost \/ connectFails \/ sendRequest
    \/ recvAnswer \/ recvFails
    \/ ServerSends \/ ServerCloses

-----------------------------------------------------------------------------
\* An answer whose length is declared is returned whole or not at all, wherever it
\* was cut into segments or broken off: the caller (the configuration manager)
\* never takes the beginning of a document for the document.
WholeAnswer ==
    client = "idle" /\ result # Failure =>
        /\ result.status = response.status
        /\ response.length # Undeclared => result.body = response.body
=============================================================================
