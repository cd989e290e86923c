--------------------------- MODULE ResponseStream ---------------------------
(***************************************************************************)
(* What a client of POST /v1/responses is sent while and after UvA's       *)
(* answer comes in: the other use of StreamParser.  Text is passed on as   *)
(* it comes (handler.c); an answer that may hold tool calls is collected,  *)
(* parsed, asked for once more if it holds none (route_tools.c), and sent  *)
(* as a whole (route_helpers.c).  Each event goes through a buffer of      *)
(* fixed size (emitter.c).                                                 *)
(*                                                                         *)
(* The wire is ChatStream's; an answer is read for the one or the other.   *)
(***************************************************************************)
EXTENDS ChatStream, ToolCalls

CONSTANTS
    TextBody, ToolBody, \* answers UvA sends to requests without and with tools
    LineCap     \* the text that fits into the buffer of resp_send_sse_event

\* An answer of the texts of S: on a line, only text is between "data:" and the
\* end of the object
WireOf(S) ==
    {b \in Seq(S \cup {Data, Close, Newline}) :
        \A i \in DOMAIN b : b[i] = Data =>
            \A j \in (i + 1)..Len(b) :
                b[j] = Close /\ (\A k \in i..j : b[k] # Newline) =>
                    \A k \in (i + 1)..(j - 1) : b[k] \in S}

ASSUME WireAssumption ==
    /\ Data # Close /\ Close # Newline /\ Newline # Data
    /\ {Data, Close, Newline} \cap (Char \cup Token) = {}
    /\ Body \cup TextBody \subseteq WireOf(Char) /\ ToolBody \subseteq WireOf(Token)
    /\ LineCap \in Nat

VARIABLES
    api,        \* "chat", "text", or "tools"
    stream,     \* the request asks for a stream
    stage,      \* "call", "parse", "reply", or over: "replied", "failed"
    accum,      \* what the token callbacks of the first call have collected
    original,   \* original_text
    asked,      \* resp_continuation_check has called UvA again
    events      \* what the client has been sent

respVars == <<api, stream, stage, accum, original, asked, events>>
allVars == <<vars, toolVars, respVars>>

EventType ==
    {"created", "item_added", "part_added", "delta", "text_done", "part_done", "item_done",
     "args_delta", "args_done", "completed", "called", "garbled"}

RespTypeOK ==
    /\ TypeOK /\ ToolTypeOK
    /\ api \in {"chat", "text", "tools"} /\ stream \in BOOLEAN /\ asked \in BOOLEAN
    /\ stage \in {"call", "parse", "reply", "replied", "failed"}
    /\ stage = "parse" => api = "tools"
    /\ \A i \in DOMAIN events : events[i].type \in EventType

RespInit ==
    /\ Init /\ StreamInit /\ ToolInit
    /\ arrived = 0
    /\ \/ api = "chat" /\ stream = TRUE /\ body \in Body
       \/ api = "text" /\ stream \in BOOLEAN /\ body \in TextBody
       \/ api = "tools" /\ stream \in BOOLEAN /\ body \in ToolBody
    /\ stage = "call" /\ accum = <<>> /\ original = <<>> /\ asked = FALSE /\ events = <<>>

-----------------------------------------------------------------------------
(* Events *)

Event(type, what) == [type |-> type, what |-> what]

\* resp_send_sse_event: of a text that is too long the buffer is sent, and
\* whatever is behind it
Sent(evs) ==
    [i \in DOMAIN evs |-> IF Len(evs[i].what) > LineCap THEN Event("garbled", <<>>) ELSE evs[i]]

\* What an item is about is a text, or <<n>> for the call that starts at n
Added == <<Event("created", <<>>), Event("item_added", <<>>), Event("part_added", <<>>)>>
TextDone(t) == <<Event("text_done", t), Event("part_done", t), Event("item_done", t)>>
CallDone(c) == <<Event("item_added", <<c>>), Event("args_delta", <<c>>),
                 Event("args_done", <<c>>), Event("item_done", <<c>>)>>

\* resp_emit_completed and resp_build_nonstream_response
Completed(t, cs) == IF cs = <<>> THEN Event("completed", t) ELSE Event("called", cs)

\* resp_emit_result_sse, but for the last event
ResultEvents(t, cs) ==
    IF cs = <<>> THEN Added \o TextDone(t)
    ELSE <<Added[1]>> \o FlattenSeq([i \in DOMAIN cs |-> CallDone(cs[i])])

-----------------------------------------------------------------------------
(* The call *)

\* on_text_token and resp_on_buffer_token; the first token opens the item
OnRespToken(t) ==
    /\ accum' = accum \o t
    /\ events' = IF t = <<>> \/ api = "tools" \/ ~stream THEN events
                 ELSE (IF accum = <<>> THEN Added ELSE events) \o Sent(<<Event("delta", t)>>)

RespReceive ==
    /\ stage = "call" /\ Receive
    /\ UNCHANGED <<toolVars, respVars>>

RespLine ==
    /\ stage = "call" /\ TakeLine
    /\ OnRespToken(TextOf(FirstLine))
    /\ UNCHANGED <<body, arrived, api, stream, stage, original, asked, toolVars>>

\* The end of the transfer.  Failed (no answer, or 5xx) means 502, or a stream
\* that just ends; what comes with a 3xx or 4xx is taken for the answer
RespEnd ==
    /\ stage = "call" /\ TakeRest
    /\ OnRespToken(TextOf(buffer))
    /\ \/ stage' = "failed" /\ UNCHANGED toolVars
       \/ api = "text" /\ stage' = "reply" /\ UNCHANGED toolVars
       \/ api = "tools" /\ stage' = "parse" /\ TryParse(accum')
    /\ UNCHANGED <<body, arrived, api, stream, original, asked>>

RespScan ==
    /\ stage = "parse" /\ Scan
    /\ UNCHANGED <<streamVars, body, arrived, respVars>>

\* resp_continuation_check: a second call, which brings an answer or fails
AskAgain ==
    /\ stage = "parse" /\ scan = "done" /\ calls = <<>> /\ ~asked
    /\ asked' = TRUE /\ original' = rest
    /\ \/ \E t \in Answer : TryParse(t) /\ UNCHANGED stage
       \/ stage' = "reply" /\ UNCHANGED toolVars
    /\ UNCHANGED <<streamVars, body, arrived, api, stream, accum, events>>

\* Mutant: the text of the second answer stays
Parsed_NoRestore ==
    /\ stage = "parse" /\ scan = "done" /\ (calls # <<>> \/ asked)
    /\ stage' = "reply"
    /\ UNCHANGED <<toolVars, streamVars, body, arrived, api, stream, accum, original, asked, events>>

\* There are calls, or none in the second answer either: its text is dropped
\* for that of the first
Parsed ==
    /\ stage = "parse" /\ scan = "done" /\ (calls # <<>> \/ asked)
    /\ stage' = "reply"
    /\ rest' = IF calls = <<>> THEN original ELSE rest
    /\ UNCHANGED <<fullText, scan, p, calls, beat, streamVars, body, arrived,
                   api, stream, accum, original, asked, events>>

\* The end of handle_responses: what is still to be sent of a stream, or the
\* whole.  A streamed text without tokens has no item
Reply ==
    /\ stage = "reply" /\ stage' = "replied"
    /\ LET t == IF api = "text" THEN accum ELSE rest
           before == IF api = "tools" THEN ResultEvents(t, calls)
                     ELSE IF t = <<>> THEN <<>> ELSE TextDone(t)
           last == <<Completed(t, calls)>>
       IN  events' = IF stream THEN events \o Sent(before \o last) ELSE last
    /\ UNCHANGED <<toolVars, streamVars, body, arrived, api, stream, accum, original, asked>>

Respond == RespReceive \/ RespLine \/ RespEnd \/ RespScan \/ AskAgain \/ Parsed \/ Reply

RespNext ==
    \/ api = "chat" /\ ChatNext /\ UNCHANGED <<toolVars, respVars>>
    \/ api # "chat" /\ Respond /\ UNCHANGED thinkVars

RespSpec == RespInit /\ [][RespNext]_allVars

-----------------------------------------------------------------------------
(* Properties *)

\* Wherever the network cut the answer, what has been fed on are the texts of
\* the data lines that have arrived, in order, whoever reads them
CutAnywhere ==
    Idle /\ Newlines(buffer) = {} =>
        ArrivedText = IF api = "chat" THEN text ELSE accum

\* What the events of a type say, together
Told(evs, type) ==
    FlattenSeq([i \in DOMAIN evs |-> IF evs[i].type = type THEN evs[i].what ELSE <<>>])

\* The client is told the calls that were found, or else the text of the first
\* answer; in a stream, what it has been told bit by bit adds up to that.
\* Excluded are texts that do not fit into an event, and the stream without a
\* token, whose item is never added
ReplyAddsUp ==
    stage = "replied" /\ (stream => Len(accum) <= LineCap /\ Len(calls) <= LineCap) =>
        /\ events[Len(events)] =
             IF calls # <<>> THEN Event("called", calls) ELSE Event("completed", accum)
        /\ stream /\ calls # <<>> =>
             \A type \in {"item_added", "args_delta", "args_done", "item_done"} :
                Told(events, type) = calls
        /\ stream /\ calls = <<>> =>
             \A type \in {"text_done", "part_done", "item_done"} : Told(events, type) = accum
        /\ stream /\ api = "text" => Told(events, "delta") = accum
=============================================================================
