----------------------------- MODULE ChatStream -----------------------------
(***************************************************************************)
(* A streamed chat completion: curl hands UvA's answer to StreamParser     *)
(* chunk by chunk, whose callback (on_token) feeds ThinkParser, whose      *)
(* callback (on_think_emit) sends the client a piece.  The transfer may    *)
(* end anywhere, complete or not; then both parsers are finished, first    *)
(* the one, then the other.                                                *)
(***************************************************************************)
EXTENDS ThinkParser, StreamParser, SequencesExt

CONSTANT Body   \* answers UvA sends

VARIABLES
    body,       \* the answer on the wire
    arrived     \* how much of it curl has handed over

vars == <<thinkVars, streamVars, body, arrived>>

ChatInit ==
    /\ Init /\ StreamInit
    /\ body \in Body
    /\ arrived = 0

\* on_token, which process_sse_data calls for texts that are not empty
OnToken(t) == IF t = <<>> THEN UNCHANGED thinkVars ELSE Feed(t)

Receive ==
    /\ Idle
    /\ \E n \in 1..(Len(body) - arrived) :
        /\ FeedChunk(SubSeq(body, arrived + 1, arrived + n))
        /\ arrived' = arrived + n
    /\ UNCHANGED <<thinkVars, body>>

Line ==
    /\ Idle
    /\ TakeLine
    /\ OnToken(TextOf(FirstLine))
    /\ UNCHANGED <<body, arrived>>

EndTransfer ==
    /\ Idle
    /\ OnToken(TextOf(buffer))
    /\ TakeRest
    /\ UNCHANGED <<body, arrived>>

FinishThink == over /\ Finish /\ UNCHANGED <<streamVars, body, arrived>>

ChatNext ==
    \/ Receive \/ Line \/ EndTransfer \/ FinishThink
    \/ Look /\ UNCHANGED <<streamVars, body, arrived>>

ChatSpec == ChatInit /\ [][ChatNext]_vars

(***************************************************************************)
(* What the properties compare with                                        *)
(***************************************************************************)

\* The line a position is in: it starts after From and ends before To
From(i) == IF \E j \in 1..(i - 1) : body[j] = Newline
             THEN CHOOSE j \in 1..(i - 1) :
                    body[j] = Newline /\ \A k \in (j + 1)..(i - 1) : body[k] # Newline
             ELSE 0

To(i) == IF \E j \in (i + 1)..arrived : body[j] = Newline
           THEN CHOOSE j \in (i + 1)..arrived :
                  body[j] = Newline /\ \A k \in (i + 1)..(j - 1) : body[k] # Newline
           ELSE arrived + 1

Arrived(i) ==
    /\ body[i] \notin {Data, Close, Newline}
    /\ body[From(i) + 1] = Data /\ body[To(i) - 1] = Close
    /\ To(i) <= arrived \/ over

\* The texts of the data lines that have arrived, in order; a last line without
\* its newline counts once the transfer has ended, if it is whole
ArrivedText ==
    FlattenSeq([i \in 1..arrived |-> IF Arrived(i) THEN <<body[i]>> ELSE <<>>])
==============================================================================
