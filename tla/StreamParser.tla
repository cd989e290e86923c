---------------------------- MODULE StreamParser ----------------------------
(***************************************************************************)
(* stream/parser.c: the body of UvA's answer arrives in chunks cut         *)
(* anywhere; complete lines are taken from a buffer one by one, and the    *)
(* text of each data line goes to the token callback.  What is left in the *)
(* buffer when the transfer ends is taken for a last line.                 *)
(*                                                                         *)
(* A line is abstracted to the prefix "data:", the text's characters and   *)
(* the end of the JSON object around them, without which a line does not   *)
(* parse.                                                                  *)
(***************************************************************************)
EXTENDS Integers, Sequences

CONSTANTS Data, Close, Newline  \* "data:", the end of the object, '\n'

VARIABLES
    buffer,     \* what has not been made a line yet
    over        \* whether stream_parser_finish has run

streamVars == <<buffer, over>>

\* process_line and process_sse_data: the text a line holds, or none
TextOf(line) ==
    IF Len(line) > 2 /\ line[1] = Data /\ line[Len(line)] = Close
      THEN SubSeq(line, 2, Len(line) - 1) ELSE <<>>

Newlines(s) == {i \in DOMAIN s : s[i] = Newline}

FirstLine ==
    SubSeq(buffer, 1,
           (CHOOSE i \in Newlines(buffer) : \A j \in Newlines(buffer) : i <= j) - 1)

StreamInit ==
    /\ buffer = <<>>
    /\ over = FALSE

\* stream_parser_feed, up to its loop
FeedChunk(chunk) ==
    /\ ~over /\ Newlines(buffer) = {}
    /\ buffer' = buffer \o chunk
    /\ UNCHANGED over

\* Mutant: a chunk holds one line at most
TakeLine_Only ==
    /\ Newlines(buffer) # {}
    /\ buffer' = <<>>
    /\ UNCHANGED over

\* one turn of the loop; the callback gets TextOf(FirstLine)
TakeLine ==
    /\ Newlines(buffer) # {}
    /\ buffer' = SubSeq(buffer, Len(FirstLine) + 2, Len(buffer))
    /\ UNCHANGED over

\* stream_parser_finish; the callback gets TextOf(buffer)
TakeRest ==
    /\ ~over /\ Newlines(buffer) = {}
    /\ buffer' = <<>>
    /\ over' = TRUE
==============================================================================
