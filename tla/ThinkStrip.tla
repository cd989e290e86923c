----------------------------- MODULE ThinkStrip -----------------------------
(***************************************************************************)
(* think_strip: the loop that splits a whole answer into content and the   *)
(* reasoning between <think> and </think>, as non-streaming clients get    *)
(* it.  It is stated for a text that is still growing: a character may be  *)
(* taken as soon as it is certain that no tag starts at it.  The two       *)
(* output strings are kept as one, each character marked with the one it   *)
(* belongs to.                                                             *)
(***************************************************************************)
EXTENDS Integers, Sequences

CONSTANTS
    OpenTag, CloseTag   \* OPEN_TAG and CLOSE_TAG

VARIABLES
    text,       \* the answer so far
    ended,      \* whether that is all of it
    pos,        \* characters the loop is past
    inThink,    \* in_think
    output      \* content and reasoning

vars == <<text, ended, pos, inThink, output>>

Tag == IF inThink THEN CloseTag ELSE OpenTag

\* strncmp(p, tag, strlen(tag)) == 0, and when it is certain not to be
TagHere ==
    /\ pos + Len(Tag) <= Len(text)
    /\ \A i \in 1..Len(Tag) : text[pos + i] = Tag[i]

NoTagHere ==
    \/ \E i \in 1..Len(Tag) : pos + i <= Len(text) /\ text[pos + i] # Tag[i]
    \/ ended /\ pos + Len(Tag) > Len(text)

Init ==
    /\ text = <<>>
    /\ ended = FALSE
    /\ pos = 0
    /\ inThink = FALSE
    /\ output = <<>>

Grow ==
    /\ ~ended
    /\ Len(text') >= Len(text)
    /\ \A i \in DOMAIN text : text'[i] = text[i]
    /\ UNCHANGED <<ended, pos, inThink, output>>

End ==
    /\ ended' = TRUE
    /\ UNCHANGED <<text, pos, inThink, output>>

SkipTag ==
    /\ TagHere
    /\ pos' = pos + Len(Tag)
    /\ inThink' = ~inThink
    /\ UNCHANGED <<text, ended, output>>

CopyChar ==
    /\ pos < Len(text)
    /\ NoTagHere
    /\ pos' = pos + 1
    /\ output' = Append(output, [char |-> text[pos + 1], reasoning |-> inThink])
    /\ UNCHANGED <<text, ended, inThink>>

Next == Grow \/ End \/ SkipTag \/ CopyChar

Spec == Init /\ [][Next]_vars
==============================================================================
