----------------------------- MODULE ToolCalls ------------------------------
(***************************************************************************)
(* resp_try_parse_tools: the tool calls in a model's answer.  First the    *)
(* <tool_call> and <function_call> blocks are gone through                 *)
(* (tool_parse.c); if there are calls in them all blocks are taken out of  *)
(* the text (tool_strip.c), and if there are none the text is searched for *)
(* objects with a "name" (tool_parse_loose.c).  An action is a turn of one *)
(* of the three loops.                                                     *)
(*                                                                         *)
(* A text is a sequence of what the loops tell apart: the four tags, the   *)
(* braces outside of strings, "name" (in an object the key, with a string  *)
(* for its value), and anything else, which no JSON object holds.  A brace *)
(* inside an object stands for a member whose value is an object.  Tags    *)
(* have been normalised, and resp_repair_json has done what it can.        *)
(***************************************************************************)
EXTENDS Integers, Sequences, FiniteSets, FiniteSetsExt, SequencesExt

CONSTANTS
    OpenTool, CloseTool, OpenFunc, CloseFunc, LBrace, RBrace, Name, Other,
    MaxCalls,   \* RESP_MAX_TOOL_CALLS
    Answer      \* texts of models

Token == {OpenTool, CloseTool, OpenFunc, CloseFunc, LBrace, RBrace, Name, Other}

ASSUME ToolAssumption ==
    /\ LET ts == <<OpenTool, CloseTool, OpenFunc, CloseFunc, LBrace, RBrace, Name, Other>>
       IN  \A i, j \in 1..8 : i # j => ts[i] # ts[j]
    /\ MaxCalls \in Nat \ {0}
    /\ Answer \subseteq Seq(Token)

VARIABLES
    fullText,   \* result->full_text as it came
    scan,       \* the loop that runs
    p,          \* how far it is
    calls,      \* out[0..count-1]: where in fullText each starts
    rest,       \* result->full_text as it will be
    beat        \* flips with every turn: one that changes nothing is a step too

toolVars == <<fullText, scan, p, calls, rest, beat>>

ToolTypeOK ==
    /\ fullText \in Seq(Token) /\ rest \in Seq(Token)
    /\ scan \in {"none", "blocks", "strip", "loose", "done"}
    /\ p \in 1..(Len(fullText) + 1)
    /\ calls \in Seq(1..Len(fullText)) /\ Len(calls) <= MaxCalls
    /\ beat \in BOOLEAN

-----------------------------------------------------------------------------
(* strstr, and the braces *)

Occurs(i, S) == {j \in i..Len(fullText) : fullText[j] \in S}

Start(i) == Min(Occurs(i, {OpenTool, OpenFunc}))
Closers(s) == Occurs(s + 1, {IF fullText[s] = OpenTool THEN CloseTool ELSE CloseFunc})

\* There is another block, and where it ends.  An opening tag that is not
\* closed ends the search
HasBlock(i) == Occurs(i, {OpenTool, OpenFunc}) # {} /\ Closers(Start(i)) # {}
End(i) == Min(Closers(Start(i)))

Depth(b, j) == Cardinality({k \in b..j : fullText[k] = LBrace})
             - Cardinality({k \in b..j : fullText[k] = RBrace})

\* Where the object that starts at b is closed
MatchEnds(b) == {j \in b..Len(fullText) : Depth(b, j) = 0}

\* The object from b to e parses and has a name of its own
IsCall(b, e) ==
    /\ \A j \in b..e : fullText[j] \in {LBrace, RBrace, Name}
    /\ \E j \in b..e : fullText[j] = Name /\ Depth(b, j) = 1

\* What follows the first object of a block is ignored
BlockIsCall(s, e) ==
    /\ fullText[s + 1] = LBrace
    /\ \E j \in MatchEnds(s + 1) : j = Min(MatchEnds(s + 1)) /\ j < e /\ IsCall(s + 1, j)

-----------------------------------------------------------------------------
(* The loops *)

ToolInit ==
    /\ fullText = <<>> /\ scan = "none" /\ p = 1
    /\ calls = <<>> /\ rest = <<>> /\ beat = FALSE

TryParse(text) ==
    /\ scan \in {"none", "done"} /\ scan' = "blocks"
    /\ fullText' = text /\ p' = 1 /\ calls' = <<>> /\ rest' = <<>> /\ beat' = FALSE

MoreBlocks == Len(calls) < MaxCalls /\ HasBlock(p)

\* A turn of resp_parse_tool_calls; a block without a call is skipped
TakeBlock ==
    /\ scan = "blocks" /\ MoreBlocks
    /\ calls' = IF BlockIsCall(Start(p), End(p)) THEN Append(calls, Start(p)) ELSE calls
    /\ p' = End(p) + 1
    /\ beat' = ~beat
    /\ UNCHANGED <<fullText, scan, rest>>

NoMoreBlocks ==
    /\ scan = "blocks" /\ ~MoreBlocks
    /\ scan' = IF calls = <<>> THEN "loose" ELSE "strip"
    /\ p' = 1
    /\ UNCHANGED <<fullText, calls, rest, beat>>

\* Mutant: goes on behind the opening tag
StripBlock_Inside ==
    /\ scan = "strip" /\ HasBlock(p)
    /\ rest' = rest \o SubSeq(fullText, p, Start(p) - 1)
    /\ p' = Start(p) + 1
    /\ beat' = ~beat
    /\ UNCHANGED <<fullText, scan, calls>>

\* A turn of resp_strip_tool_calls
StripBlock ==
    /\ scan = "strip" /\ HasBlock(p)
    /\ rest' = rest \o SubSeq(fullText, p, Start(p) - 1)
    /\ p' = End(p) + 1
    /\ beat' = ~beat
    /\ UNCHANGED <<fullText, scan, calls>>

StripRest ==
    /\ scan = "strip" /\ ~HasBlock(p)
    /\ rest' = rest \o SubSeq(fullText, p, Len(fullText))
    /\ scan' = "done"
    /\ UNCHANGED <<fullText, p, calls, beat>>

\* A turn of resp_extract_loose_json: from the next "name" back to the nearest
\* brace, and from there to its end, which may lie before that name
MoreNames == Len(calls) < MaxCalls /\ Occurs(p, {Name}) # {}
Braces == {j \in 1..Min(Occurs(p, {Name})) : fullText[j] = LBrace}
Candidate == {b \in Braces : MatchEnds(b) # {} /\ \A j \in Braces : j <= b}

SkipName ==
    /\ scan = "loose" /\ MoreNames /\ Candidate = {}
    /\ p' = Min(Occurs(p, {Name})) + 1
    /\ beat' = ~beat
    /\ UNCHANGED <<fullText, scan, calls, rest>>

\* Mutant: goes on behind the brace it went back to
TakeObject_Rescan ==
    /\ scan = "loose" /\ MoreNames
    /\ \E b \in Candidate :
        /\ calls' = IF IsCall(b, Min(MatchEnds(b))) THEN Append(calls, b) ELSE calls
        /\ p' = b + 1
    /\ beat' = ~beat
    /\ UNCHANGED <<fullText, scan, rest>>

TakeObject ==
    /\ scan = "loose" /\ MoreNames
    /\ \E b \in Candidate :
        /\ calls' = IF IsCall(b, Min(MatchEnds(b))) THEN Append(calls, b) ELSE calls
        /\ p' = Min(MatchEnds(b)) + 1
    /\ beat' = ~beat
    /\ UNCHANGED <<fullText, scan, rest>>

\* No calls, or calls and nothing else
NoMoreNames ==
    /\ scan = "loose" /\ ~MoreNames
    /\ scan' = "done"
    /\ rest' = IF calls = <<>> THEN fullText ELSE <<>>
    /\ UNCHANGED <<fullText, p, calls, beat>>

Turn == TakeBlock \/ StripBlock \/ SkipName \/ TakeObject

Scan == Turn \/ NoMoreBlocks \/ StripRest \/ NoMoreNames

\* One answer
ToolNext == Scan \/ (scan = "none" /\ \E t \in Answer : TryParse(t))

ToolSpec == ToolInit /\ [][ToolNext]_toolVars /\ WF_toolVars(ToolNext)

-----------------------------------------------------------------------------
(* Properties *)

\* The nearest brace before a name is an open one, as in an object whose first
\* member is the name and a text that has no other names
NamesFirst ==
    \A n \in Occurs(1, {Name}) : \A b \in {j \in 1..n : fullText[j] = LBrace} :
        \A e \in b..n : fullText[e] = RBrace => \E j \in e..n : fullText[j] = LBrace

\* The text read once from left to right: the blocks so far, and where the one
\* begins that is open
Reading[i \in 0..Len(fullText)] ==
    IF i = 0 THEN [open |-> 0, blocks |-> <<>>]
    ELSE LET r == Reading[i - 1]
             opens == {OpenTool, OpenFunc}
             closes == IF fullText[r.open] = OpenTool THEN CloseTool ELSE CloseFunc
         IN  IF r.open = 0
               THEN [r EXCEPT !.open = IF fullText[i] \in opens THEN i ELSE 0]
             ELSE IF fullText[i] = closes
               THEN [open |-> 0, blocks |-> Append(r.blocks, <<r.open, i>>)]
             ELSE r

\* Where the blocks with a call start, and what is in no block
Found(blocks) ==
    FlattenSeq([i \in DOMAIN blocks |->
                  IF BlockIsCall(blocks[i][1], blocks[i][2]) THEN <<blocks[i][1]>> ELSE <<>>])
Inside(blocks) == UNION {blocks[i][1]..blocks[i][2] : i \in DOMAIN blocks}
Outside(blocks) ==
    FlattenSeq([i \in DOMAIN fullText |-> IF i \in Inside(blocks) THEN <<>> ELSE <<fullText[i]>>])

\* The calls of a text, wherever they come from: those of its blocks in order,
\* as many as there is room for, and then the rest is the text without its
\* blocks; or objects outside of blocks, none of them twice
CallsFound ==
    scan = "done" =>
        LET blocks == Reading[Len(fullText)].blocks
            found  == Found(blocks)
        IN  IF found # <<>>
              THEN /\ calls = SubSeq(found, 1, Min({MaxCalls, Len(found)}))
                   /\ rest = Outside(blocks)
              ELSE NamesFirst => \A i, j \in DOMAIN calls : i < j => calls[i] < calls[j]

\* Every turn of a loop goes on behind what it has looked at, so that the loops
\* end; the third does so when names come first
ScanAdvances ==
    [][Turn /\ (scan = "loose" => NamesFirst) => p' > p]_toolVars

\* "Returns number of calls found (up to max_calls)" (tool_parse_loose.c:78):
\* the answer has been gone through in the end
Returns == <>(scan = "done")
=============================================================================
