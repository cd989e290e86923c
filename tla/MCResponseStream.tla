-------------------------- MODULE MCResponseStream --------------------------
(***************************************************************************)
(* ResponseStream for TLC.  Chat: tags of three characters that share only *)
(* the first, as <think> and </think> do, and every text of MaxText        *)
(* characters over the characters of the tags, sent in two data lines (cut *)
(* after one of the Splits) with a blank line after the first.  Text: the  *)
(* same over two characters, which nothing looks at.  Tools: every text of *)
(* MaxWords tags, calls, blocks and other words, and every text of         *)
(* MaxBraces braces, names and other words, in one data line.              *)
(***************************************************************************)
EXTENDS ResponseStream

CONSTANTS lt, th, sl, Splits, MaxWords, MaxBraces

MCOpenTag  == <<lt, th, th>>
MCCloseTag == <<lt, sl, th>>

DataLine(t) == <<Data>> \o t \o <<Close, Newline>>

InTwo(t, n) ==
    DataLine(SubSeq(t, 1, n)) \o <<Newline>> \o DataLine(SubSeq(t, n + 1, MaxText))

MCBody == {InTwo(t, n) : t \in [1..MaxText -> Char], n \in Splits}
MCTextBody == {InTwo(t, n) : t \in [1..MaxText -> {lt, th}], n \in Splits}

Call == <<LBrace, Name, RBrace>>
Block == <<OpenTool>> \o Call \o <<CloseTool>>
Tags == {OpenTool, CloseTool, OpenFunc, CloseFunc}

Tagged == {FlattenSeq(w) : w \in [1..MaxWords -> {<<t>> : t \in Tags \cup {Other}} \cup {Call, Block}]}
Loose == [1..MaxBraces -> {LBrace, RBrace, Name, Other}]

MCToolBody == {DataLine(t) : t \in Tagged \cup Loose}

\* The second answer
MCAnswer == {<<Other>>, Block}
=============================================================================
