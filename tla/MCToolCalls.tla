---------------------------- MODULE MCToolCalls -----------------------------
(***************************************************************************)
(* ToolCalls for TLC: one object or two, their members in any order.       *)
(***************************************************************************)
EXTENDS ToolCalls, SequencesExt

Members == {<<Name, LBrace, RBrace>>, <<LBrace, RBrace, Name>>, <<Name>>}

Object == {<<LBrace>> \o m \o <<RBrace>> : m \in Members}

MCAnswer == {FlattenSeq(o) : o \in [1..1 -> Object] \cup [1..2 -> Object] \cup [1..3 -> Object \cup {<<Other>>}]}
=============================================================================
