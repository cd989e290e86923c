---------------------------- MODULE MCChatThreads ----------------------------
(***************************************************************************)
(* ChatThreads with two handlers and requests of two conversations that    *)
(* open with the same question: one under the default model of its key,    *)
(* the other under a model of its own and a key with a system prompt.      *)
(* First and second turns, so that rows are found, missed and replaced;    *)
(* and a body without any user content.                                    *)
(***************************************************************************)
EXTENDS ChatThreads, TLC

CONSTANTS h1, h2, k1, k2, m1, m2, hello, more, t1, t2, t3

User(text) == [role |-> "user", text |-> text]
Reply == [role |-> "assistant", text |-> more]

MCKeyModel  == (k1 :> m1) @@ (k2 :> m1)
MCKeyPrompt == (k1 :> EmptyText) @@ (k2 :> more)

FirstTurn  == <<User(hello)>>
SecondTurn == <<User(hello), Reply, User(more)>>

MCRequest == {
    [key |-> k1, model |-> None, msgs |-> FirstTurn, stream |-> FALSE],
    [key |-> k1, model |-> None, msgs |-> SecondTurn, stream |-> TRUE],
    [key |-> k2, model |-> m2, msgs |-> SecondTurn, stream |-> FALSE],
    [key |-> k2, model |-> None, msgs |-> <<User(EmptyText)>>, stream |-> FALSE] }

Perms == Permutations({h1, h2}) \cup Permutations({t1, t2, t3})
==============================================================================
