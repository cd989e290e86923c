---------------------------- MODULE MCChatClients ----------------------------
(***************************************************************************)
(* ChatClients for TLC: conversations of a few turns, one API key with a   *)
(* system prompt, enough threads for every turn and every failure.         *)
(***************************************************************************)
EXTENDS ChatClients, TLC

CONSTANTS c1, c2, k1, m1, p1, p2, q2, q3, q4, prompt, reply

MCKeyModel  == k1 :> m1
MCKeyPrompt == k1 :> prompt
MCKeyOf     == [c \in Conv |-> k1]
MCQuestion  == [c \in Conv |-> [n \in 1..MaxTurns |->
                    IF n = 1 THEN (IF c = c1 THEN p1 ELSE p2) ELSE <<q2, q3, q4>>[n - 1]]]
MCRequest   == {TurnRequest(c, n, s) : c \in Conv, n \in 1..MaxTurns, s \in BOOLEAN}
==============================================================================
