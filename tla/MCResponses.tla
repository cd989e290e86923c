---------------------------- MODULE MCResponses -----------------------------
(***************************************************************************)
(* ResponsesClients for TLC.  Ids are drawn in the order of their numbers: *)
(* which one is drawn makes no difference.  Any clients come with plain    *)
(* turns, a patient one with turns of every shape the run has, over a      *)
(* longer conversation, with more calls that fail but none that is refused.*)
(***************************************************************************)
EXTENDS ResponsesClients, TLC

CONSTANTS
    Patience,   \* the kinds of clients: TRUE for the patient one
    WithToolCalls, Results,
    AnyIds, AnyFaults   \* bounds: requests and failing calls of the others

Plain == [inputs |-> 1, tools |-> FALSE, instructions |-> FALSE]

\* A plain turn; a turn with tools and instructions; and, where a run asks for
\* them, the results of two parallel tool calls
MCRequest ==
    {Plain}
      \cup (IF WithToolCalls
              THEN {[inputs |-> 1, tools |-> TRUE, instructions |-> TRUE]} ELSE {})
      \cup (IF Results
              THEN {[inputs |-> 2, tools |-> FALSE, instructions |-> FALSE]} ELSE {})

InOrder(drawn) ==
    \A i, j \in DOMAIN drawn : i < j /\ drawn[j] # None => drawn[i] # None

AnyWithin ==
    /\ \A h \in Handler : req[h] \in {None, Plain}
    /\ \A i \in RespId : i > AnyIds => root[i] = None
    /\ faults <= AnyFaults

\* No refusals
PatientWithin ==
    \A h \in Handler : pc[h] = "send" /\ pc'[h] = "got" => out'[h] = "failed"

Symmetric == Permutations(Handler)

MCInit == ClientsInit /\ patient \in Patience

MCNext ==
    /\ ClientsNext
    /\ InOrder(root') /\ InOrder(owner')
    /\ IF patient THEN PatientWithin ELSE AnyWithin'

MCSpec == MCInit /\ [][MCNext]_cvars
=============================================================================
