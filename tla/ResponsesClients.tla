-------------------------- MODULE ResponsesClients --------------------------
(***************************************************************************)
(* Who calls POST /v1/responses: clients that send anything at any time,   *)
(* the process dying under them; or one that is patient.                   *)
(***************************************************************************)
EXTENDS ResponsesApi

VARIABLE patient

cvars == <<vars, patient>>

ClientsInit == Init /\ patient \in BOOLEAN

-----------------------------------------------------------------------------
(* A client that keeps one conversation, waits for the handler to be done  *)
(* and goes on from the latest response; no expiry and no crash            *)

\* The response the conversation has got to: the one that has said most
Tip(p) == IF told = {} THEN p = None
          ELSE p \in told /\ \A i \in told : said[i] \subseteq said[p]

Ask(h, r, p, i) ==
    /\ r.inputs > 0
    /\ \A g \in Handler : pc[g] = "idle"
    /\ Tip(p)
    /\ Arrive(h, r, p, i)

PatientNext ==
    \/ \E h \in Handler, r \in Request, p \in RespId \cup {None}, i \in RespId : Ask(h, r, p, i)
    \/ \E h \in Handler : HandlerStep(h)

ClientsNext ==
    /\ UNCHANGED patient
    /\ \/ patient /\ PatientNext
       \/ ~patient /\ Next

ClientsSpec == ClientsInit /\ [][ClientsNext]_cvars

-----------------------------------------------------------------------------
(* Properties *)

\* A client that waits and goes on from the latest response leaves one
\* transcript and one thread row behind, however its calls ended: the tables
\* grow with the conversations, not with their turns (transcripts have no purge
\* of their own).
OneRecordKept ==
    patient /\ (\A h \in Handler : pc[h] = "idle") =>
        /\ \A i, j \in RespId : transcript[i] # None /\ transcript[j] # None => i = j
        /\ \A i, j \in RespId : row[i] # None /\ row[j] # None => i = j

InThread(m, t) ==
    \E i \in DOMAIN upstream[t] : \E j \in DOMAIN upstream[t][i].msgs : upstream[t][i].msgs[j] = m

\* "supporting previous_response_id chaining that matches OpenAI's stateful
\* conversation model" (README.md): when UvA has taken a chained request, the
\* thread it answers on says all the client has said in the conversation.
ChainedInContext ==
    \A h \in Handler :
        patient /\ pc[h] = "wait" => \A m \in said[id[h]] : InThread(m, used[h])

\* The same on the threads UvA was asked to open: for a client that waits and
\* goes on from the latest response, calls that fail before or after UvA took
\* the post, and requests sent again, leave no turn out.
RetriedInContext ==
    \A h \in Handler :
        patient /\ pc[h] = "wait" /\ upstream[used[h]][1].isNewChat
          => \A m \in said[id[h]] : InThread(m, used[h])
=============================================================================
