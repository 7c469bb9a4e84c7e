-------------------------- MODULE RetrievalService --------------------------
(***************************************************************************)
(* What the viewer's backend promises the frame that uses it, with the     *)
(* worker pool, the caches and the command-line subprocesses left out.     *)
(*                                                                         *)
(* The frame submits requests and each one is resolved once: answered,     *)
(* failed or cancelled.  An answer to a request for one catalog item       *)
(* either carries the content of that item, in the input bytes its id      *)
(* names, or says that the item was not retrieved: it never carries        *)
(* something else.  After Close no request is accepted, what is still open *)
(* may be cancelled, and is resolved in any case.                          *)
(***************************************************************************)
EXTENDS Naturals

CONSTANTS
    Futures,    \* the handles of the requests
    Requests,   \* what can be asked for
    Asked,      \* Asked[r]: the contents that answer request r
    None        \* no request yet, or an answer that carries no content

VARIABLES
    accepting,  \* new requests are accepted
    request,    \* request[f]: what was asked for under handle f, or None
    state,      \* state[f]: where the request is
    answer      \* answer[f]: the content the answer carries, or None

vars == <<accepting, request, state, answer>>

States == {"free", "open", "answered", "failed", "cancelled"}

Resolved == {"answered", "failed", "cancelled"}

Init ==
    /\ accepting = TRUE
    /\ request = [f \in Futures |-> None]
    /\ state = [f \in Futures |-> "free"]
    /\ answer = [f \in Futures |-> None]

Submit(f) ==
    /\ accepting
    /\ state[f] = "free"
    /\ \E r \in Requests : request' = [request EXCEPT ![f] = r]
    /\ state' = [state EXCEPT ![f] = "open"]
    /\ UNCHANGED <<accepting, answer>>

Answer(f) ==
    /\ state[f] = "open"
    /\ state' = [state EXCEPT ![f] = "answered"]
    /\ \E c \in Asked[request[f]] \cup {None} : answer' = [answer EXCEPT ![f] = c]
    /\ UNCHANGED <<accepting, request>>

Fail(f) ==
    /\ state[f] = "open"
    /\ state' = [state EXCEPT ![f] = "failed"]
    /\ UNCHANGED <<accepting, request, answer>>

Close ==
    /\ accepting
    /\ accepting' = FALSE
    /\ UNCHANGED <<request, state, answer>>

Cancel(f) ==
    /\ ~accepting
    /\ state[f] = "open"
    /\ state' = [state EXCEPT ![f] = "cancelled"]
    /\ UNCHANGED <<accepting, request, answer>>

Next ==
    \/ Close
    \/ \E f \in Futures : Submit(f) \/ Answer(f) \/ Fail(f) \/ Cancel(f)

Spec == Init /\ [][Next]_vars

FairSpec == Spec /\ \A f \in Futures : WF_vars(Answer(f) \/ Fail(f))
=============================================================================
