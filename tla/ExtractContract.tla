--------------------------- MODULE ExtractContract ---------------------------
(***************************************************************************)
(* What the extract command promises to who reads its output.  A manifest  *)
(* is published when it and every file it lists as extracted are whole and *)
(* of one run.  A run that completes has published; what is published is   *)
(* only taken back or replaced by a run that was told to, with --force.    *)
(***************************************************************************)
CONSTANTS
    Run,        \* the runs of the command
    Path,       \* the files they write
    Place,      \* where a manifest is written
    Nothing     \* no publication

VARIABLES
    force,      \* force[r]: r may replace what is there
    outcome,    \* outcome[r]: none, complete or failed
    published   \* published[m]: the manifest at m, if it is true

vars == <<force, outcome, published>>

Init ==
    /\ force \in [Run -> BOOLEAN]
    /\ outcome = [r \in Run |-> "none"]
    /\ published = [m \in Place |-> Nothing]

\* Only a run with --force takes publications back.
Withdraw(r) ==
    /\ outcome[r] = "none"
    /\ force[r]
    /\ \E gone \in SUBSET Place :
          published' = [m \in Place |-> IF m \in gone THEN Nothing ELSE published[m]]
    /\ UNCHANGED <<force, outcome>>

\* The run ends with its manifest published.
Complete(r) ==
    /\ outcome[r] = "none"
    /\ \E m \in Place :
          /\ published[m] = Nothing
          /\ published'[m] \in [by : {r}, files : SUBSET Path]
          /\ published' = [published EXCEPT ![m] = published'[m]]
    /\ \E result \in {"complete", "failed"} : outcome' = [outcome EXCEPT ![r] = result]
    /\ UNCHANGED force

\* The run ends without one.
Fail(r) ==
    /\ outcome[r] = "none"
    /\ outcome' = [outcome EXCEPT ![r] = "failed"]
    /\ UNCHANGED <<force, published>>

Next == \E r \in Run : Withdraw(r) \/ Complete(r) \/ Fail(r)

Spec == Init /\ [][Next]_vars
==============================================================================
