------------------------------ MODULE Rendezvous ------------------------------
(***************************************************************************)
(* What create promises about the wait for its runner: it succeeds only    *)
(* after a report that names this runner, sent by its own guest or by      *)
(* somebody else who gives its name, and it decides once.  A report that   *)
(* reached this create under another name is not among them.  The promise  *)
(* that users read into "Ready", a report of the own guest, is what is     *)
(* left where nobody claims the name of another runner.                    *)
(***************************************************************************)
CONSTANT Runners

VARIABLES
    reported,   \* runners whose own guest has sent its report
    claimed,    \* runners that another sender has named in a report
    outcome     \* what create said of each

Outcomes == {"none", "ready", "failed"}

Init ==
    /\ reported = {} /\ claimed = {}
    /\ outcome = [r \in Runners |-> "none"]

Report(r) == reported' = reported \cup {r} /\ UNCHANGED <<claimed, outcome>>

Claim(r) == claimed' = claimed \cup {r} /\ UNCHANGED <<reported, outcome>>

Decide(r, o) ==
    /\ outcome[r] = "none"
    /\ outcome' = [outcome EXCEPT ![r] = o]
    /\ UNCHANGED <<reported, claimed>>

Next == \E r \in Runners :
    \/ Report(r)
    \/ Claim(r)
    \/ r \in reported \cup claimed /\ Decide(r, "ready")
    \/ Decide(r, "failed")

Spec == Init /\ [][Next]_<<reported, claimed, outcome>>
===============================================================================
