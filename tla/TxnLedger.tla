------------------------------ MODULE TxnLedger ------------------------------
(***************************************************************************)
(* What an online transaction path promises, without saying how: every     *)
(* request is open from before it can reach the host until its outcome is  *)
(* the same on both sides, kept by both or by neither, at most one request *)
(* is in question at a time, and a settled outcome never changes.  The two *)
(* exceptions are explicit: a power failure may lose a request the host    *)
(* has kept, and the terminal may presume a request approved, which it     *)
(* keeps for good while the host is made to disown it.                     *)
(***************************************************************************)
CONSTANT Attempt

VARIABLES
    status,    \* what has become of each request at the terminal
    hostHas    \* the requests the host stands by

ledgerVars == <<status, hostHas>>

Init ==
    /\ status = [a \in Attempt |-> "none"]
    /\ hostHas = {}

\* Open, or booked on a presumption: the host may still decide either way.
InQuestion(a) == status[a] \in {"open", "presumed"}

Open(a) ==
    /\ status[a] = "none"
    /\ \A b \in Attempt : ~InQuestion(b)
    /\ status' = [status EXCEPT ![a] = "open"]
    /\ UNCHANGED hostHas

\* The host decides about a request in question, and may take its decision back.
Decide(a) ==
    /\ InQuestion(a)
    /\ hostHas' \in {hostHas \cup {a}, hostHas \ {a}}
    /\ UNCHANGED status

Resolve(a, outcome) ==
    /\ status[a] = "open"
    /\ a \in hostHas <=> outcome # "undone"
    /\ status' = [status EXCEPT ![a] = outcome]
    /\ UNCHANGED hostHas

\* The terminal keeps a request without knowing what the host decided.
Presume(a) ==
    /\ status[a] = "open"
    /\ status' = [status EXCEPT ![a] = "presumed"]
    /\ UNCHANGED hostHas

\* The host does not stand by what the terminal presumed, and never will.
Disown(a) ==
    /\ status[a] = "presumed" /\ a \notin hostHas
    /\ status' = [status EXCEPT ![a] = "disowned"]
    /\ UNCHANGED hostHas

Next ==
    \E a \in Attempt :
        \/ Open(a) \/ Decide(a) \/ Presume(a) \/ Disown(a)
        \/ \E outcome \in {"kept", "undone", "lost"} : Resolve(a, outcome)

Spec == Init /\ [][Next]_ledgerVars
-----------------------------------------------------------------------------
(* What follows, whatever implements it.                                   *)

\* The host stands by exactly what was kept or lost, but for the one request in question.
OutcomesAgree ==
    \A a \in Attempt :
        /\ status[a] \in {"kept", "lost"} => a \in hostHas
        /\ status[a] \in {"none", "undone", "disowned"} => a \notin hostHas
        /\ \A b \in Attempt : InQuestion(a) /\ InQuestion(b) => a = b

\* An outcome is final at both ends, and what was presumed can only be disowned.
OutcomesAreFinal ==
    [][\A a \in Attempt :
          /\ status[a] \in {"kept", "undone", "lost", "disowned"} =>
                status'[a] = status[a] /\ (a \in hostHas' <=> a \in hostHas)
          /\ status[a] = "presumed" => status'[a] \in {"presumed", "disowned"}]_ledgerVars
=============================================================================
