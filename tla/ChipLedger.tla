------------------------------ MODULE ChipLedger ------------------------------
(***************************************************************************)
(* What the path of a chip sale promises, without saying how: a request is *)
(* asked of the host only once its reversal is armed, one sale at a time;  *)
(* what is answered is kept by both sides, undone by both, or its reversal *)
(* stays pending; kept and undone are final.  Where the promise ends is    *)
(* explicit: the host may stand by a sale the terminal has let go of       *)
(* ("adrift") when the sale was not answered, when its pending reversal    *)
(* was thrown away for a later sale, or after a power failure.             *)
(***************************************************************************)
CONSTANT Attempt

VARIABLES
    status,    \* what has become of each sale at the terminal
    hostHas    \* the sales the host stands by

chipVars == <<status, hostHas>>

Busy == {"armed", "asked", "answered", "pending"}

Init ==
    /\ status = [a \in Attempt |-> "none"]
    /\ hostHas = {}

Becomes(a, s) == status' = [status EXCEPT ![a] = s] /\ UNCHANGED hostHas

\* The reversal is stored before the request: of a new sale, or of one the host refused
\* and the bank then approved by telephone.
Arm(a) ==
    /\ \/ status[a] = "none" /\ \A b \in Attempt : status[b] \notin Busy
       \/ status[a] = "answered" /\ a \notin hostHas
    /\ Becomes(a, "armed")

Ask(a)  == status[a] = "armed" /\ Becomes(a, "asked")
Hear(a) == status[a] = "asked" /\ Becomes(a, "answered")

Keep(a) == status[a] = "answered" /\ a \in hostHas /\ Becomes(a, "kept")

\* The terminal does not stand by the sale: the next connection reverses it.
Reverse(a) == status[a] \in {"armed", "asked", "answered"} /\ Becomes(a, "pending")

Undo(a) == status[a] \notin {"kept", "undone"} /\ a \notin hostHas /\ Becomes(a, "undone")

\* The chip decides on a sale that was not answered.
LetGo(a) == status[a] = "asked" /\ Becomes(a, "adrift")

\* A sale never asked is given up and its reversal stored, over the one pending if any.
Store(b) ==
    /\ status[b] = "none"
    /\ \A a \in Attempt : status[a] \notin Busy
    /\ Becomes(b, "pending")

Displace(a, b) ==
    /\ status[a] = "pending" /\ status[b] = "none"
    /\ \E s \in {"adrift"} \cup (IF a \in hostHas THEN {} ELSE {"undone"}),
          t \in {"pending", "undone"} :
             status' = [status EXCEPT ![a] = s, ![b] = t]
    /\ UNCHANGED hostHas

\* The host takes what was asked, or takes it back; late, as a message may be.
HostTakes(a) ==
    /\ status[a] \in {"asked", "pending", "adrift"}
    /\ hostHas' = hostHas \cup {a}
    /\ UNCHANGED status

HostLetsGo(a) ==
    /\ status[a] \in {"asked", "pending", "adrift"}
    /\ hostHas' = hostHas \ {a}
    /\ \/ UNCHANGED status
       \/ status[a] = "adrift" /\ status' = [status EXCEPT ![a] = "undone"]

\* After a power failure the sale in hand is pending, undone or adrift, and one kept may
\* be adrift; what was undone stays undone.
PowerFails ==
    /\ \A a \in Attempt :
         \/ status'[a] = status[a]
         \/ status[a] \in Busy \cup {"kept"} /\ status'[a] = "adrift"
         \/ status[a] \in Busy /\ status'[a] = "pending"
         \/ status[a] \notin {"kept", "undone"} /\ a \notin hostHas /\ status'[a] = "undone"
    /\ UNCHANGED hostHas

Next ==
    \/ \E a \in Attempt :
         \/ Arm(a) \/ Ask(a) \/ Hear(a) \/ Keep(a) \/ Reverse(a) \/ Undo(a) \/ LetGo(a)
         \/ Store(a) \/ HostTakes(a) \/ HostLetsGo(a)
         \/ \E b \in Attempt : Displace(a, b)
    \/ PowerFails

Spec == Init /\ [][Next]_chipVars
-----------------------------------------------------------------------------
(* What follows, whatever implements it.                                   *)

\* The host stands by what was kept and not by what was undone or not asked, and no two
\* sales are in question or to be reversed at a time.
OutcomesAgree ==
    \A a \in Attempt :
        /\ status[a] = "kept" => a \in hostHas
        /\ status[a] \in {"none", "armed", "undone"} => a \notin hostHas
        /\ \A b \in Attempt : status[a] \in Busy /\ status[b] \in Busy => a = b

\* What was undone stays so at both ends; what was kept leaves the terminal's books by a
\* power failure only, and never the host's while it is in them.
OutcomesAreFinal ==
    [][\A a \in Attempt :
          /\ status[a] = "undone" => status'[a] = "undone" /\ a \notin hostHas'
          /\ status[a] = "kept" => status'[a] \in {"kept", "adrift"} /\ a \in hostHas']_chipVars
=============================================================================
