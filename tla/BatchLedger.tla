----------------------------- MODULE BatchLedger -----------------------------
(***************************************************************************)
(* What a settlement promises, without saying how: the terminal and the    *)
(* host agree on a batch and both let go of it at once.  Transactions join *)
(* or leave the batch only while the host has it open; once the host has   *)
(* closed it, its transactions and their total vanish in one step, never a *)
(* part of them.  The exception is explicit: a power failure may make the  *)
(* terminal forget that the host closed the batch.                         *)
(***************************************************************************)
EXTENDS Integers

VARIABLES
    book,    \* the transactions that stand in the batch
    total,   \* what the totals say of it
    closed,  \* the host has closed it
    lost     \* the terminal has forgotten that

batchVars == <<book, total, closed, lost>>

Init == book = {} /\ total = 0 /\ ~closed /\ ~lost

Known == closed /\ ~lost

\* A transaction joins the batch, or one that stood in it leaves.
Keep ==
    /\ ~Known
    /\ \E i \in book' \ book : book' = book \cup {i}
    /\ total' = total + 1
    /\ UNCHANGED <<closed, lost>>

Cancel ==
    /\ ~Known
    /\ \E i \in book : book' = book \ {i}
    /\ total' = total - 1
    /\ UNCHANGED <<closed, lost>>

HostCloses == closed' = TRUE /\ UNCHANGED <<book, total, lost>>

Forget == lost' = TRUE /\ UNCHANGED <<book, total, closed>>

Clear ==
    /\ closed
    /\ book' = {} /\ total' = 0
    /\ closed' = FALSE /\ lost' = FALSE

Next == Keep \/ Cancel \/ HostCloses \/ Forget \/ Clear

Spec == Init /\ [][Next]_batchVars
-----------------------------------------------------------------------------
(* What follows, whatever implements it.                                   *)

\* More than one transaction leaves at once only when all do, with their total, from a
\* batch the host has closed.
VanishesWhole ==
    [][\A i, j \in book \ book' : i # j => closed /\ book' = {} /\ total' = 0]_batchVars
=============================================================================
