-------------------------------- MODULE Outbox --------------------------------
(***************************************************************************)
(* What the store-and-forward path promises, without saying how: a message *)
(* that was promised to the host stays owed until the host has taken it,   *)
(* or the transaction behind it is withdrawn before the host heard of it;  *)
(* the tip of a sale waits for the sale; nothing is taken that is not      *)
(* owed, and the batch is closed only when nothing is.  Two exceptions are *)
(* explicit: an answer that goes unheard lets the host take a message      *)
(* twice, or keep one that is withdrawn; and a power failure may spoil an  *)
(* invoice, of which nothing is promised any more.                         *)
(***************************************************************************)
CONSTANT Message    \* records of an invoice number `inv' and a kind `iso'

VARIABLES
    owed,      \* the messages the host must still be given
    taken,     \* the messages the host has taken in this batch
    unheard,   \* the invoices of which an answer was lost
    spoilt,    \* the invoices of which a power failure spoilt the records
    locked     \* the terminal waits for a technician

outboxVars == <<owed, taken, unheard, spoilt, locked>>

Empty == owed = {} /\ taken = {} /\ unheard = {} /\ spoilt = {}

Init == Empty /\ ~locked

\* A message not known to the host may be taken, one known only if that went unheard.
MayBeTaken(m) == m \in taken => m.inv \in unheard

\* A transaction is booked that the host must hear of, for the first time.
Owe(m) ==
    /\ m \notin owed \cup taken /\ m.inv \notin spoilt
    /\ owed' = owed \cup {m}
    /\ UNCHANGED <<taken, unheard, spoilt, locked>>

\* The host takes a message that is due now.
Take(m) ==
    /\ m.inv \notin spoilt =>
         /\ m \in owed /\ MayBeTaken(m)
         /\ m.iso = "TIP" => \A n \in owed : n.inv = m.inv => n.iso = "TIP"
    /\ taken' = taken \cup {m}
    /\ UNCHANGED <<owed, unheard, spoilt, locked>>

\* The terminal knows that it was taken.
Done(m) ==
    /\ m \in owed \cap taken
    /\ owed' = owed \ {m}
    /\ UNCHANGED <<taken, unheard, spoilt, locked>>

\* The transaction is voided before the host heard of it.
Withdraw(m) ==
    /\ m \in owed /\ MayBeTaken(m)
    /\ owed' = owed \ {m}
    /\ UNCHANGED <<taken, unheard, spoilt, locked>>

\* An answer is lost, or the power fails: what is known of some invoices is less.
Mishap ==
    /\ unheard \subseteq unheard' /\ spoilt \subseteq spoilt'
    /\ \A i \in unheard' \ unheard : \E m \in taken : m.inv = i
    /\ owed' = {m \in owed : m.inv \notin spoilt'}
    /\ UNCHANGED <<taken, locked>>

Lock   == ~locked /\ locked' /\ UNCHANGED <<owed, taken, unheard, spoilt>>
Unlock == locked /\ ~locked' /\ UNCHANGED <<owed, taken, unheard, spoilt>>

\* Host and terminal close the batch; or a technician deletes it.
Close  == owed = {} /\ Empty' /\ UNCHANGED locked
Delete == locked /\ Empty' /\ ~locked'

\* A locked terminal does nothing until it is unlocked or its batch is deleted.
Next ==
    \/ /\ ~locked
       /\ \/ \E m \in Message : Owe(m) \/ Take(m) \/ Done(m) \/ Withdraw(m)
          \/ Mishap \/ Lock \/ Close
    \/ Unlock \/ Delete

Spec == Init /\ [][Next]_outboxVars
=============================================================================
