----------------------------- MODULE AdviceQueue -----------------------------
(***************************************************************************)
(* Offline transactions and their advices.  An offline sale or a tip is    *)
(* not sent when it is made: its invoice number is appended to the advice  *)
(* file, its row keeps upload bits, and the advice goes to the host after  *)
(* a later online approval (one of them) or before a settlement (all of    *)
(* them).  A void of an offline sale the host has not heard of takes the   *)
(* invoice number out of the file again.  The file, the row and the host   *)
(* change in separate steps, the file is rewritten in place, and power may *)
(* fail between any two of them.                                           *)
(*                                                                         *)
(* Persistent state is the advice file, the batch table, the invoice       *)
(* number, the must-settle bit and the EDC lock.  cur, rest and left are   *)
(* RAM.  booked, net and reply are the host and the line.  Online sales    *)
(* and voids are one step up to their approval (AtsOnline has the inside), *)
(* closing the batch is one step (Settlement has the inside).  Failures of *)
(* the file system are not modelled, but for a read past the end.          *)
(***************************************************************************)
EXTENDS Integers, Sequences, FiniteSets

CONSTANTS MaxSale,      \* bound: the highest invoice number a sale may take
          MaxCrash      \* bound: how many power failures in one batch

ASSUME AdviceAssumption == MaxSale \in Nat \ {0} /\ MaxCrash \in Nat

VARIABLES
    pc,           \* where the flow is
    cur,          \* pobTran: the transaction in hand
    left,         \* how many advices this run of the sending loop still owes
    rest,         \* what is to be written back to the file
    rows,         \* the newest row of each invoice number
    queue,        \* the .adv file: invoice numbers, oldest first
    invoiceNum,   \* HDPT InvoiceNum
    mustSettle,   \* HDPT MustSettleBit
    booked,       \* host: the messages it has taken
    net,          \* the advice on its way to the host
    reply,        \* the answer on its way to the terminal
    pastEnd,      \* what CTOS_FileRead reports at the end of a file
    again,        \* history: messages the host took more than once
    unheard,      \* history: invoices whose advice was taken and never known to be
    harmed,       \* history: invoices whose entry or row a power failure spoilt
    wasted,       \* history: invoices voided as unsent that the host has booked
    crashes       \* history: power failures in this batch

disk == <<rows, queue, invoiceNum, mustSettle>>
ram  == <<cur, left, rest>>
line == <<booked, net, reply, again>>
hist == <<unheard, harmed, wasted, crashes, pastEnd>>
vars == <<pc, disk, ram, line, hist>>

Invoice == 1 .. MaxSale
Garbage == 0                    \* an entry that is no invoice number
NoRow   == [code |-> "none", org |-> "none", up |-> {}]
Code    == {"SALE", "SALE_OFFLINE", "TIP", "VOID"}
Trans   == [inv : Invoice, code : Code, org : Code \cup {"none"}, up : SUBSET {1, 2}]
Settling == [inv |-> 0, code |-> "SETTLE", org |-> "none", up |-> {}]
Message == [inv : Invoice, iso : {"ADVICE", "TIP", "VOID"}]
None    == [inv |-> 0, iso |-> "none"]
PC == {"idle", "append", "delete", "rename", "insert", "saveInv", "head", "wait",
       "update", "drop", "rewrite", "close", "locked", "boot"}

HasRow(i)  == i \in Invoice /\ rows[i] # NoRow
Entries(i) == Cardinality({k \in DOMAIN queue : queue[k] = i})
Elements(s) == {s[k] : k \in DOMAIN s}

TypeOK ==
    /\ pc \in PC
    /\ cur \in Trans \cup {Settling}
    /\ left \in Nat
    /\ rest \in Seq(Invoice \cup {Garbage})
    /\ rows \in [Invoice -> [code : Code, org : Code \cup {"none"}, up : SUBSET {1, 2}] \cup {NoRow}]
    /\ queue \in Seq(Invoice \cup {Garbage})
    /\ invoiceNum \in Nat
    /\ mustSettle \in BOOLEAN
    /\ booked \subseteq Message
    /\ net \in Message \cup {None}
    /\ reply \in {"none", "00", "other"}
    /\ pastEnd \in {"error", "empty"}
    /\ again \subseteq booked
    /\ unheard \subseteq Invoice
    /\ harmed \subseteq Invoice
    /\ wasted \subseteq Invoice
    /\ crashes \in 0 .. MaxCrash

FreshBatch ==
    /\ rows' = [i \in Invoice |-> NoRow]
    /\ queue' = <<>>
    /\ invoiceNum' = 1
    /\ mustSettle' = FALSE
    /\ booked' = {} /\ again' = {} /\ net' = None /\ reply' = "none"
    /\ unheard' = {} /\ harmed' = {} /\ wasted' = {} /\ crashes' = 0

Init ==
    /\ pc = "idle"
    /\ cur = Settling /\ left = 0 /\ rest = <<>>
    /\ rows = [i \in Invoice |-> NoRow]
    /\ queue = <<>>
    /\ invoiceNum = 1
    /\ mustSettle = FALSE
    /\ booked = {} /\ again = {} /\ net = None /\ reply = "none"
    /\ pastEnd \in {"error", "empty"}
    /\ unheard = {} /\ harmed = {} /\ wasted = {} /\ crashes = 0

Goto(from, to) == pc = from /\ pc' = to
-----------------------------------------------------------------------------
(* Starting a transaction: the row of an earlier one is read into cur and  *)
(* SetTxnOnlineOffline decides how the new one goes and its upload bits.   *)

Start(at, trans, n) ==
    /\ pc = "idle"
    /\ pc' = at
    /\ cur' = trans
    /\ left' = n
    /\ UNCHANGED <<rest, disk, line, hist>>

Transaction(inv, code, up) == [inv |-> inv, code |-> code, org |-> rows[inv].code, up |-> up]

StartOfflineSale ==
    /\ ~mustSettle
    /\ invoiceNum \in Invoice
    /\ Start("append", Transaction(invoiceNum, "SALE_OFFLINE", {1}), 0)

\* Approved by the host; one stored advice may follow on the same connection.
OnlineSale ==
    /\ ~mustSettle
    /\ invoiceNum \in Invoice
    /\ Start("head", Transaction(invoiceNum, "SALE", {}), 1)

\* A row takes one tip, and a row with a tip takes no void.
Amendable(i) == ~mustSettle /\ rows[i].code \in {"SALE", "SALE_OFFLINE"}

\* Mutant: a tip forgets that its sale is still to be sent.
TipBitsAlone(i) == {2}

TipBits(i) == (rows[i].up \cap {1}) \cup {2}

StartTip ==
    \E i \in Invoice : Amendable(i) /\ Start("append", Transaction(i, "TIP", TipBits(i)), 0)

\* Mutant: the upload bits are not looked at, every offline sale is voided offline.
VoidIsOfflineAlways(i) == rows[i].code = "SALE_OFFLINE"

VoidIsOffline(i) == rows[i].code = "SALE_OFFLINE" /\ 1 \in rows[i].up

StartOfflineVoid ==
    \E i \in Invoice :
        /\ Amendable(i)
        /\ VoidIsOffline(i)
        /\ Start("delete", Transaction(i, "VOID", {1, 2}), 0)

\* Approved by the host, as OnlineSale.
OnlineVoid ==
    \E i \in Invoice :
        /\ Amendable(i)
        /\ ~VoidIsOffline(i)
        /\ Start("head", Transaction(i, "VOID", {}), 1)
-----------------------------------------------------------------------------
(* The offline transaction: the file first, the row after it.              *)

SaveAppend ==
    /\ Goto("append", "insert")
    /\ queue' = Append(queue, cur.inv)
    /\ UNCHANGED <<rows, invoiceNum, mustSettle, ram, line, hist>>

Without(s, k) == SubSeq(s, 1, k - 1) \o SubSeq(s, k + 1, Len(s))

\* SearchRecord_Index: the first entry of the invoice number.  Without one the
\* search reads on past the end; unless that is an error, it ends behind the file.
Index == LET found == {k \in DOMAIN queue : queue[k] = cur.inv}
         IN  IF found = {} THEN Len(queue) + 1
             ELSE CHOOSE k \in found : \A j \in found : k <= j

SearchFails == queue = <<>> \/ (pastEnd = "error" /\ Index > Len(queue))

\* The only entry goes with the file, whichever invoice it is.
DeleteOnly ==
    /\ ~SearchFails
    /\ Len(queue) = 1
    /\ Goto("delete", "insert")
    /\ queue' = <<>>
    /\ harmed' = harmed \cup ((Elements(queue) \ {cur.inv}) \cap Invoice)
    /\ wasted' = IF \E m \in booked : m.inv = cur.inv THEN wasted \cup {cur.inv} ELSE wasted
    /\ UNCHANGED <<rows, invoiceNum, mustSettle, ram, line, unheard, crashes, pastEnd>>

\* One of several: the others are written to the .adb file and the .adv file is
\* deleted.  The file is read a second time at its end before that.  An index
\* behind the file copies what follows the buffer into the file.
DeleteOne ==
    /\ ~SearchFails
    /\ Len(queue) > 1
    /\ pastEnd = "empty"
    /\ Goto("delete", "rename")
    /\ rest' = IF Index > Len(queue) THEN Append(queue, Garbage) ELSE Without(queue, Index)
    /\ queue' = <<>>
    /\ wasted' = IF \E m \in booked : m.inv = cur.inv THEN wasted \cup {cur.inv} ELSE wasted
    /\ UNCHANGED <<rows, invoiceNum, mustSettle, cur, left, line, unheard, harmed, crashes, pastEnd>>

\* The .adb file becomes the .adv file.
RenameBackup ==
    /\ Goto("rename", "insert")
    /\ queue' = rest
    /\ rest' = <<>>
    /\ UNCHANGED <<rows, invoiceNum, mustSettle, cur, left, line, hist>>

\* The entry is not found, or a second read fails: the terminal locks itself.
DeleteFails ==
    /\ SearchFails \/ (Len(queue) > 1 /\ pastEnd = "error")
    /\ Goto("delete", "locked")
    /\ UNCHANGED <<disk, ram, line, hist>>

\* UPDATE_BATCH: the old row is marked and the new one inserted; until then the
\* old one is still the newest of its invoice number.
InsertRow ==
    /\ pc = "insert"
    /\ pc' = IF cur.code \in {"SALE", "SALE_OFFLINE"} THEN "saveInv" ELSE "idle"
    /\ rows' = [rows EXCEPT ![cur.inv] = [code |-> cur.code, org |-> cur.org, up |-> cur.up]]
    /\ UNCHANGED <<queue, invoiceNum, mustSettle, ram, line, hist>>

SaveInvoice ==
    /\ Goto("saveInv", "idle")
    /\ invoiceNum' = invoiceNum + 1
    /\ UNCHANGED <<rows, queue, mustSettle, ram, line, hist>>
-----------------------------------------------------------------------------
(* Sending stored advices: all of them before a settlement, one after an   *)
(* online approval.  The row decides what is sent, not the entry.          *)

StartSettle ==
    /\ pc = "idle"
    /\ pc' = "head"
    /\ mustSettle' = TRUE
    /\ cur' = Settling
    /\ left' = Len(queue)
    /\ UNCHANGED <<rest, rows, queue, invoiceNum, line, hist>>

\* Mutant: a settlement goes on whatever became of its advices.
AfterAdvicesIgnored(success) == IF cur # Settling THEN "insert" ELSE "close"

\* Mutant: the settlement request is left for the next time.
AfterAdvicesIdle(success) == IF cur # Settling THEN "insert" ELSE "idle"

AfterAdvices(success) ==
    IF cur # Settling THEN "insert" ELSE IF success THEN "close" ELSE "idle"

\* Mutant: the row's own code goes into the message.
IsoCodeOfRow(r) == r.code

\* Mutant: a tip is sent as such although its sale is still to come.
IsoCodeByTransaction(r) ==
    IF r.code \in {"TIP", "VOID"} THEN r.code ELSE "ADVICE"

IsoCode(r) ==
    CASE r.code \in {"TIP", "VOID"} /\ r.up = {1, 2} -> "ADVICE"
      [] r.code = "TIP" /\ r.up # {1, 2}  -> "TIP"
      [] r.code = "VOID" /\ r.up # {1, 2} -> "VOID"
      [] OTHER -> "ADVICE"

SendHead ==
    /\ pc = "head"
    /\ left > 0
    /\ queue # <<>>
    /\ HasRow(Head(queue))
    /\ pc' = "wait"
    /\ net' = [inv |-> Head(queue), iso |-> IsoCode(rows[Head(queue)])]
    /\ UNCHANGED <<disk, ram, booked, reply, again, hist>>

NoMoreAdvices ==
    /\ pc = "head"
    /\ left = 0 \/ queue = <<>>
    /\ pc' = AfterAdvices(TRUE)
    /\ UNCHANGED <<disk, ram, line, hist>>

\* The entry leads to no row: the loop gives up, and a settlement with it.
HeadHasNoRow ==
    /\ pc = "head"
    /\ left > 0
    /\ queue # <<>>
    /\ ~HasRow(Head(queue))
    /\ pc' = AfterAdvices(FALSE)
    /\ UNCHANGED <<disk, ram, line, hist>>

HostTakes ==
    /\ net # None
    /\ net' = None
    /\ reply' = "00"
    /\ again' = IF net \in booked THEN again \cup {net} ELSE again
    /\ booked' = booked \cup {net}
    /\ UNCHANGED <<pc, disk, ram, hist>>

HostRefuses ==
    /\ net # None
    /\ net' = None
    /\ reply' = "other"
    /\ UNCHANGED <<pc, disk, ram, booked, again, hist>>

Taken == IF reply = "00" THEN {Head(queue)} ELSE {}

\* Nothing heard in time; the connection is closed and with it what was on it.
Timeout ==
    /\ pc = "wait"
    /\ pc' = AfterAdvices(FALSE)
    /\ net' = None /\ reply' = "none"
    /\ unheard' = unheard \cup Taken
    /\ UNCHANGED <<disk, ram, booked, again, harmed, wasted, crashes, pastEnd>>

Accepted ==
    /\ Goto("wait", "update")
    /\ reply = "00"
    /\ reply' = "none"
    /\ UNCHANGED <<disk, ram, booked, net, again, hist>>

Refused ==
    /\ pc = "wait"
    /\ reply = "other"
    /\ reply' = "none"
    /\ pc' = AfterAdvices(FALSE)
    /\ UNCHANGED <<disk, ram, booked, net, again, hist>>

\* Mutant: the bits of a taken sale with a tip to come are all cleared.
BitsAfterAll(r) == {}

\* ISOAdviceAnalyse: what the row still owes after an answer 00.
BitsAfter(r) == IF r.code \in {"TIP", "VOID"} /\ r.up = {1, 2} THEN {2} ELSE {}

UpdateRow ==
    /\ Goto("update", "drop")
    /\ rows' = [rows EXCEPT ![Head(queue)].up = BitsAfter(rows[Head(queue)])]
    /\ UNCHANGED <<queue, invoiceNum, mustSettle, ram, line, hist>>

\* Mutant: the file is closed and not deleted.
DropOnlyForgotten ==
    /\ Goto("drop", "head")
    /\ Len(queue) = 1
    /\ left' = left - 1
    /\ UNCHANGED <<rows, queue, invoiceNum, mustSettle, cur, rest, line, hist>>

DropOnly ==
    /\ Goto("drop", "head")
    /\ Len(queue) = 1
    /\ queue' = <<>>
    /\ left' = left - 1
    /\ UNCHANGED <<rows, invoiceNum, mustSettle, cur, rest, line, hist>>

\* The others are read into memory, the file is deleted and created empty.
DropFirst ==
    /\ Goto("drop", "rewrite")
    /\ Len(queue) > 1
    /\ rest' = Tail(queue)
    /\ queue' = <<>>
    /\ UNCHANGED <<rows, invoiceNum, mustSettle, cur, left, line, hist>>

RewriteRest ==
    /\ Goto("rewrite", "head")
    /\ queue' = rest
    /\ rest' = <<>>
    /\ left' = left - 1
    /\ UNCHANGED <<rows, invoiceNum, mustSettle, cur, line, hist>>

\* Every advice is taken; the host closes the batch and the terminal empties it.
CloseBatch ==
    /\ Goto("close", "idle")
    /\ FreshBatch
    /\ UNCHANGED <<ram, pastEnd>>

SettleFailed ==
    /\ Goto("close", "idle")
    /\ UNCHANGED <<disk, ram, line, hist>>
-----------------------------------------------------------------------------
(* Power failures and the EDC lock.                                        *)

\* History: the entries or rows that a power failure spoils now.
Spoilt ==
    CASE pc = "insert" /\ cur.up # {} -> {cur.inv}
      [] pc = "rename" -> {cur.inv} \cup Elements(rest)
      [] pc = "rewrite" -> Elements(rest)
      [] pc = "drop" -> {Head(queue)}
      [] OTHER -> {}

Crash ==
    /\ crashes < MaxCrash
    /\ pc \notin {"boot", "locked"}
    /\ pc' = "boot"
    /\ crashes' = crashes + 1
    /\ harmed' = harmed \cup (Spoilt \cap Invoice)
    /\ unheard' = unheard \cup (IF pc = "update" THEN {Head(queue)} ELSE Taken)
    /\ cur' = Settling /\ left' = 0 /\ rest' = <<>>
    /\ net' = None /\ reply' = "none"
    /\ UNCHANGED <<disk, booked, again, wasted, pastEnd>>

\* The largest invoice number with a row.
MaxInvoice == CHOOSE i \in 0 .. MaxSale :
                  /\ i = 0 \/ HasRow(i)
                  /\ \A j \in Invoice : HasRow(j) => j <= i

\* Start-up moves the invoice number past every row and two further.
Boot ==
    /\ Goto("boot", "idle")
    /\ invoiceNum' = IF mustSettle THEN invoiceNum
                     ELSE (IF invoiceNum <= MaxInvoice THEN MaxInvoice + 1 ELSE invoiceNum) + 2
    /\ UNCHANGED <<rows, queue, mustSettle, ram, line, hist>>

\* A technician unlocks the terminal; locked, it has to settle first.
Unlock ==
    /\ Goto("locked", "idle")
    /\ mustSettle' = TRUE
    /\ UNCHANGED <<rows, queue, invoiceNum, ram, line, hist>>

\* Or unlocks it and deletes every batch, and the advice files with them.
UnlockAndDelete ==
    /\ Goto("locked", "idle")
    /\ FreshBatch
    /\ UNCHANGED <<ram, pastEnd>>
-----------------------------------------------------------------------------
Begin   == StartOfflineSale \/ OnlineSale \/ StartTip \/ StartOfflineVoid \/ OnlineVoid
File    == SaveAppend \/ DeleteOnly \/ DeleteOne \/ RenameBackup \/ DeleteFails
Book    == InsertRow \/ SaveInvoice
Send    == SendHead \/ NoMoreAdvices \/ HeadHasNoRow \/ Timeout \/ Accepted \/ Refused
Remove  == UpdateRow \/ DropOnly \/ DropFirst \/ RewriteRest
Host    == HostTakes \/ HostRefuses
Close   == CloseBatch \/ SettleFailed
Service == Unlock \/ UnlockAndDelete

Next == Begin \/ StartSettle \/ File \/ Book \/ Send \/ Remove \/ Host \/ Close
            \/ Crash \/ Boot \/ Service

Spec == Init /\ [][Next]_vars

\* The program runs on while it has power, a terminal that must settle is made to
\* settle again, and a host that is asked again and again answers in the end.
FairSpec ==
    /\ Spec
    /\ WF_vars(File \/ Book \/ Send \/ Remove \/ Boot)
    /\ WF_vars(mustSettle /\ StartSettle)
    /\ SF_vars(HostTakes) /\ SF_vars(Accepted) /\ SF_vars(CloseBatch)
-----------------------------------------------------------------------------
(* What must hold.                                                         *)

MadeOffline(i) == "SALE_OFFLINE" \in {rows[i].code, rows[i].org}

\* The messages a row calls for: the sale when it was made offline, and the tip.
Due(i) == {m \in Message : /\ m.inv = i
                           /\ \/ m.iso = "ADVICE" /\ MadeOffline(i)
                              \/ m.iso = "TIP" /\ rows[i].code = "TIP"}

\* Between transactions the file holds one entry for each upload bit of a row, none
\* for a voided one, whatever was sent, refused, voided or tipped in between; only a
\* power failure inside a booking or a rewrite may change that, for the invoices
\* it hit.  SaveAppend, DeleteRecordFlow and inADVICE_Update keep file and row in step.
QueueMatchesRows ==
    pc = "idle" => \A i \in Invoice \ harmed :
        Entries(i) = IF rows[i].code = "VOID" THEN 0 ELSE Cardinality(rows[i].up)

\* When the closing of the batch is asked for, the host has taken every offline sale
\* and every tip that still stands (ProcessAdvice comes before the request).
NothingDueIsForgotten ==
    pc = "close" => \A i \in Invoice \ harmed :
        HasRow(i) /\ rows[i].code # "VOID" => Due(i) \subseteq booked

\* The host never hears of the tip of an offline sale before the sale, not even when
\* power failures have spoilt the order of the file: the row decides what is sent.
TipAfterItsSale ==
    \A i \in Invoice : [inv |-> i, iso |-> "TIP"] \in booked /\ MadeOffline(i)
                          => [inv |-> i, iso |-> "ADVICE"] \in booked

\* The host takes an advice twice only when its first answer never came to the row,
\* or a power failure left two entries for one row: the update of the row comes
\* before the removal of the entry.
TakenTwiceOnlyIfCutOff == \A m \in again : m.inv \in unheard \cup harmed

\* "Offline cancel: the original was not uploaded, cancel it directly", says the code
\* that takes the advice of a voided sale out of the file (NCCCats.c:15331).  It has
\* been uploaded only when its answer was lost, or a power failure hit it.
WastedOnlyIfUnheard == wasted \subseteq unheard \cup harmed

\* An entry without a row, left by a power failure between SaveAppend and the row.
Orphan == \E k \in DOMAIN queue : ~HasRow(queue[k])

\* A terminal that must settle does settle, or locks, unless an orphan heads the
\* advices: then every settlement fails before its request is sent.
MustSettleEnds == mustSettle ~> (~mustSettle \/ pc = "locked" \/ Orphan)
-----------------------------------------------------------------------------
(* Refinement: file, rows and line together are an Outbox.  The row decides *)
(* what is owed; the file, with its rewriting in place, is how it is found. *)

owedBar ==
    {m \in Message :
        /\ m.inv \notin harmed /\ rows[m.inv].code # "VOID"
        /\ \/ m.iso = "ADVICE" /\ 1 \in rows[m.inv].up
           \/ m.iso = "TIP" /\ 2 \in rows[m.inv].up}

Out == INSTANCE Outbox
           WITH Message <- Message, owed <- owedBar, taken <- booked, unheard <- unheard,
                spoilt <- harmed, locked <- pc = "locked"

\* The advice path implements Outbox: each offline sale and tip goes into the outbox in one
\* step (InsertRow), leaves it when the terminal knows it taken (UpdateRow) or when it is
\* voided unsent; the host takes only what is due, a sale before its tip, and CloseBatch
\* finds the outbox empty, whatever is refused, lost or cut off on the way.
ImplementsOutbox == Out!Spec
=============================================================================
