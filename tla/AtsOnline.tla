------------------------------ MODULE AtsOnline ------------------------------
(***************************************************************************)
(* An online SALE or VOID of the terminal against the ATS host, as         *)
(* NCCC/NCCCats.c runs it: connect, send a reversal left by an earlier     *)
(* transaction, store the reversal of this one, send the request, analyse  *)
(* the answer, then book the transaction in the totals, the batch table    *)
(* and the invoice counter.  A settlement runs the same first steps and    *)
(* then closes the batch, one step here: Settlement has its inside.  Power *)
(* may fail between any two writes, the request or the answer may be lost, *)
(* the answer may come after the terminal stopped waiting, the host may    *)
(* refuse a reversal, and it may refer an invoice again and again.         *)
(*                                                                         *)
(* Persistent state is the host parameter record HDPT (the send-reversal   *)
(* bit, the invoice number, the must-settle bit), the reversal file, the   *)
(* totals and the batch table.  pc and cur are RAM.  host, net and reply   *)
(* are the host and the line: code outside the repository, modelled from   *)
(* how it is used.  An attempt is the identity of one request packet.      *)
(***************************************************************************)
EXTENDS Integers, FiniteSets

CONSTANTS MaxAttempt,   \* bound: how many requests are ever stored and sent
          InvoiceMax,   \* lnMaxInv of inFunc_UpdateInvNum, 600 in the code
          MaxCrash      \* bound: how many power failures

ASSUME AtsAssumption ==
    /\ MaxAttempt \in Nat \ {0}
    /\ InvoiceMax \in Nat \ {0}
    /\ MaxCrash \in Nat

VARIABLES
    pc,              \* where the transaction flow is
    cur,             \* pobTran: the attempt, its kind, its lnOrgInvNum, and how
                     \* many referrals deep the call stack is
    sendReversalBit, \* HDPT SendReversalBit
    reversalFile,    \* the .rev file: absent, empty, or the attempt it reverses
    invoiceNum,      \* HDPT InvoiceNum: the number the next sale takes
    mustSettleBit,   \* HDPT MustSettleBit
    accum,           \* the net count the totals stand at
    batch,           \* rows of the batch table
    host,            \* what the host has booked for each attempt
    net,             \* the request on its way to the host
    reply,           \* the answer on its way to the terminal
    req,             \* history: what each stored request asked for
    nAttempt,        \* history: how many requests were stored
    lost,            \* history: attempts cut off by a power failure while booking
    presumed,        \* history: sales the code took for approved, unanswered
    crashes,         \* history: power failures so far
    settled,         \* history: attempts with a row in a batch since settled
    closed           \* history: the last attempt stored before the last settlement

hdpt   == <<sendReversalBit, invoiceNum, mustSettleBit>>
books  == <<accum, batch>>
line   == <<host, net, reply>>
hist   == <<req, nAttempt, lost, presumed, crashes, settled, closed>>
vars   == <<pc, cur, hdpt, reversalFile, books, line, hist>>

Attempt  == 1 .. MaxAttempt
NoFile   == 0                        \* the reversal file does not exist
Empty    == MaxAttempt + 1           \* it exists and holds nothing
Kind     == {"SALE", "VOID"}
Request  == [kind : Kind, inv : Nat]
Row      == [id : Attempt, kind : Kind, inv : Nat, updated : BOOLEAN]
Message  == [type : {"auth", "reversal"}, id : Attempt]
Answer   == {"approve", "unusable", "decline", "referral", "refuse"}
HostState == {"unknown", "approved", "declined", "reversed"}
None     == [type |-> "none", id |-> 0]
NoAnswer == "none"
NoCur    == [id |-> 0, kind |-> "SETTLE", inv |-> 0, calls |-> 0]

Booking  == {"advice", "accum", "mark", "insert"}
PC == {"idle", "connect", "reversal", "waitReversal", "deleteReversal",
       "saveDelete", "saveCreate", "saveWrite", "saveBit", "send", "waitAuth",
       "refer", "settle", "inv", "mustSettle", "boot", "fixInv", "fixMustSettle",
       "bumpInv", "bumpMustSettle"} \cup Booking

TypeOK ==
    /\ pc \in PC
    /\ cur \in [id : Nat, kind : Kind \cup {"SETTLE"}, inv : Nat, calls : Nat]
    /\ sendReversalBit \in BOOLEAN
    /\ reversalFile \in 0 .. MaxAttempt + 1
    /\ invoiceNum \in Nat
    /\ mustSettleBit \in BOOLEAN
    /\ accum \in Int
    /\ batch \subseteq Row
    /\ host \in [Attempt -> HostState]
    /\ net \in Message \cup {None}
    /\ reply \in Answer \cup {NoAnswer}
    /\ req \in [Attempt -> Request]
    /\ nAttempt \in 0 .. MaxAttempt
    /\ lost \subseteq Attempt
    /\ presumed \subseteq Attempt
    /\ crashes \in Nat
    /\ settled \subseteq Attempt
    /\ closed \in 0 .. MaxAttempt

\* Kept at the terminal: a row in the batch, or in a batch since settled.
Recorded           == {r.id : r \in batch} \cup settled
LiveRows           == {r \in batch : ~r.updated}
IsLatest(r)        == \A s \in batch : s.inv = r.inv => s.id <= r.id
ReversalPending(a) == sendReversalBit /\ reversalFile = a
BookingOf(a)       == pc \in Booking /\ cur.id = a

Init ==
    /\ pc = "idle"
    /\ cur = NoCur
    /\ sendReversalBit = FALSE
    /\ reversalFile = NoFile
    /\ invoiceNum = 1
    /\ mustSettleBit = FALSE
    /\ accum = 0
    /\ batch = {}
    /\ host = [a \in Attempt |-> "unknown"]
    /\ net = None
    /\ reply = NoAnswer
    /\ req = [a \in Attempt |-> [kind |-> "SALE", inv |-> 0]]
    /\ nAttempt = 0
    /\ lost = {}
    /\ presumed = {}
    /\ crashes = 0
    /\ settled = {}
    /\ closed = 0
-----------------------------------------------------------------------------
(* Starting a transaction: the checks before the connection.               *)

Start(kind, inv, mustSettle) ==
    /\ pc = "idle"
    /\ cur' = [id |-> nAttempt + 1, kind |-> kind, inv |-> inv, calls |-> 0]
    /\ mustSettleBit' = mustSettle
    /\ pc' = "connect"
    /\ UNCHANGED <<sendReversalBit, invoiceNum, reversalFile, books, line, hist>>

StartSale ==
    /\ ~mustSettleBit
    /\ nAttempt < MaxAttempt
    /\ Start("SALE", invoiceNum, FALSE)

\* The newest row of an invoice is read, marked or not, and a void is refused: a
\* void cut off after it marked the sale may be asked again.
StartVoid ==
    /\ ~mustSettleBit
    /\ nAttempt < MaxAttempt
    /\ \E r \in batch : IsLatest(r) /\ r.kind = "SALE" /\ Start("VOID", r.inv, FALSE)

\* A settlement sets the must-settle bit first.  It sends the stored reversal and
\* stores none of its own.
StartSettle == Start("SETTLE", 0, TRUE)

ConnectFail ==
    /\ pc = "connect"
    /\ pc' = "idle"
    /\ UNCHANGED <<cur, hdpt, reversalFile, books, line, hist>>

\* uszReversalBit is set for every online transaction but a settlement.
AfterReversal == IF cur.kind = "SETTLE" THEN "settle" ELSE "saveDelete"

\* Mutant: a stored reversal is not sent before the next request.
ConnectedIgnoringReversal ==
    /\ pc = "connect"
    /\ pc' = AfterReversal
    /\ UNCHANGED <<cur, hdpt, reversalFile, books, line, hist>>

Connected ==
    /\ pc = "connect"
    /\ pc' = IF sendReversalBit THEN "reversal" ELSE AfterReversal
    /\ UNCHANGED <<cur, hdpt, reversalFile, books, line, hist>>
-----------------------------------------------------------------------------
(* Sending the reversal an earlier transaction left.                       *)

SendReversal ==
    /\ pc = "reversal"
    /\ IF reversalFile \in Attempt
       THEN /\ net = None
            /\ net' = [type |-> "reversal", id |-> reversalFile]
            /\ pc' = "waitReversal"
       ELSE pc' = "idle" /\ net' = net
    /\ UNCHANGED <<cur, hdpt, reversalFile, books, host, reply, hist>>

\* Mutant: any answer counts as done.
ReversalAnsweredUnread ==
    /\ pc = "waitReversal"
    /\ reply # NoAnswer
    /\ reply' = NoAnswer
    /\ pc' = "deleteReversal" /\ sendReversalBit' = FALSE
    /\ UNCHANGED <<cur, reversalFile, invoiceNum, mustSettleBit, books, host, net, hist>>

\* "00" clears the bit and saves it; any other answer leaves it set.
ReversalAnswered ==
    /\ pc = "waitReversal"
    /\ reply # NoAnswer
    /\ reply' = NoAnswer
    /\ IF reply = "approve"
       THEN pc' = "deleteReversal" /\ sendReversalBit' = FALSE
       ELSE pc' = "idle" /\ UNCHANGED sendReversalBit
    /\ UNCHANGED <<cur, reversalFile, invoiceNum, mustSettleBit, books, host, net, hist>>

DeleteReversal ==
    /\ pc = "deleteReversal"
    /\ reversalFile' = NoFile
    /\ pc' = AfterReversal
    /\ UNCHANGED <<cur, hdpt, books, line, hist>>
-----------------------------------------------------------------------------
(* inNCCC_ATS_ReversalSave: the file first, then the bit that arms it.     *)

SaveFile(at, content, next) ==
    /\ pc = at
    /\ reversalFile' = content
    /\ pc' = next
    /\ UNCHANGED <<cur, hdpt, books, line, hist>>

\* Mutant: a failed write goes unnoticed.
ReversalSaveWriteNothing == SaveFile("saveWrite", Empty, "saveBit")

ReversalSaveDelete == SaveFile("saveDelete", NoFile, "saveCreate")
ReversalSaveCreate == SaveFile("saveCreate", Empty, "saveWrite")
ReversalSaveWrite  == SaveFile("saveWrite", cur.id, "saveBit")

ReversalSaveBit ==
    /\ pc = "saveBit"
    /\ sendReversalBit' = TRUE
    /\ nAttempt' = cur.id
    /\ req' = [req EXCEPT ![cur.id] = [kind |-> cur.kind, inv |-> cur.inv]]
    /\ pc' = "send"
    /\ UNCHANGED <<cur, reversalFile, invoiceNum, mustSettleBit, books, line>>
    /\ UNCHANGED <<lost, presumed, crashes, settled, closed>>
-----------------------------------------------------------------------------
(* The request and its answer.                                             *)

SendAuth ==
    /\ pc = "send"
    /\ net = None
    /\ net' = [type |-> "auth", id |-> cur.id]
    /\ pc' = "waitAuth"
    /\ UNCHANGED <<cur, hdpt, reversalFile, books, host, reply, hist>>

\* A telephoned sale that is telephoned again runs inside an AnalysePacket whose caller tests
\* for VS_ERROR only: VS_COMM_ERROR and VS_ISO_UNPACK_ERROR pass for success there.
Unchecked == pc = "waitAuth" /\ cur.calls > 1

\* Mutant: only the wait for the authorization has a timer.
TimeoutOfAuthOnly ==
    /\ pc = "waitAuth" /\ ~Unchecked
    /\ pc' = "idle"
    /\ reply' = NoAnswer
    /\ UNCHANGED <<cur, hdpt, reversalFile, books, host, net, hist>>

\* No answer in time: the connection is closed and an answer still on the way
\* is dropped with it.  The request itself may still reach the host.
Timeout ==
    /\ pc \in {"waitReversal", "waitAuth"} /\ ~Unchecked
    /\ pc' = "idle"
    /\ reply' = NoAnswer
    /\ UNCHANGED <<cur, hdpt, reversalFile, books, host, net, hist>>

\* No answer in time, or one without a valid authorization code, where nobody checks:
\* the sale is booked, its reversal armed, and no advice is sent.
TakenForApproved ==
    /\ Unchecked
    /\ pc' = "accum"
    /\ reply' = NoAnswer
    /\ presumed' = presumed \cup {cur.id}
    /\ UNCHANGED <<cur, hdpt, reversalFile, books, host, net>>
    /\ UNCHANGED <<req, nAttempt, lost, crashes, settled, closed>>

Answered(code, next, bit) ==
    /\ pc = "waitAuth"
    /\ reply = code
    /\ reply' = NoAnswer
    /\ sendReversalBit' = bit
    /\ pc' = next
    /\ UNCHANGED <<cur, reversalFile, invoiceNum, mustSettleBit, books, host, net, hist>>

\* Mutants: the reversal stays armed after an approval, or is given up after an
\* answer that cannot be used.
AuthorizedStillArmed == Answered("approve", "advice", TRUE)
UnusableDisarmed     == Answered("unusable", "idle", FALSE)

Authorized == Answered("approve", "advice", FALSE)
Cancelled  == Answered("decline", "idle", FALSE)

\* No valid authorization code, a table missing, or a response code that cannot
\* be read: the transaction fails and the reversal stays armed.  However deep the
\* referrals, an empty response code fails it.
Unusable   == Answered("unusable", "idle", sendReversalBit)

\* Only a sale may call the bank: for a void "01" and "02" are read as "05".
Referral == Answered("referral", IF cur.kind = "SALE" THEN "refer" ELSE "idle", FALSE)

\* The bank approved by telephone: a forced online sale under the same invoice.
ReferralApproved ==
    /\ pc = "refer"
    /\ nAttempt < MaxAttempt
    /\ cur' = [cur EXCEPT !.id = nAttempt + 1, !.calls = @ + 1]
    /\ pc' = "connect"
    /\ UNCHANGED <<hdpt, reversalFile, books, line, hist>>

ReferralCancelled ==
    /\ pc = "refer"
    /\ pc' = "idle"
    /\ UNCHANGED <<cur, hdpt, reversalFile, books, line, hist>>
-----------------------------------------------------------------------------
(* Booking an authorized transaction.                                      *)

\* One stored advice is sent before anything is booked; its result is ignored.
PiggybackAdvice ==
    /\ pc = "advice"
    /\ pc' = "accum"
    /\ UNCHANGED <<cur, hdpt, reversalFile, books, line, hist>>

\* Mutant: a void is counted like a sale.
UpdateAccumUnsigned ==
    /\ pc = "accum"
    /\ accum' = accum + 1
    /\ pc' = IF cur.kind = "VOID" THEN "mark" ELSE "insert"
    /\ UNCHANGED <<cur, hdpt, reversalFile, batch, line, hist>>

UpdateAccum ==
    /\ pc = "accum"
    /\ accum' = IF cur.kind = "SALE" THEN accum + 1 ELSE accum - 1
    /\ pc' = IF cur.kind = "VOID" THEN "mark" ELSE "insert"
    /\ UNCHANGED <<cur, hdpt, reversalFile, batch, line, hist>>

\* uszUpdateBatchBit: the newest row of the invoice, the one the void replaces, is
\* marked.
MarkOldRow ==
    /\ pc = "mark"
    /\ batch' = {[r EXCEPT !.updated = @ \/ (r.inv = cur.inv /\ IsLatest(r))] : r \in batch}
    /\ pc' = "insert"
    /\ UNCHANGED <<cur, hdpt, reversalFile, accum, line, hist>>

InsertRow ==
    /\ pc = "insert"
    /\ batch' = batch \cup
         {[id |-> cur.id, kind |-> cur.kind, inv |-> cur.inv, updated |-> FALSE]}
    /\ pc' = IF cur.kind = "SALE" THEN "inv" ELSE "idle"
    /\ UNCHANGED <<cur, hdpt, reversalFile, accum, line, hist>>

(* inFunc_UpdateInvNum saves HDPT twice: the number, then the bit.         *)

SaveInvoice(at, inv, next) ==
    /\ pc = at
    /\ invoiceNum' = inv
    /\ pc' = next
    /\ UNCHANGED <<cur, sendReversalBit, mustSettleBit, reversalFile, books, line, hist>>

\* Mutant: the batch table is forgotten.
SomethingToReverse == reversalFile # NoFile

SomethingToSettle == reversalFile # NoFile \/ batch # {}

RaiseMustSettle(at, next) ==
    /\ pc = at
    /\ mustSettleBit' = (mustSettleBit \/ (invoiceNum > InvoiceMax /\ SomethingToSettle))
    /\ pc' = next
    /\ UNCHANGED <<cur, sendReversalBit, invoiceNum, reversalFile, books, line, hist>>

UpdateInvNum   == SaveInvoice("inv", cur.inv + 1, "mustSettle")
CheckOverLimit == RaiseMustSettle("mustSettle", "idle")
-----------------------------------------------------------------------------
(* The rest of a settlement.                                               *)

\* An advice, the dialogue or the upload failed: the bit stays set.
SettleFailed ==
    /\ pc = "settle"
    /\ pc' = "idle"
    /\ UNCHANGED <<cur, hdpt, reversalFile, books, line, hist>>

\* The host closed the batch: inFunc_DeleteBatch, inFunc_DeleteAccum and
\* inFunc_ResetBatchInvNum.  Deleting a reversal file takes its bit along.
CloseBatch ==
    /\ pc = "settle"
    /\ pc' = "idle"
    /\ batch' = {} /\ accum' = 0 /\ invoiceNum' = 1
    /\ mustSettleBit' = FALSE
    /\ reversalFile' = NoFile
    /\ sendReversalBit' = (sendReversalBit /\ reversalFile = NoFile)
    /\ settled' = Recorded
    /\ closed' = nAttempt
    /\ UNCHANGED <<cur, line, req, nAttempt, lost, presumed, crashes>>
-----------------------------------------------------------------------------
(* Power failure and start-up.                                             *)

Crash ==
    /\ crashes < MaxCrash
    /\ crashes' = crashes + 1
    /\ lost' = IF pc \in Booking THEN lost \cup {cur.id} ELSE lost
    /\ pc' = "boot"
    /\ cur' = NoCur
    /\ reply' = NoAnswer
    /\ UNCHANGED <<hdpt, reversalFile, books, host, net>>
    /\ UNCHANGED <<req, nAttempt, presumed, settled, closed>>

\* inNCCC_Func_Fix_Inv_Problem_At_Reboot leaves a host that must settle alone.
Boot ==
    /\ pc = "boot"
    /\ pc' = IF mustSettleBit THEN "idle" ELSE "fixInv"
    /\ UNCHANGED <<cur, hdpt, reversalFile, books, line, hist>>

\* The largest invoice number of a live row, 0 when there is none.
MaxLiveInvoice ==
    IF LiveRows = {} THEN 0
    ELSE CHOOSE i \in {r.inv : r \in LiveRows} : \A r \in LiveRows : r.inv <= i

\* Mutants: start-up leaves the number alone, or moves it the wrong way.
BumpInvoiceNot  == SaveInvoice("bumpInv", invoiceNum, "bumpMustSettle")
BumpInvoiceBack == SaveInvoice("bumpInv", invoiceNum - 2, "bumpMustSettle")

FixInvoice ==
    IF invoiceNum <= MaxLiveInvoice
    THEN SaveInvoice("fixInv", MaxLiveInvoice + 1, "fixMustSettle")
    ELSE SaveInvoice("fixInv", invoiceNum, "bumpInv")

FixOverLimit  == RaiseMustSettle("fixMustSettle", "bumpInv")
BumpInvoice   == SaveInvoice("bumpInv", invoiceNum + 2, "bumpMustSettle")
BumpOverLimit == RaiseMustSettle("bumpMustSettle", "idle")
-----------------------------------------------------------------------------
(* The host and the line.  A message is delivered once or lost, in order.  *)

\* The terminal hears an answer only while it waits on the same connection.
Deliver(code) ==
    /\ net' = None
    /\ reply' = IF pc \in {"waitReversal", "waitAuth"} THEN code ELSE NoAnswer
    /\ UNCHANGED <<pc, cur, hdpt, reversalFile, books, hist>>

HostAuthorize ==
    /\ net.type = "auth"
    /\ \E code \in {"approve", "unusable"} : Deliver(code)
    /\ host' = [host EXCEPT ![net.id] = "approved"]

HostDecline ==
    /\ net.type = "auth"
    /\ \E code \in {"decline", "referral", "unusable"} : Deliver(code)
    /\ host' = [host EXCEPT ![net.id] = "declined"]

HostReverse ==
    /\ net.type = "reversal"
    /\ Deliver("approve")
    /\ host' = [host EXCEPT ![net.id] = "reversed"]

HostRefuseReversal ==
    /\ net.type = "reversal"
    /\ Deliver("refuse")
    /\ UNCHANGED host

LoseRequest ==
    /\ net # None
    /\ net' = None
    /\ UNCHANGED <<pc, cur, hdpt, reversalFile, books, host, reply, hist>>
-----------------------------------------------------------------------------
Before  == StartSale \/ StartVoid \/ StartSettle \/ ConnectFail \/ Connected
Clear   == SendReversal \/ ReversalAnswered \/ DeleteReversal
Save    == ReversalSaveDelete \/ ReversalSaveCreate \/ ReversalSaveWrite \/ ReversalSaveBit
Ask     == SendAuth \/ Timeout \/ TakenForApproved \/ Authorized \/ Cancelled
             \/ Unusable \/ Referral \/ ReferralApproved \/ ReferralCancelled
Book    == PiggybackAdvice \/ UpdateAccum \/ MarkOldRow \/ InsertRow
             \/ UpdateInvNum \/ CheckOverLimit
Settle  == SettleFailed \/ CloseBatch
Restart == Boot \/ FixInvoice \/ FixOverLimit \/ BumpInvoice \/ BumpOverLimit
Host    == HostAuthorize \/ HostDecline \/ HostReverse \/ HostRefuseReversal \/ LoseRequest

Next == Before \/ Clear \/ Save \/ Ask \/ Book \/ Settle \/ Crash \/ Restart \/ Host

Spec == Init /\ [][Next]_vars

(***************************************************************************)
(* Fairness.  The flow is one thread that does not stop between two steps, *)
(* a wait ends by its timer, and a message does not stay on the line for   *)
(* ever.  The merchant settles again and again (the must-settle bit forces *)
(* it at the latest), and of infinitely many connections attempted,        *)
(* reversals on the line and confirmations on their way, some succeed.     *)
(***************************************************************************)
HostReverseInTime == pc = "waitReversal" /\ HostReverse
ReversalConfirmed == reply = "approve" /\ ReversalAnswered

Flow ==
    \/ Clear \/ Save \/ Book \/ Settle \/ Restart
    \/ SendAuth \/ Timeout \/ TakenForApproved \/ Authorized \/ Cancelled
    \/ Unusable \/ Referral \/ Connected \/ ConnectFail \/ ReferralCancelled

FairSpec ==
    /\ Spec
    /\ WF_vars(Flow)
    /\ WF_vars(Host)
    /\ SF_vars(StartSettle)
    /\ SF_vars(Connected)
    /\ SF_vars(HostReverseInTime)
    /\ SF_vars(ReversalConfirmed)
-----------------------------------------------------------------------------
(* What must hold, and of a sale taken for approved, what holds instead.   *)

\* Money: whatever the host approved has a row in the batch or in one since settled, or its
\* reversal is armed and readable, or the terminal is between clearing the reversal and writing
\* the row, where a power failure loses it.  That a sale taken for approved has a row does not
\* count: an approval of it must be reversed.
NoOrphanApproval ==
    \A a \in Attempt : host[a] = "approved" =>
        a \in (Recorded \cup lost) \ presumed \/ ReversalPending(a) \/ BookingOf(a)

\* A row in the batch, or in one since settled, stands for a transaction the host approved, and
\* nothing on the terminal or the line can still reverse it, unless it is that of a sale taken
\* for approved.
KeptIsNeverReversed ==
    \A a \in Recorded \ presumed :
        /\ host[a] = "approved"
        /\ ~ReversalPending(a)
        /\ net # [type |-> "reversal", id |-> a]

\* A request leaves the terminal only when no earlier approval is unresolved, so one reversal
\* file is enough: a sale taken for approved is reversed first as well.
OneExposure ==
    [][\A a \in Attempt :
         net' = [type |-> "auth", id |-> a] /\ net # net' =>
           \A b \in Attempt \ {a} :
             host[b] = "approved" => b \in (Recorded \cup lost) \ presumed]_vars

\* What the host holds of the open batch.
ApprovedOf(kind) ==
    {a \in Attempt : a > closed /\ host[a] = "approved" /\ req[a].kind = kind}

\* The host never holds two approved sales of a batch under one invoice number,
\* whatever power failures made the terminal forget, and never two approved voids of one
\* invoice unless a power failure cut the first one off while it was booked.
OneApprovalPerInvoice ==
    /\ \A a, b \in ApprovedOf("SALE") : req[a].inv = req[b].inv => a = b
    /\ \A a, b \in ApprovedOf("VOID") :
         req[a].inv = req[b].inv => a = b \/ a \in lost \/ b \in lost

Standing(kind) == Cardinality({a \in ApprovedOf(kind) : ~ReversalPending(a)})

\* The sales of the open batch the code took for approved.
PresumedSales == Cardinality({a \in presumed : a > closed})

\* At rest, if no power failure hit a booking, the totals the terminal will settle with exceed
\* the host's by the sales taken for approved, exactly: with none, they are the host's.
TotalsAgree ==
    pc = "idle" /\ lost = {} =>
        accum = Standing("SALE") - Standing("VOID") + PresumedSales

\* The invoice counter passes its limit at rest without forcing a settlement
\* only while there is nothing in the batch to settle.
OverLimitOnlyOnEmptyBatch ==
    pc = "idle" /\ invoiceNum > InvoiceMax /\ ~mustSettleBit => batch = {}

\* No transaction hangs: the flow always comes back to idle.
FlowReturns == []<>(pc = "idle")

\* An armed reversal is delivered in the end.
ReversalResolved == sendReversalBit ~> ~sendReversalBit
-----------------------------------------------------------------------------
(* The transaction path implements the ledger: a request is open while its *)
(* reversal is armed or it is being booked; one taken for approved stays   *)
(* in question, its row written, until the host has reversed it.           *)

statusBar ==
    [a \in Attempt |->
        IF a \in lost \ presumed THEN "lost"
        ELSE IF a \in Recorded \ presumed THEN "kept"
        ELSE IF ReversalPending(a) \/ BookingOf(a)
             THEN IF a \in Recorded THEN "presumed" ELSE "open"
        ELSE IF a \in Recorded THEN "disowned"
        ELSE IF a <= nAttempt THEN "undone"
        ELSE "none"]

hostHasBar == {a \in Attempt : host[a] = "approved"}

Ledger == INSTANCE TxnLedger
            WITH Attempt <- Attempt, status <- statusBar, hostHas <- hostHasBar

\* Step by step, the host and the terminal only ever resolve a transaction the same way, one at a
\* time, and never revise it, but for a sale taken for approved, which blocks the next request
\* until the host has let go of it: the code implements TxnLedger.
ImplementsLedger == Ledger!Spec
=============================================================================
