--------------------------- MODULE AtsOnline_proofs ---------------------------
(***************************************************************************)
(* Proofs about AtsOnline for every number of requests, every invoice      *)
(* limit and any number of power failures: the type invariant, the two     *)
(* money invariants, the single-exposure property of steps, and that the   *)
(* transaction path implements TxnLedger.                                  *)
(***************************************************************************)
EXTENDS AtsOnline, WellFoundedInduction, TLAPS

(***************************************************************************)
(* The inductive invariant.  The money invariants are not inductive: that  *)
(* clearing the reversal is safe follows from what an answer says about    *)
(* the host, that from which request is on the line, and that from the     *)
(* reversal armed before the request left.                                 *)
(***************************************************************************)

Clearing == {"connect", "reversal", "waitReversal", "deleteReversal"}
Saving   == {"saveDelete", "saveCreate", "saveWrite", "saveBit"}
Asking   == {"send", "waitAuth"}

\* A request not yet stored takes the next identity.
FreshRequest ==
    /\ pc \in Saving => cur.kind # "SETTLE"
    /\ pc \in Clearing \cup Saving /\ cur.kind # "SETTLE" =>
         cur.kind \in Kind /\ cur.id = nAttempt + 1 /\ nAttempt < MaxAttempt

\* What has not been asked has not happened.
NothingUnasked ==
    \A a \in Attempt : a > nAttempt =>
        host[a] = "unknown" /\ a \notin Recorded /\ a \notin lost /\ a \notin presumed

\* An armed reversal names a stored request that is neither kept nor lost, unless it was taken
\* for approved.
ArmedIsReadable ==
    sendReversalBit =>
        /\ reversalFile \in Attempt
        /\ reversalFile <= nAttempt
        /\ reversalFile \notin (Recorded \cup lost) \ presumed

\* The reversal is armed while the request is out, and disarmed while the file is rewritten and
\* while an approved transaction is booked; it is armed while one taken for approved is.
ArmedWhenNeeded ==
    /\ pc \in Asking =>
         /\ sendReversalBit /\ reversalFile = cur.id /\ cur.kind \in Kind
         /\ cur.id \notin Recorded \cup lost \cup presumed
    /\ pc \in {"reversal", "waitReversal"} => sendReversalBit
    /\ pc \in Saving \cup {"deleteReversal", "settle"} => ~sendReversalBit
    /\ pc \in Booking => IF cur.id \in presumed
                        THEN sendReversalBit /\ reversalFile = cur.id
                        ELSE ~sendReversalBit
    /\ pc = "saveBit" => reversalFile = cur.id

\* Whatever is on the line is about the armed attempt.
LineIsArmed ==
    /\ net # None => sendReversalBit /\ net.id = reversalFile
    /\ pc = "waitReversal" /\ net # None => net.type = "reversal"
    /\ pc = "waitAuth" /\ net # None => net.type = "auth"

\* An answer is heard only by who waits for it, and says what the host holds.
AnswerIsTrue ==
    reply # NoAnswer =>
        /\ net = None
        /\ pc \in {"waitReversal", "waitAuth"}
        /\ pc = "waitReversal" /\ reply = "approve" => host[reversalFile] = "reversed"
        /\ pc = "waitAuth" /\ reply = "approve" => host[cur.id] = "approved"
        /\ pc = "waitAuth" /\ reply \in {"decline", "referral"} => host[cur.id] = "declined"

\* What is being booked is approved or taken for it, and has a row only when the booking ends.
BookingIsApproved ==
    pc \in Booking =>
        /\ cur.kind \in Kind
        /\ cur.id \in Attempt
        /\ cur.id <= nAttempt
        /\ cur.id \notin presumed => host[cur.id] = "approved"
        /\ cur.id \notin Recorded
        /\ cur.id \notin lost

RecordedIsApproved == \A a \in Recorded \ presumed : host[a] = "approved"

\* Only a sale is telephoned to the bank, hence only a sale is taken for approved.
OnlySalesRefer ==
    /\ cur.calls > 0 => cur.kind = "SALE"
    /\ pc \in Booking /\ cur.id \in presumed => cur.kind = "SALE"

\* The next invoice number is never below a row's, so a largest one exists, and
\* it does not move under a sale.
InvoiceCoversRows ==
    /\ \A r \in batch : r.inv <= invoiceNum
    /\ cur.inv <= invoiceNum
    /\ cur.kind = "SETTLE" => cur.inv = 0
    /\ pc = "settle" => cur.kind = "SETTLE"
    /\ pc \in {"refer", "inv"} => cur.kind = "SALE"
    /\ pc \in Clearing \cup Saving \cup Asking \cup Booking \cup {"refer", "inv"}
         /\ cur.kind = "SALE" => cur.inv = invoiceNum

IInv ==
    /\ TypeOK
    /\ FreshRequest
    /\ NothingUnasked
    /\ ArmedIsReadable
    /\ ArmedWhenNeeded
    /\ LineIsArmed
    /\ AnswerIsTrue
    /\ BookingIsApproved
    /\ RecordedIsApproved
    /\ OnlySalesRefer
    /\ InvoiceCoversRows
    /\ NoOrphanApproval
-----------------------------------------------------------------------------
(* The step, one lemma for each group of actions.  The leaves see the      *)
(* parts of the invariant and the shape of the state.                      *)

USE AtsAssumption
    DEF AtsAssumption, Attempt, Kind, NoFile, Empty, None, NoAnswer, Booking, Clearing, Saving,
        Asking, Answer, HostState, NoCur, Unchecked, hdpt, books, line, hist

(* What the two actions that write the batch do to the identities in it.   *)

\* Marking the row a void replaces changes no identity and no invoice number.
LEMMA MarkKeepsRecorded ==
  ASSUME TypeOK, MarkOldRow
  PROVE  /\ batch' \subseteq Row
         /\ Recorded' = Recorded
         /\ \A n \in Nat : (\A r \in batch : r.inv <= n) => \A r \in batch' : r.inv <= n
<1> DEFINE Marked(r) == [r EXCEPT !.updated = @ \/ (r.inv = cur.inv /\ IsLatest(r))]
<1>1. batch' = {Marked(r) : r \in batch}
  BY DEF MarkOldRow
<1>2. \A r \in Row, b \in BOOLEAN :
        LET m == [r EXCEPT !.updated = b]
        IN  m \in Row /\ m.id = r.id /\ m.inv = r.inv
  BY DEF Row
<1>3. \A r \in batch : Marked(r) \in Row /\ Marked(r).id = r.id /\ Marked(r).inv = r.inv
  BY <1>2, Zenon DEF TypeOK
<1> HIDE DEF Marked
<1>4. Recorded' = Recorded
  BY <1>1, <1>3 DEF Recorded, MarkOldRow
<1> QED BY <1>1, <1>3, <1>4

\* Inserting the row adds the current attempt and nothing else.
LEMMA InsertAddsCurrent ==
  ASSUME TypeOK, InsertRow, cur.id \in Attempt, cur.kind \in Kind
  PROVE  /\ batch' \subseteq Row
         /\ Recorded' = Recorded \cup {cur.id}
         /\ \A r \in batch' : r \in batch \/ r.inv = cur.inv
<1> DEFINE row == [id |-> cur.id, kind |-> cur.kind, inv |-> cur.inv, updated |-> FALSE]
<1>1. batch' = batch \cup {row}
  BY DEF InsertRow
<1>2. row \in Row /\ row.id = cur.id /\ row.inv = cur.inv
  BY DEF TypeOK, Row
<1> HIDE DEF row
<1>3. Recorded' = Recorded \cup {cur.id}
  BY <1>1, <1>2 DEF Recorded, InsertRow
<1> QED BY <1>1, <1>2, <1>3 DEF TypeOK

\* What the terminal keeps are attempts, rows or settled.
LEMMA RecordedAreAttempts ==
  ASSUME TypeOK
  PROVE  Recorded \subseteq Attempt
<1>1. \A r \in batch : r.id \in Attempt
  BY DEF TypeOK, Row
<1> QED BY <1>1 DEF TypeOK, Recorded

(* The largest invoice number start-up looks for exists, since the next    *)
(* number bounds them all.                                                 *)

\* A nonempty set of numbers with an upper bound has a largest member.
LEMMA LargestExists ==
  ASSUME NEW S \in SUBSET Nat, S # {}, NEW n \in Nat, \A i \in S : i <= n
  PROVE  \E m \in S : \A i \in S : i <= m
<1> DEFINE Less  == OpToRel(<, Nat)
           Below == {k \in Nat : n - k \in S}
<1>1. \A i, j \in Nat : i < j => <<i, j>> \in Less
  BY DEF OpToRel
<1>2. IsWellFoundedOn(Less, Nat)
  BY NatLessThanWellFounded
<1>3. Below \subseteq Nat /\ Below # {}
  <2>1. PICK i \in S : TRUE
    OBVIOUS
  <2>2. n - i \in Nat /\ n - (n - i) = i
    OBVIOUS
  <2>3. n - i \in Below
    BY <2>2
  <2> QED BY <2>3
<1> HIDE DEF Less
<1>4. PICK d \in Below : \A e \in Below : ~ (<<e, d>> \in Less)
  <2> HIDE DEF Below
  <2> QED BY <1>2, <1>3, WFMin
<1>5. ASSUME NEW e \in Below PROVE d <= e
  <2>1. ~ (e < d)
    BY <1>1, <1>3, <1>4, Zenon
  <2> QED BY <2>1
<1>6. ASSUME NEW i \in S PROVE n - i \in Below
  <2>1. n - i \in Nat /\ n - (n - i) = i
    OBVIOUS
  <2> QED BY <2>1
<1>7. \A i \in S : i <= n - d
  BY <1>4, <1>5, <1>6
<1> QED BY <1>4, <1>7

\* The number start-up repairs from is a number, at most the stored counter.
LEMMA MaxLiveInvoiceIsLargest ==
  ASSUME TypeOK, InvoiceCoversRows
  PROVE  /\ MaxLiveInvoice \in Nat
         /\ MaxLiveInvoice <= invoiceNum
<1> DEFINE S == {r.inv : r \in LiveRows}
<1>1. S \in SUBSET Nat /\ \A i \in S : i <= invoiceNum
  BY DEF TypeOK, Row, LiveRows, InvoiceCoversRows
<1>2. CASE LiveRows = {}
  BY <1>2 DEF MaxLiveInvoice, TypeOK
<1>3. CASE LiveRows # {}
  <2>1. S # {}
    BY <1>3
  <2>2. \E m \in S : \A i \in S : i <= m
    BY <1>1, <2>1, LargestExists DEF TypeOK
  <2>3. \E m \in S : \A r \in LiveRows : r.inv <= m
    BY <2>2
  <2>4. MaxLiveInvoice \in S
    BY <1>3, <2>3 DEF MaxLiveInvoice
  <2> QED BY <1>1, <2>4
<1> QED BY <1>2, <1>3

-----------------------------------------------------------------------------
(* The step, one lemma for each group of actions.  A leaf names its action *)
(* and its helpers; the parts of the invariant are visible throughout.     *)

USE DEF IInv, TypeOK, PC, Message, Request, FreshRequest, NothingUnasked, ArmedIsReadable,
        ArmedWhenNeeded, LineIsArmed, AnswerIsTrue, BookingIsApproved,
        RecordedIsApproved, OnlySalesRefer, InvoiceCoversRows, NoOrphanApproval,
        ReversalPending, BookingOf

\* Starting a transaction and connecting keep the invariant.
LEMMA BeforeKeeps ==
  ASSUME IInv, Before PROVE IInv'
<1>1. CASE StartSale
  <2>1. Recorded' = Recorded
    BY <1>1 DEF StartSale, Start, Recorded
  <2>2. cur' = [id |-> nAttempt + 1, kind |-> "SALE", inv |-> invoiceNum, calls |-> 0]
    BY <1>1 DEF StartSale, Start
  <2>3. nAttempt < MaxAttempt /\ pc' = "connect" /\ mustSettleBit' = FALSE
        /\ UNCHANGED <<sendReversalBit, invoiceNum, reversalFile, books, line, hist>>
    BY <1>1 DEF StartSale, Start
  <2>4. cur' \in [id : Nat, kind : Kind \cup {"SETTLE"}, inv : Nat, calls : Nat]
    BY <2>2
  <2>5. TypeOK'
    BY <2>3, <2>4
  <2>6. FreshRequest' /\ InvoiceCoversRows' /\ OnlySalesRefer'
    BY <2>2, <2>3
  <2> QED BY <1>1, <2>1, <2>3, <2>5, <2>6 DEF StartSale, Start
<1>2. CASE StartVoid
  <2>1. Recorded' = Recorded
    BY <1>2 DEF StartVoid, Start, Recorded
  <2>2. PICK r \in batch : Start("VOID", r.inv, FALSE)
    BY <1>2 DEF StartVoid
  <2>3. cur' = [id |-> nAttempt + 1, kind |-> "VOID", inv |-> r.inv, calls |-> 0]
    BY <2>2 DEF Start
  <2>4. r.inv \in Nat /\ r.inv <= invoiceNum
    BY DEF Row
  <2>5. nAttempt < MaxAttempt /\ pc' = "connect" /\ mustSettleBit' = FALSE
        /\ UNCHANGED <<sendReversalBit, invoiceNum, reversalFile, books, line, hist>>
    BY <1>2, <2>2 DEF StartVoid, Start
  <2>6. cur' \in [id : Nat, kind : Kind \cup {"SETTLE"}, inv : Nat, calls : Nat]
    BY <2>3, <2>4
  <2>7. TypeOK'
    BY <2>5, <2>6
  <2>8. FreshRequest' /\ InvoiceCoversRows' /\ OnlySalesRefer'
    BY <2>3, <2>4, <2>5
  <2> QED BY <2>1, <2>2, <2>5, <2>7, <2>8 DEF Start
<1>3. CASE StartSettle
  BY <1>3 DEF StartSettle, Start, Row, Recorded
<1>4. CASE ConnectFail
  BY <1>4 DEF ConnectFail, Recorded
<1>5. CASE Connected
  BY <1>5 DEF Connected, AfterReversal, Recorded
<1> QED BY <1>1, <1>2, <1>3, <1>4, <1>5 DEF Before

\* Sending the stored reversal and acting on its answer keep the invariant.
LEMMA ClearKeeps ==
  ASSUME IInv, Clear PROVE IInv'
<1>1. CASE SendReversal
  BY <1>1 DEF SendReversal, Recorded
<1>2. CASE ReversalAnswered
  BY <1>2 DEF ReversalAnswered, Recorded
<1>3. CASE DeleteReversal
  BY <1>3 DEF DeleteReversal, AfterReversal, Recorded
<1> QED BY <1>1, <1>2, <1>3 DEF Clear

\* Storing the reversal, file first and bit last, keeps the invariant.
LEMMA SaveKeeps ==
  ASSUME IInv, Save PROVE IInv'
<1>1. CASE ReversalSaveDelete
  BY <1>1 DEF ReversalSaveDelete, SaveFile, Recorded
<1>2. CASE ReversalSaveCreate
  BY <1>2 DEF ReversalSaveCreate, SaveFile, Recorded
<1>3. CASE ReversalSaveWrite
  BY <1>3 DEF ReversalSaveWrite, SaveFile, Recorded
<1>4. CASE ReversalSaveBit
  BY <1>4 DEF ReversalSaveBit, Recorded
<1> QED BY <1>1, <1>2, <1>3, <1>4 DEF Save

\* The authorization request, its answers and its time-out keep the invariant.
LEMMA AskKeeps ==
  ASSUME IInv, Ask PROVE IInv'
<1>1. CASE SendAuth
  BY <1>1 DEF SendAuth, Recorded
<1>2. CASE Timeout
  BY <1>2 DEF Timeout, Recorded
<1>3. CASE Authorized
  <2>1. /\ pc = "waitAuth" /\ sendReversalBit /\ reversalFile = cur.id /\ net = None
        /\ host[cur.id] = "approved" /\ cur.id \in Attempt /\ cur.id <= nAttempt
        /\ cur.id \notin Recorded \cup lost \cup presumed
    BY <1>3 DEF Authorized, Answered
  <2>2. pc' = "advice" /\ reply' = NoAnswer /\ sendReversalBit' = FALSE
        /\ UNCHANGED <<cur, reversalFile, invoiceNum, mustSettleBit, books, host, net, hist>>
    BY <1>3 DEF Authorized, Answered
  <2>3. Recorded' = Recorded
    BY <2>2 DEF Recorded
  <2>4. TypeOK' /\ FreshRequest' /\ NothingUnasked' /\ InvoiceCoversRows' /\ OnlySalesRefer'
    BY <2>1, <2>2, <2>3
  <2>5. ArmedIsReadable' /\ ArmedWhenNeeded' /\ LineIsArmed' /\ AnswerIsTrue'
    BY <2>1, <2>2, <2>3
  <2>6. BookingIsApproved' /\ RecordedIsApproved' /\ NoOrphanApproval'
    BY <2>1, <2>2, <2>3
  <2> QED BY <2>4, <2>5, <2>6
<1>4. CASE Cancelled
  <2>1. /\ pc = "waitAuth" /\ sendReversalBit /\ reversalFile = cur.id /\ net = None
        /\ host[cur.id] = "declined" /\ cur.id \in Attempt /\ cur.id <= nAttempt
        /\ cur.id \notin Recorded \cup lost \cup presumed
    BY <1>4 DEF Cancelled, Answered
  <2>2. pc' = "idle" /\ reply' = NoAnswer /\ sendReversalBit' = FALSE
        /\ UNCHANGED <<cur, reversalFile, invoiceNum, mustSettleBit, books, host, net, hist>>
    BY <1>4 DEF Cancelled, Answered
  <2>3. Recorded' = Recorded
    BY <2>2 DEF Recorded
  <2>4. TypeOK' /\ FreshRequest' /\ NothingUnasked' /\ InvoiceCoversRows' /\ OnlySalesRefer'
    BY <2>1, <2>2, <2>3
  <2>5. ArmedIsReadable' /\ ArmedWhenNeeded' /\ LineIsArmed' /\ AnswerIsTrue'
    BY <2>1, <2>2, <2>3
  <2>6. BookingIsApproved' /\ RecordedIsApproved' /\ NoOrphanApproval'
    BY <2>1, <2>2, <2>3
  <2> QED BY <2>4, <2>5, <2>6
<1>5. CASE Unusable
  BY <1>5 DEF Unusable, Answered, Recorded
<1>6. CASE Referral
  <2>1. /\ pc = "waitAuth" /\ sendReversalBit /\ reversalFile = cur.id /\ net = None
        /\ host[cur.id] = "declined" /\ cur.id \in Attempt /\ cur.id <= nAttempt
        /\ cur.id \notin Recorded \cup lost \cup presumed
    BY <1>6 DEF Referral, Answered
  <2>2. /\ pc' = (IF cur.kind = "SALE" THEN "refer" ELSE "idle")
        /\ reply' = NoAnswer /\ sendReversalBit' = FALSE
        /\ UNCHANGED <<cur, reversalFile, invoiceNum, mustSettleBit, books, host, net, hist>>
    BY <1>6 DEF Referral, Answered
  <2>3. Recorded' = Recorded
    BY <2>2 DEF Recorded
  <2>4. TypeOK' /\ FreshRequest' /\ NothingUnasked' /\ InvoiceCoversRows' /\ OnlySalesRefer'
    BY <2>1, <2>2, <2>3
  <2>5. ArmedIsReadable' /\ ArmedWhenNeeded' /\ LineIsArmed' /\ AnswerIsTrue'
    BY <2>1, <2>2, <2>3
  <2>6. BookingIsApproved' /\ RecordedIsApproved' /\ NoOrphanApproval'
    BY <2>1, <2>2, <2>3
  <2> QED BY <2>4, <2>5, <2>6
<1>7. CASE ReferralApproved
  <2>1. cur' = [id |-> nAttempt + 1, kind |-> cur.kind, inv |-> cur.inv,
                calls |-> cur.calls + 1]
    BY <1>7 DEF ReferralApproved
  <2>2. nAttempt + 1 \in Nat /\ cur.inv \in Nat /\ cur.kind = "SALE" /\ cur.calls + 1 \in Nat
    BY <1>7 DEF ReferralApproved
  <2> QED BY <1>7, <2>1, <2>2 DEF ReferralApproved, Recorded
<1>8. CASE ReferralCancelled
  BY <1>8 DEF ReferralCancelled, Recorded
<1>9. CASE TakenForApproved
  <2>1. pc = "waitAuth" /\ cur.kind = "SALE" /\ cur.id \in Attempt /\ cur.id <= nAttempt
    BY <1>9 DEF TakenForApproved
  <2>2. pc' = "accum" /\ reply' = NoAnswer /\ presumed' = presumed \cup {cur.id}
        /\ UNCHANGED <<cur, hdpt, reversalFile, books, host, net, req, nAttempt, lost,
                       crashes, settled, closed>>
    BY <1>9 DEF TakenForApproved
  <2>3. Recorded' = Recorded
    BY <2>2 DEF Recorded
  <2>4. TypeOK'
    BY <2>1, <2>2
  <2>5. ArmedIsReadable' /\ ArmedWhenNeeded' /\ LineIsArmed' /\ BookingIsApproved'
    BY <2>1, <2>2, <2>3
  <2>6. NoOrphanApproval' /\ RecordedIsApproved' /\ NothingUnasked'
    BY <2>1, <2>2, <2>3
  <2> QED BY <2>1, <2>2, <2>3, <2>4, <2>5, <2>6
<1> QED BY <1>1, <1>2, <1>3, <1>4, <1>5, <1>6, <1>7, <1>8, <1>9 DEF Ask

\* Booking in the totals, the batch and the counter keeps the invariant.
LEMMA BookKeeps ==
  ASSUME IInv, Book PROVE IInv'
<1>1. CASE PiggybackAdvice
  BY <1>1 DEF PiggybackAdvice, Recorded
<1>2. CASE UpdateAccum
  BY <1>2 DEF UpdateAccum, Recorded
<1>3. CASE MarkOldRow
  <2>1. Recorded' = Recorded /\ batch' \subseteq Row
    BY <1>3, MarkKeepsRecorded
  <2>2. \A r \in batch' : r.inv <= invoiceNum
    BY <1>3, MarkKeepsRecorded
  <2> QED BY <1>3, <2>1, <2>2 DEF MarkOldRow
<1>4. CASE InsertRow
  <2>1. cur.id \in Attempt /\ cur.kind \in Kind
    BY <1>4 DEF InsertRow
  <2>2. batch' \subseteq Row /\ Recorded' = Recorded \cup {cur.id}
    BY <1>4, <2>1, InsertAddsCurrent
  <2>3. \A r \in batch' : r.inv <= invoiceNum
    BY <1>4, <2>1, InsertAddsCurrent
  <2> QED BY <1>4, <2>1, <2>2, <2>3 DEF InsertRow
<1>5. CASE UpdateInvNum
  BY <1>5 DEF UpdateInvNum, SaveInvoice, Row, Recorded
<1>6. CASE CheckOverLimit
  BY <1>6 DEF CheckOverLimit, RaiseMustSettle, Recorded
<1> QED BY <1>1, <1>2, <1>3, <1>4, <1>5, <1>6 DEF Book

\* A failed settlement and a closed batch keep the invariant.
LEMMA SettleKeeps ==
  ASSUME IInv, Settle PROVE IInv'
<1>1. CASE SettleFailed
  BY <1>1 DEF SettleFailed, Recorded
<1>2. CASE CloseBatch
  <2>1. Recorded \subseteq Attempt
    BY RecordedAreAttempts
  <2>2. Recorded' = Recorded /\ batch' = {} /\ settled' \subseteq Attempt
    BY <1>2, <2>1 DEF CloseBatch, Recorded
  <2>3. ~sendReversalBit /\ sendReversalBit' = FALSE /\ cur.inv = 0
    BY <1>2 DEF CloseBatch
  <2>4. pc = "settle" /\ pc' = "idle" /\ invoiceNum' = 1 /\ accum' = 0
        /\ mustSettleBit' = FALSE /\ reversalFile' = 0 /\ closed' = nAttempt
        /\ UNCHANGED <<cur, line, req, nAttempt, lost, presumed, crashes>>
    BY <1>2 DEF CloseBatch
  <2>5. TypeOK'
    <3>1. pc' \in PC /\ invoiceNum' \in Nat /\ accum' \in Int
      BY <2>4
    <3>2. batch' \subseteq Row
      BY <2>2
    <3>3. reversalFile' \in 0 .. MaxAttempt + 1 /\ closed' \in 0 .. MaxAttempt
      BY <2>4
    <3>4. sendReversalBit' \in BOOLEAN /\ mustSettleBit' \in BOOLEAN
      BY <2>3, <2>4
    <3> QED BY <2>2, <2>4, <3>1, <3>2, <3>3, <3>4
  <2>6. InvoiceCoversRows' /\ NothingUnasked' /\ RecordedIsApproved'
    BY <2>2, <2>3, <2>4
  <2>7. NoOrphanApproval'
    BY <2>2, <2>3, <2>4
  <2> QED BY <2>3, <2>4, <2>5, <2>6, <2>7
<1> QED BY <1>1, <1>2 DEF Settle

\* The invoice repair of start-up keeps the invariant.
LEMMA RestartKeeps ==
  ASSUME IInv, Restart PROVE IInv'
<1>1. CASE Boot
  BY <1>1 DEF Boot, Recorded
<1>2. CASE FixInvoice
  <2>1. MaxLiveInvoice \in Nat /\ MaxLiveInvoice <= invoiceNum
    BY MaxLiveInvoiceIsLargest
  <2>2. \A r \in batch : r.inv \in Nat
    BY DEF Row
  <2>3. CASE invoiceNum <= MaxLiveInvoice
    <3>0. MaxLiveInvoice = invoiceNum
      BY <2>1, <2>3
    <3>1. SaveInvoice("fixInv", invoiceNum + 1, "fixMustSettle")
      BY <1>2, <3>0 DEF FixInvoice
    <3>2. Recorded' = Recorded
      BY <3>1 DEF SaveInvoice, Recorded
    <3> QED BY <2>2, <3>1, <3>2 DEF SaveInvoice
  <2>4. CASE ~ (invoiceNum <= MaxLiveInvoice)
    <3>1. SaveInvoice("fixInv", invoiceNum, "bumpInv")
      BY <1>2, <2>4 DEF FixInvoice
    <3>2. Recorded' = Recorded
      BY <3>1 DEF SaveInvoice, Recorded
    <3> QED BY <2>2, <3>1, <3>2 DEF SaveInvoice
  <2> QED BY <2>3, <2>4
<1>3. CASE FixOverLimit
  BY <1>3 DEF FixOverLimit, RaiseMustSettle, Recorded
<1>4. CASE BumpInvoice
  <2>1. Recorded' = Recorded
    BY <1>4 DEF BumpInvoice, SaveInvoice, Recorded
  <2>2. \A r \in batch : r.inv \in Nat
    BY DEF Row
  <2> QED BY <1>4, <2>1, <2>2 DEF BumpInvoice, SaveInvoice
<1>5. CASE BumpOverLimit
  BY <1>5 DEF BumpOverLimit, RaiseMustSettle, Recorded
<1> QED BY <1>1, <1>2, <1>3, <1>4, <1>5 DEF Restart

\* What the host and the line do keeps the invariant.
LEMMA HostKeeps ==
  ASSUME IInv, Host PROVE IInv'
<1>1. CASE HostAuthorize
  BY <1>1 DEF HostAuthorize, Deliver, Recorded
<1>2. CASE HostDecline
  BY <1>2 DEF HostDecline, Deliver, Recorded
<1>3. CASE HostReverse
  <2>1. /\ net.type = "reversal" /\ net.id = reversalFile /\ sendReversalBit
        /\ reversalFile \in Attempt /\ reversalFile <= nAttempt
        /\ reversalFile \notin (Recorded \cup lost) \ presumed
    BY <1>3 DEF HostReverse
  <2>2. /\ net' = None /\ reply' \in {"approve", NoAnswer}
        /\ reply' # NoAnswer => pc \in {"waitReversal", "waitAuth"}
        /\ host' = [host EXCEPT ![reversalFile] = "reversed"]
        /\ UNCHANGED <<pc, cur, hdpt, reversalFile, books, hist>>
    BY <1>3, <2>1 DEF HostReverse, Deliver
  <2>3. Recorded' = Recorded
    BY <2>2 DEF Recorded
  <2>4. /\ host'[reversalFile] = "reversed"
        /\ \A a \in Attempt : a # reversalFile => host'[a] = host[a]
    BY <2>1, <2>2
  <2>5. TypeOK' /\ FreshRequest' /\ ArmedIsReadable' /\ ArmedWhenNeeded' /\ LineIsArmed'
    BY <2>1, <2>2, <2>3
  <2>6. AnswerIsTrue'
    BY <2>1, <2>2, <2>4
  <2>7. BookingIsApproved' /\ RecordedIsApproved' /\ NothingUnasked' /\ NoOrphanApproval'
    <3>1. Recorded \subseteq Attempt
      BY RecordedAreAttempts
    <3> QED BY <2>1, <2>2, <2>3, <2>4, <3>1
  <2>8. OnlySalesRefer' /\ InvoiceCoversRows'
    BY <2>2
  <2> QED BY <2>5, <2>6, <2>7, <2>8
<1>4. CASE HostRefuseReversal
  BY <1>4 DEF HostRefuseReversal, Deliver, Recorded
<1>5. CASE LoseRequest
  BY <1>5 DEF LoseRequest, Recorded
<1> QED BY <1>1, <1>2, <1>3, <1>4, <1>5 DEF Host

\* A power failure at any point keeps the invariant.
LEMMA CrashKeeps ==
  ASSUME IInv, Crash PROVE IInv'
<1>1. lost' \subseteq Attempt /\ lost' = IF pc \in Booking THEN lost \cup {cur.id} ELSE lost
  BY DEF Crash
<1>2. cur' \in [id : Nat, kind : Kind \cup {"SETTLE"}, inv : Nat, calls : Nat] /\ cur'.inv = 0
     /\ cur'.calls = 0
  BY DEF Crash
<1>3. TypeOK'
  BY <1>1, <1>2 DEF Crash
<1>4. NothingUnasked'
  BY <1>1 DEF Crash, Recorded
<1>5. ArmedIsReadable'
  BY <1>1 DEF Crash, Recorded
<1>6. NoOrphanApproval'
  BY <1>1 DEF Crash, Recorded
<1>7. InvoiceCoversRows'
  BY <1>2 DEF Crash
<1>8. FreshRequest' /\ ArmedWhenNeeded' /\ LineIsArmed' /\ AnswerIsTrue' /\ BookingIsApproved'
  BY DEF Crash
<1>9. RecordedIsApproved' /\ OnlySalesRefer'
  BY <1>2 DEF Crash, Recorded
<1> QED BY <1>3, <1>4, <1>5, <1>6, <1>7, <1>8, <1>9

\* The invariant is about the variables of the specification only.
LEMMA StutterKeeps ==
  ASSUME IInv, UNCHANGED vars PROVE IInv'
BY DEF vars, Recorded

\* The invariant is inductive.
LEMMA IInvInductive == IInv /\ [Next]_vars => IInv'
<1> SUFFICES ASSUME IInv, [Next]_vars PROVE IInv'
  OBVIOUS
<1> HIDE DEF IInv
<1> QED
  BY BeforeKeeps, ClearKeeps, SaveKeeps, AskKeeps, BookKeeps, SettleKeeps, CrashKeeps,
     RestartKeeps, HostKeeps, StutterKeeps DEF Next

\* The invariant holds in the state of a new terminal.
LEMMA InitIInv == Init => IInv
<1> SUFFICES ASSUME Init PROVE IInv
  OBVIOUS
<1>1. /\ cur \in [id : Nat, kind : Kind \cup {"SETTLE"}, inv : Nat, calls : Nat]
      /\ req \in [Attempt -> Request]
      /\ host \in [Attempt -> HostState]
  BY DEF Init
<1>2. Recorded = {}
  BY DEF Init, Recorded
<1>3. TypeOK
  <2>1. pc \in PC
    BY DEF Init
  <2>2. batch \subseteq Row
    BY DEF Init
  <2>3. net \in Message \cup {None}
    BY DEF Init
  <2>4. sendReversalBit \in BOOLEAN /\ mustSettleBit \in BOOLEAN
    BY DEF Init
  <2>5. nAttempt \in 0 .. MaxAttempt /\ reversalFile \in 0 .. MaxAttempt + 1
    BY DEF Init
  <2>6. reply \in Answer \cup {NoAnswer} /\ lost \subseteq Attempt /\ presumed \subseteq Attempt
    BY DEF Init
  <2>7. invoiceNum \in Nat /\ accum \in Int /\ crashes \in Nat
    BY DEF Init
  <2>8. settled \subseteq Attempt /\ closed \in 0 .. MaxAttempt
    BY DEF Init
  <2> QED BY <1>1, <2>1, <2>2, <2>3, <2>4, <2>5, <2>6, <2>7, <2>8
<1>4. FreshRequest /\ NothingUnasked /\ NoOrphanApproval /\ RecordedIsApproved
  BY <1>2 DEF Init
<1>5. ArmedIsReadable /\ ArmedWhenNeeded /\ LineIsArmed /\ AnswerIsTrue
  BY DEF Init
<1>6. BookingIsApproved /\ InvoiceCoversRows /\ OnlySalesRefer
  BY DEF Init
<1> QED BY <1>3, <1>4, <1>5, <1>6

HIDE DEF IInv

\* The inductive invariant holds in every reachable state of the flow.
THEOREM SpecIInv == Spec => []IInv
BY InitIInv, IInvInductive, PTL DEF Spec
-----------------------------------------------------------------------------
(* The theorems.                                                           *)

\* Every variable keeps its type; that the repaired invoice number is a number
\* at all is inFunc_UpdateInvNum's use of the largest number in the batch.
THEOREM SpecTypeOK == Spec => []TypeOK
<1>1. IInv => TypeOK
  BY DEF IInv
<1> QED BY <1>1, SpecIInv, PTL

\* No order of writes, lost messages, late answers, repeated referrals and power failures leaves
\* an approved transaction without a row that stands for it, an armed reversal or a booking under
\* way, but for a power failure inside the booking.
THEOREM SpecNoOrphanApproval == Spec => []NoOrphanApproval
<1>1. IInv => NoOrphanApproval
  BY DEF IInv
<1> QED BY <1>1, SpecIInv, PTL

\* A transaction with a row, settled or not, that was not taken for approved unanswered is approved
\* at the host, and neither the reversal file nor the line can undo it.
THEOREM SpecKeptIsNeverReversed == Spec => []KeptIsNeverReversed
<1>1. IInv => KeptIsNeverReversed
  <2> SUFFICES ASSUME IInv, NEW a \in Recorded \ presumed
               PROVE  /\ host[a] = "approved"
                      /\ ~ReversalPending(a)
                      /\ net # [type |-> "reversal", id |-> a]
    BY DEF KeptIsNeverReversed
  <2>1. host[a] = "approved"
    BY DEF IInv
  <2>2. ~ReversalPending(a)
    BY DEF IInv
  <2>3. net = [type |-> "reversal", id |-> a] => ReversalPending(a)
    BY DEF IInv
  <2> QED BY <2>1, <2>2, <2>3
<1> QED BY <1>1, SpecIInv, PTL

\* A request leaves only when every earlier approval has a row that stands for it or is lost: none
\* of a sale taken for approved is left.
THEOREM SpecOneExposure == Spec => OneExposure
<1> DEFINE Exposes(a) == net' = [type |-> "auth", id |-> a] /\ net # net'
           Resolved(b) == host[b] = "approved" => b \in (Recorded \cup lost) \ presumed
           Exposure   == \A a \in Attempt : Exposes(a) => \A b \in Attempt \ {a} : Resolved(b)
<1>1. ASSUME IInv, Next, NEW a \in Attempt, Exposes(a)
      PROVE  pc = "send" /\ a = cur.id
  <2>1. SendAuth
    BY <1>1 DEF IInv, Next, Before, StartSale, StartVoid, StartSettle, Start, ConnectFail,
       Connected, Clear, SendReversal, ReversalAnswered, DeleteReversal, Save,
       ReversalSaveDelete, ReversalSaveCreate, ReversalSaveWrite, SaveFile,
       ReversalSaveBit, Ask, Timeout, TakenForApproved, Authorized, Cancelled, Unusable, Referral,
       Answered, ReferralApproved, ReferralCancelled, Book, PiggybackAdvice,
       UpdateAccum, MarkOldRow, InsertRow, UpdateInvNum, CheckOverLimit, SaveInvoice,
       RaiseMustSettle, Settle, SettleFailed, CloseBatch, Crash, Restart, Boot, FixInvoice,
       FixOverLimit, BumpInvoice, BumpOverLimit, Host, HostAuthorize, HostDecline, HostReverse,
       HostRefuseReversal, Deliver, LoseRequest
  <2> QED BY <1>1, <2>1 DEF SendAuth
<1>2. ASSUME IInv, NEW a \in Attempt, pc = "send", a = cur.id
      PROVE  \A b \in Attempt \ {a} : Resolved(b)
  BY <1>2 DEF IInv
<1>3. IInv /\ [Next]_vars => [Exposure]_vars
  BY <1>1, <1>2
<1> QED BY <1>3, SpecIInv, PTL DEF Spec, OneExposure
=============================================================================
