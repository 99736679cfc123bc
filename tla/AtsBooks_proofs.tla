---------------------------- MODULE AtsBooks_proofs ----------------------------
(***************************************************************************)
(* The books of AtsOnline for every value of the constants: no two         *)
(* approved transactions of a batch under one number, totals that agree    *)
(* with the host's but for the sales taken for approved, and an invoice    *)
(* counter that does not pass its limit unnoticed.  Each relates several   *)
(* requests of a batch, so the invariant of AtsOnline_proofs, which        *)
(* follows one request at a time, is extended by what is known of all the  *)
(* requests since the last settlement.                                     *)
(***************************************************************************)
EXTENDS AtsOnline_proofs, FiniteSetTheorems

Running   == Clearing \cup Saving \cup Asking \cup Booking \cup {"refer", "inv"}
Repairing == {"boot", "fixInv", "fixMustSettle", "bumpInv"}

\* The requests after the last settlement are those of the open batch.
ClosedFits ==
    /\ closed <= nAttempt
    /\ \A a \in settled : a <= closed
    /\ \A r \in batch : r.id > closed
    /\ sendReversalBit => reversalFile > closed
    /\ pc \in Booking \cup {"inv"} => cur.id > closed

\* A row is the request it was made for.
RowsFit == \A r \in batch : r.kind = req[r.id].kind /\ r.inv = req[r.id].inv

\* The transaction in hand is the latest request; no transaction runs on a terminal that
\* must settle; what a void refers to is a sale that nothing replaced.
HandFits ==
    /\ pc \in Asking \cup Booking \cup {"inv"} =>
         /\ cur.id = nAttempt /\ cur.id \in Attempt
         /\ req[cur.id].kind = cur.kind /\ req[cur.id].inv = cur.inv
    /\ pc \in Running /\ cur.kind \in Kind => ~mustSettleBit
    /\ pc \in Running /\ cur.kind = "VOID" =>
         \E r \in batch : r.kind = "SALE" /\ r.inv = cur.inv /\ IsLatest(r)

\* A sale of the open batch: its number is not above the counter, and below it once
\* the terminal may make another sale.
NumbersFit ==
    \A a \in Attempt : closed < a /\ a <= nAttempt =>
        /\ req[a].inv <= invoiceNum
        /\ /\ host[a] = "approved" /\ req[a].kind = "SALE"
           /\ ~ReversalPending(a)
           /\ ~(pc \in Booking \cup {"inv"} /\ cur.id = a)
           /\ ~mustSettleBit
           /\ pc \notin Repairing
           => req[a].inv < invoiceNum

\* No two rows of sales have one number, whoever approved them, and the next sale takes a number
\* above them all.
SaleRowsFit ==
    \A r \in batch : r.kind = "SALE" =>
        /\ \A q \in batch : q.kind = "SALE" /\ q.inv = r.inv => q.id = r.id
        /\ ~(pc = "inv" /\ cur.id = r.id) /\ ~mustSettleBit /\ pc \notin Repairing =>
               r.inv < invoiceNum

\* A void comes after the sale it refers to.
VoidsFit ==
    \A s \in batch : s.kind = "VOID" =>
        \E r \in batch : r.kind = "SALE" /\ r.inv = s.inv /\ r.id < s.id

\* No approval of the open batch has the kind and the number of the armed request, but
\* for voids cut off by a power failure.
ArmedAlone ==
    sendReversalBit =>
        \A b \in Attempt : b # reversalFile /\ b > closed /\ host[b] = "approved"
                             /\ req[b] = req[reversalFile] =>
            req[b].kind = "VOID" /\ b \in lost

\* Past the limit without the bit there is no row, but until the bit is raised.
LimitFits ==
    invoiceNum > InvoiceMax /\ ~mustSettleBit =>
        batch = {} \/ pc \in Repairing \cup {"inv", "mustSettle", "bumpMustSettle"}

\* The totals at every step: short of the transaction on its way into them.
Due      == IF pc \in {"advice", "accum"} THEN IF cur.kind = "SALE" THEN 1 ELSE -1 ELSE 0
BooksFit ==
    lost = {} => accum + Due = Standing("SALE") - Standing("VOID") + PresumedSales

BInv ==
    /\ ClosedFits
    /\ RowsFit
    /\ HandFits
    /\ NumbersFit
    /\ SaleRowsFit
    /\ VoidsFit
    /\ ArmedAlone
    /\ LimitFits
    /\ OneApprovalPerInvoice
    /\ BooksFit
-----------------------------------------------------------------------------
(* What changes the count of standing approvals.                           *)

Stands(a) == a > closed /\ host[a] = "approved" /\ ~ReversalPending(a)

\* An approval stands when its kind says so.
LEMMA StandingIs ==
  ASSUME NEW k
  PROVE  Standing(k) = Cardinality({a \in Attempt : Stands(a) /\ req[a].kind = k})
<1>1. {a \in ApprovedOf(k) : ~ReversalPending(a)} = {a \in Attempt : Stands(a)
   /\ req[a].kind = k}
  BY DEF ApprovedOf, Stands
<1> QED BY <1>1 DEF Standing

\* The approvals are finitely many.
LEMMA StandingType ==
  ASSUME NEW k
  PROVE  /\ IsFiniteSet({a \in Attempt : Stands(a) /\ req[a].kind = k})
         /\ Standing(k) \in Nat
<1>1. IsFiniteSet(Attempt)
  BY AtsAssumption, FS_Interval DEF Attempt, AtsAssumption
<1>2. {a \in Attempt : Stands(a) /\ req[a].kind = k} \in SUBSET Attempt
  OBVIOUS
<1>3. IsFiniteSet({a \in Attempt : Stands(a) /\ req[a].kind = k})
  BY <1>1, <1>2, FS_Subset
<1> QED BY <1>3, StandingIs, FS_CardinalityType

\* The sales taken for approved are finitely many.
LEMMA PresumedType ==
  ASSUME TypeOK
  PROVE  IsFiniteSet({a \in presumed : a > closed}) /\ PresumedSales \in Nat
<1>1. IsFiniteSet(Attempt)
  BY AtsAssumption, FS_Interval DEF Attempt, AtsAssumption
<1>2. {a \in presumed : a > closed} \in SUBSET Attempt
  BY DEF TypeOK
<1>3. IsFiniteSet({a \in presumed : a > closed})
  BY <1>1, <1>2, FS_Subset
<1> QED BY <1>3, FS_CardinalityType DEF PresumedSales

\* A step that leaves every approval as it stood leaves the counts alone.
LEMMA StandingSame ==
  ASSUME \A a \in Attempt : Stands(a)' <=> Stands(a),
         \A a \in Attempt : Stands(a) => req'[a].kind = req[a].kind
  PROVE  \A k : Standing(k)' = Standing(k)
<1> TAKE k
<1>1. {a \in Attempt : Stands(a)' /\ req'[a].kind = k} = {a \in Attempt : Stands(a)
   /\ req[a].kind = k}
  OBVIOUS
<1>2. Standing(k)' = Cardinality({a \in Attempt : Stands(a)' /\ req'[a].kind = k})
  <2>1. {a \in ApprovedOf(k)' : ~ReversalPending(a)'} = {a \in Attempt : Stands(a)'
     /\ req'[a].kind = k}
    BY DEF ApprovedOf, Stands, Attempt
  <2> QED BY <2>1 DEF Standing
<1> QED BY <1>1, <1>2, StandingIs

\* An approval that begins to stand is counted under its kind.
LEMMA StandingAdd ==
  ASSUME NEW c \in Attempt, ~Stands(c), req' = req,
         \A a \in Attempt : Stands(a)' <=> Stands(a) \/ a = c
  PROVE  \A k : Standing(k)' = IF req[c].kind = k THEN Standing(k) + 1 ELSE Standing(k)
<1> TAKE k
<1> DEFINE S == {a \in Attempt : Stands(a) /\ req[a].kind = k}
<1>1. Standing(k)' = Cardinality({a \in Attempt : Stands(a)' /\ req[a].kind = k})
  <2>1. {a \in ApprovedOf(k)' : ~ReversalPending(a)'} = {a \in Attempt : Stands(a)'
     /\ req[a].kind = k}
    BY DEF ApprovedOf, Stands, Attempt
  <2> QED BY <2>1 DEF Standing
<1>2. {a \in Attempt : Stands(a)' /\ req[a].kind = k} = IF req[c].kind = k THEN S
   \cup {c} ELSE S
  OBVIOUS
<1>3. IsFiniteSet(S) /\ Standing(k) = Cardinality(S) /\ c \notin S
  BY StandingType, StandingIs
<1>4. Cardinality(S \cup {c}) = Cardinality(S) + 1
  <2> HIDE DEF S
  <2> QED BY <1>3, FS_AddElement
<1> QED BY <1>1, <1>2, <1>3, <1>4

\* Two requests of one kind and number are the same request.
LEMMA RequestIs ==
  ASSUME TypeOK, NEW a \in Attempt, NEW b \in Attempt
  PROVE  /\ req[a].kind \in {"SALE", "VOID"} /\ req[a].inv \in Nat
         /\ req[a].kind = req[b].kind /\ req[a].inv = req[b].inv => req[a] = req[b]
<1>1. req[a] \in Request /\ req[b] \in Request
  BY DEF TypeOK
<1> QED BY <1>1 DEF Request, Kind

\* A row is a row of an attempt.
LEMMA RowIs ==
  ASSUME TypeOK, NEW r \in batch
  PROVE  /\ r.id \in Attempt /\ r.kind \in {"SALE", "VOID"} /\ r.inv \in Nat
         /\ r.id \in Recorded
BY DEF TypeOK, Row, Kind, Recorded

\* Marking a row changes neither identity nor kind nor number.
LEMMA MarkKeepsRows ==
  ASSUME TypeOK, MarkOldRow
  PROVE  /\ \A r \in batch' : \E s \in batch : s.id = r.id /\ s.kind = r.kind /\ s.inv = r.inv
         /\ \A s \in batch : \E r \in batch' : s.id = r.id /\ s.kind = r.kind /\ s.inv = r.inv
<1> DEFINE Marked(r) == [r EXCEPT !.updated = @ \/ (r.inv = cur.inv /\ IsLatest(r))]
<1>1. batch' = {Marked(r) : r \in batch}
  BY DEF MarkOldRow
<1>2. \A r \in Row, b \in BOOLEAN :
        LET m == [r EXCEPT !.updated = b]
        IN  m.id = r.id /\ m.kind = r.kind /\ m.inv = r.inv
  BY DEF Row
<1>3. \A r \in batch : Marked(r).id = r.id /\ Marked(r).kind = r.kind /\ Marked(r).inv = r.inv
  BY <1>2, Zenon DEF TypeOK
<1> HIDE DEF Marked
<1> QED BY <1>1, <1>3
-----------------------------------------------------------------------------
(* The step, one lemma for each group of actions.                          *)


\* Starting a transaction and connecting keep the books.
LEMMA BeforeKeepsBooks ==
  ASSUME TypeOK, FreshRequest, NothingUnasked, ArmedIsReadable, ArmedWhenNeeded,
         LineIsArmed, AnswerIsTrue, BookingIsApproved,
         RecordedIsApproved, OnlySalesRefer, InvoiceCoversRows, NoOrphanApproval,
         ClosedFits, RowsFit, HandFits, NumbersFit, SaleRowsFit, VoidsFit,
         ArmedAlone, LimitFits, OneApprovalPerInvoice, BooksFit, Before
  PROVE  BInv'
<1> USE AtsAssumption DEF AtsAssumption, Attempt, hdpt, books, line, hist
<1>1. CASE StartSale
  <2> USE <1>1
  <2>1. UNCHANGED <<sendReversalBit, reversalFile, invoiceNum, accum, batch, host, net,
     reply, req, nAttempt, lost, presumed, crashes, settled, closed>>
    BY DEF StartSale, Start
  <2>2. pc = "idle" /\ pc' = "connect" /\ ~mustSettleBit /\ ~mustSettleBit'
     /\ cur'.kind = "SALE"
    BY DEF StartSale, Start
  <2>3. \A k : Standing(k)' = Standing(k)
    BY <2>1 DEF Standing, ApprovedOf, ReversalPending
  <2>4. ClosedFits'
    BY <2>1, <2>2, <2>3 DEF ClosedFits, Booking
  <2>5. HandFits'
    BY <2>1, <2>2, <2>3 DEF HandFits, Running, Clearing, Saving, Asking, Booking, Kind, IsLatest
  <2>6. NumbersFit' /\ SaleRowsFit'
    BY <2>1, <2>2, <2>3 DEF NumbersFit, SaleRowsFit, ReversalPending, Booking, Repairing
  <2>7. LimitFits'
    BY <2>1, <2>2, <2>3 DEF LimitFits, Repairing
  <2>8. BooksFit'
    BY <2>1, <2>2, <2>3 DEF BooksFit, Due, PresumedSales
  <2>9. RowsFit' /\ VoidsFit' /\ ArmedAlone' /\ OneApprovalPerInvoice'
    BY <2>1 DEF RowsFit, VoidsFit, ArmedAlone, OneApprovalPerInvoice, ApprovedOf
  <2> QED BY <2>1, <2>2, <2>3, <2>4, <2>5, <2>6, <2>7, <2>8, <2>9 DEF BInv
<1>2. CASE StartVoid
  <2> USE <1>2
  <2>1. UNCHANGED <<sendReversalBit, reversalFile, invoiceNum, accum, batch, host, net,
     reply, req, nAttempt, lost, presumed, crashes, settled, closed>>
    BY DEF StartVoid, Start
  <2>2. pc = "idle" /\ pc' = "connect" /\ ~mustSettleBit /\ ~mustSettleBit'
     /\ cur'.kind = "VOID" /\ \E r \in batch : r.kind = "SALE" /\ r.inv = cur'.inv
     /\ IsLatest(r)
    BY DEF StartVoid, Start
  <2>3. \A k : Standing(k)' = Standing(k)
    BY <2>1 DEF Standing, ApprovedOf, ReversalPending
  <2>4. ClosedFits'
    BY <2>1, <2>2, <2>3 DEF ClosedFits, Booking
  <2>5. HandFits'
    BY <2>1, <2>2, <2>3 DEF HandFits, Running, Clearing, Saving, Asking, Booking, Kind, IsLatest
  <2>6. NumbersFit' /\ SaleRowsFit'
    BY <2>1, <2>2, <2>3 DEF NumbersFit, SaleRowsFit, ReversalPending, Booking, Repairing
  <2>7. LimitFits'
    BY <2>1, <2>2, <2>3 DEF LimitFits, Repairing
  <2>8. BooksFit'
    BY <2>1, <2>2, <2>3 DEF BooksFit, Due, PresumedSales
  <2>9. RowsFit' /\ VoidsFit' /\ ArmedAlone' /\ OneApprovalPerInvoice'
    BY <2>1 DEF RowsFit, VoidsFit, ArmedAlone, OneApprovalPerInvoice, ApprovedOf
  <2> QED BY <2>1, <2>2, <2>3, <2>4, <2>5, <2>6, <2>7, <2>8, <2>9 DEF BInv
<1>3. CASE StartSettle
  <2> USE <1>3
  <2>1. UNCHANGED <<sendReversalBit, reversalFile, invoiceNum, accum, batch, host, net,
     reply, req, nAttempt, lost, presumed, crashes, settled, closed>>
    BY DEF StartSettle, Start
  <2>2. pc = "idle" /\ pc' = "connect" /\ mustSettleBit' /\ cur'.kind = "SETTLE"
    BY DEF StartSettle, Start
  <2>3. \A k : Standing(k)' = Standing(k)
    BY <2>1 DEF Standing, ApprovedOf, ReversalPending
  <2>4. ClosedFits'
    BY <2>1, <2>2, <2>3 DEF ClosedFits, Booking
  <2>5. HandFits'
    BY <2>1, <2>2, <2>3 DEF HandFits, Running, Clearing, Saving, Asking, Booking, Kind, IsLatest
  <2>6. NumbersFit' /\ SaleRowsFit'
    BY <2>1, <2>2, <2>3 DEF NumbersFit, SaleRowsFit, ReversalPending, Booking, Repairing
  <2>7. LimitFits'
    BY <2>1, <2>2, <2>3 DEF LimitFits, Repairing
  <2>8. BooksFit'
    BY <2>1, <2>2, <2>3 DEF BooksFit, Due, PresumedSales
  <2>9. RowsFit' /\ VoidsFit' /\ ArmedAlone' /\ OneApprovalPerInvoice'
    BY <2>1 DEF RowsFit, VoidsFit, ArmedAlone, OneApprovalPerInvoice, ApprovedOf
  <2> QED BY <2>1, <2>2, <2>3, <2>4, <2>5, <2>6, <2>7, <2>8, <2>9 DEF BInv
<1>4. CASE ConnectFail
  <2> USE <1>4
  <2>1. UNCHANGED <<cur, sendReversalBit, reversalFile, invoiceNum, mustSettleBit, accum,
     batch, host, net, reply, req, nAttempt, lost, presumed, crashes, settled, closed>>
    BY DEF ConnectFail
  <2>2. pc = "connect" /\ pc' = "idle"
    BY DEF ConnectFail
  <2>3. \A k : Standing(k)' = Standing(k)
    BY <2>1 DEF Standing, ApprovedOf, ReversalPending
  <2>4. ClosedFits'
    BY <2>1, <2>2, <2>3 DEF ClosedFits, Booking
  <2>5. HandFits'
    BY <2>1, <2>2, <2>3 DEF HandFits, Running, Clearing, Saving, Asking, Booking, Kind, IsLatest
  <2>6. NumbersFit' /\ SaleRowsFit'
    BY <2>1, <2>2, <2>3 DEF NumbersFit, SaleRowsFit, ReversalPending, Booking, Repairing
  <2>7. LimitFits'
    BY <2>1, <2>2, <2>3 DEF LimitFits, Repairing
  <2>8. BooksFit'
    BY <2>1, <2>2, <2>3 DEF BooksFit, Due, PresumedSales
  <2>9. RowsFit' /\ VoidsFit' /\ ArmedAlone' /\ OneApprovalPerInvoice'
    BY <2>1 DEF RowsFit, VoidsFit, ArmedAlone, OneApprovalPerInvoice, ApprovedOf
  <2> QED BY <2>1, <2>2, <2>3, <2>4, <2>5, <2>6, <2>7, <2>8, <2>9 DEF BInv
<1>5. CASE Connected
  <2> USE <1>5
  <2>1. UNCHANGED <<cur, sendReversalBit, reversalFile, invoiceNum, mustSettleBit, accum,
     batch, host, net, reply, req, nAttempt, lost, presumed, crashes, settled, closed>>
    BY DEF Connected, AfterReversal
  <2>2. pc = "connect" /\ pc' \in {"reversal", "saveDelete", "settle"}
    BY DEF Connected, AfterReversal
  <2>3. \A k : Standing(k)' = Standing(k)
    BY <2>1 DEF Standing, ApprovedOf, ReversalPending
  <2>4. ClosedFits'
    BY <2>1, <2>2, <2>3 DEF ClosedFits, Booking
  <2>5. HandFits'
    BY <2>1, <2>2, <2>3 DEF HandFits, Running, Clearing, Saving, Asking, Booking, Kind, IsLatest
  <2>6. NumbersFit' /\ SaleRowsFit'
    BY <2>1, <2>2, <2>3 DEF NumbersFit, SaleRowsFit, ReversalPending, Booking, Repairing
  <2>7. LimitFits'
    BY <2>1, <2>2, <2>3 DEF LimitFits, Repairing
  <2>8. BooksFit'
    BY <2>1, <2>2, <2>3 DEF BooksFit, Due, PresumedSales
  <2>9. RowsFit' /\ VoidsFit' /\ ArmedAlone' /\ OneApprovalPerInvoice'
    BY <2>1 DEF RowsFit, VoidsFit, ArmedAlone, OneApprovalPerInvoice, ApprovedOf
  <2> QED BY <2>1, <2>2, <2>3, <2>4, <2>5, <2>6, <2>7, <2>8, <2>9 DEF BInv
<1> QED BY <1>1, <1>2, <1>3, <1>4, <1>5 DEF Before

\* Sending the stored reversal keeps the books.
LEMMA ClearKeepsBooks ==
  ASSUME TypeOK, FreshRequest, NothingUnasked, ArmedIsReadable, ArmedWhenNeeded,
         LineIsArmed, AnswerIsTrue, BookingIsApproved,
         RecordedIsApproved, OnlySalesRefer, InvoiceCoversRows, NoOrphanApproval,
         ClosedFits, RowsFit, HandFits, NumbersFit, SaleRowsFit, VoidsFit,
         ArmedAlone, LimitFits, OneApprovalPerInvoice, BooksFit, Clear
  PROVE  BInv'
<1> USE AtsAssumption DEF AtsAssumption, Attempt, hdpt, books, line, hist
<1>1. CASE SendReversal
  <2> USE <1>1
  <2>1. UNCHANGED <<cur, sendReversalBit, reversalFile, invoiceNum, mustSettleBit, accum,
     batch, host, reply, req, nAttempt, lost, presumed, crashes, settled, closed>>
    BY DEF SendReversal
  <2>2. pc = "reversal" /\ pc' \in {"waitReversal", "idle"}
    BY DEF SendReversal
  <2>3. \A k : Standing(k)' = Standing(k)
    BY <2>1 DEF Standing, ApprovedOf, ReversalPending
  <2>4. ClosedFits'
    BY <2>1, <2>2, <2>3 DEF ClosedFits, Booking
  <2>5. HandFits'
    BY <2>1, <2>2, <2>3 DEF HandFits, Running, Clearing, Saving, Asking, Booking, Kind, IsLatest
  <2>6. NumbersFit' /\ SaleRowsFit'
    BY <2>1, <2>2, <2>3 DEF NumbersFit, SaleRowsFit, ReversalPending, Booking, Repairing
  <2>7. LimitFits'
    BY <2>1, <2>2, <2>3 DEF LimitFits, Repairing
  <2>8. BooksFit'
    BY <2>1, <2>2, <2>3 DEF BooksFit, Due, PresumedSales
  <2>9. RowsFit' /\ VoidsFit' /\ ArmedAlone' /\ OneApprovalPerInvoice'
    BY <2>1 DEF RowsFit, VoidsFit, ArmedAlone, OneApprovalPerInvoice, ApprovedOf
  <2> QED BY <2>1, <2>2, <2>3, <2>4, <2>5, <2>6, <2>7, <2>8, <2>9 DEF BInv
<1>2. CASE ReversalAnswered
  <2> USE <1>2
  <2>1. UNCHANGED <<cur, reversalFile, invoiceNum, mustSettleBit, accum, batch, host, net,
     req, nAttempt, lost, presumed, crashes, settled, closed>>
    BY DEF ReversalAnswered
  <2>2. pc = "waitReversal" /\ pc' \in {"deleteReversal", "idle"} /\ sendReversalBit
     /\ reversalFile \in Attempt
    BY DEF ReversalAnswered, ArmedWhenNeeded, ArmedIsReadable
  <2>3. (sendReversalBit' = FALSE /\ host[reversalFile] = "reversed")
     \/ sendReversalBit' = sendReversalBit
    BY DEF ReversalAnswered, AnswerIsTrue, NoAnswer
  <2>4. \A a \in Attempt : Stands(a)' <=> Stands(a)
    BY <2>1, <2>2, <2>3 DEF Stands, ReversalPending
  <2>5. \A k : Standing(k)' = Standing(k)
    BY <2>1, <2>4, StandingSame
  <2>6. ClosedFits'
    BY <2>1, <2>2, <2>3, <2>4, <2>5 DEF ClosedFits, Booking
  <2>7. HandFits'
    BY <2>1, <2>2, <2>3, <2>4, <2>5 DEF HandFits, Running, Clearing, Saving, Asking,
       Booking, Kind, IsLatest
  <2>8. NumbersFit' /\ SaleRowsFit'
    BY <2>1, <2>2, <2>3, <2>4, <2>5 DEF NumbersFit, SaleRowsFit, ReversalPending, Booking, Repairing
  <2>9. ArmedAlone'
    BY <2>1, <2>2, <2>3, <2>4, <2>5 DEF ArmedAlone
  <2>10. LimitFits'
    BY <2>1, <2>2, <2>3, <2>4, <2>5 DEF LimitFits, Repairing
  <2>11. BooksFit'
    BY <2>1, <2>2, <2>3, <2>4, <2>5 DEF BooksFit, Due, PresumedSales
  <2>12. RowsFit' /\ VoidsFit' /\ OneApprovalPerInvoice'
    BY <2>1 DEF RowsFit, VoidsFit, OneApprovalPerInvoice, ApprovedOf
  <2> QED BY <2>1, <2>2, <2>3, <2>4, <2>5, <2>6, <2>7, <2>8, <2>9, <2>10, <2>11, <2>12 DEF BInv
<1>3. CASE DeleteReversal
  <2> USE <1>3
  <2>1. UNCHANGED <<cur, sendReversalBit, invoiceNum, mustSettleBit, accum, batch, host,
     net, reply, req, nAttempt, lost, presumed, crashes, settled, closed>>
    BY DEF DeleteReversal, AfterReversal
  <2>2. pc = "deleteReversal" /\ pc' \in {"saveDelete", "settle"} /\ ~sendReversalBit
    BY DEF DeleteReversal, AfterReversal, ArmedWhenNeeded, Saving, Booking
  <2>3. \A a \in Attempt : Stands(a)' <=> Stands(a)
    BY <2>1, <2>2 DEF Stands, ReversalPending
  <2>4. \A k : Standing(k)' = Standing(k)
    BY <2>1, <2>3, StandingSame
  <2>5. ClosedFits'
    BY <2>1, <2>2, <2>3, <2>4 DEF ClosedFits, Booking
  <2>6. HandFits'
    BY <2>1, <2>2, <2>3, <2>4 DEF HandFits, Running, Clearing, Saving, Asking, Booking,
       Kind, IsLatest
  <2>7. NumbersFit' /\ SaleRowsFit'
    BY <2>1, <2>2, <2>3, <2>4 DEF NumbersFit, SaleRowsFit, ReversalPending, Booking, Repairing
  <2>8. ArmedAlone'
    BY <2>1, <2>2, <2>3, <2>4 DEF ArmedAlone
  <2>9. LimitFits'
    BY <2>1, <2>2, <2>3, <2>4 DEF LimitFits, Repairing
  <2>10. BooksFit'
    BY <2>1, <2>2, <2>3, <2>4 DEF BooksFit, Due, PresumedSales
  <2>11. RowsFit' /\ VoidsFit' /\ OneApprovalPerInvoice'
    BY <2>1 DEF RowsFit, VoidsFit, OneApprovalPerInvoice, ApprovedOf
  <2> QED BY <2>1, <2>2, <2>3, <2>4, <2>5, <2>6, <2>7, <2>8, <2>9, <2>10, <2>11 DEF BInv
<1> QED BY <1>1, <1>2, <1>3 DEF Clear

\* Storing the reversal keeps the books.
LEMMA SaveKeepsBooks ==
  ASSUME TypeOK, FreshRequest, NothingUnasked, ArmedIsReadable, ArmedWhenNeeded,
         LineIsArmed, AnswerIsTrue, BookingIsApproved,
         RecordedIsApproved, OnlySalesRefer, InvoiceCoversRows, NoOrphanApproval,
         ClosedFits, RowsFit, HandFits, NumbersFit, SaleRowsFit, VoidsFit,
         ArmedAlone, LimitFits, OneApprovalPerInvoice, BooksFit, Save
  PROVE  BInv'
<1> USE AtsAssumption DEF AtsAssumption, Attempt, hdpt, books, line, hist
<1>1. CASE ReversalSaveDelete
  <2> USE <1>1
  <2>1. UNCHANGED <<cur, sendReversalBit, invoiceNum, mustSettleBit, accum, batch, host,
     net, reply, req, nAttempt, lost, presumed, crashes, settled, closed>>
    BY DEF ReversalSaveDelete, SaveFile
  <2>2. pc = "saveDelete" /\ pc' = "saveCreate" /\ ~sendReversalBit
    BY DEF ReversalSaveDelete, SaveFile, ArmedWhenNeeded, Saving, Booking
  <2>3. \A a \in Attempt : Stands(a)' <=> Stands(a)
    BY <2>1, <2>2 DEF Stands, ReversalPending
  <2>4. \A k : Standing(k)' = Standing(k)
    BY <2>1, <2>3, StandingSame
  <2>5. ClosedFits'
    BY <2>1, <2>2, <2>3, <2>4 DEF ClosedFits, Booking
  <2>6. HandFits'
    BY <2>1, <2>2, <2>3, <2>4 DEF HandFits, Running, Clearing, Saving, Asking, Booking,
       Kind, IsLatest
  <2>7. NumbersFit' /\ SaleRowsFit'
    BY <2>1, <2>2, <2>3, <2>4 DEF NumbersFit, SaleRowsFit, ReversalPending, Booking, Repairing
  <2>8. ArmedAlone'
    BY <2>1, <2>2, <2>3, <2>4 DEF ArmedAlone
  <2>9. LimitFits'
    BY <2>1, <2>2, <2>3, <2>4 DEF LimitFits, Repairing
  <2>10. BooksFit'
    BY <2>1, <2>2, <2>3, <2>4 DEF BooksFit, Due, PresumedSales
  <2>11. RowsFit' /\ VoidsFit' /\ OneApprovalPerInvoice'
    BY <2>1 DEF RowsFit, VoidsFit, OneApprovalPerInvoice, ApprovedOf
  <2> QED BY <2>1, <2>2, <2>3, <2>4, <2>5, <2>6, <2>7, <2>8, <2>9, <2>10, <2>11 DEF BInv
<1>2. CASE ReversalSaveCreate
  <2> USE <1>2
  <2>1. UNCHANGED <<cur, sendReversalBit, invoiceNum, mustSettleBit, accum, batch, host,
     net, reply, req, nAttempt, lost, presumed, crashes, settled, closed>>
    BY DEF ReversalSaveCreate, SaveFile
  <2>2. pc = "saveCreate" /\ pc' = "saveWrite" /\ ~sendReversalBit
    BY DEF ReversalSaveCreate, SaveFile, ArmedWhenNeeded, Saving, Booking
  <2>3. \A a \in Attempt : Stands(a)' <=> Stands(a)
    BY <2>1, <2>2 DEF Stands, ReversalPending
  <2>4. \A k : Standing(k)' = Standing(k)
    BY <2>1, <2>3, StandingSame
  <2>5. ClosedFits'
    BY <2>1, <2>2, <2>3, <2>4 DEF ClosedFits, Booking
  <2>6. HandFits'
    BY <2>1, <2>2, <2>3, <2>4 DEF HandFits, Running, Clearing, Saving, Asking, Booking,
       Kind, IsLatest
  <2>7. NumbersFit' /\ SaleRowsFit'
    BY <2>1, <2>2, <2>3, <2>4 DEF NumbersFit, SaleRowsFit, ReversalPending, Booking, Repairing
  <2>8. ArmedAlone'
    BY <2>1, <2>2, <2>3, <2>4 DEF ArmedAlone
  <2>9. LimitFits'
    BY <2>1, <2>2, <2>3, <2>4 DEF LimitFits, Repairing
  <2>10. BooksFit'
    BY <2>1, <2>2, <2>3, <2>4 DEF BooksFit, Due, PresumedSales
  <2>11. RowsFit' /\ VoidsFit' /\ OneApprovalPerInvoice'
    BY <2>1 DEF RowsFit, VoidsFit, OneApprovalPerInvoice, ApprovedOf
  <2> QED BY <2>1, <2>2, <2>3, <2>4, <2>5, <2>6, <2>7, <2>8, <2>9, <2>10, <2>11 DEF BInv
<1>3. CASE ReversalSaveWrite
  <2> USE <1>3
  <2>1. UNCHANGED <<cur, sendReversalBit, invoiceNum, mustSettleBit, accum, batch, host,
     net, reply, req, nAttempt, lost, presumed, crashes, settled, closed>>
    BY DEF ReversalSaveWrite, SaveFile
  <2>2. pc = "saveWrite" /\ pc' = "saveBit" /\ ~sendReversalBit
    BY DEF ReversalSaveWrite, SaveFile, ArmedWhenNeeded, Saving, Booking
  <2>3. \A a \in Attempt : Stands(a)' <=> Stands(a)
    BY <2>1, <2>2 DEF Stands, ReversalPending
  <2>4. \A k : Standing(k)' = Standing(k)
    BY <2>1, <2>3, StandingSame
  <2>5. ClosedFits'
    BY <2>1, <2>2, <2>3, <2>4 DEF ClosedFits, Booking
  <2>6. HandFits'
    BY <2>1, <2>2, <2>3, <2>4 DEF HandFits, Running, Clearing, Saving, Asking, Booking,
       Kind, IsLatest
  <2>7. NumbersFit' /\ SaleRowsFit'
    BY <2>1, <2>2, <2>3, <2>4 DEF NumbersFit, SaleRowsFit, ReversalPending, Booking, Repairing
  <2>8. ArmedAlone'
    BY <2>1, <2>2, <2>3, <2>4 DEF ArmedAlone
  <2>9. LimitFits'
    BY <2>1, <2>2, <2>3, <2>4 DEF LimitFits, Repairing
  <2>10. BooksFit'
    BY <2>1, <2>2, <2>3, <2>4 DEF BooksFit, Due, PresumedSales
  <2>11. RowsFit' /\ VoidsFit' /\ OneApprovalPerInvoice'
    BY <2>1 DEF RowsFit, VoidsFit, OneApprovalPerInvoice, ApprovedOf
  <2> QED BY <2>1, <2>2, <2>3, <2>4, <2>5, <2>6, <2>7, <2>8, <2>9, <2>10, <2>11 DEF BInv
<1>4. CASE ReversalSaveBit
  <2> USE <1>4
  <2>1. UNCHANGED <<cur, reversalFile, invoiceNum, mustSettleBit, accum, batch, host, net,
     reply, lost, presumed, crashes, settled, closed>>
    BY DEF ReversalSaveBit
  <2>2. pc = "saveBit" /\ pc' = "send" /\ ~sendReversalBit /\ reversalFile = cur.id
     /\ cur.kind \in {"SALE", "VOID"} /\ cur.id = nAttempt + 1 /\ nAttempt \in Nat
     /\ cur.id \in Attempt
    BY DEF ReversalSaveBit, ArmedWhenNeeded, Saving, FreshRequest, Kind, TypeOK
  <2>3. sendReversalBit' /\ nAttempt' = cur.id
     /\ req' = [req EXCEPT ![cur.id] = [kind |-> cur.kind, inv |-> cur.inv]]
    BY DEF ReversalSaveBit
  <2>4. req'[cur.id] = [kind |-> cur.kind, inv |-> cur.inv]
     /\ req'[cur.id].kind = cur.kind /\ req'[cur.id].inv = cur.inv
     /\ \A a \in Attempt : a # cur.id => req'[a] = req[a]
    BY <2>2, <2>3 DEF TypeOK
  <2>5. host[cur.id] = "unknown" /\ cur.id \notin Recorded
     /\ \A r \in batch : r.id \in Attempt /\ r.id <= nAttempt
    BY <2>2, RowIs DEF NothingUnasked, TypeOK
  <2>6. \A a \in Attempt : (Stands(a)' <=> Stands(a)) /\ (Stands(a) => a # cur.id)
    BY <2>1, <2>2, <2>5 DEF Stands, ReversalPending
  <2>7. \A k : Standing(k)' = Standing(k)
    BY <2>4, <2>6, StandingSame
  <2>8. cur.inv <= invoiceNum /\ cur.inv \in Nat /\ (cur.kind = "SALE"
     => cur.inv = invoiceNum) /\ ~mustSettleBit
    BY <2>2 DEF InvoiceCoversRows, TypeOK, Saving, HandFits, Running, Kind
  <2>9. ClosedFits'
    BY <2>1, <2>2, <2>3 DEF ClosedFits, Booking, TypeOK
  <2>10. RowsFit'
    <3>1. \A r \in batch : r.id # cur.id
      BY <2>2, <2>5
    <3> QED BY <2>1, <2>4, <2>5, <3>1 DEF RowsFit
  <2>11. HandFits'
    BY <2>1, <2>2, <2>3, <2>4, <2>8 DEF HandFits, Running, Clearing, Saving, Asking,
       Booking, Kind, IsLatest
  <2>12. NumbersFit' /\ SaleRowsFit'
    BY <2>1, <2>2, <2>3, <2>4, <2>5, <2>8 DEF NumbersFit, SaleRowsFit, ReversalPending, Booking,
       Repairing, NothingUnasked, TypeOK
  <2>13. ArmedAlone'
    <3> SUFFICES ASSUME NEW b \in Attempt, b # cur.id, b > closed, host[b] = "approved",
                        req[b].kind = cur.kind, req[b].inv = cur.inv
                 PROVE  cur.kind = "VOID" /\ b \in lost
      BY <2>1, <2>2, <2>4 DEF ArmedAlone
    <3>1. b <= nAttempt
      BY <2>2 DEF NothingUnasked
    <3>2. cur.kind # "SALE"
      BY <2>2, <2>8, <3>1, RequestIs DEF NumbersFit, ReversalPending, Booking, Repairing
    <3>3. ASSUME b \in Recorded PROVE FALSE
      <4>1. b \notin settled
        BY DEF ClosedFits, TypeOK
      <4>2. PICK s \in batch : s.id = b
        BY <3>3, <4>1 DEF Recorded
      <4>3. s.kind = "VOID" /\ s.inv = cur.inv
        BY <2>2, <3>2, <4>2 DEF RowsFit
      <4>4. PICK r \in batch : r.kind = "SALE" /\ r.inv = cur.inv /\ IsLatest(r)
        BY <2>2, <3>2 DEF HandFits, Running, Saving
      <4>5. PICK q \in batch : q.kind = "SALE" /\ q.inv = cur.inv /\ q.id < s.id
        BY <4>3 DEF VoidsFit
      <4>6. q.id = r.id
        BY <4>4, <4>5 DEF SaleRowsFit
      <4>7. s.id <= r.id
        BY <4>3, <4>4 DEF IsLatest
      <4> QED BY <4>5, <4>6, <4>7, RowIs
    <3> QED BY <2>2, <3>2, <3>3 DEF NoOrphanApproval, ReversalPending, BookingOf, Booking
  <2>14. LimitFits'
    BY <2>1, <2>2 DEF LimitFits, Repairing
  <2>15. OneApprovalPerInvoice'
    <3>1. \A a \in Attempt : host[a] = "approved" => req'[a] = req[a]
      BY <2>4, <2>5
    <3>2. ApprovedOf("SALE")' = ApprovedOf("SALE") /\ ApprovedOf("VOID")' = ApprovedOf("VOID")
      BY <2>1, <3>1 DEF ApprovedOf
    <3>3. \A a \in ApprovedOf("SALE") \cup ApprovedOf("VOID") : req'[a] = req[a]
      BY <3>1 DEF ApprovedOf
    <3> QED BY <2>1, <3>2, <3>3 DEF OneApprovalPerInvoice
  <2>16. BooksFit'
    BY <2>1, <2>2, <2>7 DEF BooksFit, Due, PresumedSales
  <2>17. VoidsFit'
    BY <2>1 DEF VoidsFit
  <2> QED BY <2>1, <2>2, <2>3, <2>4, <2>5, <2>6, <2>7, <2>8, <2>9, <2>10, <2>11, <2>12,
     <2>13, <2>14, <2>15, <2>16, <2>17 DEF BInv
<1> QED BY <1>1, <1>2, <1>3, <1>4 DEF Save

\* The request and its answers keep the books.
LEMMA AskKeepsBooks ==
  ASSUME TypeOK, FreshRequest, NothingUnasked, ArmedIsReadable, ArmedWhenNeeded,
         LineIsArmed, AnswerIsTrue, BookingIsApproved,
         RecordedIsApproved, OnlySalesRefer, InvoiceCoversRows, NoOrphanApproval,
         ClosedFits, RowsFit, HandFits, NumbersFit, SaleRowsFit, VoidsFit,
         ArmedAlone, LimitFits, OneApprovalPerInvoice, BooksFit, Ask
  PROVE  BInv'
<1> USE AtsAssumption DEF AtsAssumption, Attempt, hdpt, books, line, hist
<1>1. CASE SendAuth
  <2> USE <1>1
  <2>1. UNCHANGED <<cur, sendReversalBit, reversalFile, invoiceNum, mustSettleBit, accum,
     batch, host, reply, req, nAttempt, lost, presumed, crashes, settled, closed>>
    BY DEF SendAuth
  <2>2. pc = "send" /\ pc' = "waitAuth"
    BY DEF SendAuth
  <2>3. \A k : Standing(k)' = Standing(k)
    BY <2>1 DEF Standing, ApprovedOf, ReversalPending
  <2>4. ClosedFits'
    BY <2>1, <2>2, <2>3 DEF ClosedFits, Booking
  <2>5. HandFits'
    BY <2>1, <2>2, <2>3 DEF HandFits, Running, Clearing, Saving, Asking, Booking, Kind, IsLatest
  <2>6. NumbersFit' /\ SaleRowsFit'
    BY <2>1, <2>2, <2>3 DEF NumbersFit, SaleRowsFit, ReversalPending, Booking, Repairing
  <2>7. LimitFits'
    BY <2>1, <2>2, <2>3 DEF LimitFits, Repairing
  <2>8. BooksFit'
    BY <2>1, <2>2, <2>3 DEF BooksFit, Due, PresumedSales
  <2>9. RowsFit' /\ VoidsFit' /\ ArmedAlone' /\ OneApprovalPerInvoice'
    BY <2>1 DEF RowsFit, VoidsFit, ArmedAlone, OneApprovalPerInvoice, ApprovedOf
  <2> QED BY <2>1, <2>2, <2>3, <2>4, <2>5, <2>6, <2>7, <2>8, <2>9 DEF BInv
<1>2. CASE Timeout
  <2> USE <1>2
  <2>1. UNCHANGED <<cur, sendReversalBit, reversalFile, invoiceNum, mustSettleBit, accum,
     batch, host, net, req, nAttempt, lost, presumed, crashes, settled, closed>>
    BY DEF Timeout, Unchecked
  <2>2. pc \in {"waitReversal", "waitAuth"} /\ pc' = "idle"
    BY DEF Timeout, Unchecked
  <2>3. \A k : Standing(k)' = Standing(k)
    BY <2>1 DEF Standing, ApprovedOf, ReversalPending
  <2>4. ClosedFits'
    BY <2>1, <2>2, <2>3 DEF ClosedFits, Booking
  <2>5. HandFits'
    BY <2>1, <2>2, <2>3 DEF HandFits, Running, Clearing, Saving, Asking, Booking, Kind, IsLatest
  <2>6. NumbersFit' /\ SaleRowsFit'
    BY <2>1, <2>2, <2>3 DEF NumbersFit, SaleRowsFit, ReversalPending, Booking, Repairing
  <2>7. LimitFits'
    BY <2>1, <2>2, <2>3 DEF LimitFits, Repairing
  <2>8. BooksFit'
    BY <2>1, <2>2, <2>3 DEF BooksFit, Due, PresumedSales
  <2>9. RowsFit' /\ VoidsFit' /\ ArmedAlone' /\ OneApprovalPerInvoice'
    BY <2>1 DEF RowsFit, VoidsFit, ArmedAlone, OneApprovalPerInvoice, ApprovedOf
  <2> QED BY <2>1, <2>2, <2>3, <2>4, <2>5, <2>6, <2>7, <2>8, <2>9 DEF BInv
<1>3. CASE Authorized
  <2> USE <1>3
  <2>1. UNCHANGED <<cur, reversalFile, invoiceNum, mustSettleBit, accum, batch, host, net,
     req, nAttempt, lost, presumed, crashes, settled, closed>>
    BY DEF Authorized, Answered
  <2>2. pc = "waitAuth" /\ pc' = "advice" /\ ~sendReversalBit'
     /\ host[cur.id] = "approved" /\ sendReversalBit /\ reversalFile = cur.id
     /\ reversalFile \in Attempt
    BY DEF Authorized, Answered, ArmedWhenNeeded, Asking, ArmedIsReadable, AnswerIsTrue,
       NoAnswer
  <2>3. cur.id > closed /\ req[cur.id].kind = cur.kind /\ cur.kind \in {"SALE", "VOID"}
    BY <2>2 DEF ClosedFits, HandFits, Asking, ArmedWhenNeeded, Kind
  <2>4. ~Stands(cur.id) /\ \A a \in Attempt : Stands(a)' <=> Stands(a) \/ a = cur.id
    BY <2>1, <2>2, <2>3 DEF Stands, ReversalPending
  <2>5. \A k : Standing(k)' = IF req[cur.id].kind = k THEN Standing(k) + 1 ELSE Standing(k)
    BY <2>1, <2>2, <2>4, StandingAdd
  <2>6. Standing("SALE") \in Nat /\ Standing("VOID") \in Nat
    BY StandingType
  <2>7. ClosedFits'
    BY <2>1, <2>2, <2>3, <2>4, <2>5, <2>6 DEF ClosedFits, Booking
  <2>8. HandFits'
    BY <2>1, <2>2, <2>3, <2>4, <2>5, <2>6 DEF HandFits, Running, Clearing, Saving, Asking,
       Booking, Kind, IsLatest
  <2>9. NumbersFit' /\ SaleRowsFit'
    BY <2>1, <2>2, <2>3, <2>4, <2>5, <2>6 DEF NumbersFit, SaleRowsFit,
       ReversalPending, Booking, Repairing
  <2>10. ArmedAlone'
    BY <2>1, <2>2, <2>3, <2>4, <2>5, <2>6 DEF ArmedAlone
  <2>11. LimitFits'
    BY <2>1, <2>2, <2>3, <2>4, <2>5, <2>6 DEF LimitFits, Repairing
  <2>12. BooksFit'
    <3>1. PresumedSales' = PresumedSales /\ PresumedSales \in Nat
      BY <2>1, PresumedType DEF PresumedSales
    <3> QED BY <2>1, <2>2, <2>3, <2>5, <2>6, <3>1 DEF BooksFit, Due, TypeOK
  <2>13. RowsFit' /\ VoidsFit' /\ OneApprovalPerInvoice'
    BY <2>1 DEF RowsFit, VoidsFit, OneApprovalPerInvoice, ApprovedOf
  <2> QED BY <2>1, <2>2, <2>3, <2>4, <2>5, <2>6, <2>7, <2>8, <2>9, <2>10, <2>11, <2>12,
     <2>13 DEF BInv
<1>4. CASE Cancelled
  <2> USE <1>4
  <2>1. UNCHANGED <<cur, reversalFile, invoiceNum, mustSettleBit, accum, batch, host, net,
     req, nAttempt, lost, presumed, crashes, settled, closed>>
    BY DEF Cancelled, Answered
  <2>2. pc = "waitAuth" /\ pc' \in {"idle"} /\ ~sendReversalBit'
     /\ host[cur.id] = "declined" /\ sendReversalBit /\ reversalFile = cur.id
     /\ reversalFile \in Attempt
    BY DEF Cancelled, Answered, ArmedWhenNeeded, Asking, ArmedIsReadable, AnswerIsTrue, NoAnswer
  <2>3. \A a \in Attempt : Stands(a)' <=> Stands(a)
    BY <2>1, <2>2 DEF Stands, ReversalPending
  <2>4. \A k : Standing(k)' = Standing(k)
    BY <2>1, <2>3, StandingSame
  <2>5. ClosedFits'
    BY <2>1, <2>2, <2>3, <2>4 DEF ClosedFits, Booking
  <2>6. HandFits'
    BY <2>1, <2>2, <2>3, <2>4 DEF HandFits, Running, Clearing, Saving, Asking, Booking,
       Kind, IsLatest
  <2>7. NumbersFit' /\ SaleRowsFit'
    BY <2>1, <2>2, <2>3, <2>4 DEF NumbersFit, SaleRowsFit, ReversalPending, Booking, Repairing
  <2>8. ArmedAlone'
    BY <2>1, <2>2, <2>3, <2>4 DEF ArmedAlone
  <2>9. LimitFits'
    BY <2>1, <2>2, <2>3, <2>4 DEF LimitFits, Repairing
  <2>10. BooksFit'
    BY <2>1, <2>2, <2>3, <2>4 DEF BooksFit, Due, PresumedSales
  <2>11. RowsFit' /\ VoidsFit' /\ OneApprovalPerInvoice'
    BY <2>1 DEF RowsFit, VoidsFit, OneApprovalPerInvoice, ApprovedOf
  <2> QED BY <2>1, <2>2, <2>3, <2>4, <2>5, <2>6, <2>7, <2>8, <2>9, <2>10, <2>11 DEF BInv
<1>5. CASE Unusable
  <2> USE <1>5
  <2>1. UNCHANGED <<cur, reversalFile, invoiceNum, mustSettleBit, accum, batch, host, net,
     req, nAttempt, lost, presumed, crashes, settled, closed>>
    BY DEF Unusable, Answered
  <2>2. pc = "waitAuth" /\ pc' = "idle" /\ sendReversalBit' = sendReversalBit
    BY DEF Unusable, Answered
  <2>3. \A k : Standing(k)' = Standing(k)
    BY <2>1, <2>2 DEF Standing, ApprovedOf, ReversalPending
  <2>4. ClosedFits'
    BY <2>1, <2>2, <2>3 DEF ClosedFits, Booking
  <2>5. HandFits'
    BY <2>1, <2>2, <2>3 DEF HandFits, Running, Clearing, Saving, Asking, Booking, Kind, IsLatest
  <2>6. NumbersFit' /\ SaleRowsFit'
    BY <2>1, <2>2, <2>3 DEF NumbersFit, SaleRowsFit, ReversalPending, Booking, Repairing
  <2>7. ArmedAlone'
    BY <2>1, <2>2, <2>3 DEF ArmedAlone
  <2>8. LimitFits'
    BY <2>1, <2>2, <2>3 DEF LimitFits, Repairing
  <2>9. BooksFit'
    BY <2>1, <2>2, <2>3 DEF BooksFit, Due, PresumedSales
  <2>10. RowsFit' /\ VoidsFit' /\ OneApprovalPerInvoice'
    BY <2>1 DEF RowsFit, VoidsFit, OneApprovalPerInvoice, ApprovedOf
  <2> QED BY <2>1, <2>2, <2>3, <2>4, <2>5, <2>6, <2>7, <2>8, <2>9, <2>10 DEF BInv
<1>6. CASE Referral
  <2> USE <1>6
  <2>1. UNCHANGED <<cur, reversalFile, invoiceNum, mustSettleBit, accum, batch, host, net,
     req, nAttempt, lost, presumed, crashes, settled, closed>>
    BY DEF Referral, Answered
  <2>2. pc = "waitAuth" /\ pc' \in {"idle", "refer"} /\ ~sendReversalBit'
     /\ host[cur.id] = "declined" /\ sendReversalBit /\ reversalFile = cur.id
     /\ reversalFile \in Attempt
    BY DEF Referral, Answered, ArmedWhenNeeded, Asking, ArmedIsReadable, AnswerIsTrue, NoAnswer
  <2>3. \A a \in Attempt : Stands(a)' <=> Stands(a)
    BY <2>1, <2>2 DEF Stands, ReversalPending
  <2>4. \A k : Standing(k)' = Standing(k)
    BY <2>1, <2>3, StandingSame
  <2>5. ClosedFits'
    BY <2>1, <2>2, <2>3, <2>4 DEF ClosedFits, Booking
  <2>6. HandFits'
    BY <2>1, <2>2, <2>3, <2>4 DEF HandFits, Running, Clearing, Saving, Asking, Booking,
       Kind, IsLatest
  <2>7. NumbersFit' /\ SaleRowsFit'
    BY <2>1, <2>2, <2>3, <2>4 DEF NumbersFit, SaleRowsFit, ReversalPending, Booking, Repairing
  <2>8. ArmedAlone'
    BY <2>1, <2>2, <2>3, <2>4 DEF ArmedAlone
  <2>9. LimitFits'
    BY <2>1, <2>2, <2>3, <2>4 DEF LimitFits, Repairing
  <2>10. BooksFit'
    BY <2>1, <2>2, <2>3, <2>4 DEF BooksFit, Due, PresumedSales
  <2>11. RowsFit' /\ VoidsFit' /\ OneApprovalPerInvoice'
    BY <2>1 DEF RowsFit, VoidsFit, OneApprovalPerInvoice, ApprovedOf
  <2> QED BY <2>1, <2>2, <2>3, <2>4, <2>5, <2>6, <2>7, <2>8, <2>9, <2>10, <2>11 DEF BInv
<1>7. CASE ReferralApproved
  <2> USE <1>7
  <2>1. UNCHANGED <<sendReversalBit, reversalFile, invoiceNum, mustSettleBit, accum, batch,
     host, net, reply, req, nAttempt, lost, presumed, crashes, settled, closed>>
    BY DEF ReferralApproved
  <2>2. pc = "refer" /\ pc' = "connect" /\ cur'.kind = cur.kind /\ cur'.inv = cur.inv
    BY DEF ReferralApproved, TypeOK
  <2>3. \A k : Standing(k)' = Standing(k)
    BY <2>1 DEF Standing, ApprovedOf, ReversalPending
  <2>4. ClosedFits'
    BY <2>1, <2>2, <2>3 DEF ClosedFits, Booking
  <2>5. HandFits'
    BY <2>1, <2>2, <2>3 DEF HandFits, Running, Clearing, Saving, Asking, Booking, Kind, IsLatest
  <2>6. NumbersFit' /\ SaleRowsFit'
    BY <2>1, <2>2, <2>3 DEF NumbersFit, SaleRowsFit, ReversalPending, Booking, Repairing
  <2>7. LimitFits'
    BY <2>1, <2>2, <2>3 DEF LimitFits, Repairing
  <2>8. BooksFit'
    BY <2>1, <2>2, <2>3 DEF BooksFit, Due, PresumedSales
  <2>9. RowsFit' /\ VoidsFit' /\ ArmedAlone' /\ OneApprovalPerInvoice'
    BY <2>1 DEF RowsFit, VoidsFit, ArmedAlone, OneApprovalPerInvoice, ApprovedOf
  <2> QED BY <2>1, <2>2, <2>3, <2>4, <2>5, <2>6, <2>7, <2>8, <2>9 DEF BInv
<1>8. CASE ReferralCancelled
  <2> USE <1>8
  <2>1. UNCHANGED <<cur, sendReversalBit, reversalFile, invoiceNum, mustSettleBit, accum,
     batch, host, net, reply, req, nAttempt, lost, presumed, crashes, settled, closed>>
    BY DEF ReferralCancelled
  <2>2. pc = "refer" /\ pc' = "idle"
    BY DEF ReferralCancelled
  <2>3. \A k : Standing(k)' = Standing(k)
    BY <2>1 DEF Standing, ApprovedOf, ReversalPending
  <2>4. ClosedFits'
    BY <2>1, <2>2, <2>3 DEF ClosedFits, Booking
  <2>5. HandFits'
    BY <2>1, <2>2, <2>3 DEF HandFits, Running, Clearing, Saving, Asking, Booking, Kind, IsLatest
  <2>6. NumbersFit' /\ SaleRowsFit'
    BY <2>1, <2>2, <2>3 DEF NumbersFit, SaleRowsFit, ReversalPending, Booking, Repairing
  <2>7. LimitFits'
    BY <2>1, <2>2, <2>3 DEF LimitFits, Repairing
  <2>8. BooksFit'
    BY <2>1, <2>2, <2>3 DEF BooksFit, Due, PresumedSales
  <2>9. RowsFit' /\ VoidsFit' /\ ArmedAlone' /\ OneApprovalPerInvoice'
    BY <2>1 DEF RowsFit, VoidsFit, ArmedAlone, OneApprovalPerInvoice, ApprovedOf
  <2> QED BY <2>1, <2>2, <2>3, <2>4, <2>5, <2>6, <2>7, <2>8, <2>9 DEF BInv
<1>9. CASE TakenForApproved
  <2> USE <1>9
  <2>1. UNCHANGED <<cur, sendReversalBit, reversalFile, invoiceNum, mustSettleBit, accum,
     batch, host, net, req, nAttempt, lost, crashes, settled, closed>>
    BY DEF TakenForApproved
  <2>2. pc = "waitAuth" /\ pc' = "accum" /\ presumed' = presumed \cup {cur.id}
     /\ cur.kind = "SALE"
    BY DEF TakenForApproved, Unchecked, OnlySalesRefer, TypeOK
  <2>3. \A k : Standing(k)' = Standing(k)
    BY <2>1 DEF Standing, ApprovedOf, ReversalPending
  <2>4. cur.id > closed /\ cur.id \in Attempt /\ cur.id \notin presumed
    BY <2>2 DEF ArmedWhenNeeded, ArmedIsReadable, ClosedFits, HandFits, Asking
  <2>5. PresumedSales' = PresumedSales + 1 /\ PresumedSales \in Nat
    <3> DEFINE P == {a \in presumed : a > closed}
    <3>1. {a \in presumed' : a > closed'} = P \cup {cur.id} /\ cur.id \notin P
      BY <2>1, <2>2, <2>4
    <3>2. IsFiniteSet(P) /\ PresumedSales \in Nat
      BY PresumedType
    <3>3. PresumedSales' = Cardinality(P \cup {cur.id}) /\ PresumedSales = Cardinality(P)
      BY <3>1 DEF PresumedSales
    <3> HIDE DEF P
    <3> QED BY <3>1, <3>2, <3>3, FS_AddElement
  <2>6. ClosedFits'
    BY <2>1, <2>2, <2>4 DEF ClosedFits, Booking
  <2>7. HandFits'
    BY <2>1, <2>2 DEF HandFits, Running, Clearing, Saving, Asking, Booking, Kind, IsLatest
  <2>8. NumbersFit' /\ SaleRowsFit'
    BY <2>1, <2>2 DEF NumbersFit, SaleRowsFit, ReversalPending, Booking, Repairing
  <2>9. LimitFits'
    BY <2>1, <2>2 DEF LimitFits, Repairing
  <2>10. BooksFit'
    <3>1. Standing("SALE") \in Nat /\ Standing("VOID") \in Nat /\ accum \in Int
      BY StandingType DEF TypeOK
    <3>2. Due' = 1 /\ Due = 0
      BY <2>1, <2>2 DEF Due
    <3> QED BY <2>1, <2>3, <2>5, <3>1, <3>2 DEF BooksFit
  <2>11. RowsFit' /\ VoidsFit' /\ ArmedAlone' /\ OneApprovalPerInvoice'
    BY <2>1 DEF RowsFit, VoidsFit, ArmedAlone, OneApprovalPerInvoice, ApprovedOf
  <2> QED BY <2>6, <2>7, <2>8, <2>9, <2>10, <2>11 DEF BInv
<1> QED BY <1>1, <1>2, <1>3, <1>4, <1>5, <1>6, <1>7, <1>8, <1>9 DEF Ask

\* Booking keeps the books.
LEMMA BookKeepsBooks ==
  ASSUME TypeOK, FreshRequest, NothingUnasked, ArmedIsReadable, ArmedWhenNeeded,
         LineIsArmed, AnswerIsTrue, BookingIsApproved,
         RecordedIsApproved, OnlySalesRefer, InvoiceCoversRows, NoOrphanApproval,
         ClosedFits, RowsFit, HandFits, NumbersFit, SaleRowsFit, VoidsFit,
         ArmedAlone, LimitFits, OneApprovalPerInvoice, BooksFit, Book
  PROVE  BInv'
<1> USE AtsAssumption DEF AtsAssumption, Attempt, hdpt, books, line, hist
<1>1. CASE PiggybackAdvice
  <2> USE <1>1
  <2>1. UNCHANGED <<cur, sendReversalBit, reversalFile, invoiceNum, mustSettleBit, accum,
     batch, host, net, reply, req, nAttempt, lost, presumed, crashes, settled, closed>>
    BY DEF PiggybackAdvice
  <2>2. pc = "advice" /\ pc' = "accum"
    BY DEF PiggybackAdvice
  <2>3. \A k : Standing(k)' = Standing(k)
    BY <2>1 DEF Standing, ApprovedOf, ReversalPending
  <2>4. ClosedFits'
    BY <2>1, <2>2, <2>3 DEF ClosedFits, Booking
  <2>5. HandFits'
    BY <2>1, <2>2, <2>3 DEF HandFits, Running, Clearing, Saving, Asking, Booking, Kind, IsLatest
  <2>6. NumbersFit' /\ SaleRowsFit'
    BY <2>1, <2>2, <2>3 DEF NumbersFit, SaleRowsFit, ReversalPending, Booking, Repairing
  <2>7. LimitFits'
    BY <2>1, <2>2, <2>3 DEF LimitFits, Repairing
  <2>8. BooksFit'
    BY <2>1, <2>2, <2>3 DEF BooksFit, Due, PresumedSales
  <2>9. RowsFit' /\ VoidsFit' /\ ArmedAlone' /\ OneApprovalPerInvoice'
    BY <2>1 DEF RowsFit, VoidsFit, ArmedAlone, OneApprovalPerInvoice, ApprovedOf
  <2> QED BY <2>1, <2>2, <2>3, <2>4, <2>5, <2>6, <2>7, <2>8, <2>9 DEF BInv
<1>2. CASE UpdateAccum
  <2> USE <1>2
  <2>1. UNCHANGED <<cur, sendReversalBit, reversalFile, invoiceNum, mustSettleBit, batch,
     host, net, reply, req, nAttempt, lost, presumed, crashes, settled, closed>>
    BY DEF UpdateAccum
  <2>2. pc = "accum" /\ pc' \in {"mark", "insert"}
     /\ accum' = (IF cur.kind = "SALE" THEN accum + 1 ELSE accum - 1) /\ accum \in Int
    BY DEF UpdateAccum, TypeOK
  <2>3. \A k : Standing(k)' = Standing(k)
    BY <2>1 DEF Standing, ApprovedOf, ReversalPending
  <2>4. ClosedFits'
    BY <2>1, <2>2, <2>3 DEF ClosedFits, Booking
  <2>5. HandFits'
    BY <2>1, <2>2, <2>3 DEF HandFits, Running, Clearing, Saving, Asking, Booking, Kind, IsLatest
  <2>6. NumbersFit' /\ SaleRowsFit'
    BY <2>1, <2>2, <2>3 DEF NumbersFit, SaleRowsFit, ReversalPending, Booking, Repairing
  <2>7. LimitFits'
    BY <2>1, <2>2, <2>3 DEF LimitFits, Repairing
  <2>8. BooksFit'
    BY <2>1, <2>2, <2>3 DEF BooksFit, Due, PresumedSales
  <2>9. RowsFit' /\ VoidsFit' /\ ArmedAlone' /\ OneApprovalPerInvoice'
    BY <2>1 DEF RowsFit, VoidsFit, ArmedAlone, OneApprovalPerInvoice, ApprovedOf
  <2> QED BY <2>1, <2>2, <2>3, <2>4, <2>5, <2>6, <2>7, <2>8, <2>9 DEF BInv
<1>3. CASE MarkOldRow
  <2> USE <1>3
  <2>1. UNCHANGED <<cur, sendReversalBit, reversalFile, invoiceNum, mustSettleBit, accum,
     host, net, reply, req, nAttempt, lost, presumed, crashes, settled, closed>>
    BY DEF MarkOldRow
  <2>2. pc = "mark" /\ pc' = "insert"
    BY DEF MarkOldRow
  <2>3. \A k : Standing(k)' = Standing(k)
    BY <2>1 DEF Standing, ApprovedOf, ReversalPending
  <2>4. \A r \in batch' : \E s \in batch : s.id = r.id /\ s.kind = r.kind /\ s.inv = r.inv
    BY MarkKeepsRows
  <2>5. \A s \in batch : \E r \in batch' : s.id = r.id /\ s.kind = r.kind /\ s.inv = r.inv
    BY MarkKeepsRows
  <2>6. ClosedFits'
    BY <2>1, <2>2, <2>4 DEF ClosedFits, Booking
  <2>7. RowsFit'
    BY <2>1, <2>4 DEF RowsFit
  <2>8. HandFits'
    <3>1. \A r \in batch', s \in batch : s.id = r.id /\ s.inv = r.inv /\ IsLatest(s)
       => IsLatest(r)'
      BY <2>4 DEF IsLatest
    <3> QED BY <2>1, <2>2, <2>5, <3>1 DEF HandFits, Running, Asking, Booking, Kind
  <2>9. NumbersFit'
    BY <2>1, <2>2 DEF NumbersFit, ReversalPending, Booking, Repairing
  <2>10. VoidsFit' /\ SaleRowsFit'
    BY <2>1, <2>2, <2>4, <2>5 DEF VoidsFit, SaleRowsFit, Repairing
  <2>11. LimitFits'
    BY <2>1, <2>2, <2>4 DEF LimitFits, Repairing
  <2>12. BooksFit'
    BY <2>1, <2>2, <2>3 DEF BooksFit, Due, PresumedSales
  <2>13. ArmedAlone' /\ OneApprovalPerInvoice'
    BY <2>1 DEF ArmedAlone, OneApprovalPerInvoice, ApprovedOf
  <2> QED BY <2>1, <2>2, <2>3, <2>4, <2>5, <2>6, <2>7, <2>8, <2>9, <2>10, <2>11, <2>12,
     <2>13 DEF BInv
<1>4. CASE InsertRow
  <2> USE <1>4
  <2>1. UNCHANGED <<cur, sendReversalBit, reversalFile, invoiceNum, mustSettleBit, accum,
     host, net, reply, req, nAttempt, lost, presumed, crashes, settled, closed>>
    BY DEF InsertRow
  <2>2. pc = "insert" /\ pc' = IF cur.kind = "SALE" THEN "inv" ELSE "idle"
    BY DEF InsertRow
  <2>3. \A k : Standing(k)' = Standing(k)
    BY <2>1 DEF Standing, ApprovedOf, ReversalPending
  <2>4. cur.kind \in {"SALE", "VOID"} /\ cur.id = nAttempt /\ cur.id > closed
     /\ req[cur.id].kind = cur.kind /\ req[cur.id].inv = cur.inv
     /\ cur.id \notin Recorded /\ ~mustSettleBit
    BY <2>2 DEF BookingIsApproved, HandFits, ClosedFits, Booking, Kind, Running
  <2>5. PICK row : row.id = cur.id /\ row.kind = cur.kind /\ row.inv = cur.inv
     /\ batch' = batch \cup {row}
    BY DEF InsertRow
  <2>6. \A r \in batch : r.id \in Nat /\ r.id < cur.id
    <3> SUFFICES ASSUME NEW r \in batch PROVE r.id \in Nat /\ r.id < cur.id
      OBVIOUS
    <3>1. r.id \in Attempt /\ r.id \in Recorded
      BY RowIs
    <3>2. r.id <= nAttempt /\ r.id # cur.id
      BY <2>4, <3>1 DEF NothingUnasked, TypeOK
    <3> QED BY <2>4, <3>1, <3>2 DEF TypeOK
  <2>7. cur.kind = "VOID" => \E r \in batch : r.kind = "SALE" /\ r.inv = cur.inv
    BY <2>2 DEF HandFits, Running, Booking
  <2>8. ClosedFits'
    BY <2>1, <2>2, <2>4, <2>5 DEF ClosedFits, Booking
  <2>9. RowsFit'
    BY <2>1, <2>4, <2>5 DEF RowsFit
  <2>10. HandFits'
    BY <2>1, <2>2, <2>4 DEF HandFits, Running, Clearing, Saving, Asking, Booking, Kind, IsLatest
  <2>11. NumbersFit' /\ SaleRowsFit'
    <3>1. NumbersFit'
      BY <2>1, <2>2, <2>4 DEF NumbersFit, ReversalPending, Booking, Repairing
    <3>2. ASSUME NEW r \in batch, r.kind = "SALE" PROVE r.inv \in Nat /\ r.inv < invoiceNum
      BY <2>2, <2>4, <3>2, RowIs DEF SaleRowsFit, Repairing
    <3>3. cur.kind = "SALE" => cur.inv = invoiceNum /\ pc' = "inv"
      BY <2>2 DEF InvoiceCoversRows, Booking
    <3>4. SaleRowsFit'
      BY <2>1, <2>2, <2>4, <2>5, <2>6, <3>2, <3>3 DEF SaleRowsFit
    <3> QED BY <3>1, <3>4
  <2>12. VoidsFit'
    BY <2>4, <2>5, <2>6, <2>7 DEF VoidsFit
  <2>13. LimitFits'
    BY <2>1, <2>2, <2>4, <2>7 DEF LimitFits, Repairing
  <2>14. BooksFit'
    BY <2>1, <2>2, <2>3 DEF BooksFit, Due, PresumedSales
  <2>15. ArmedAlone' /\ OneApprovalPerInvoice'
    BY <2>1 DEF ArmedAlone, OneApprovalPerInvoice, ApprovedOf
  <2> QED BY <2>1, <2>2, <2>3, <2>4, <2>5, <2>6, <2>7, <2>8, <2>9, <2>10, <2>11, <2>12,
     <2>13, <2>14, <2>15 DEF BInv
<1>5. CASE UpdateInvNum
  <2> USE <1>5
  <2>1. UNCHANGED <<cur, sendReversalBit, reversalFile, mustSettleBit, accum, batch, host,
     net, reply, req, nAttempt, lost, presumed, crashes, settled, closed>>
    BY DEF UpdateInvNum, SaveInvoice
  <2>2. pc = "inv" /\ pc' = "mustSettle" /\ invoiceNum' = cur.inv + 1
     /\ cur.inv = invoiceNum /\ invoiceNum \in Nat
    BY DEF UpdateInvNum, SaveInvoice, InvoiceCoversRows, TypeOK
  <2>3. \A k : Standing(k)' = Standing(k)
    BY <2>1 DEF Standing, ApprovedOf, ReversalPending
  <2>4. /\ \A a \in Attempt : req[a].inv \in Nat
        /\ \A r \in batch : r.inv \in Nat /\ r.inv <= invoiceNum
    BY RequestIs, RowIs DEF InvoiceCoversRows
  <2>5. ClosedFits'
    BY <2>1, <2>2, <2>3, <2>4 DEF ClosedFits, Booking
  <2>6. HandFits'
    BY <2>1, <2>2, <2>3, <2>4 DEF HandFits, Running, Clearing, Saving, Asking, Booking,
       Kind, IsLatest
  <2>7. NumbersFit' /\ SaleRowsFit'
    BY <2>1, <2>2, <2>3, <2>4 DEF NumbersFit, SaleRowsFit, ReversalPending, Booking, Repairing
  <2>8. LimitFits'
    BY <2>1, <2>2, <2>3, <2>4 DEF LimitFits, Repairing
  <2>9. BooksFit'
    BY <2>1, <2>2, <2>3, <2>4 DEF BooksFit, Due, PresumedSales
  <2>10. RowsFit' /\ VoidsFit' /\ ArmedAlone' /\ OneApprovalPerInvoice'
    BY <2>1 DEF RowsFit, VoidsFit, ArmedAlone, OneApprovalPerInvoice, ApprovedOf
  <2> QED BY <2>1, <2>2, <2>3, <2>4, <2>5, <2>6, <2>7, <2>8, <2>9, <2>10 DEF BInv
<1>6. CASE CheckOverLimit
  <2> USE <1>6
  <2>1. UNCHANGED <<cur, sendReversalBit, reversalFile, invoiceNum, accum, batch, host,
     net, reply, req, nAttempt, lost, presumed, crashes, settled, closed>>
    BY DEF CheckOverLimit, RaiseMustSettle
  <2>2. pc = "mustSettle" /\ pc' = "idle" /\ mustSettleBit' = (mustSettleBit
     \/ (invoiceNum > InvoiceMax /\ SomethingToSettle))
    BY DEF CheckOverLimit, RaiseMustSettle
  <2>3. \A k : Standing(k)' = Standing(k)
    BY <2>1 DEF Standing, ApprovedOf, ReversalPending
  <2>4. ClosedFits'
    BY <2>1, <2>2, <2>3 DEF ClosedFits, Booking
  <2>5. HandFits'
    BY <2>1, <2>2, <2>3 DEF HandFits, Running, Clearing, Saving, Asking, Booking, Kind, IsLatest
  <2>6. NumbersFit' /\ SaleRowsFit'
    BY <2>1, <2>2, <2>3 DEF NumbersFit, SaleRowsFit, ReversalPending, Booking, Repairing
  <2>7. LimitFits'
    BY <2>1, <2>2 DEF LimitFits, Repairing, SomethingToSettle
  <2>8. BooksFit'
    BY <2>1, <2>2, <2>3 DEF BooksFit, Due, PresumedSales
  <2>9. RowsFit' /\ VoidsFit' /\ ArmedAlone' /\ OneApprovalPerInvoice'
    BY <2>1 DEF RowsFit, VoidsFit, ArmedAlone, OneApprovalPerInvoice, ApprovedOf
  <2> QED BY <2>1, <2>2, <2>3, <2>4, <2>5, <2>6, <2>7, <2>8, <2>9 DEF BInv
<1> QED BY <1>1, <1>2, <1>3, <1>4, <1>5, <1>6 DEF Book

\* A settlement keeps the books.
LEMMA SettleKeepsBooks ==
  ASSUME TypeOK, FreshRequest, NothingUnasked, ArmedIsReadable, ArmedWhenNeeded,
         LineIsArmed, AnswerIsTrue, BookingIsApproved,
         RecordedIsApproved, OnlySalesRefer, InvoiceCoversRows, NoOrphanApproval,
         ClosedFits, RowsFit, HandFits, NumbersFit, SaleRowsFit, VoidsFit,
         ArmedAlone, LimitFits, OneApprovalPerInvoice, BooksFit, Settle
  PROVE  BInv'
<1> USE AtsAssumption DEF AtsAssumption, Attempt, hdpt, books, line, hist
<1>1. CASE SettleFailed
  <2> USE <1>1
  <2>1. UNCHANGED <<cur, sendReversalBit, reversalFile, invoiceNum, mustSettleBit, accum,
     batch, host, net, reply, req, nAttempt, lost, presumed, crashes, settled, closed>>
    BY DEF SettleFailed
  <2>2. pc = "settle" /\ pc' = "idle"
    BY DEF SettleFailed
  <2>3. \A k : Standing(k)' = Standing(k)
    BY <2>1 DEF Standing, ApprovedOf, ReversalPending
  <2>4. ClosedFits'
    BY <2>1, <2>2, <2>3 DEF ClosedFits, Booking
  <2>5. HandFits'
    BY <2>1, <2>2, <2>3 DEF HandFits, Running, Clearing, Saving, Asking, Booking, Kind, IsLatest
  <2>6. NumbersFit' /\ SaleRowsFit'
    BY <2>1, <2>2, <2>3 DEF NumbersFit, SaleRowsFit, ReversalPending, Booking, Repairing
  <2>7. LimitFits'
    BY <2>1, <2>2, <2>3 DEF LimitFits, Repairing
  <2>8. BooksFit'
    BY <2>1, <2>2, <2>3 DEF BooksFit, Due, PresumedSales
  <2>9. RowsFit' /\ VoidsFit' /\ ArmedAlone' /\ OneApprovalPerInvoice'
    BY <2>1 DEF RowsFit, VoidsFit, ArmedAlone, OneApprovalPerInvoice, ApprovedOf
  <2> QED BY <2>1, <2>2, <2>3, <2>4, <2>5, <2>6, <2>7, <2>8, <2>9 DEF BInv
<1>2. CASE CloseBatch
  <2> USE <1>2
  <2>1. UNCHANGED <<cur, host, net, reply, req, nAttempt, lost, presumed, crashes>>
    BY DEF CloseBatch
  <2>2. pc = "settle" /\ pc' = "idle" /\ ~sendReversalBit'
    BY DEF CloseBatch, ArmedWhenNeeded
  <2>3. batch' = {} /\ accum' = 0 /\ closed' = nAttempt /\ settled' = Recorded
    BY DEF CloseBatch
  <2>4. \A a \in Attempt : a > nAttempt => host[a] # "approved"
    BY DEF NothingUnasked
  <2>5. \A a \in Recorded : a <= nAttempt
    <3>1. Recorded \subseteq Attempt
      BY RecordedAreAttempts
    <3> QED BY <3>1 DEF NothingUnasked, TypeOK
  <2>6. \A k : Standing(k)' = 0
    <3> TAKE k
    <3>1. ApprovedOf(k)' = {}
      BY <2>1, <2>3, <2>4 DEF ApprovedOf, TypeOK
    <3>2. {a \in ApprovedOf(k)' : ~ReversalPending(a)'} = {}
      BY <3>1
    <3> QED BY <3>2, FS_EmptySet DEF Standing
  <2>7. ClosedFits'
    BY <2>1, <2>2, <2>3, <2>5 DEF ClosedFits, Booking, TypeOK
  <2>8. RowsFit'
    BY <2>1, <2>2, <2>3, <2>4, <2>5, <2>6 DEF RowsFit
  <2>9. HandFits'
    BY <2>1, <2>2, <2>3, <2>4, <2>5, <2>6 DEF HandFits, Running, Clearing, Saving, Asking,
       Booking, Kind, IsLatest
  <2>10. NumbersFit' /\ SaleRowsFit'
    BY <2>1, <2>2, <2>3 DEF NumbersFit, SaleRowsFit, ReversalPending, Booking, Repairing, TypeOK
  <2>11. VoidsFit'
    BY <2>1, <2>2, <2>3, <2>4, <2>5, <2>6 DEF VoidsFit
  <2>12. ArmedAlone'
    BY <2>1, <2>2, <2>3, <2>4, <2>5, <2>6 DEF ArmedAlone
  <2>13. LimitFits'
    BY <2>1, <2>2, <2>3, <2>4, <2>5, <2>6 DEF LimitFits, Repairing
  <2>14. OneApprovalPerInvoice'
    BY <2>1, <2>3, <2>4 DEF OneApprovalPerInvoice, ApprovedOf, TypeOK
  <2>15. BooksFit'
    <3>1. \A a \in presumed : ~(a > nAttempt)
      BY DEF NothingUnasked, TypeOK
    <3>2. {a \in presumed' : a > closed'} = {}
      BY <2>1, <2>3, <3>1
    <3>3. PresumedSales' = 0
      BY <3>2, FS_EmptySet DEF PresumedSales
    <3> QED BY <2>2, <2>3, <2>6, <3>3 DEF BooksFit, Due
  <2> QED BY <2>1, <2>2, <2>3, <2>4, <2>5, <2>6, <2>7, <2>8, <2>9, <2>10, <2>11, <2>12,
     <2>13, <2>14, <2>15 DEF BInv
<1> QED BY <1>1, <1>2 DEF Settle

\* Start-up keeps the books.
LEMMA RestartKeepsBooks ==
  ASSUME TypeOK, FreshRequest, NothingUnasked, ArmedIsReadable, ArmedWhenNeeded,
         LineIsArmed, AnswerIsTrue, BookingIsApproved,
         RecordedIsApproved, OnlySalesRefer, InvoiceCoversRows, NoOrphanApproval,
         ClosedFits, RowsFit, HandFits, NumbersFit, SaleRowsFit, VoidsFit,
         ArmedAlone, LimitFits, OneApprovalPerInvoice, BooksFit, Restart
  PROVE  BInv'
<1> USE AtsAssumption DEF AtsAssumption, Attempt, hdpt, books, line, hist
<1>1. CASE Boot
  <2> USE <1>1
  <2>1. UNCHANGED <<cur, sendReversalBit, reversalFile, invoiceNum, mustSettleBit, accum,
     batch, host, net, reply, req, nAttempt, lost, presumed, crashes, settled, closed>>
    BY DEF Boot
  <2>2. pc = "boot" /\ pc' = IF mustSettleBit THEN "idle" ELSE "fixInv"
    BY DEF Boot
  <2>3. \A k : Standing(k)' = Standing(k)
    BY <2>1 DEF Standing, ApprovedOf, ReversalPending
  <2>4. ClosedFits'
    BY <2>1, <2>2, <2>3 DEF ClosedFits, Booking
  <2>5. HandFits'
    BY <2>1, <2>2, <2>3 DEF HandFits, Running, Clearing, Saving, Asking, Booking, Kind, IsLatest
  <2>6. NumbersFit' /\ SaleRowsFit'
    BY <2>1, <2>2, <2>3 DEF NumbersFit, SaleRowsFit, ReversalPending, Booking, Repairing
  <2>7. LimitFits'
    BY <2>1, <2>2, <2>3 DEF LimitFits, Repairing
  <2>8. BooksFit'
    BY <2>1, <2>2, <2>3 DEF BooksFit, Due, PresumedSales
  <2>9. RowsFit' /\ VoidsFit' /\ ArmedAlone' /\ OneApprovalPerInvoice'
    BY <2>1 DEF RowsFit, VoidsFit, ArmedAlone, OneApprovalPerInvoice, ApprovedOf
  <2> QED BY <2>1, <2>2, <2>3, <2>4, <2>5, <2>6, <2>7, <2>8, <2>9 DEF BInv
<1>2. CASE FixInvoice
  <2> USE <1>2
  <2>1. UNCHANGED <<cur, sendReversalBit, reversalFile, mustSettleBit, accum, batch, host,
     net, reply, req, nAttempt, lost, presumed, crashes, settled, closed>>
    BY DEF FixInvoice, SaveInvoice
  <2>2. pc = "fixInv" /\ pc' \in {"fixMustSettle", "bumpInv"}
    BY DEF FixInvoice, SaveInvoice
  <2>3. \A k : Standing(k)' = Standing(k)
    BY <2>1 DEF Standing, ApprovedOf, ReversalPending
  <2>4. invoiceNum <= invoiceNum' /\ invoiceNum' \in Nat /\ invoiceNum \in Nat
    BY MaxLiveInvoiceIsLargest DEF FixInvoice, SaveInvoice, TypeOK
  <2>5. /\ \A a \in Attempt : req[a].inv \in Nat
        /\ \A r \in batch : r.inv \in Nat /\ r.inv <= invoiceNum
    BY RequestIs, RowIs DEF InvoiceCoversRows
  <2>6. ClosedFits'
    BY <2>1, <2>2, <2>3, <2>4, <2>5 DEF ClosedFits, Booking
  <2>7. HandFits'
    BY <2>1, <2>2, <2>3, <2>4, <2>5 DEF HandFits, Running, Clearing, Saving, Asking,
       Booking, Kind, IsLatest
  <2>8. NumbersFit' /\ SaleRowsFit'
    BY <2>1, <2>2, <2>3, <2>4, <2>5 DEF NumbersFit, SaleRowsFit, ReversalPending, Booking, Repairing
  <2>9. LimitFits'
    BY <2>1, <2>2, <2>3, <2>4, <2>5 DEF LimitFits, Repairing
  <2>10. BooksFit'
    BY <2>1, <2>2, <2>3, <2>4, <2>5 DEF BooksFit, Due, PresumedSales
  <2>11. RowsFit' /\ VoidsFit' /\ ArmedAlone' /\ OneApprovalPerInvoice'
    BY <2>1 DEF RowsFit, VoidsFit, ArmedAlone, OneApprovalPerInvoice, ApprovedOf
  <2> QED BY <2>1, <2>2, <2>3, <2>4, <2>5, <2>6, <2>7, <2>8, <2>9, <2>10, <2>11 DEF BInv
<1>3. CASE FixOverLimit
  <2> USE <1>3
  <2>1. UNCHANGED <<cur, sendReversalBit, reversalFile, invoiceNum, accum, batch, host,
     net, reply, req, nAttempt, lost, presumed, crashes, settled, closed>>
    BY DEF FixOverLimit, RaiseMustSettle
  <2>2. pc = "fixMustSettle" /\ pc' = "bumpInv" /\ mustSettleBit' = (mustSettleBit
     \/ (invoiceNum > InvoiceMax /\ SomethingToSettle))
    BY DEF FixOverLimit, RaiseMustSettle
  <2>3. \A k : Standing(k)' = Standing(k)
    BY <2>1 DEF Standing, ApprovedOf, ReversalPending
  <2>4. ClosedFits'
    BY <2>1, <2>2, <2>3 DEF ClosedFits, Booking
  <2>5. HandFits'
    BY <2>1, <2>2, <2>3 DEF HandFits, Running, Clearing, Saving, Asking, Booking, Kind, IsLatest
  <2>6. NumbersFit' /\ SaleRowsFit'
    BY <2>1, <2>2, <2>3 DEF NumbersFit, SaleRowsFit, ReversalPending, Booking, Repairing
  <2>7. LimitFits'
    BY <2>1, <2>2 DEF LimitFits, Repairing, SomethingToSettle
  <2>8. BooksFit'
    BY <2>1, <2>2, <2>3 DEF BooksFit, Due, PresumedSales
  <2>9. RowsFit' /\ VoidsFit' /\ ArmedAlone' /\ OneApprovalPerInvoice'
    BY <2>1 DEF RowsFit, VoidsFit, ArmedAlone, OneApprovalPerInvoice, ApprovedOf
  <2> QED BY <2>1, <2>2, <2>3, <2>4, <2>5, <2>6, <2>7, <2>8, <2>9 DEF BInv
<1>4. CASE BumpInvoice
  <2> USE <1>4
  <2>1. UNCHANGED <<cur, sendReversalBit, reversalFile, mustSettleBit, accum, batch, host,
     net, reply, req, nAttempt, lost, presumed, crashes, settled, closed>>
    BY DEF BumpInvoice, SaveInvoice
  <2>2. pc = "bumpInv" /\ pc' = "bumpMustSettle" /\ invoiceNum' = invoiceNum + 2
     /\ invoiceNum \in Nat
    BY DEF BumpInvoice, SaveInvoice, TypeOK
  <2>3. \A k : Standing(k)' = Standing(k)
    BY <2>1 DEF Standing, ApprovedOf, ReversalPending
  <2>4. /\ \A a \in Attempt : req[a].inv \in Nat
        /\ \A r \in batch : r.inv \in Nat /\ r.inv <= invoiceNum
    BY RequestIs, RowIs DEF InvoiceCoversRows
  <2>5. ClosedFits'
    BY <2>1, <2>2, <2>3, <2>4 DEF ClosedFits, Booking
  <2>6. HandFits'
    BY <2>1, <2>2, <2>3, <2>4 DEF HandFits, Running, Clearing, Saving, Asking, Booking,
       Kind, IsLatest
  <2>7. NumbersFit' /\ SaleRowsFit'
    BY <2>1, <2>2, <2>3, <2>4 DEF NumbersFit, SaleRowsFit, ReversalPending, Booking, Repairing
  <2>8. LimitFits'
    BY <2>1, <2>2, <2>3, <2>4 DEF LimitFits, Repairing
  <2>9. BooksFit'
    BY <2>1, <2>2, <2>3, <2>4 DEF BooksFit, Due, PresumedSales
  <2>10. RowsFit' /\ VoidsFit' /\ ArmedAlone' /\ OneApprovalPerInvoice'
    BY <2>1 DEF RowsFit, VoidsFit, ArmedAlone, OneApprovalPerInvoice, ApprovedOf
  <2> QED BY <2>1, <2>2, <2>3, <2>4, <2>5, <2>6, <2>7, <2>8, <2>9, <2>10 DEF BInv
<1>5. CASE BumpOverLimit
  <2> USE <1>5
  <2>1. UNCHANGED <<cur, sendReversalBit, reversalFile, invoiceNum, accum, batch, host,
     net, reply, req, nAttempt, lost, presumed, crashes, settled, closed>>
    BY DEF BumpOverLimit, RaiseMustSettle
  <2>2. pc = "bumpMustSettle" /\ pc' = "idle" /\ mustSettleBit' = (mustSettleBit
     \/ (invoiceNum > InvoiceMax /\ SomethingToSettle))
    BY DEF BumpOverLimit, RaiseMustSettle
  <2>3. \A k : Standing(k)' = Standing(k)
    BY <2>1 DEF Standing, ApprovedOf, ReversalPending
  <2>4. ClosedFits'
    BY <2>1, <2>2, <2>3 DEF ClosedFits, Booking
  <2>5. HandFits'
    BY <2>1, <2>2, <2>3 DEF HandFits, Running, Clearing, Saving, Asking, Booking, Kind, IsLatest
  <2>6. NumbersFit' /\ SaleRowsFit'
    BY <2>1, <2>2, <2>3 DEF NumbersFit, SaleRowsFit, ReversalPending, Booking, Repairing
  <2>7. LimitFits'
    BY <2>1, <2>2 DEF LimitFits, Repairing, SomethingToSettle
  <2>8. BooksFit'
    BY <2>1, <2>2, <2>3 DEF BooksFit, Due, PresumedSales
  <2>9. RowsFit' /\ VoidsFit' /\ ArmedAlone' /\ OneApprovalPerInvoice'
    BY <2>1 DEF RowsFit, VoidsFit, ArmedAlone, OneApprovalPerInvoice, ApprovedOf
  <2> QED BY <2>1, <2>2, <2>3, <2>4, <2>5, <2>6, <2>7, <2>8, <2>9 DEF BInv
<1> QED BY <1>1, <1>2, <1>3, <1>4, <1>5 DEF Restart

\* The host and the line keep the books.
LEMMA HostKeepsBooks ==
  ASSUME TypeOK, FreshRequest, NothingUnasked, ArmedIsReadable, ArmedWhenNeeded,
         LineIsArmed, AnswerIsTrue, BookingIsApproved,
         RecordedIsApproved, OnlySalesRefer, InvoiceCoversRows, NoOrphanApproval,
         ClosedFits, RowsFit, HandFits, NumbersFit, SaleRowsFit, VoidsFit,
         ArmedAlone, LimitFits, OneApprovalPerInvoice, BooksFit, Host
  PROVE  BInv'
<1> USE AtsAssumption DEF AtsAssumption, Attempt, hdpt, books, line, hist
<1>1. CASE HostAuthorize
  <2> USE <1>1
  <2>1. UNCHANGED <<pc, cur, sendReversalBit, reversalFile, invoiceNum, mustSettleBit,
     accum, batch, req, nAttempt, lost, presumed, crashes, settled, closed>>
    BY DEF HostAuthorize, Deliver
  <2>2. net.type = "auth" /\ host' = [host EXCEPT ![net.id] = "approved"]
    BY DEF HostAuthorize, Deliver
  <2>3. sendReversalBit /\ net.id = reversalFile /\ reversalFile \in Attempt
    BY <2>2 DEF LineIsArmed, ArmedIsReadable, None
  <2>4. host'[reversalFile] = "approved" /\ \A a \in Attempt : a # reversalFile
     => host'[a] = host[a]
    BY <2>2, <2>3 DEF TypeOK
  <2>5. \A a \in Attempt : Stands(a)' <=> Stands(a)
    BY <2>1, <2>3, <2>4 DEF Stands, ReversalPending
  <2>6. \A k : Standing(k)' = Standing(k)
    BY <2>1, <2>5, StandingSame
  <2>7. NumbersFit' /\ SaleRowsFit'
    BY <2>1, <2>3, <2>4 DEF NumbersFit, SaleRowsFit, ReversalPending, Booking, Repairing
  <2>8. ArmedAlone'
    BY <2>1, <2>3, <2>4 DEF ArmedAlone
  <2>9. OneApprovalPerInvoice'
    <3>1. ASSUME NEW a \in Attempt, NEW b \in Attempt, a > closed, b > closed,
       host'[a] = "approved",
                 host'[b] = "approved", req[a].kind = req[b].kind, req[a].inv = req[b].inv,
                 a # b
          PROVE  req[a].kind = "VOID" /\ (a \in lost \/ b \in lost)
      <4>1. req[a] = req[b] /\ req[a].kind \in {"SALE", "VOID"}
        BY <3>1, RequestIs
      <4>2. CASE a = reversalFile
        BY <2>3, <2>4, <3>1, <4>1, <4>2 DEF ArmedAlone
      <4>3. CASE b = reversalFile
        BY <2>3, <2>4, <3>1, <4>1, <4>3 DEF ArmedAlone
      <4>4. CASE a # reversalFile /\ b # reversalFile
        BY <2>4, <3>1, <4>1, <4>4 DEF OneApprovalPerInvoice, ApprovedOf
      <4> QED BY <4>2, <4>3, <4>4
    <3> QED BY <2>1, <3>1 DEF OneApprovalPerInvoice, ApprovedOf
  <2>10. BooksFit'
    BY <2>1, <2>6 DEF BooksFit, Due, PresumedSales
  <2>11. ClosedFits' /\ RowsFit' /\ HandFits' /\ VoidsFit' /\ LimitFits'
    BY <2>1 DEF ClosedFits, Booking, RowsFit, HandFits, Running, Clearing, Saving, Asking,
       Kind, IsLatest, VoidsFit, LimitFits, Repairing
  <2> QED BY <2>1, <2>2, <2>3, <2>4, <2>5, <2>6, <2>7, <2>8, <2>9, <2>10, <2>11 DEF BInv
<1>2. CASE HostDecline
  <2> USE <1>2
  <2>1. UNCHANGED <<pc, cur, sendReversalBit, reversalFile, invoiceNum, mustSettleBit,
     accum, batch, req, nAttempt, lost, presumed, crashes, settled, closed>>
    BY DEF HostDecline, Deliver
  <2>2. net.type = "auth" /\ host' = [host EXCEPT ![net.id] = "declined"]
    BY DEF HostDecline, Deliver
  <2>3. sendReversalBit /\ net.id = reversalFile /\ reversalFile \in Attempt
    BY <2>2 DEF LineIsArmed, ArmedIsReadable, None
  <2>4. host'[reversalFile] = "declined" /\ \A a \in Attempt : a # reversalFile
     => host'[a] = host[a]
    BY <2>2, <2>3 DEF TypeOK
  <2>5. \A a \in Attempt : Stands(a)' <=> Stands(a)
    BY <2>1, <2>3, <2>4 DEF Stands, ReversalPending
  <2>6. \A k : Standing(k)' = Standing(k)
    BY <2>1, <2>5, StandingSame
  <2>7. NumbersFit' /\ SaleRowsFit'
    BY <2>1, <2>3, <2>4 DEF NumbersFit, SaleRowsFit, ReversalPending, Booking, Repairing
  <2>8. ArmedAlone'
    BY <2>1, <2>3, <2>4 DEF ArmedAlone
  <2>9. OneApprovalPerInvoice'
    BY <2>1, <2>3, <2>4 DEF OneApprovalPerInvoice, ApprovedOf
  <2>10. BooksFit'
    BY <2>1, <2>6 DEF BooksFit, Due, PresumedSales
  <2>11. ClosedFits' /\ RowsFit' /\ HandFits' /\ VoidsFit' /\ LimitFits'
    BY <2>1 DEF ClosedFits, Booking, RowsFit, HandFits, Running, Clearing, Saving, Asking,
       Kind, IsLatest, VoidsFit, LimitFits, Repairing
  <2> QED BY <2>1, <2>2, <2>3, <2>4, <2>5, <2>6, <2>7, <2>8, <2>9, <2>10, <2>11 DEF BInv
<1>3. CASE HostReverse
  <2> USE <1>3
  <2>1. UNCHANGED <<pc, cur, sendReversalBit, reversalFile, invoiceNum, mustSettleBit,
     accum, batch, req, nAttempt, lost, presumed, crashes, settled, closed>>
    BY DEF HostReverse, Deliver
  <2>2. net.type = "reversal" /\ host' = [host EXCEPT ![net.id] = "reversed"]
    BY DEF HostReverse, Deliver
  <2>3. sendReversalBit /\ net.id = reversalFile /\ reversalFile \in Attempt
    BY <2>2 DEF LineIsArmed, ArmedIsReadable, None
  <2>4. host'[reversalFile] = "reversed" /\ \A a \in Attempt : a # reversalFile
     => host'[a] = host[a]
    BY <2>2, <2>3 DEF TypeOK
  <2>5. \A a \in Attempt : Stands(a)' <=> Stands(a)
    BY <2>1, <2>3, <2>4 DEF Stands, ReversalPending
  <2>6. \A k : Standing(k)' = Standing(k)
    BY <2>1, <2>5, StandingSame
  <2>7. NumbersFit' /\ SaleRowsFit'
    BY <2>1, <2>3, <2>4 DEF NumbersFit, SaleRowsFit, ReversalPending, Booking, Repairing
  <2>8. ArmedAlone'
    BY <2>1, <2>3, <2>4 DEF ArmedAlone
  <2>9. OneApprovalPerInvoice'
    BY <2>1, <2>3, <2>4 DEF OneApprovalPerInvoice, ApprovedOf
  <2>10. BooksFit'
    BY <2>1, <2>6 DEF BooksFit, Due, PresumedSales
  <2>11. ClosedFits' /\ RowsFit' /\ HandFits' /\ VoidsFit' /\ LimitFits'
    BY <2>1 DEF ClosedFits, Booking, RowsFit, HandFits, Running, Clearing, Saving, Asking,
       Kind, IsLatest, VoidsFit, LimitFits, Repairing
  <2> QED BY <2>1, <2>2, <2>3, <2>4, <2>5, <2>6, <2>7, <2>8, <2>9, <2>10, <2>11 DEF BInv
<1>4. CASE HostRefuseReversal
  <2> USE <1>4
  <2>1. UNCHANGED <<pc, cur, sendReversalBit, reversalFile, invoiceNum, mustSettleBit,
     accum, batch, host, req, nAttempt, lost, presumed, crashes, settled, closed>>
    BY DEF HostRefuseReversal, Deliver
  <2>2. ClosedFits' /\ RowsFit' /\ HandFits' /\ NumbersFit' /\ SaleRowsFit' /\ VoidsFit'
     /\ ArmedAlone' /\ LimitFits' /\ OneApprovalPerInvoice' /\ BooksFit'
    BY <2>1 DEF ClosedFits, Booking, RowsFit, HandFits, Running, Clearing, Saving, Asking,
       Kind, IsLatest, NumbersFit, SaleRowsFit, ReversalPending, Repairing, VoidsFit, ArmedAlone,
       LimitFits, OneApprovalPerInvoice, ApprovedOf, BooksFit, Due, PresumedSales, Standing
  <2> QED BY <2>1, <2>2 DEF BInv
<1>5. CASE LoseRequest
  <2> USE <1>5
  <2>1. UNCHANGED <<pc, cur, sendReversalBit, reversalFile, invoiceNum, mustSettleBit,
     accum, batch, host, reply, req, nAttempt, lost, presumed, crashes, settled, closed>>
    BY DEF LoseRequest
  <2>2. ClosedFits' /\ RowsFit' /\ HandFits' /\ NumbersFit' /\ SaleRowsFit' /\ VoidsFit'
     /\ ArmedAlone' /\ LimitFits' /\ OneApprovalPerInvoice' /\ BooksFit'
    BY <2>1 DEF ClosedFits, Booking, RowsFit, HandFits, Running, Clearing, Saving, Asking,
       Kind, IsLatest, NumbersFit, SaleRowsFit, ReversalPending, Repairing, VoidsFit, ArmedAlone,
       LimitFits, OneApprovalPerInvoice, ApprovedOf, BooksFit, Due, PresumedSales, Standing
  <2> QED BY <2>1, <2>2 DEF BInv
<1> QED BY <1>1, <1>2, <1>3, <1>4, <1>5 DEF Host

\* A power failure keeps the books.
LEMMA CrashKeepsBooks ==
  ASSUME TypeOK, FreshRequest, NothingUnasked, ArmedIsReadable, ArmedWhenNeeded,
         LineIsArmed, AnswerIsTrue, BookingIsApproved,
         RecordedIsApproved, OnlySalesRefer, InvoiceCoversRows, NoOrphanApproval,
         ClosedFits, RowsFit, HandFits, NumbersFit, SaleRowsFit, VoidsFit,
         ArmedAlone, LimitFits, OneApprovalPerInvoice, BooksFit, Crash
  PROVE  BInv'
<1> USE AtsAssumption DEF AtsAssumption, Attempt, hdpt, books, line, hist
<1>1. CASE Crash
  <2> USE <1>1
  <2>1. UNCHANGED <<sendReversalBit, reversalFile, invoiceNum, mustSettleBit, accum, batch,
     host, net, req, nAttempt, presumed, settled, closed>>
    BY DEF Crash
  <2>2. pc' = "boot" /\ cur'.kind = "SETTLE"
    BY DEF Crash, NoCur
  <2>3. lost' = IF pc \in Booking THEN lost \cup {cur.id} ELSE lost
    BY DEF Crash
  <2>4. \A k : Standing(k)' = Standing(k)
    BY <2>1 DEF Standing, ApprovedOf, ReversalPending
  <2>5. ClosedFits'
    BY <2>1, <2>2, <2>3, <2>4 DEF ClosedFits, Booking
  <2>6. HandFits'
    BY <2>1, <2>2, <2>3, <2>4 DEF HandFits, Running, Clearing, Saving, Asking, Booking,
       Kind, IsLatest
  <2>7. NumbersFit' /\ SaleRowsFit'
    BY <2>1, <2>2, <2>3, <2>4 DEF NumbersFit, SaleRowsFit, ReversalPending, Booking, Repairing
  <2>8. ArmedAlone'
    BY <2>1, <2>3 DEF ArmedAlone
  <2>9. LimitFits'
    BY <2>1, <2>2, <2>3, <2>4 DEF LimitFits, Repairing
  <2>10. OneApprovalPerInvoice'
    BY <2>1, <2>3 DEF OneApprovalPerInvoice, ApprovedOf
  <2>11. BooksFit'
    BY <2>1, <2>2, <2>3, <2>4 DEF BooksFit, Due, PresumedSales, Booking
  <2>12. RowsFit' /\ VoidsFit'
    BY <2>1 DEF RowsFit, VoidsFit
  <2> QED BY <2>1, <2>2, <2>3, <2>4, <2>5, <2>6, <2>7, <2>8, <2>9, <2>10, <2>11, <2>12 DEF BInv
<1> QED BY <1>1

-----------------------------------------------------------------------------
(* The theorems.                                                           *)

\* A step that changes nothing keeps the books.
LEMMA StutterKeepsBooks ==
  ASSUME BInv, UNCHANGED vars
  PROVE  BInv'
<1> USE DEF vars, hdpt, books, line, hist
<1>1. ClosedFits' /\ RowsFit' /\ NumbersFit' /\ SaleRowsFit' /\ VoidsFit'
  BY DEF BInv, ClosedFits, RowsFit, NumbersFit, SaleRowsFit, VoidsFit, ReversalPending, Booking,
     Repairing, Attempt
<1>2. HandFits'
  BY DEF BInv, HandFits, IsLatest, Running, Clearing, Saving, Asking, Booking, Kind, Attempt
<1>3. ArmedAlone' /\ LimitFits'
  BY DEF BInv, ArmedAlone, LimitFits, Repairing, Attempt
<1>4. OneApprovalPerInvoice'
  BY DEF BInv, OneApprovalPerInvoice, ApprovedOf, Attempt
<1>5. BooksFit'
  BY DEF BInv, BooksFit, Due, PresumedSales, Standing, ApprovedOf, ReversalPending, Attempt
<1> QED BY <1>1, <1>2, <1>3, <1>4, <1>5 DEF BInv

\* The books of a new terminal are in order.
LEMMA InitBooks == Init => BInv
<1> SUFFICES ASSUME Init PROVE BInv
  OBVIOUS
<1>1. \A k : ApprovedOf(k) = {} /\ Standing(k) = 0
  <2> TAKE k
  <2>1. ApprovedOf(k) = {}
    BY DEF Init, ApprovedOf
  <2>2. {a \in ApprovedOf(k) : ~ReversalPending(a)} = {}
    BY <2>1
  <2> QED BY <2>1, <2>2, FS_EmptySet DEF Standing
<1>2. ClosedFits /\ RowsFit /\ SaleRowsFit /\ VoidsFit
  BY DEF Init, ClosedFits, RowsFit, SaleRowsFit, VoidsFit, Booking
<1>3. HandFits
  BY DEF Init, HandFits, Running, Clearing, Saving, Asking, Booking
<1>4. NumbersFit
  BY AtsAssumption DEF AtsAssumption, Attempt, Init, NumbersFit
<1>5. ArmedAlone /\ LimitFits
  BY DEF Init, ArmedAlone, LimitFits
<1>6. OneApprovalPerInvoice
  BY <1>1 DEF OneApprovalPerInvoice
<1>7. BooksFit
  <2>1. {a \in presumed : a > closed} = {}
    BY DEF Init
  <2>2. PresumedSales = 0
    BY <2>1, FS_EmptySet DEF PresumedSales
  <2>3. accum = 0 /\ Due = 0
    BY DEF Init, Due
  <2>4. Standing("SALE") = 0 /\ Standing("VOID") = 0
    BY <1>1
  <2> QED BY <2>2, <2>3, <2>4 DEF BooksFit
<1> QED BY <1>2, <1>3, <1>4, <1>5, <1>6, <1>7 DEF BInv

\* Every step keeps the books.
LEMMA NextBooks ==
  ASSUME IInv, BInv, [Next]_vars
  PROVE  BInv'
<1>1. CASE UNCHANGED vars
  BY <1>1, StutterKeepsBooks
<1>2. CASE Before
  BY <1>2, BeforeKeepsBooks DEF IInv, BInv
<1>3. CASE Clear
  BY <1>3, ClearKeepsBooks DEF IInv, BInv
<1>4. CASE Save
  BY <1>4, SaveKeepsBooks DEF IInv, BInv
<1>5. CASE Ask
  BY <1>5, AskKeepsBooks DEF IInv, BInv
<1>6. CASE Book
  BY <1>6, BookKeepsBooks DEF IInv, BInv
<1>7. CASE Settle
  BY <1>7, SettleKeepsBooks DEF IInv, BInv
<1>8. CASE Crash
  BY <1>8, CrashKeepsBooks DEF IInv, BInv
<1>9. CASE Restart
  BY <1>9, RestartKeepsBooks DEF IInv, BInv
<1>10. CASE Host
  BY <1>10, HostKeepsBooks DEF IInv, BInv
<1> QED BY <1>1, <1>2, <1>3, <1>4, <1>5, <1>6, <1>7, <1>8, <1>9, <1>10 DEF Next

\* The books are in order in every reachable state.
THEOREM SpecBInv == Spec => []BInv
<1>1. Init => BInv
  BY InitBooks
<1>2. IInv /\ BInv /\ [Next]_vars => BInv'
  BY NextBooks
<1> QED BY <1>1, <1>2, SpecIInv, PTL DEF Spec

\* The host has approved no two sales of the open batch under one invoice number, whatever
\* power failures, reversals and repaired counters came between, and two voids of one sale
\* only when a power failure cut a booking off.
THEOREM SpecOneApprovalPerInvoice == Spec => []OneApprovalPerInvoice
<1>1. BInv => OneApprovalPerInvoice
  BY DEF BInv
<1> QED BY <1>1, SpecBInv, PTL

\* Between transactions the terminal's totals exceed the host's, the approval counted out whose
\* reversal is still to come, by the sales taken for approved and by nothing else, unless a power
\* failure cut a booking off.
THEOREM SpecTotalsAgree == Spec => []TotalsAgree
<1>1. IInv /\ BInv => TotalsAgree
  <2> SUFFICES ASSUME IInv, BInv, pc = "idle", lost = {}
               PROVE  accum = Standing("SALE") - Standing("VOID") + PresumedSales
    BY DEF TotalsAgree
  <2>1. accum + 0 = Standing("SALE") - Standing("VOID") + PresumedSales
    BY DEF BInv, BooksFit, Due
  <2>2. accum \in Int
    BY DEF IInv, TypeOK
  <2> QED BY <2>1, <2>2
<1> QED BY <1>1, SpecIInv, SpecBInv, PTL

\* The terminal is never left idle with a batch to settle and an invoice counter past its
\* limit without the must-settle bit, wherever a power failure cut the counter's update.
THEOREM SpecOverLimitOnlyOnEmptyBatch == Spec => []OverLimitOnlyOnEmptyBatch
<1>1. BInv => OverLimitOnlyOnEmptyBatch
  BY DEF BInv, LimitFits, OverLimitOnlyOnEmptyBatch, Repairing
<1> QED BY <1>1, SpecBInv, PTL
=============================================================================
