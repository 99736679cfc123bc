--------------------------- MODULE Settlement_proofs ---------------------------
(***************************************************************************)
(* Proofs about Settlement for every invoice limit, every range of batch   *)
(* numbers and any number of power failures: the type invariant, that only *)
(* rows the host took are marked, that an interrupted upload is resumed,   *)
(* that the clean-up is all or nothing and counts batches, and that the    *)
(* settlement implements BatchLedger.                                      *)
(***************************************************************************)
EXTENDS Settlement, FiniteSetTheorems, TLAPS

(***************************************************************************)
(* The inductive invariant.                                                *)
(***************************************************************************)

Waits       == {"waitSettle", "waitUpload", "waitClose"}
InDialogue  == {"connect", "sendSettle", "success"} \cup Waits \cup SendingRows \cup Closing
Dropped     == {"clearMustSettle", "clearCls", "editBatch"}

\* The tags still to do, as each function leaves them.
ToAccum == {"DELETE_ACCUM", "REST_BATCH_INV", "UPDATE_BATCH_NUM"}
ToInv   == {"REST_BATCH_INV", "UPDATE_BATCH_NUM"}
ToNum   == {"UPDATE_BATCH_NUM"}
ToPrint == {"PRINT_TOTAL"} \cup ToAccum
Stage   == {NoXml, Tag, ToPrint, ToAccum, ToInv, ToNum, {}}

\* The recovery file says where the clean-up is.
XmlFits ==
    /\ xml \in Stage
    /\ pc \notin Tail \cup {"boot"} => xml = NoXml
    /\ pc \in {"dropTables"} \cup Dropped => xml = Tag
    /\ pc = "printTotal" => xml = ToPrint
    /\ pc \in {"deleteAccum", "editAccum"} => xml = ToAccum
    /\ pc \in {"resetInv", "editInv"} => xml = ToInv
    /\ pc \in {"updateNum", "editNum"} => xml = ToNum
    /\ pc = "xmlEnd" => xml = {}

\* Once the tables are dropped the batch is gone, and nothing is remembered of it.
BatchGone ==
    pc \in Dropped \/ xml \in {ToPrint, ToAccum, ToInv, ToNum, {}} =>
        /\ rows = {} /\ voided = {} /\ marked = {}
        /\ ~hostClosed /\ ~lostClose /\ interrupted = "no"

\* Once they are cleared the totals are zero.
AccumGone == pc = "editAccum" \/ xml \in {ToInv, ToNum, {}} => accum = 0

\* Outside a clean-up totals, rows and invoice counter describe one batch.
BookFits ==
    xml = NoXml =>
        /\ accum = Cardinality(rows \ voided)
        /\ \A i \in rows : i < invoiceNum

\* The batch number is behind until the clean-up has moved it on.
NumFits ==
    IF pc = "editNum" \/ xml \in {NoXml, {}}
    THEN batchNum = expectNum
    ELSE expectNum = NextNum(batchNum)

\* An answer is heard by who waits for it, and no request outlives the dialogue.
LineFits ==
    /\ reply # NoAnswer => net = None /\ pc \in Waits
    /\ pc = "waitSettle" /\ net # None => net.type \in {"SETTLE", "CLS_SETTLE"}
    /\ pc = "waitUpload" /\ net # None => net.type = "BATCH_UPLOAD"
    /\ pc = "waitClose" /\ net # None => net.type = "CLS_BATCH"
    /\ pc \in {"success", "xmlStart"} \/ xml # NoXml => net = None

\* The terminal cleans up a batch the host has closed.
ClosedFits ==
    /\ reply = "00" /\ pc \in {"waitSettle", "waitClose"} => hostClosed
    /\ pc \in {"success", "xmlStart"} => hostClosed

\* The row on its way is the next to upload, and so is the one just taken.
UploadFits ==
    pc = "waitUpload" =>
        /\ net # None => net.row \in ToUpload /\ \A j \in ToUpload : net.row <= j
        /\ reply = "00" => \A i \in ToUpload : (\A j \in ToUpload : i <= j) => i \in acked

\* The must-settle bit holds sales back while a settlement is open.
MustSettleFits ==
    /\ net # None \/ pc \in InDialogue => mustSettleBit
    /\ hostClosed \/ interrupted = "rows" =>
         mustSettleBit \/ lostClose \/ pc = "xmlStart" \/ xml # NoXml

\* An upload that was cut off among the rows is remembered.
ClsFits == pc \in SendingRows \/ interrupted = "rows" => clsSettleBit

IInv ==
    /\ TypeOK
    /\ XmlFits
    /\ BatchGone
    /\ AccumGone
    /\ BookFits
    /\ NumFits
    /\ LineFits
    /\ ClosedFits
    /\ UploadFits
    /\ MustSettleFits
    /\ ClsFits
    /\ MarkedRowsAreAcked
-----------------------------------------------------------------------------
(* The step, one lemma for each group of actions.  The leaves see the      *)
(* parts of the invariant and what the action does.                        *)

USE SettlementAssumption DEF SettlementAssumption, disk, bits, line, hist, None, NoAnswer, Tail,
    SendingRows, Closing, PC, Waits, InDialogue, Dropped, Stage

\* Ticking the tag of a function leads from one stage of the clean-up to the next.
LEMMA Stages ==
  /\ FirstStep(Tag) = "dropTables" /\ Tag \ {"DELETE_BATCH"} = ToPrint
  /\ FirstStep(ToPrint) = "printTotal" /\ ToPrint \ {"PRINT_TOTAL"} = ToAccum
  /\ FirstStep(ToAccum) = "deleteAccum" /\ ToAccum \ {"DELETE_ACCUM"} = ToInv
  /\ FirstStep(ToInv) = "resetInv" /\ ToInv \ {"REST_BATCH_INV"} = ToNum
  /\ FirstStep(ToNum) = "updateNum" /\ ToNum \ {"UPDATE_BATCH_NUM"} = {}
  /\ FirstStep({}) = "xmlEnd"
  /\ ToPrint \subseteq Tag /\ ToAccum \subseteq Tag /\ ToInv \subseteq Tag /\ ToNum \subseteq Tag
BY DEF FirstStep, Tag, ToPrint, ToAccum, ToInv, ToNum

\* The stages can be told apart.
LEMMA StagesDiffer ==
  /\ NoXml \notin {Tag, ToPrint, ToAccum, ToInv, ToNum, {}}
  /\ Tag \notin {ToPrint, ToAccum, ToInv, ToNum, {}}
  /\ ToPrint \notin {ToAccum, ToInv, ToNum, {}}
  /\ ToAccum \notin {ToInv, ToNum, {}}
  /\ ToInv \notin {ToNum, {}}
  /\ ToNum # {}
<1>1. "no file" \in NoXml /\ \A s \in {Tag, ToPrint, ToAccum, ToInv, ToNum, {}} : "no file"
   \notin s
  BY DEF NoXml, Tag, ToPrint, ToAccum, ToInv, ToNum
<1>2. "DELETE_BATCH" \in Tag /\ \A s \in {ToPrint, ToAccum, ToInv, ToNum, {}} :
   "DELETE_BATCH" \notin s
  BY DEF Tag, ToPrint, ToAccum, ToInv, ToNum
<1>3. "PRINT_TOTAL" \in ToPrint /\ \A s \in {ToAccum, ToInv, ToNum, {}} : "PRINT_TOTAL" \notin s
  BY DEF ToPrint, ToAccum, ToInv, ToNum
<1>4. "DELETE_ACCUM" \in ToAccum /\ \A s \in {ToInv, ToNum, {}} : "DELETE_ACCUM" \notin s
  BY DEF ToAccum, ToInv, ToNum
<1>5. "REST_BATCH_INV" \in ToInv /\ \A s \in {ToNum, {}} : "REST_BATCH_INV" \notin s
  BY DEF ToInv, ToNum
<1>6. "UPDATE_BATCH_NUM" \in ToNum
  BY DEF ToNum
<1> QED BY <1>1, <1>2, <1>3, <1>4, <1>5, <1>6

\* The next number of a batch is a number of a batch.
LEMMA NextNumType ==
  ASSUME NEW n \in 1 .. BatchMax
  PROVE  NextNum(n) \in 1 .. BatchMax
BY DEF NextNum


\* What happens between settlements keeps the invariant.
LEMMA TradeStep ==
  ASSUME TypeOK, XmlFits, BatchGone, AccumGone, BookFits, NumFits, LineFits, ClosedFits,
         UploadFits, MustSettleFits, ClsFits, MarkedRowsAreAcked,
         Trade \/ StartSettle
  PROVE  IInv'
<1>1. CASE Sale
  <2> USE <1>1
  <2>1. TypeOK'
    <3>1. rows' \subseteq Nat /\ IsFiniteSet(rows')
      BY FS_AddElement DEF TypeOK, Sale
    <3>2. voided' \subseteq rows'
      BY DEF TypeOK, Sale
    <3>3. marked' \subseteq rows'
      BY DEF TypeOK, Sale
    <3>4. accum' \in Int
      BY DEF TypeOK, Sale
    <3>5. invoiceNum' \in Nat
      BY DEF TypeOK, Sale
    <3>6. mustSettleBit' \in BOOLEAN
      BY DEF TypeOK, Sale
    <3> QED BY <3>1, <3>2, <3>3, <3>4, <3>5, <3>6 DEF TypeOK, Sale
  <2>2. BatchGone'
    BY StagesDiffer DEF BatchGone, XmlFits, Sale
  <2>3. AccumGone'
    BY StagesDiffer DEF AccumGone, XmlFits, Sale
  <2>4. BookFits'
    <3>1. xml = NoXml /\ xml' = xml
      BY DEF Sale, XmlFits
    <3>2. invoiceNum \notin rows /\ \A i \in rows' : i < invoiceNum'
      BY <3>1 DEF Sale, TypeOK, BookFits
    <3>3. rows' \ voided' = (rows \ voided) \cup {invoiceNum} /\ invoiceNum \notin rows \ voided
      BY <3>2 DEF Sale, TypeOK
    <3>4. IsFiniteSet(rows \ voided)
      BY FS_Subset DEF TypeOK
    <3>5. Cardinality(rows' \ voided') = Cardinality(rows \ voided) + 1
      BY <3>3, <3>4, FS_AddElement
    <3> QED BY <3>1, <3>2, <3>5 DEF Sale, BookFits
  <2>5. UploadFits'
    BY DEF UploadFits, ToUpload, LineFits, Sale
  <2>6. MustSettleFits'
    BY StagesDiffer DEF MustSettleFits, XmlFits, LineFits, Sale
  <2>7. XmlFits' /\ NumFits' /\ LineFits' /\ ClosedFits' /\ ClsFits' /\ MarkedRowsAreAcked'
    BY DEF XmlFits, NumFits, LineFits, ClosedFits, ClsFits, MarkedRowsAreAcked, Sale
  <2> QED BY <2>1, <2>2, <2>3, <2>4, <2>5, <2>6, <2>7 DEF IInv
<1>2. CASE Void
  <2> USE <1>2
  <2>1. TypeOK'
    BY DEF TypeOK, Void
  <2>2. BatchGone'
    BY StagesDiffer DEF BatchGone, XmlFits, Void
  <2>3. AccumGone'
    BY StagesDiffer DEF AccumGone, XmlFits, Void
  <2>4. BookFits'
    <3>1. xml = NoXml /\ xml' = xml
      BY DEF Void, XmlFits
    <3>2. PICK i \in rows \ voided : voided' = voided \cup {i}
      BY DEF Void
    <3>3. rows' \ voided' = (rows \ voided) \ {i}
      BY <3>2 DEF Void
    <3>4. IsFiniteSet(rows \ voided)
      BY FS_Subset DEF TypeOK
    <3>5. Cardinality(rows' \ voided') = Cardinality(rows \ voided) - 1
      BY <3>2, <3>3, <3>4, FS_RemoveElement
    <3> QED BY <3>1, <3>5 DEF Void, BookFits
  <2>5. UploadFits'
    BY DEF UploadFits, ToUpload, LineFits, Void
  <2>6. XmlFits' /\ NumFits' /\ LineFits' /\ ClosedFits' /\ MustSettleFits' /\ ClsFits' /\
     MarkedRowsAreAcked'
    BY DEF XmlFits, NumFits, LineFits, ClosedFits, MustSettleFits, ClsFits,
       MarkedRowsAreAcked, Void
  <2> QED BY <2>1, <2>2, <2>3, <2>4, <2>5, <2>6 DEF IInv
<1>3. CASE StartSettle
  <2> USE <1>3
  <2>1. TypeOK'
    BY DEF TypeOK, StartSettle, Goto
  <2>2. XmlFits'
    BY StagesDiffer DEF XmlFits, StartSettle, Goto
  <2>3. BatchGone'
    BY StagesDiffer DEF BatchGone, XmlFits, StartSettle, Goto
  <2>4. AccumGone'
    BY StagesDiffer DEF AccumGone, XmlFits, StartSettle, Goto
  <2>5. NumFits'
    BY StagesDiffer DEF NumFits, XmlFits, StartSettle, Goto
  <2>6. LineFits'
    BY StagesDiffer DEF LineFits, XmlFits, StartSettle, Goto
  <2>7. ClosedFits'
    BY DEF ClosedFits, LineFits, StartSettle, Goto
  <2>8. UploadFits'
    BY DEF UploadFits, ToUpload, LineFits, StartSettle, Goto
  <2>9. MustSettleFits'
    BY StagesDiffer DEF MustSettleFits, XmlFits, LineFits, StartSettle, Goto
  <2>10. ClsFits'
    BY DEF ClsFits, StartSettle, Goto
  <2>11. BookFits' /\ MarkedRowsAreAcked'
    BY DEF BookFits, MarkedRowsAreAcked, StartSettle, Goto
  <2> QED BY <2>1, <2>2, <2>3, <2>4, <2>5, <2>6, <2>7, <2>8, <2>9, <2>10, <2>11 DEF IInv
<1> QED BY <1>1, <1>2, <1>3 DEF Trade

\* The dialogue keeps the invariant.
LEMMA DialogueStep ==
  ASSUME TypeOK, XmlFits, BatchGone, AccumGone, BookFits, NumFits, LineFits, ClosedFits,
         UploadFits, MustSettleFits, ClsFits, MarkedRowsAreAcked,
         Dialogue
  PROVE  IInv'
<1>1. CASE PreambleFail
  <2> USE <1>1
  <2>1. TypeOK'
    BY DEF TypeOK, PreambleFail, Goto
  <2>2. XmlFits'
    BY StagesDiffer DEF XmlFits, PreambleFail, Goto
  <2>3. BatchGone'
    BY StagesDiffer DEF BatchGone, XmlFits, PreambleFail, Goto
  <2>4. AccumGone'
    BY StagesDiffer DEF AccumGone, XmlFits, PreambleFail, Goto
  <2>5. NumFits'
    BY StagesDiffer DEF NumFits, XmlFits, PreambleFail, Goto
  <2>6. LineFits'
    BY StagesDiffer DEF LineFits, XmlFits, PreambleFail, Goto
  <2>7. ClosedFits'
    BY DEF ClosedFits, LineFits, PreambleFail, Goto
  <2>8. UploadFits'
    BY DEF UploadFits, ToUpload, LineFits, PreambleFail, Goto
  <2>9. MustSettleFits'
    BY StagesDiffer DEF MustSettleFits, XmlFits, LineFits, PreambleFail, Goto
  <2>10. ClsFits'
    BY DEF ClsFits, PreambleFail, Goto
  <2>11. BookFits' /\ MarkedRowsAreAcked'
    BY DEF BookFits, MarkedRowsAreAcked, PreambleFail, Goto
  <2> QED BY <2>1, <2>2, <2>3, <2>4, <2>5, <2>6, <2>7, <2>8, <2>9, <2>10, <2>11 DEF IInv
<1>2. CASE PreambleDone
  <2> USE <1>2
  <2>1. TypeOK'
    BY DEF TypeOK, PreambleDone, Goto
  <2>2. XmlFits'
    BY StagesDiffer DEF XmlFits, PreambleDone, Goto
  <2>3. BatchGone'
    BY StagesDiffer DEF BatchGone, XmlFits, PreambleDone, Goto
  <2>4. AccumGone'
    BY StagesDiffer DEF AccumGone, XmlFits, PreambleDone, Goto
  <2>5. NumFits'
    BY StagesDiffer DEF NumFits, XmlFits, PreambleDone, Goto
  <2>6. LineFits'
    BY StagesDiffer DEF LineFits, XmlFits, PreambleDone, Goto
  <2>7. ClosedFits'
    BY DEF ClosedFits, LineFits, PreambleDone, Goto
  <2>8. UploadFits'
    BY DEF UploadFits, ToUpload, LineFits, PreambleDone, Goto
  <2>9. MustSettleFits'
    BY StagesDiffer DEF MustSettleFits, XmlFits, LineFits, PreambleDone, Goto
  <2>10. ClsFits'
    BY DEF ClsFits, PreambleDone, Goto
  <2>11. BookFits' /\ MarkedRowsAreAcked'
    BY DEF BookFits, MarkedRowsAreAcked, PreambleDone, Goto
  <2> QED BY <2>1, <2>2, <2>3, <2>4, <2>5, <2>6, <2>7, <2>8, <2>9, <2>10, <2>11 DEF IInv
<1>3. CASE SendSettle
  <2> USE <1>3
  <2>1. TypeOK'
    BY DEF TypeOK, SendSettle, SettleCode, Msg, Send, Goto
  <2>2. XmlFits'
    BY StagesDiffer DEF XmlFits, SendSettle, SettleCode, Msg, Send, Goto
  <2>3. BatchGone'
    BY StagesDiffer DEF BatchGone, XmlFits, SendSettle, SettleCode, Msg, Send, Goto
  <2>4. AccumGone'
    BY StagesDiffer DEF AccumGone, XmlFits, SendSettle, SettleCode, Msg, Send, Goto
  <2>5. NumFits'
    BY StagesDiffer DEF NumFits, XmlFits, SendSettle, SettleCode, Msg, Send, Goto
  <2>6. LineFits'
    BY StagesDiffer DEF LineFits, XmlFits, SendSettle, SettleCode, Msg, Send, Goto
  <2>7. ClosedFits'
    BY DEF ClosedFits, LineFits, SendSettle, SettleCode, Msg, Send, Goto
  <2>8. UploadFits'
    BY DEF UploadFits, ToUpload, LineFits, SendSettle, SettleCode, Msg, Send, Goto
  <2>9. MustSettleFits'
    BY StagesDiffer DEF MustSettleFits, XmlFits, LineFits, SendSettle, SettleCode, Msg, Send,
       Goto
  <2>10. ClsFits'
    BY DEF ClsFits, SendSettle, SettleCode, Msg, Send, Goto
  <2>11. BookFits' /\ MarkedRowsAreAcked'
    BY DEF BookFits, MarkedRowsAreAcked, SendSettle, SettleCode, Msg, Send, Goto
  <2> QED BY <2>1, <2>2, <2>3, <2>4, <2>5, <2>6, <2>7, <2>8, <2>9, <2>10, <2>11 DEF IInv
<1>4. CASE SettleAccepted
  <2> USE <1>4
  <2>1. TypeOK'
    BY DEF TypeOK, SettleAccepted, Answered, Goto
  <2>2. XmlFits'
    BY StagesDiffer DEF XmlFits, SettleAccepted, Answered, Goto
  <2>3. BatchGone'
    BY StagesDiffer DEF BatchGone, XmlFits, SettleAccepted, Answered, Goto
  <2>4. AccumGone'
    BY StagesDiffer DEF AccumGone, XmlFits, SettleAccepted, Answered, Goto
  <2>5. NumFits'
    BY StagesDiffer DEF NumFits, XmlFits, SettleAccepted, Answered, Goto
  <2>6. LineFits'
    BY StagesDiffer DEF LineFits, XmlFits, SettleAccepted, Answered, Goto
  <2>7. ClosedFits'
    BY DEF ClosedFits, LineFits, SettleAccepted, Answered, Goto
  <2>8. UploadFits'
    BY DEF UploadFits, ToUpload, LineFits, SettleAccepted, Answered, Goto
  <2>9. MustSettleFits'
    BY StagesDiffer DEF MustSettleFits, XmlFits, LineFits, SettleAccepted, Answered, Goto
  <2>10. ClsFits'
    BY DEF ClsFits, SettleAccepted, Answered, Goto
  <2>11. BookFits' /\ MarkedRowsAreAcked'
    BY DEF BookFits, MarkedRowsAreAcked, SettleAccepted, Answered, Goto
  <2> QED BY <2>1, <2>2, <2>3, <2>4, <2>5, <2>6, <2>7, <2>8, <2>9, <2>10, <2>11 DEF IInv
<1>5. CASE SettleRefused
  <2> USE <1>5
  <2>1. TypeOK'
    BY DEF TypeOK, SettleRefused, Answered, Goto
  <2>2. XmlFits'
    BY StagesDiffer DEF XmlFits, SettleRefused, Answered, Goto
  <2>3. BatchGone'
    BY StagesDiffer DEF BatchGone, XmlFits, SettleRefused, Answered, Goto
  <2>4. AccumGone'
    BY StagesDiffer DEF AccumGone, XmlFits, SettleRefused, Answered, Goto
  <2>5. NumFits'
    BY StagesDiffer DEF NumFits, XmlFits, SettleRefused, Answered, Goto
  <2>6. LineFits'
    BY StagesDiffer DEF LineFits, XmlFits, SettleRefused, Answered, Goto
  <2>7. ClosedFits'
    BY DEF ClosedFits, LineFits, SettleRefused, Answered, Goto
  <2>8. UploadFits'
    BY DEF UploadFits, ToUpload, LineFits, SettleRefused, Answered, Goto
  <2>9. MustSettleFits'
    BY StagesDiffer DEF MustSettleFits, XmlFits, LineFits, SettleRefused, Answered, Goto
  <2>10. ClsFits'
    BY DEF ClsFits, SettleRefused, Answered, Goto
  <2>11. BookFits' /\ MarkedRowsAreAcked'
    BY DEF BookFits, MarkedRowsAreAcked, SettleRefused, Answered, Goto
  <2> QED BY <2>1, <2>2, <2>3, <2>4, <2>5, <2>6, <2>7, <2>8, <2>9, <2>10, <2>11 DEF IInv
<1>6. CASE UploadRequested
  <2> USE <1>6
  <2>1. TypeOK'
    BY DEF TypeOK, UploadRequested, Answered, Goto
  <2>2. XmlFits'
    BY StagesDiffer DEF XmlFits, UploadRequested, Answered, Goto
  <2>3. BatchGone'
    BY StagesDiffer DEF BatchGone, XmlFits, UploadRequested, Answered, Goto
  <2>4. AccumGone'
    BY StagesDiffer DEF AccumGone, XmlFits, UploadRequested, Answered, Goto
  <2>5. NumFits'
    BY StagesDiffer DEF NumFits, XmlFits, UploadRequested, Answered, Goto
  <2>6. LineFits'
    BY StagesDiffer DEF LineFits, XmlFits, UploadRequested, Answered, Goto
  <2>7. ClosedFits'
    BY DEF ClosedFits, LineFits, UploadRequested, Answered, Goto
  <2>8. UploadFits'
    BY DEF UploadFits, ToUpload, LineFits, UploadRequested, Answered, Goto
  <2>9. MustSettleFits'
    BY StagesDiffer DEF MustSettleFits, XmlFits, LineFits, UploadRequested, Answered, Goto
  <2>10. ClsFits'
    BY DEF ClsFits, UploadRequested, Answered, Goto
  <2>11. BookFits' /\ MarkedRowsAreAcked'
    BY DEF BookFits, MarkedRowsAreAcked, UploadRequested, Answered, Goto
  <2> QED BY <2>1, <2>2, <2>3, <2>4, <2>5, <2>6, <2>7, <2>8, <2>9, <2>10, <2>11 DEF IInv
<1>7. CASE Timeout
  <2> USE <1>7
  <2>1. TypeOK'
    BY DEF TypeOK, Timeout, Goto
  <2>2. XmlFits'
    BY StagesDiffer DEF XmlFits, Timeout, Goto
  <2>3. BatchGone'
    BY StagesDiffer DEF BatchGone, XmlFits, Timeout, Goto
  <2>4. AccumGone'
    BY StagesDiffer DEF AccumGone, XmlFits, Timeout, Goto
  <2>5. NumFits'
    BY StagesDiffer DEF NumFits, XmlFits, Timeout, Goto
  <2>6. LineFits'
    BY StagesDiffer DEF LineFits, XmlFits, Timeout, Goto
  <2>7. ClosedFits'
    BY DEF ClosedFits, LineFits, Timeout, Goto
  <2>8. UploadFits'
    BY DEF UploadFits, ToUpload, LineFits, Timeout, Goto
  <2>9. MustSettleFits'
    BY StagesDiffer DEF MustSettleFits, XmlFits, LineFits, Timeout, Goto
  <2>10. ClsFits'
    BY DEF ClsFits, Timeout, Goto
  <2>11. BookFits' /\ MarkedRowsAreAcked'
    BY DEF BookFits, MarkedRowsAreAcked, Timeout, Goto
  <2> QED BY <2>1, <2>2, <2>3, <2>4, <2>5, <2>6, <2>7, <2>8, <2>9, <2>10, <2>11 DEF IInv
<1> QED BY <1>1, <1>2, <1>3, <1>4, <1>5, <1>6, <1>7 DEF Dialogue

\* The upload and the closing request keep the invariant.
LEMMA UploadStep ==
  ASSUME TypeOK, XmlFits, BatchGone, AccumGone, BookFits, NumFits, LineFits, ClosedFits,
         UploadFits, MustSettleFits, ClsFits, MarkedRowsAreAcked,
         Upload
  PROVE  IInv'
<1>1. CASE SendRow
  <2> USE <1>1
  <2>1. \E i \in ToUpload : net' = [type |-> "BATCH_UPLOAD", row |-> i]
    BY DEF SendRow, Send
  <2>2. ToUpload \subseteq Nat
    BY DEF ToUpload, TypeOK
  <2>3. TypeOK'
    <3>1. pc' \in PC
      BY DEF TypeOK, SendRow, Send, Goto
    <3>2. net' \in [type : {"none", "SETTLE", "CLS_SETTLE", "BATCH_UPLOAD", "CLS_BATCH"}, row
       : Nat]
      BY <2>1, <2>2 DEF TypeOK, SendRow, Send, Goto
    <3> QED BY <3>1, <3>2 DEF TypeOK, SendRow, Send, Goto
  <2>4. XmlFits'
    BY StagesDiffer DEF XmlFits, SendRow, Send, Goto
  <2>5. BatchGone'
    BY StagesDiffer DEF BatchGone, XmlFits, SendRow, Send, Goto
  <2>6. AccumGone'
    BY StagesDiffer DEF AccumGone, XmlFits, SendRow, Send, Goto
  <2>7. NumFits'
    BY StagesDiffer DEF NumFits, XmlFits, SendRow, Send, Goto
  <2>8. LineFits'
    BY StagesDiffer DEF LineFits, XmlFits, SendRow, Send, Goto
  <2>9. ClosedFits'
    BY DEF ClosedFits, LineFits, SendRow, Send, Goto
  <2>10. UploadFits'
    BY DEF UploadFits, ToUpload, LineFits, SendRow, Send, Goto
  <2>11. MustSettleFits'
    BY StagesDiffer DEF MustSettleFits, XmlFits, LineFits, SendRow, Send, Goto
  <2>12. ClsFits'
    BY DEF ClsFits, SendRow, Send, Goto
  <2>13. BookFits' /\ MarkedRowsAreAcked'
    BY DEF BookFits, MarkedRowsAreAcked, SendRow, Send, Goto
  <2> QED BY <2>1, <2>2, <2>3, <2>4, <2>5, <2>6, <2>7, <2>8, <2>9, <2>10, <2>11, <2>12, <2>13
     DEF IInv
<1>2. CASE UploadDone
  <2> USE <1>2
  <2>1. TypeOK'
    BY DEF TypeOK, UploadDone, Goto
  <2>2. XmlFits'
    BY StagesDiffer DEF XmlFits, UploadDone, Goto
  <2>3. BatchGone'
    BY StagesDiffer DEF BatchGone, XmlFits, UploadDone, Goto
  <2>4. AccumGone'
    BY StagesDiffer DEF AccumGone, XmlFits, UploadDone, Goto
  <2>5. NumFits'
    BY StagesDiffer DEF NumFits, XmlFits, UploadDone, Goto
  <2>6. LineFits'
    BY StagesDiffer DEF LineFits, XmlFits, UploadDone, Goto
  <2>7. ClosedFits'
    BY DEF ClosedFits, LineFits, UploadDone, Goto
  <2>8. UploadFits'
    BY DEF UploadFits, ToUpload, LineFits, UploadDone, Goto
  <2>9. MustSettleFits'
    BY StagesDiffer DEF MustSettleFits, XmlFits, LineFits, UploadDone, Goto
  <2>10. ClsFits'
    BY DEF ClsFits, UploadDone, Goto
  <2>11. BookFits' /\ MarkedRowsAreAcked'
    BY DEF BookFits, MarkedRowsAreAcked, UploadDone, Goto
  <2> QED BY <2>1, <2>2, <2>3, <2>4, <2>5, <2>6, <2>7, <2>8, <2>9, <2>10, <2>11 DEF IInv
<1>3. CASE RowAccepted
  <2> USE <1>3
  <2>1. ToUpload \subseteq rows
    BY DEF ToUpload
  <2>2. marked' \subseteq marked \cup ToUpload
    BY DEF RowAccepted
  <2>3. TypeOK'
    <3>1. pc' \in PC
      BY DEF TypeOK, RowAccepted, Answered, Goto
    <3>2. marked' \subseteq rows'
      BY <2>1, <2>2 DEF TypeOK, RowAccepted, Answered, Goto
    <3>3. reply' \in {NoAnswer, "00", "95", "other"}
      BY DEF TypeOK, RowAccepted, Answered, Goto
    <3> QED BY <3>1, <3>2, <3>3 DEF TypeOK, RowAccepted, Answered, Goto
  <2>4. XmlFits'
    BY StagesDiffer DEF XmlFits, RowAccepted, Answered, Goto
  <2>5. BatchGone'
    BY StagesDiffer DEF BatchGone, XmlFits, RowAccepted, Answered, Goto
  <2>6. AccumGone'
    BY StagesDiffer DEF AccumGone, XmlFits, RowAccepted, Answered, Goto
  <2>7. NumFits'
    BY StagesDiffer DEF NumFits, XmlFits, RowAccepted, Answered, Goto
  <2>8. LineFits'
    BY StagesDiffer DEF LineFits, XmlFits, RowAccepted, Answered, Goto
  <2>9. ClosedFits'
    BY DEF ClosedFits, LineFits, RowAccepted, Answered, Goto
  <2>10. UploadFits'
    BY DEF UploadFits, ToUpload, LineFits, RowAccepted, Answered, Goto
  <2>11. MustSettleFits'
    BY StagesDiffer DEF MustSettleFits, XmlFits, LineFits, RowAccepted, Answered, Goto
  <2>12. ClsFits'
    BY DEF ClsFits, RowAccepted, Answered, Goto
  <2>13. MarkedRowsAreAcked'
    BY DEF MarkedRowsAreAcked, UploadFits, RowAccepted, Answered, Goto
  <2>14. BookFits'
    BY DEF BookFits, RowAccepted, Answered, Goto
  <2> QED BY <2>1, <2>2, <2>3, <2>4, <2>5, <2>6, <2>7, <2>8, <2>9, <2>10, <2>11, <2>12,
     <2>13, <2>14 DEF IInv
<1>4. CASE RowRefused
  <2> USE <1>4
  <2>1. TypeOK'
    BY DEF TypeOK, RowRefused, Answered, Goto
  <2>2. XmlFits'
    BY StagesDiffer DEF XmlFits, RowRefused, Answered, Goto
  <2>3. BatchGone'
    BY StagesDiffer DEF BatchGone, XmlFits, RowRefused, Answered, Goto
  <2>4. AccumGone'
    BY StagesDiffer DEF AccumGone, XmlFits, RowRefused, Answered, Goto
  <2>5. NumFits'
    BY StagesDiffer DEF NumFits, XmlFits, RowRefused, Answered, Goto
  <2>6. LineFits'
    BY StagesDiffer DEF LineFits, XmlFits, RowRefused, Answered, Goto
  <2>7. ClosedFits'
    BY DEF ClosedFits, LineFits, RowRefused, Answered, Goto
  <2>8. UploadFits'
    BY DEF UploadFits, ToUpload, LineFits, RowRefused, Answered, Goto
  <2>9. MustSettleFits'
    BY StagesDiffer DEF MustSettleFits, XmlFits, LineFits, RowRefused, Answered, Goto
  <2>10. ClsFits'
    BY DEF ClsFits, RowRefused, Answered, Goto
  <2>11. BookFits' /\ MarkedRowsAreAcked'
    BY DEF BookFits, MarkedRowsAreAcked, RowRefused, Answered, Goto
  <2> QED BY <2>1, <2>2, <2>3, <2>4, <2>5, <2>6, <2>7, <2>8, <2>9, <2>10, <2>11 DEF IInv
<1>5. CASE UploadFailed
  <2> USE <1>5
  <2>1. TypeOK'
    BY DEF TypeOK, UploadFailed, Goto
  <2>2. XmlFits'
    BY StagesDiffer DEF XmlFits, UploadFailed, Goto
  <2>3. BatchGone'
    BY StagesDiffer DEF BatchGone, XmlFits, UploadFailed, Goto
  <2>4. AccumGone'
    BY StagesDiffer DEF AccumGone, XmlFits, UploadFailed, Goto
  <2>5. NumFits'
    BY StagesDiffer DEF NumFits, XmlFits, UploadFailed, Goto
  <2>6. LineFits'
    BY StagesDiffer DEF LineFits, XmlFits, UploadFailed, Goto
  <2>7. ClosedFits'
    BY DEF ClosedFits, LineFits, UploadFailed, Goto
  <2>8. UploadFits'
    BY DEF UploadFits, ToUpload, LineFits, UploadFailed, Goto
  <2>9. MustSettleFits'
    BY StagesDiffer DEF MustSettleFits, XmlFits, LineFits, UploadFailed, Goto
  <2>10. ClsFits'
    BY DEF ClsFits, UploadFailed, Goto
  <2>11. BookFits' /\ MarkedRowsAreAcked'
    BY DEF BookFits, MarkedRowsAreAcked, UploadFailed, Goto
  <2> QED BY <2>1, <2>2, <2>3, <2>4, <2>5, <2>6, <2>7, <2>8, <2>9, <2>10, <2>11 DEF IInv
<1>6. CASE ClearClsBeforeClose
  <2> USE <1>6
  <2>1. TypeOK'
    BY DEF TypeOK, ClearClsBeforeClose, Goto
  <2>2. XmlFits'
    BY StagesDiffer DEF XmlFits, ClearClsBeforeClose, Goto
  <2>3. BatchGone'
    BY StagesDiffer DEF BatchGone, XmlFits, ClearClsBeforeClose, Goto
  <2>4. AccumGone'
    BY StagesDiffer DEF AccumGone, XmlFits, ClearClsBeforeClose, Goto
  <2>5. NumFits'
    BY StagesDiffer DEF NumFits, XmlFits, ClearClsBeforeClose, Goto
  <2>6. LineFits'
    BY StagesDiffer DEF LineFits, XmlFits, ClearClsBeforeClose, Goto
  <2>7. ClosedFits'
    BY DEF ClosedFits, LineFits, ClearClsBeforeClose, Goto
  <2>8. UploadFits'
    BY DEF UploadFits, ToUpload, LineFits, ClearClsBeforeClose, Goto
  <2>9. MustSettleFits'
    BY StagesDiffer DEF MustSettleFits, XmlFits, LineFits, ClearClsBeforeClose, Goto
  <2>10. ClsFits'
    BY DEF ClsFits, ClearClsBeforeClose, Goto
  <2>11. BookFits' /\ MarkedRowsAreAcked'
    BY DEF BookFits, MarkedRowsAreAcked, ClearClsBeforeClose, Goto
  <2> QED BY <2>1, <2>2, <2>3, <2>4, <2>5, <2>6, <2>7, <2>8, <2>9, <2>10, <2>11 DEF IInv
<1>7. CASE SendClose
  <2> USE <1>7
  <2>1. TypeOK'
    BY DEF TypeOK, SendClose, Msg, Send, Goto
  <2>2. XmlFits'
    BY StagesDiffer DEF XmlFits, SendClose, Msg, Send, Goto
  <2>3. BatchGone'
    BY StagesDiffer DEF BatchGone, XmlFits, SendClose, Msg, Send, Goto
  <2>4. AccumGone'
    BY StagesDiffer DEF AccumGone, XmlFits, SendClose, Msg, Send, Goto
  <2>5. NumFits'
    BY StagesDiffer DEF NumFits, XmlFits, SendClose, Msg, Send, Goto
  <2>6. LineFits'
    BY StagesDiffer DEF LineFits, XmlFits, SendClose, Msg, Send, Goto
  <2>7. ClosedFits'
    BY DEF ClosedFits, LineFits, SendClose, Msg, Send, Goto
  <2>8. UploadFits'
    BY DEF UploadFits, ToUpload, LineFits, SendClose, Msg, Send, Goto
  <2>9. MustSettleFits'
    BY StagesDiffer DEF MustSettleFits, XmlFits, LineFits, SendClose, Msg, Send, Goto
  <2>10. ClsFits'
    BY DEF ClsFits, SendClose, Msg, Send, Goto
  <2>11. BookFits' /\ MarkedRowsAreAcked'
    BY DEF BookFits, MarkedRowsAreAcked, SendClose, Msg, Send, Goto
  <2> QED BY <2>1, <2>2, <2>3, <2>4, <2>5, <2>6, <2>7, <2>8, <2>9, <2>10, <2>11 DEF IInv
<1>8. CASE CloseAccepted
  <2> USE <1>8
  <2>1. TypeOK'
    BY DEF TypeOK, CloseAccepted, Answered, Goto
  <2>2. XmlFits'
    BY StagesDiffer DEF XmlFits, CloseAccepted, Answered, Goto
  <2>3. BatchGone'
    BY StagesDiffer DEF BatchGone, XmlFits, CloseAccepted, Answered, Goto
  <2>4. AccumGone'
    BY StagesDiffer DEF AccumGone, XmlFits, CloseAccepted, Answered, Goto
  <2>5. NumFits'
    BY StagesDiffer DEF NumFits, XmlFits, CloseAccepted, Answered, Goto
  <2>6. LineFits'
    BY StagesDiffer DEF LineFits, XmlFits, CloseAccepted, Answered, Goto
  <2>7. ClosedFits'
    BY DEF ClosedFits, LineFits, CloseAccepted, Answered, Goto
  <2>8. UploadFits'
    BY DEF UploadFits, ToUpload, LineFits, CloseAccepted, Answered, Goto
  <2>9. MustSettleFits'
    BY StagesDiffer DEF MustSettleFits, XmlFits, LineFits, CloseAccepted, Answered, Goto
  <2>10. ClsFits'
    BY DEF ClsFits, CloseAccepted, Answered, Goto
  <2>11. BookFits' /\ MarkedRowsAreAcked'
    BY DEF BookFits, MarkedRowsAreAcked, CloseAccepted, Answered, Goto
  <2> QED BY <2>1, <2>2, <2>3, <2>4, <2>5, <2>6, <2>7, <2>8, <2>9, <2>10, <2>11 DEF IInv
<1>9. CASE CloseRefused
  <2> USE <1>9
  <2>1. TypeOK'
    BY DEF TypeOK, CloseRefused, Answered, Goto
  <2>2. XmlFits'
    BY StagesDiffer DEF XmlFits, CloseRefused, Answered, Goto
  <2>3. BatchGone'
    BY StagesDiffer DEF BatchGone, XmlFits, CloseRefused, Answered, Goto
  <2>4. AccumGone'
    BY StagesDiffer DEF AccumGone, XmlFits, CloseRefused, Answered, Goto
  <2>5. NumFits'
    BY StagesDiffer DEF NumFits, XmlFits, CloseRefused, Answered, Goto
  <2>6. LineFits'
    BY StagesDiffer DEF LineFits, XmlFits, CloseRefused, Answered, Goto
  <2>7. ClosedFits'
    BY DEF ClosedFits, LineFits, CloseRefused, Answered, Goto
  <2>8. UploadFits'
    BY DEF UploadFits, ToUpload, LineFits, CloseRefused, Answered, Goto
  <2>9. MustSettleFits'
    BY StagesDiffer DEF MustSettleFits, XmlFits, LineFits, CloseRefused, Answered, Goto
  <2>10. ClsFits'
    BY DEF ClsFits, CloseRefused, Answered, Goto
  <2>11. BookFits' /\ MarkedRowsAreAcked'
    BY DEF BookFits, MarkedRowsAreAcked, CloseRefused, Answered, Goto
  <2> QED BY <2>1, <2>2, <2>3, <2>4, <2>5, <2>6, <2>7, <2>8, <2>9, <2>10, <2>11 DEF IInv
<1> QED BY <1>1, <1>2, <1>3, <1>4, <1>5, <1>6, <1>7, <1>8, <1>9 DEF Upload

\* The clean-up keeps the invariant.
LEMMA CleanUpStep ==
  ASSUME TypeOK, XmlFits, BatchGone, AccumGone, BookFits, NumFits, LineFits, ClosedFits,
         UploadFits, MustSettleFits, ClsFits, MarkedRowsAreAcked,
         CleanUp
  PROVE  IInv'
<1>1. CASE ClearMustSettle
  <2> USE <1>1
  <2>1. TypeOK'
    BY DEF TypeOK, ClearMustSettle, Goto
  <2>2. XmlFits'
    BY StagesDiffer DEF XmlFits, ClearMustSettle, Goto
  <2>3. BatchGone'
    BY StagesDiffer DEF BatchGone, XmlFits, ClearMustSettle, Goto
  <2>4. AccumGone'
    BY StagesDiffer DEF AccumGone, XmlFits, ClearMustSettle, Goto
  <2>5. NumFits'
    BY StagesDiffer DEF NumFits, XmlFits, ClearMustSettle, Goto
  <2>6. LineFits'
    BY StagesDiffer DEF LineFits, XmlFits, ClearMustSettle, Goto
  <2>7. ClosedFits'
    BY DEF ClosedFits, LineFits, ClearMustSettle, Goto
  <2>8. UploadFits'
    BY DEF UploadFits, ToUpload, LineFits, ClearMustSettle, Goto
  <2>9. MustSettleFits'
    BY StagesDiffer DEF MustSettleFits, XmlFits, LineFits, ClearMustSettle, Goto
  <2>10. ClsFits'
    BY DEF ClsFits, ClearMustSettle, Goto
  <2>11. BookFits' /\ MarkedRowsAreAcked'
    BY DEF BookFits, MarkedRowsAreAcked, ClearMustSettle, Goto
  <2> QED BY <2>1, <2>2, <2>3, <2>4, <2>5, <2>6, <2>7, <2>8, <2>9, <2>10, <2>11 DEF IInv
<1>2. CASE XmlStart
  <2> USE <1>2
  <2>1. xml = NoXml /\ xml' = Tag /\ pc' = "dropTables"
    BY Stages DEF XmlStart, Goto, XmlFits
  <2>2. TypeOK'
    <3>1. pc' \in PC
      BY <2>1 DEF TypeOK, XmlStart, Goto
    <3>2. xml' = NoXml \/ xml' \subseteq Tag
      BY <2>1 DEF TypeOK, XmlStart, Goto
    <3>3. expectNum' \in 1 .. BatchMax
      BY NextNumType DEF TypeOK, XmlStart, Goto
    <3> QED BY <3>1, <3>2, <3>3 DEF TypeOK, XmlStart, Goto
  <2>3. XmlFits'
    BY <2>1, StagesDiffer DEF XmlFits, XmlStart, Goto
  <2>4. BatchGone'
    BY <2>1, StagesDiffer DEF BatchGone, XmlFits, XmlStart, Goto
  <2>5. AccumGone'
    BY <2>1, StagesDiffer DEF AccumGone, XmlFits, XmlStart, Goto
  <2>6. BookFits'
    BY <2>1, StagesDiffer DEF BookFits, XmlFits, XmlStart, Goto
  <2>7. NumFits'
    BY <2>1, StagesDiffer DEF NumFits, XmlFits, XmlStart, Goto
  <2>8. LineFits'
    BY <2>1, StagesDiffer DEF LineFits, XmlFits, XmlStart, Goto
  <2>9. ClosedFits'
    BY <2>1 DEF ClosedFits, LineFits, XmlStart, Goto
  <2>10. UploadFits'
    BY <2>1 DEF UploadFits, ToUpload, LineFits, XmlStart, Goto
  <2>11. MustSettleFits'
    BY <2>1, StagesDiffer DEF MustSettleFits, XmlFits, XmlStart, Goto
  <2>12. ClsFits'
    BY <2>1 DEF ClsFits, XmlStart, Goto
  <2>13. MarkedRowsAreAcked'
    BY DEF MarkedRowsAreAcked, XmlStart, Goto
  <2> QED BY <2>1, <2>2, <2>3, <2>4, <2>5, <2>6, <2>7, <2>8, <2>9, <2>10, <2>11, <2>12, <2>13
     DEF IInv
<1>3. CASE DropTables
  <2> USE <1>3
  <2>1. TypeOK'
    <3>1. pc' \in PC
      BY DEF TypeOK, DropTables, Goto
    <3>2. rows' \subseteq Nat /\ IsFiniteSet(rows')
      BY FS_EmptySet DEF TypeOK, DropTables, Goto
    <3>3. voided' \subseteq rows'
      BY DEF TypeOK, DropTables, Goto
    <3>4. marked' \subseteq rows'
      BY DEF TypeOK, DropTables, Goto
    <3>5. received' \subseteq Nat
      BY DEF TypeOK, DropTables, Goto
    <3>6. hostClosed' \in BOOLEAN
      BY DEF TypeOK, DropTables, Goto
    <3>7. acked' \subseteq Nat
      BY DEF TypeOK, DropTables, Goto
    <3>8. lostClose' \in BOOLEAN
      BY DEF TypeOK, DropTables, Goto
    <3>9. interrupted' \in {"no", "rows", "close"}
      BY DEF TypeOK, DropTables, Goto
    <3>10. refused95' \in BOOLEAN
      BY DEF TypeOK, DropTables, Goto
    <3> QED BY <3>1, <3>2, <3>3, <3>4, <3>5, <3>6, <3>7, <3>8, <3>9, <3>10 DEF TypeOK,
       DropTables, Goto
  <2>2. XmlFits'
    BY StagesDiffer DEF XmlFits, DropTables, Goto
  <2>3. BatchGone'
    BY StagesDiffer DEF BatchGone, XmlFits, DropTables, Goto
  <2>4. AccumGone'
    BY StagesDiffer DEF AccumGone, XmlFits, DropTables, Goto
  <2>5. BookFits'
    BY StagesDiffer DEF BookFits, XmlFits, DropTables, Goto
  <2>6. NumFits'
    BY StagesDiffer DEF NumFits, XmlFits, DropTables, Goto
  <2>7. LineFits'
    BY StagesDiffer DEF LineFits, XmlFits, DropTables, Goto
  <2>8. ClosedFits'
    BY DEF ClosedFits, LineFits, DropTables, Goto
  <2>9. UploadFits'
    BY DEF UploadFits, ToUpload, LineFits, DropTables, Goto
  <2>10. MustSettleFits'
    BY StagesDiffer DEF MustSettleFits, XmlFits, LineFits, DropTables, Goto
  <2>11. ClsFits'
    BY DEF ClsFits, DropTables, Goto
  <2>12. MarkedRowsAreAcked'
    BY DEF MarkedRowsAreAcked, DropTables, Goto
  <2> QED BY <2>1, <2>2, <2>3, <2>4, <2>5, <2>6, <2>7, <2>8, <2>9, <2>10, <2>11, <2>12 DEF IInv
<1>4. CASE DeleteBatchMustSettle
  <2> USE <1>4
  <2>1. TypeOK'
    BY DEF TypeOK, DeleteBatchMustSettle, Goto
  <2>2. XmlFits'
    BY StagesDiffer DEF XmlFits, DeleteBatchMustSettle, Goto
  <2>3. BatchGone'
    BY StagesDiffer DEF BatchGone, XmlFits, DeleteBatchMustSettle, Goto
  <2>4. AccumGone'
    BY StagesDiffer DEF AccumGone, XmlFits, DeleteBatchMustSettle, Goto
  <2>5. NumFits'
    BY StagesDiffer DEF NumFits, XmlFits, DeleteBatchMustSettle, Goto
  <2>6. LineFits'
    BY StagesDiffer DEF LineFits, XmlFits, DeleteBatchMustSettle, Goto
  <2>7. ClosedFits'
    BY DEF ClosedFits, LineFits, DeleteBatchMustSettle, Goto
  <2>8. UploadFits'
    BY DEF UploadFits, ToUpload, LineFits, DeleteBatchMustSettle, Goto
  <2>9. MustSettleFits'
    BY StagesDiffer DEF MustSettleFits, XmlFits, LineFits, DeleteBatchMustSettle, Goto
  <2>10. ClsFits'
    BY DEF ClsFits, DeleteBatchMustSettle, Goto
  <2>11. BookFits' /\ MarkedRowsAreAcked'
    BY DEF BookFits, MarkedRowsAreAcked, DeleteBatchMustSettle, Goto
  <2> QED BY <2>1, <2>2, <2>3, <2>4, <2>5, <2>6, <2>7, <2>8, <2>9, <2>10, <2>11 DEF IInv
<1>5. CASE DeleteBatchCls
  <2> USE <1>5
  <2>1. TypeOK'
    BY DEF TypeOK, DeleteBatchCls, Goto
  <2>2. XmlFits'
    BY StagesDiffer DEF XmlFits, DeleteBatchCls, Goto
  <2>3. BatchGone'
    BY StagesDiffer DEF BatchGone, XmlFits, DeleteBatchCls, Goto
  <2>4. AccumGone'
    BY StagesDiffer DEF AccumGone, XmlFits, DeleteBatchCls, Goto
  <2>5. NumFits'
    BY StagesDiffer DEF NumFits, XmlFits, DeleteBatchCls, Goto
  <2>6. LineFits'
    BY StagesDiffer DEF LineFits, XmlFits, DeleteBatchCls, Goto
  <2>7. ClosedFits'
    BY DEF ClosedFits, LineFits, DeleteBatchCls, Goto
  <2>8. UploadFits'
    BY DEF UploadFits, ToUpload, LineFits, DeleteBatchCls, Goto
  <2>9. MustSettleFits'
    BY StagesDiffer DEF MustSettleFits, XmlFits, LineFits, DeleteBatchCls, Goto
  <2>10. ClsFits'
    BY DEF ClsFits, BatchGone, XmlFits, DeleteBatchCls, Goto
  <2>11. BookFits' /\ MarkedRowsAreAcked'
    BY DEF BookFits, MarkedRowsAreAcked, DeleteBatchCls, Goto
  <2> QED BY <2>1, <2>2, <2>3, <2>4, <2>5, <2>6, <2>7, <2>8, <2>9, <2>10, <2>11 DEF IInv
<1>6. CASE EditBatch
  <2> USE <1>6
  <2>1. xml = Tag /\ xml' = ToPrint /\ pc' = "printTotal"
    BY Stages DEF EditBatch, Edit, Goto, XmlFits
  <2>2. TypeOK'
    BY <2>1, Stages DEF TypeOK, EditBatch, Edit, Goto
  <2>3. XmlFits'
    BY <2>1, StagesDiffer DEF XmlFits, EditBatch, Edit, Goto
  <2>4. BatchGone'
    BY <2>1, StagesDiffer DEF BatchGone, XmlFits, EditBatch, Edit, Goto
  <2>5. AccumGone'
    BY <2>1, StagesDiffer DEF AccumGone, XmlFits, EditBatch, Edit, Goto
  <2>6. BookFits'
    BY <2>1, StagesDiffer DEF BookFits, XmlFits, EditBatch, Edit, Goto
  <2>7. NumFits'
    BY <2>1, StagesDiffer DEF NumFits, XmlFits, EditBatch, Edit, Goto
  <2>8. LineFits'
    BY <2>1, StagesDiffer DEF LineFits, XmlFits, EditBatch, Edit, Goto
  <2>9. ClosedFits'
    BY <2>1 DEF ClosedFits, LineFits, EditBatch, Edit, Goto
  <2>10. UploadFits'
    BY <2>1 DEF UploadFits, ToUpload, LineFits, EditBatch, Edit, Goto
  <2>11. MustSettleFits'
    BY <2>1, StagesDiffer DEF MustSettleFits, XmlFits, EditBatch, Edit, Goto
  <2>12. ClsFits'
    BY <2>1 DEF ClsFits, EditBatch, Edit, Goto
  <2>13. MarkedRowsAreAcked'
    BY DEF MarkedRowsAreAcked, EditBatch, Edit, Goto
  <2> QED BY <2>1, <2>2, <2>3, <2>4, <2>5, <2>6, <2>7, <2>8, <2>9, <2>10, <2>11, <2>12, <2>13
     DEF IInv
<1>7. CASE PrintTotal
  <2> USE <1>7
  <2>1. xml = ToPrint /\ xml' = ToAccum /\ pc' = "deleteAccum"
    BY Stages DEF PrintTotal, Edit, Goto, XmlFits
  <2>2. TypeOK'
    BY <2>1, Stages DEF TypeOK, PrintTotal, Edit, Goto
  <2>3. XmlFits'
    BY <2>1, StagesDiffer DEF XmlFits, PrintTotal, Edit, Goto
  <2>4. BatchGone'
    BY <2>1, StagesDiffer DEF BatchGone, XmlFits, PrintTotal, Edit, Goto
  <2>5. AccumGone'
    BY <2>1, StagesDiffer DEF AccumGone, XmlFits, PrintTotal, Edit, Goto
  <2>6. BookFits'
    BY <2>1, StagesDiffer DEF BookFits, XmlFits, PrintTotal, Edit, Goto
  <2>7. NumFits'
    BY <2>1, StagesDiffer DEF NumFits, XmlFits, PrintTotal, Edit, Goto
  <2>8. LineFits'
    BY <2>1, StagesDiffer DEF LineFits, XmlFits, PrintTotal, Edit, Goto
  <2>9. ClosedFits'
    BY <2>1 DEF ClosedFits, LineFits, PrintTotal, Edit, Goto
  <2>10. UploadFits'
    BY <2>1 DEF UploadFits, ToUpload, LineFits, PrintTotal, Edit, Goto
  <2>11. MustSettleFits'
    BY <2>1, StagesDiffer DEF MustSettleFits, XmlFits, PrintTotal, Edit, Goto
  <2>12. ClsFits'
    BY <2>1 DEF ClsFits, PrintTotal, Edit, Goto
  <2>13. MarkedRowsAreAcked'
    BY DEF MarkedRowsAreAcked, PrintTotal, Edit, Goto
  <2> QED BY <2>1, <2>2, <2>3, <2>4, <2>5, <2>6, <2>7, <2>8, <2>9, <2>10, <2>11, <2>12, <2>13
     DEF IInv
<1>8. CASE DeleteAccum
  <2> USE <1>8
  <2>1. TypeOK'
    BY DEF TypeOK, DeleteAccum, Goto
  <2>2. XmlFits'
    BY StagesDiffer DEF XmlFits, DeleteAccum, Goto
  <2>3. BatchGone'
    BY StagesDiffer DEF BatchGone, XmlFits, DeleteAccum, Goto
  <2>4. AccumGone'
    BY StagesDiffer DEF AccumGone, XmlFits, DeleteAccum, Goto
  <2>5. BookFits'
    BY StagesDiffer DEF BookFits, XmlFits, DeleteAccum, Goto
  <2>6. NumFits'
    BY StagesDiffer DEF NumFits, XmlFits, DeleteAccum, Goto
  <2>7. LineFits'
    BY StagesDiffer DEF LineFits, XmlFits, DeleteAccum, Goto
  <2>8. ClosedFits'
    BY DEF ClosedFits, LineFits, DeleteAccum, Goto
  <2>9. UploadFits'
    BY DEF UploadFits, ToUpload, LineFits, DeleteAccum, Goto
  <2>10. MustSettleFits'
    BY StagesDiffer DEF MustSettleFits, XmlFits, LineFits, DeleteAccum, Goto
  <2>11. ClsFits'
    BY DEF ClsFits, DeleteAccum, Goto
  <2>12. MarkedRowsAreAcked'
    BY DEF MarkedRowsAreAcked, DeleteAccum, Goto
  <2> QED BY <2>1, <2>2, <2>3, <2>4, <2>5, <2>6, <2>7, <2>8, <2>9, <2>10, <2>11, <2>12 DEF IInv
<1>9. CASE EditAccum
  <2> USE <1>9
  <2>1. xml = ToAccum /\ xml' = ToInv /\ pc' = "resetInv"
    BY Stages DEF EditAccum, Edit, Goto, XmlFits
  <2>2. TypeOK'
    BY <2>1, Stages DEF TypeOK, EditAccum, Edit, Goto
  <2>3. XmlFits'
    BY <2>1, StagesDiffer DEF XmlFits, EditAccum, Edit, Goto
  <2>4. BatchGone'
    BY <2>1, StagesDiffer DEF BatchGone, XmlFits, EditAccum, Edit, Goto
  <2>5. AccumGone'
    BY <2>1, StagesDiffer DEF AccumGone, XmlFits, EditAccum, Edit, Goto
  <2>6. BookFits'
    BY <2>1, StagesDiffer DEF BookFits, XmlFits, EditAccum, Edit, Goto
  <2>7. NumFits'
    BY <2>1, StagesDiffer DEF NumFits, XmlFits, EditAccum, Edit, Goto
  <2>8. LineFits'
    BY <2>1, StagesDiffer DEF LineFits, XmlFits, EditAccum, Edit, Goto
  <2>9. ClosedFits'
    BY <2>1 DEF ClosedFits, LineFits, EditAccum, Edit, Goto
  <2>10. UploadFits'
    BY <2>1 DEF UploadFits, ToUpload, LineFits, EditAccum, Edit, Goto
  <2>11. MustSettleFits'
    BY <2>1, StagesDiffer DEF MustSettleFits, XmlFits, EditAccum, Edit, Goto
  <2>12. ClsFits'
    BY <2>1 DEF ClsFits, EditAccum, Edit, Goto
  <2>13. MarkedRowsAreAcked'
    BY DEF MarkedRowsAreAcked, EditAccum, Edit, Goto
  <2> QED BY <2>1, <2>2, <2>3, <2>4, <2>5, <2>6, <2>7, <2>8, <2>9, <2>10, <2>11, <2>12, <2>13
     DEF IInv
<1>10. CASE ResetBatchInvNum
  <2> USE <1>10
  <2>1. TypeOK'
    BY DEF TypeOK, ResetBatchInvNum, Goto
  <2>2. XmlFits'
    BY StagesDiffer DEF XmlFits, ResetBatchInvNum, Goto
  <2>3. BatchGone'
    BY StagesDiffer DEF BatchGone, XmlFits, ResetBatchInvNum, Goto
  <2>4. AccumGone'
    BY StagesDiffer DEF AccumGone, XmlFits, ResetBatchInvNum, Goto
  <2>5. BookFits'
    BY StagesDiffer DEF BookFits, XmlFits, ResetBatchInvNum, Goto
  <2>6. NumFits'
    BY StagesDiffer DEF NumFits, XmlFits, ResetBatchInvNum, Goto
  <2>7. LineFits'
    BY StagesDiffer DEF LineFits, XmlFits, ResetBatchInvNum, Goto
  <2>8. ClosedFits'
    BY DEF ClosedFits, LineFits, ResetBatchInvNum, Goto
  <2>9. UploadFits'
    BY DEF UploadFits, ToUpload, LineFits, ResetBatchInvNum, Goto
  <2>10. MustSettleFits'
    BY StagesDiffer DEF MustSettleFits, XmlFits, LineFits, ResetBatchInvNum, Goto
  <2>11. ClsFits'
    BY DEF ClsFits, BatchGone, XmlFits, ResetBatchInvNum, Goto
  <2>12. MarkedRowsAreAcked'
    BY DEF MarkedRowsAreAcked, ResetBatchInvNum, Goto
  <2> QED BY <2>1, <2>2, <2>3, <2>4, <2>5, <2>6, <2>7, <2>8, <2>9, <2>10, <2>11, <2>12 DEF IInv
<1>11. CASE EditInv
  <2> USE <1>11
  <2>1. xml = ToInv /\ xml' = ToNum /\ pc' = "updateNum"
    BY Stages DEF EditInv, Edit, Goto, XmlFits
  <2>2. TypeOK'
    BY <2>1, Stages DEF TypeOK, EditInv, Edit, Goto
  <2>3. XmlFits'
    BY <2>1, StagesDiffer DEF XmlFits, EditInv, Edit, Goto
  <2>4. BatchGone'
    BY <2>1, StagesDiffer DEF BatchGone, XmlFits, EditInv, Edit, Goto
  <2>5. AccumGone'
    BY <2>1, StagesDiffer DEF AccumGone, XmlFits, EditInv, Edit, Goto
  <2>6. BookFits'
    BY <2>1, StagesDiffer DEF BookFits, XmlFits, EditInv, Edit, Goto
  <2>7. NumFits'
    BY <2>1, StagesDiffer DEF NumFits, XmlFits, EditInv, Edit, Goto
  <2>8. LineFits'
    BY <2>1, StagesDiffer DEF LineFits, XmlFits, EditInv, Edit, Goto
  <2>9. ClosedFits'
    BY <2>1 DEF ClosedFits, LineFits, EditInv, Edit, Goto
  <2>10. UploadFits'
    BY <2>1 DEF UploadFits, ToUpload, LineFits, EditInv, Edit, Goto
  <2>11. MustSettleFits'
    BY <2>1, StagesDiffer DEF MustSettleFits, XmlFits, EditInv, Edit, Goto
  <2>12. ClsFits'
    BY <2>1 DEF ClsFits, EditInv, Edit, Goto
  <2>13. MarkedRowsAreAcked'
    BY DEF MarkedRowsAreAcked, EditInv, Edit, Goto
  <2> QED BY <2>1, <2>2, <2>3, <2>4, <2>5, <2>6, <2>7, <2>8, <2>9, <2>10, <2>11, <2>12, <2>13
     DEF IInv
<1>12. CASE UpdateBatchNum
  <2> USE <1>12
  <2>1. TypeOK'
    <3>1. pc' \in PC
      BY DEF TypeOK, UpdateBatchNum, Goto
    <3>2. batchNum' \in 1 .. BatchMax
      BY NextNumType DEF TypeOK, UpdateBatchNum, Goto
    <3> QED BY <3>1, <3>2 DEF TypeOK, UpdateBatchNum, Goto
  <2>2. XmlFits'
    BY StagesDiffer DEF XmlFits, UpdateBatchNum, Goto
  <2>3. BatchGone'
    BY StagesDiffer DEF BatchGone, XmlFits, UpdateBatchNum, Goto
  <2>4. AccumGone'
    BY StagesDiffer DEF AccumGone, XmlFits, UpdateBatchNum, Goto
  <2>5. NumFits'
    BY StagesDiffer DEF NumFits, XmlFits, UpdateBatchNum, Goto
  <2>6. LineFits'
    BY StagesDiffer DEF LineFits, XmlFits, UpdateBatchNum, Goto
  <2>7. ClosedFits'
    BY DEF ClosedFits, LineFits, UpdateBatchNum, Goto
  <2>8. UploadFits'
    BY DEF UploadFits, ToUpload, LineFits, UpdateBatchNum, Goto
  <2>9. MustSettleFits'
    BY StagesDiffer DEF MustSettleFits, XmlFits, LineFits, UpdateBatchNum, Goto
  <2>10. ClsFits'
    BY DEF ClsFits, UpdateBatchNum, Goto
  <2>11. BookFits' /\ MarkedRowsAreAcked'
    BY DEF BookFits, MarkedRowsAreAcked, UpdateBatchNum, Goto
  <2> QED BY <2>1, <2>2, <2>3, <2>4, <2>5, <2>6, <2>7, <2>8, <2>9, <2>10, <2>11 DEF IInv
<1>13. CASE EditNum
  <2> USE <1>13
  <2>1. xml = ToNum /\ xml' = {} /\ pc' = "xmlEnd"
    BY Stages DEF EditNum, Edit, Goto, XmlFits
  <2>2. TypeOK'
    BY <2>1, Stages DEF TypeOK, EditNum, Edit, Goto
  <2>3. XmlFits'
    BY <2>1, StagesDiffer DEF XmlFits, EditNum, Edit, Goto
  <2>4. BatchGone'
    BY <2>1, StagesDiffer DEF BatchGone, XmlFits, EditNum, Edit, Goto
  <2>5. AccumGone'
    BY <2>1, StagesDiffer DEF AccumGone, XmlFits, EditNum, Edit, Goto
  <2>6. BookFits'
    BY <2>1, StagesDiffer DEF BookFits, XmlFits, EditNum, Edit, Goto
  <2>7. NumFits'
    BY <2>1, StagesDiffer DEF NumFits, XmlFits, EditNum, Edit, Goto
  <2>8. LineFits'
    BY <2>1, StagesDiffer DEF LineFits, XmlFits, EditNum, Edit, Goto
  <2>9. ClosedFits'
    BY <2>1 DEF ClosedFits, LineFits, EditNum, Edit, Goto
  <2>10. UploadFits'
    BY <2>1 DEF UploadFits, ToUpload, LineFits, EditNum, Edit, Goto
  <2>11. MustSettleFits'
    BY <2>1, StagesDiffer DEF MustSettleFits, XmlFits, EditNum, Edit, Goto
  <2>12. ClsFits'
    BY <2>1 DEF ClsFits, EditNum, Edit, Goto
  <2>13. MarkedRowsAreAcked'
    BY DEF MarkedRowsAreAcked, EditNum, Edit, Goto
  <2> QED BY <2>1, <2>2, <2>3, <2>4, <2>5, <2>6, <2>7, <2>8, <2>9, <2>10, <2>11, <2>12, <2>13
     DEF IInv
<1>14. CASE XmlEnd
  <2> USE <1>14
  <2>1. xml = {} /\ xml' = NoXml /\ rows = {} /\ voided = {} /\ accum = 0
    BY DEF XmlEnd, Goto, XmlFits, BatchGone, AccumGone
  <2>2. net = None /\ ~hostClosed /\ interrupted = "no" /\ pc' = "idle"
    BY StagesDiffer DEF XmlEnd, Goto, XmlFits, BatchGone, LineFits
  <2>3. TypeOK'
    BY DEF TypeOK, XmlEnd, Goto
  <2>4. XmlFits'
    BY StagesDiffer DEF XmlFits, XmlEnd, Goto
  <2>5. BatchGone'
    BY StagesDiffer DEF BatchGone, XmlFits, XmlEnd, Goto
  <2>6. AccumGone'
    BY StagesDiffer DEF AccumGone, XmlFits, XmlEnd, Goto
  <2>7. BookFits'
    BY <2>1, FS_EmptySet DEF BookFits, XmlEnd, Goto
  <2>8. NumFits'
    BY StagesDiffer DEF NumFits, XmlFits, XmlEnd, Goto
  <2>9. LineFits'
    BY StagesDiffer DEF LineFits, XmlFits, XmlEnd, Goto
  <2>10. ClosedFits'
    BY DEF ClosedFits, LineFits, XmlEnd, Goto
  <2>11. UploadFits'
    BY DEF UploadFits, ToUpload, LineFits, XmlEnd, Goto
  <2>12. MustSettleFits'
    BY <2>1, <2>2 DEF MustSettleFits, XmlEnd, Goto
  <2>13. ClsFits'
    BY DEF ClsFits, XmlEnd, Goto
  <2>14. MarkedRowsAreAcked'
    BY DEF MarkedRowsAreAcked, XmlEnd, Goto
  <2> QED BY <2>1, <2>2, <2>3, <2>4, <2>5, <2>6, <2>7, <2>8, <2>9, <2>10, <2>11, <2>12,
     <2>13, <2>14 DEF IInv
<1> QED BY <1>1, <1>2, <1>3, <1>4, <1>5, <1>6, <1>7, <1>8, <1>9, <1>10, <1>11, <1>12, <1>13,
   <1>14 DEF CleanUp

\* Power failure and start-up keep the invariant.
LEMMA RestartStep ==
  ASSUME TypeOK, XmlFits, BatchGone, AccumGone, BookFits, NumFits, LineFits, ClosedFits,
         UploadFits, MustSettleFits, ClsFits, MarkedRowsAreAcked,
         Crash \/ Boot
  PROVE  IInv'
<1>1. CASE Crash
  <2> USE <1>1
  <2>1. TypeOK'
    <3>1. pc' \in PC
      BY DEF TypeOK, Crash
    <3>2. reply' \in {NoAnswer, "00", "95", "other"}
      BY DEF TypeOK, Crash
    <3>3. crashes' \in Nat
      BY DEF TypeOK, Crash
    <3>4. expectNum' \in 1 .. BatchMax
      BY NextNumType DEF TypeOK, Crash
    <3>5. lostClose' \in BOOLEAN
      BY DEF TypeOK, Crash
    <3>6. interrupted' \in {"no", "rows", "close"}
      BY DEF TypeOK, Crash
    <3> QED BY <3>1, <3>2, <3>3, <3>4, <3>5, <3>6 DEF TypeOK, Crash
  <2>2. XmlFits'
    BY StagesDiffer DEF XmlFits, Crash
  <2>3. BatchGone'
    BY StagesDiffer DEF BatchGone, XmlFits, Crash
  <2>4. AccumGone'
    BY StagesDiffer DEF AccumGone, XmlFits, Crash
  <2>5. NumFits'
    BY StagesDiffer DEF NumFits, XmlFits, Crash
  <2>6. LineFits'
    BY StagesDiffer DEF LineFits, XmlFits, Crash
  <2>7. ClosedFits'
    BY DEF ClosedFits, LineFits, Crash
  <2>8. UploadFits'
    BY DEF UploadFits, ToUpload, LineFits, Crash
  <2>9. MustSettleFits'
    BY StagesDiffer DEF MustSettleFits, XmlFits, LineFits, Crash
  <2>10. ClsFits'
    BY DEF ClsFits, Crash
  <2>11. BookFits' /\ MarkedRowsAreAcked'
    BY DEF BookFits, MarkedRowsAreAcked, Crash
  <2> QED BY <2>1, <2>2, <2>3, <2>4, <2>5, <2>6, <2>7, <2>8, <2>9, <2>10, <2>11 DEF IInv
<1>2. CASE Boot
  <2> USE <1>2
  <2>1. pc' \in {"idle", "dropTables", "printTotal", "deleteAccum", "resetInv", "updateNum",
     "xmlEnd"}
    BY Stages DEF Boot, Goto, XmlFits
  <2>2. pc = "boot" /\ xml' = xml /\ (xml = NoXml => pc' = "idle")
    BY DEF Boot, Goto
  <2>3. TypeOK'
    <3>1. pc' \in PC
      BY <2>1 DEF TypeOK, Boot, Goto
    <3>2. invoiceNum' \in Nat
      BY DEF TypeOK, Boot, Goto
    <3>3. mustSettleBit' \in BOOLEAN
      BY DEF TypeOK, Boot, Goto
    <3> QED BY <3>1, <3>2, <3>3 DEF TypeOK, Boot, Goto
  <2>4. XmlFits'
    BY Stages, StagesDiffer DEF XmlFits, Boot, Goto
  <2>5. BatchGone'
    BY <2>1, <2>2 DEF BatchGone, Boot, Goto
  <2>6. AccumGone'
    BY <2>1, <2>2 DEF AccumGone, Boot, Goto
  <2>7. BookFits'
    BY StagesDiffer DEF BookFits, TypeOK, Boot, Goto
  <2>8. NumFits'
    BY <2>1, <2>2 DEF NumFits, Boot, Goto
  <2>9. LineFits'
    BY StagesDiffer DEF LineFits, XmlFits, Boot, Goto
  <2>10. ClosedFits'
    BY <2>1, <2>2 DEF ClosedFits, LineFits, Boot, Goto
  <2>11. UploadFits'
    BY DEF UploadFits, ToUpload, LineFits, Boot, Goto
  <2>12. MustSettleFits'
    BY <2>1, <2>2 DEF MustSettleFits, LineFits, Boot, Goto
  <2>13. ClsFits'
    BY <2>1, <2>2 DEF ClsFits, Boot, Goto
  <2>14. MarkedRowsAreAcked'
    BY DEF MarkedRowsAreAcked, Boot, Goto
  <2> QED BY <2>1, <2>2, <2>3, <2>4, <2>5, <2>6, <2>7, <2>8, <2>9, <2>10, <2>11, <2>12,
     <2>13, <2>14 DEF IInv
<1> QED BY <1>1, <1>2

\* The host keeps the invariant.
LEMMA HostStep ==
  ASSUME TypeOK, XmlFits, BatchGone, AccumGone, BookFits, NumFits, LineFits, ClosedFits,
         UploadFits, MustSettleFits, ClsFits, MarkedRowsAreAcked,
         Host
  PROVE  IInv'
<1>1. CASE HostSettle
  <2> USE <1>1
  <2>1. xml = NoXml /\ pc \notin Dropped
    BY StagesDiffer DEF HostSettle, Deliver, LineFits, XmlFits
  <2>2. TypeOK'
    <3>1. net' \in [type : {"none", "SETTLE", "CLS_SETTLE", "BATCH_UPLOAD", "CLS_BATCH"}, row
       : Nat]
      BY DEF TypeOK, HostSettle, Deliver
    <3>2. reply' \in {NoAnswer, "00", "95", "other"}
      BY DEF TypeOK, HostSettle, Deliver
    <3>3. received' \subseteq Nat
      BY DEF TypeOK, HostSettle, Deliver
    <3>4. hostClosed' \in BOOLEAN
      BY DEF TypeOK, HostSettle, Deliver
    <3> QED BY <3>1, <3>2, <3>3, <3>4 DEF TypeOK, HostSettle, Deliver
  <2>3. BatchGone'
    BY <2>1, StagesDiffer DEF BatchGone, HostSettle, Deliver
  <2>4. LineFits'
    BY StagesDiffer DEF LineFits, XmlFits, HostSettle, Deliver
  <2>5. ClosedFits'
    BY DEF ClosedFits, LineFits, HostSettle, Deliver
  <2>6. UploadFits'
    BY DEF UploadFits, ToUpload, LineFits, HostSettle, Deliver
  <2>7. MustSettleFits'
    BY StagesDiffer DEF MustSettleFits, XmlFits, LineFits, HostSettle, Deliver
  <2>8. XmlFits' /\ AccumGone' /\ BookFits'
    BY DEF XmlFits, AccumGone, BookFits, HostSettle, Deliver
  <2>9. NumFits' /\ ClsFits' /\ MarkedRowsAreAcked'
    BY DEF NumFits, ClsFits, MarkedRowsAreAcked, HostSettle, Deliver
  <2> QED BY <2>1, <2>2, <2>3, <2>4, <2>5, <2>6, <2>7, <2>8, <2>9 DEF IInv
<1>2. CASE HostRow
  <2> USE <1>2
  <2>1. TypeOK'
    <3>1. net' \in [type : {"none", "SETTLE", "CLS_SETTLE", "BATCH_UPLOAD", "CLS_BATCH"}, row
       : Nat]
      BY DEF TypeOK, HostRow, Deliver
    <3>2. reply' \in {NoAnswer, "00", "95", "other"}
      BY DEF TypeOK, HostRow, Deliver
    <3>3. received' \subseteq Nat
      BY DEF TypeOK, HostRow, Deliver
    <3>4. acked' \subseteq Nat
      BY DEF TypeOK, HostRow, Deliver
    <3> QED BY <3>1, <3>2, <3>3, <3>4 DEF TypeOK, HostRow, Deliver
  <2>2. LineFits'
    BY StagesDiffer DEF LineFits, XmlFits, HostRow, Deliver
  <2>3. ClosedFits'
    BY DEF ClosedFits, LineFits, HostRow, Deliver
  <2>4. UploadFits'
    <3>1. CASE pc = "waitUpload" /\ reply' = "00"
      <4>1. PICK code \in {"00", "other"} :
              /\ Deliver(code)
              /\ received' = IF code = "00" THEN received \cup {net.row} ELSE received
              /\ acked' = acked \cup received'
        BY DEF HostRow
      <4>2. net.row \in acked' /\ net # None /\ net.row \in Nat
        BY <3>1, <4>1 DEF HostRow, Deliver, TypeOK
      <4>3. \A j \in ToUpload : net.row <= j
        BY <3>1, <4>2 DEF UploadFits
      <4>4. net.row \in ToUpload /\ ToUpload \subseteq Nat
        BY <3>1, <4>2 DEF UploadFits, ToUpload, TypeOK
      <4>5. ASSUME NEW i \in ToUpload, \A j \in ToUpload : i <= j
            PROVE  i \in acked'
        <5>1. i <= net.row /\ net.row <= i /\ i \in Nat
          BY <4>3, <4>4, <4>5
        <5> QED BY <4>2, <5>1
      <4>6. ToUpload' = ToUpload /\ net' = None
        BY <4>1 DEF Deliver, ToUpload
      <4> QED BY <4>5, <4>6 DEF UploadFits
    <3>2. CASE ~(pc = "waitUpload" /\ reply' = "00")
      BY <3>2 DEF HostRow, Deliver, UploadFits
    <3> QED BY <3>1, <3>2
  <2>5. MustSettleFits'
    BY StagesDiffer DEF MustSettleFits, XmlFits, LineFits, HostRow, Deliver
  <2>6. MarkedRowsAreAcked'
    BY DEF MarkedRowsAreAcked, HostRow, Deliver
  <2>7. XmlFits' /\ BatchGone' /\ AccumGone'
    BY DEF XmlFits, BatchGone, AccumGone, HostRow, Deliver
  <2>8. BookFits' /\ NumFits' /\ ClsFits'
    BY DEF BookFits, NumFits, ClsFits, HostRow, Deliver
  <2> QED BY <2>1, <2>2, <2>3, <2>4, <2>5, <2>6, <2>7, <2>8 DEF IInv
<1>3. CASE HostClose
  <2> USE <1>3
  <2>1. xml = NoXml /\ pc \notin Dropped
    BY StagesDiffer DEF HostClose, Deliver, LineFits, XmlFits
  <2>2. TypeOK'
    <3>1. net' \in [type : {"none", "SETTLE", "CLS_SETTLE", "BATCH_UPLOAD", "CLS_BATCH"}, row
       : Nat]
      BY DEF TypeOK, HostClose, Deliver
    <3>2. reply' \in {NoAnswer, "00", "95", "other"}
      BY DEF TypeOK, HostClose, Deliver
    <3>3. hostClosed' \in BOOLEAN
      BY DEF TypeOK, HostClose, Deliver
    <3> QED BY <3>1, <3>2, <3>3 DEF TypeOK, HostClose, Deliver
  <2>3. BatchGone'
    BY <2>1, StagesDiffer DEF BatchGone, HostClose, Deliver
  <2>4. LineFits'
    BY StagesDiffer DEF LineFits, XmlFits, HostClose, Deliver
  <2>5. ClosedFits'
    BY DEF ClosedFits, LineFits, HostClose, Deliver
  <2>6. UploadFits'
    BY DEF UploadFits, ToUpload, LineFits, HostClose, Deliver
  <2>7. MustSettleFits'
    BY StagesDiffer DEF MustSettleFits, XmlFits, LineFits, HostClose, Deliver
  <2>8. XmlFits' /\ AccumGone' /\ BookFits'
    BY DEF XmlFits, AccumGone, BookFits, HostClose, Deliver
  <2>9. NumFits' /\ ClsFits' /\ MarkedRowsAreAcked'
    BY DEF NumFits, ClsFits, MarkedRowsAreAcked, HostClose, Deliver
  <2> QED BY <2>1, <2>2, <2>3, <2>4, <2>5, <2>6, <2>7, <2>8, <2>9 DEF IInv
<1>4. CASE LoseRequest
  <2> USE <1>4
  <2>1. TypeOK'
    BY DEF TypeOK, LoseRequest
  <2>2. LineFits'
    BY StagesDiffer DEF LineFits, XmlFits, LoseRequest
  <2>3. UploadFits'
    BY DEF UploadFits, ToUpload, LineFits, LoseRequest
  <2>4. MustSettleFits'
    BY StagesDiffer DEF MustSettleFits, XmlFits, LineFits, LoseRequest
  <2>5. XmlFits' /\ BatchGone' /\ AccumGone'
    BY DEF XmlFits, BatchGone, AccumGone, LoseRequest
  <2>6. BookFits' /\ NumFits' /\ ClosedFits'
    BY DEF BookFits, NumFits, ClosedFits, LoseRequest
  <2>7. ClsFits' /\ MarkedRowsAreAcked'
    BY DEF ClsFits, MarkedRowsAreAcked, LoseRequest
  <2> QED BY <2>1, <2>2, <2>3, <2>4, <2>5, <2>6, <2>7 DEF IInv
<1> QED BY <1>1, <1>2, <1>3, <1>4 DEF Host

-----------------------------------------------------------------------------
(* The theorems.                                                           *)

\* A step that changes nothing keeps the invariant.
LEMMA StutterStep ==
  ASSUME IInv, UNCHANGED vars
  PROVE  IInv'
<1>1. TypeOK' /\ XmlFits' /\ BatchGone' /\ AccumGone'
  BY DEF IInv, vars, TypeOK, XmlFits, BatchGone, AccumGone
<1>2. BookFits' /\ NumFits' /\ LineFits' /\ ClosedFits'
  BY DEF IInv, vars, BookFits, NumFits, LineFits, ClosedFits
<1>3. UploadFits' /\ MustSettleFits' /\ ClsFits' /\ MarkedRowsAreAcked'
  BY DEF IInv, vars, UploadFits, ToUpload, MustSettleFits, ClsFits, MarkedRowsAreAcked
<1> QED BY <1>1, <1>2, <1>3 DEF IInv

\* The terminal starts in the invariant.
LEMMA InitInv == Init => IInv
<1> SUFFICES ASSUME Init PROVE IInv
  OBVIOUS
<1>1. IsFiniteSet(rows) /\ Cardinality(rows \ voided) = 0
  BY FS_EmptySet DEF Init
<1>2. TypeOK
  <2>1. rows \subseteq Nat /\ voided \subseteq rows /\ marked \subseteq rows
        /\ received \subseteq Nat /\ acked \subseteq Nat
    BY DEF Init
  <2>2. mustSettleBit \in BOOLEAN /\ clsSettleBit \in BOOLEAN /\ hostClosed \in BOOLEAN
        /\ lostClose \in BOOLEAN /\ refused95 \in BOOLEAN
    BY DEF Init
  <2>3. net \in [type : {"none", "SETTLE", "CLS_SETTLE", "BATCH_UPLOAD", "CLS_BATCH"}, row :
     Nat]
    BY DEF Init
  <2>4. accum \in Int /\ invoiceNum \in Nat /\ batchNum \in 1 .. BatchMax /\ crashes \in Nat
        /\ expectNum \in 1 .. BatchMax
    BY DEF Init
  <2> QED BY <1>1, <2>1, <2>2, <2>3, <2>4 DEF Init, TypeOK
<1>3. XmlFits /\ BatchGone /\ AccumGone /\ BookFits /\ NumFits
  BY <1>1, StagesDiffer DEF Init, XmlFits, BatchGone, AccumGone, BookFits, NumFits
<1>4. LineFits /\ ClosedFits /\ UploadFits /\ MustSettleFits /\ ClsFits /\ MarkedRowsAreAcked
  BY DEF Init, LineFits, ClosedFits, UploadFits, MustSettleFits, ClsFits, MarkedRowsAreAcked
<1> QED BY <1>2, <1>3, <1>4 DEF IInv

\* Every reachable state satisfies the inductive invariant.
THEOREM SpecIInv == Spec => []IInv
<1>1. IInv /\ [Next]_vars => IInv'
  <2> SUFFICES ASSUME IInv, [Next]_vars PROVE IInv'
    OBVIOUS
  <2>1. CASE UNCHANGED vars
    BY <2>1, StutterStep
  <2>2. CASE Trade \/ StartSettle
    BY <2>2, TradeStep DEF IInv
  <2>3. CASE Dialogue
    BY <2>3, DialogueStep DEF IInv
  <2>4. CASE Upload
    BY <2>4, UploadStep DEF IInv
  <2>5. CASE CleanUp
    BY <2>5, CleanUpStep DEF IInv
  <2>6. CASE Crash \/ Boot
    BY <2>6, RestartStep DEF IInv
  <2>7. CASE Host
    BY <2>7, HostStep DEF IInv
  <2> QED BY <2>1, <2>2, <2>3, <2>4, <2>5, <2>6, <2>7 DEF Next
<1> QED BY <1>1, InitInv, PTL DEF Spec

\* The variables keep their types; the batch number stays in its range.
THEOREM SpecTypeOK == Spec => []TypeOK
<1>1. IInv => TypeOK
  BY DEF IInv
<1> QED BY <1>1, SpecIInv, PTL

\* A row counts as uploaded only if the host took it.
THEOREM SpecMarkedRowsAreAcked == Spec => []MarkedRowsAreAcked
<1>1. IInv => MarkedRowsAreAcked
  BY DEF IInv
<1> QED BY <1>1, SpecIInv, PTL

\* At rest the clean-up is done or not begun: totals, rows and invoice counter
\* describe one batch.
THEOREM SpecCleanUpIsAtomic == Spec => []CleanUpIsAtomic
<1>1. IInv => CleanUpIsAtomic
  BY DEF IInv, XmlFits, BookFits, CleanUpIsAtomic
<1> QED BY <1>1, SpecIInv, PTL

\* At rest the batch number counts the settlements.
THEOREM SpecBatchNumTracksSettlements == Spec => []BatchNumTracksSettlements
<1>1. IInv => BatchNumTracksSettlements
  BY DEF IInv, XmlFits, NumFits, BatchNumTracksSettlements
<1> QED BY <1>1, SpecIInv, PTL

\* Requests on the line come from three steps only.
LEMMA RequestsSent ==
  ASSUME [Next]_vars, net' # net, net' # None
  PROVE  SendSettle \/ SendRow \/ SendClose
<1> USE DEF Goto
<1>1. CASE Trade \/ StartSettle
  BY <1>1 DEF Trade, Sale, Void, StartSettle
<1>2. CASE Dialogue
  BY <1>2 DEF Dialogue, PreambleFail, PreambleDone, SettleAccepted, SettleRefused,
              UploadRequested, Timeout, Answered
<1>3. CASE Upload
  BY <1>3 DEF Upload, UploadDone, RowAccepted, RowRefused, UploadFailed, ClearClsBeforeClose,
              CloseAccepted, CloseRefused, Answered
<1>4. CASE CleanUp
  BY <1>4 DEF CleanUp, ClearMustSettle, XmlStart, DropTables, DeleteBatchMustSettle,
              DeleteBatchCls, EditBatch, PrintTotal, DeleteAccum, EditAccum, ResetBatchInvNum,
              EditInv, UpdateBatchNum, EditNum, XmlEnd, Edit
<1>5. CASE Crash \/ Boot
  BY <1>5 DEF Crash, Boot
<1>6. CASE Host
  BY <1>6 DEF Host, HostSettle, HostRow, HostClose, LoseRequest, Deliver
<1>7. CASE UNCHANGED vars
  BY <1>7 DEF vars
<1> QED BY <1>1, <1>2, <1>3, <1>4, <1>5, <1>6, <1>7 DEF Next

\* The rows of the batch and their voids change by trade and in the clean-up only.
LEMMA BatchChanges ==
  ASSUME [Next]_vars, rows' # rows \/ voided' # voided
  PROVE  Sale \/ Void \/ DropTables
<1> USE DEF Goto
<1>1. CASE Trade \/ StartSettle
  BY <1>1 DEF Trade, StartSettle
<1>2. CASE Dialogue
  BY <1>2 DEF Dialogue, PreambleFail, PreambleDone, SendSettle, Send, SettleAccepted,
              SettleRefused, UploadRequested, Timeout, Answered
<1>3. CASE Upload
  BY <1>3 DEF Upload, SendRow, UploadDone, RowAccepted, RowRefused, UploadFailed,
              ClearClsBeforeClose, SendClose, Send, CloseAccepted, CloseRefused, Answered
<1>4. CASE CleanUp
  BY <1>4 DEF CleanUp, ClearMustSettle, XmlStart, DeleteBatchMustSettle, DeleteBatchCls,
              EditBatch, PrintTotal, DeleteAccum, EditAccum, ResetBatchInvNum, EditInv,
              UpdateBatchNum, EditNum, XmlEnd, Edit
<1>5. CASE Crash \/ Boot
  BY <1>5 DEF Crash, Boot
<1>6. CASE Host
  BY <1>6 DEF Host, HostSettle, HostRow, HostClose, LoseRequest, Deliver
<1>7. CASE UNCHANGED vars
  BY <1>7 DEF vars
<1> QED BY <1>1, <1>2, <1>3, <1>4, <1>5, <1>6, <1>7 DEF Next

\* After a power failure among the rows the settlement is resumed with 930000, and
\* no sale or void comes in between.
THEOREM SpecRowUploadResumes == Spec => RowUploadResumes
<1>1. ASSUME IInv, [Next]_vars, interrupted = "rows", net' # net
      PROVE  net'.type # "SETTLE"
  <2>1. CASE net' = None
    BY <2>1
  <2>2. CASE SendSettle
    BY <1>1, <2>2 DEF IInv, ClsFits, SendSettle, Send, SettleCode, Msg
  <2>3. CASE SendRow \/ SendClose
    BY <2>3 DEF SendRow, SendClose, Send, Msg
  <2> QED BY <1>1, <2>1, <2>2, <2>3, RequestsSent
<1>2. ASSUME IInv, [Next]_vars, interrupted = "rows", rows' # rows \/ voided' # voided
      PROVE  xml # NoXml \/ lostClose
  <2>1. CASE Sale \/ Void
    BY <1>2, <2>1 DEF IInv, MustSettleFits, Sale, Void
  <2>2. CASE DropTables
    BY <1>2, <2>2, StagesDiffer DEF IInv, XmlFits, DropTables, Goto
  <2> QED BY <1>2, <2>1, <2>2, BatchChanges
<1> QED BY <1>1, <1>2, SpecIInv, PTL DEF Spec, RowUploadResumes
-----------------------------------------------------------------------------
(* The refinement.                                                         *)

\* What the ledger does not see: anything inside the clean-up, and outside it
\* whatever leaves the batch and the host's closing alone.
LEMMA LedgerStutters ==
  ASSUME \/ InCleanUp /\ InCleanUp'
         \/ InCleanUp' = InCleanUp /\ UNCHANGED <<rows, voided, accum, hostClosed, lostClose>>
  PROVE  UNCHANGED Ledger!batchVars
BY DEF Ledger!batchVars

\* A sale is Keep, a void is Cancel, and a settlement begins unseen.
LEMMA TradeRefines ==
  ASSUME IInv, Trade \/ StartSettle
  PROVE  [Ledger!Next]_(Ledger!batchVars)
<1>1. CASE Sale
  <2>1. ~InCleanUp /\ ~InCleanUp' /\ invoiceNum \notin rows /\ voided \subseteq rows
    BY <1>1 DEF IInv, TypeOK, XmlFits, BookFits, Sale, InCleanUp
  <2>2. ~hostClosed \/ lostClose
    BY <1>1, <2>1 DEF IInv, MustSettleFits, Sale, InCleanUp
  <2>3. rows' \ voided' = (rows \ voided) \cup {invoiceNum}
    BY <1>1, <2>1 DEF Sale
  <2>4. invoiceNum \in (rows' \ voided') \ (rows \ voided)
    BY <2>1, <2>3
  <2>5. accum' = accum + 1 /\ UNCHANGED <<hostClosed, lostClose>>
    BY <1>1 DEF Sale
  <2> QED BY <2>1, <2>2, <2>3, <2>4, <2>5 DEF Ledger!Next, Ledger!Keep, Ledger!Known
<1>2. CASE Void
  <2>1. ~InCleanUp /\ ~InCleanUp'
    BY <1>2 DEF IInv, XmlFits, Void, InCleanUp
  <2>2. ~hostClosed \/ lostClose
    BY <1>2, <2>1 DEF IInv, MustSettleFits, Void, InCleanUp
  <2>3. PICK i \in rows \ voided : rows' \ voided' = (rows \ voided) \ {i}
    BY <1>2 DEF Void
  <2>4. accum' = accum - 1 /\ UNCHANGED <<hostClosed, lostClose>>
    BY <1>2 DEF Void
  <2> QED BY <2>1, <2>2, <2>3, <2>4 DEF Ledger!Next, Ledger!Cancel, Ledger!Known
<1>3. CASE StartSettle
  BY <1>3, LedgerStutters DEF StartSettle, InCleanUp
<1> QED BY <1>1, <1>2, <1>3 DEF Trade

\* The dialogue and the upload are not seen.
LEMMA DialogueRefines ==
  ASSUME IInv, Dialogue \/ Upload
  PROVE  UNCHANGED Ledger!batchVars
<1> USE DEF Goto, InCleanUp
<1>1. CASE Dialogue
  BY <1>1, LedgerStutters DEF Dialogue, PreambleFail, PreambleDone, SendSettle, Send,
     SettleAccepted, SettleRefused, UploadRequested, Timeout, Answered
<1>2. CASE Upload
  BY <1>2, LedgerStutters DEF Upload, SendRow, UploadDone, RowAccepted, RowRefused,
     UploadFailed,
     ClearClsBeforeClose, SendClose, Send, CloseAccepted, CloseRefused, Answered
<1> QED BY <1>1, <1>2

\* Creating the recovery file is Clear; the rest of the clean-up is not seen.
LEMMA CleanUpRefines ==
  ASSUME IInv, CleanUp
  PROVE  [Ledger!Next]_(Ledger!batchVars)
<1> USE DEF IInv, InCleanUp
<1>1. CASE ClearMustSettle
  BY <1>1, LedgerStutters DEF ClearMustSettle, Goto
<1>2. CASE XmlStart
  <2>1. ~InCleanUp /\ InCleanUp' /\ hostClosed
    BY <1>2, StagesDiffer DEF XmlStart, Goto, XmlFits, ClosedFits
  <2> HIDE DEF InCleanUp
  <2> QED BY <2>1 DEF Ledger!Next, Ledger!Clear
<1>3. CASE DropTables \/ DeleteBatchMustSettle \/ DeleteBatchCls \/ DeleteAccum
             \/ ResetBatchInvNum \/ UpdateBatchNum
  BY <1>3, LedgerStutters, StagesDiffer DEF DropTables, DeleteBatchMustSettle, DeleteBatchCls,
     DeleteAccum, ResetBatchInvNum, UpdateBatchNum, Goto, XmlFits
<1>4. CASE EditBatch \/ PrintTotal \/ EditAccum \/ EditInv \/ EditNum
  BY <1>4, LedgerStutters, StagesDiffer, Stages DEF EditBatch, PrintTotal, EditAccum, EditInv,
     EditNum, Edit, Goto, XmlFits
<1>5. CASE XmlEnd
  <2>1. InCleanUp /\ ~InCleanUp' /\ UNCHANGED <<rows, voided, accum, hostClosed, lostClose>>
    BY <1>5, StagesDiffer DEF XmlEnd, Goto, XmlFits
  <2>2. rows = {} /\ accum = 0 /\ ~hostClosed /\ ~lostClose
    BY <1>5 DEF XmlEnd, Goto, XmlFits, BatchGone, AccumGone
  <2> HIDE DEF InCleanUp
  <2>3. rows' \ voided' = {} /\ ~hostClosed' /\ ~lostClose'
    BY <2>1, <2>2
  <2> QED BY <2>1, <2>2, <2>3 DEF Ledger!batchVars
<1> QED BY <1>1, <1>2, <1>3, <1>4, <1>5 DEF CleanUp

\* A power failure is Forget or is not seen.
LEMMA RestartRefines ==
  ASSUME IInv, Crash \/ Boot
  PROVE  [Ledger!Next]_(Ledger!batchVars)
<1>1. CASE Crash
  <2>1. InCleanUp' = InCleanUp /\ UNCHANGED <<rows, voided, accum, hostClosed>>
    BY <1>1 DEF Crash, InCleanUp
  <2>2. CASE lostClose' = lostClose
    BY <2>1, <2>2, LedgerStutters
  <2>3. CASE lostClose' # lostClose
    <3>1. pc = "xmlStart" /\ lostClose' = TRUE
      BY <1>1, <2>3 DEF Crash, IInv, TypeOK
    <3>2. ~InCleanUp
      BY <3>1 DEF IInv, XmlFits, InCleanUp
    <3> QED BY <2>1, <3>1, <3>2 DEF Ledger!Next, Ledger!Forget
  <2> QED BY <2>2, <2>3
<1>2. CASE Boot
  BY <1>2, LedgerStutters DEF Boot, Goto, InCleanUp
<1> QED BY <1>1, <1>2

\* An answer of the host is HostCloses or is not seen.
LEMMA HostRefines ==
  ASSUME IInv, Host
  PROVE  [Ledger!Next]_(Ledger!batchVars)
<1>1. CASE HostSettle \/ HostClose
  <2>1. InCleanUp' = InCleanUp /\ UNCHANGED <<rows, voided, accum, lostClose>>
    BY <1>1 DEF HostSettle, HostClose, Deliver, InCleanUp
  <2>2. ~InCleanUp
    BY <1>1 DEF HostSettle, HostClose, IInv, LineFits, InCleanUp
  <2>3. hostClosed' = hostClosed \/ hostClosed' = TRUE
    BY <1>1 DEF HostSettle, HostClose, IInv, TypeOK
  <2>4. CASE hostClosed' = hostClosed
    BY <2>1, <2>4, LedgerStutters
  <2>5. CASE hostClosed' = TRUE
    BY <2>1, <2>2, <2>5 DEF Ledger!Next, Ledger!HostCloses
  <2> QED BY <2>3, <2>4, <2>5
<1>2. CASE HostRow \/ LoseRequest
  BY <1>2, LedgerStutters DEF HostRow, LoseRequest, Deliver, InCleanUp
<1> QED BY <1>1, <1>2 DEF Host

\* A settlement with its recovery file, however often it is restarted, does nothing
\* BatchLedger forbids: the batch vanishes in one step and only after the host
\* closed it, and no transaction joins a batch known to be closed.
THEOREM SpecImplementsBatchLedger == Spec => ImplementsBatchLedger
<1>1. Init => Ledger!Init
  BY DEF Init, InCleanUp, Ledger!Init
<1>2. IInv /\ [Next]_vars => [Ledger!Next]_(Ledger!batchVars)
  <2>1. ASSUME UNCHANGED vars PROVE UNCHANGED Ledger!batchVars
    BY <2>1, LedgerStutters DEF vars, InCleanUp
  <2> QED BY <2>1, TradeRefines, DialogueRefines, CleanUpRefines, RestartRefines, HostRefines
          DEF Next
<1> QED BY <1>1, <1>2, SpecIInv, PTL DEF Spec, ImplementsBatchLedger, Ledger!Spec

-----------------------------------------------------------------------------
(***************************************************************************)
(* What the ledger means for the batch.                                    *)
(***************************************************************************)

\* A batch never loses a part of its transactions: two leave at once only when all do, with
\* the totals, after the host closed the batch, whatever power failures come between.
THEOREM SpecVanishesWhole == Spec => Ledger!VanishesWhole
<1> DEFINE book   == IF InCleanUp THEN {} ELSE rows \ voided
           total  == IF InCleanUp THEN 0 ELSE accum
           closed == hostClosed /\ ~InCleanUp
           Whole  == \A i, j \in book \ book' : i # j => closed /\ book' = {} /\ total' = 0
<1>1. ASSUME Ledger!Next PROVE Whole
  <2>1. CASE Ledger!Keep
    <3>1. book \subseteq book'
      BY <2>1 DEF Ledger!Keep
    <3> HIDE DEF book, total, closed
    <3> QED BY <3>1
  <2>2. CASE Ledger!Cancel
    <3>1. \E i \in book : book' = book \ {i}
      BY <2>2 DEF Ledger!Cancel
    <3> HIDE DEF book, total, closed
    <3> QED BY <3>1
  <2>3. CASE Ledger!HostCloses \/ Ledger!Forget
    <3>1. book' = book
      BY <2>3 DEF Ledger!HostCloses, Ledger!Forget
    <3> HIDE DEF book, total, closed
    <3> QED BY <3>1
  <2>4. CASE Ledger!Clear
    <3>1. closed /\ book' = {} /\ total' = 0
      BY <2>4 DEF Ledger!Clear
    <3> HIDE DEF book, total, closed
    <3> QED BY <3>1
  <2> QED BY <1>1, <2>1, <2>2, <2>3, <2>4 DEF Ledger!Next
<1>2. [Ledger!Next]_(Ledger!batchVars) => [Whole]_(Ledger!batchVars)
  BY <1>1
<1> QED BY <1>2, SpecImplementsBatchLedger, PTL
       DEF ImplementsBatchLedger, Ledger!Spec, Ledger!VanishesWhole
=============================================================================
