------------------------------ MODULE Settlement ------------------------------
(***************************************************************************)
(* The settlement of the ATS host: the must-settle bit, the initial        *)
(* request 920000, the batch upload the host asks for with response code   *)
(* 95, the closing request 960000, the resumed settlement 930000, and the  *)
(* clean-up of the terminal with its recovery file, which start-up runs to *)
(* the end after a power failure.  Sales and voids are single steps here:  *)
(* AtsOnline has their inside, and a settlement starts where its           *)
(* StartSettle ends.                                                       *)
(***************************************************************************)
EXTENDS Integers, FiniteSets

CONSTANTS InvoiceMax,   \* lnMaxInv of inFunc_UpdateInvNum, 600 in the code
          BatchMax,     \* lnMaxBatch of inFunc_UpdateBatchNum, 999 in the code
          MaxCrash      \* bound: how many power failures

ASSUME SettlementAssumption ==
    /\ InvoiceMax \in Nat \ {0}
    /\ BatchMax \in Nat \ {0}
    /\ MaxCrash \in Nat

VARIABLES
    pc,            \* where the settlement flow is
    rows,          \* invoice numbers in the batch table
    voided,        \* rows a void replaced: neither they nor the void is uploaded
    marked,        \* rows with uszCLSBatchBit = 01
    accum,         \* the net count the totals stand at
    invoiceNum,    \* HDPT InvoiceNum
    batchNum,      \* HDPT BatchNum
    mustSettleBit, \* HDPT MustSettleBit
    clsSettleBit,  \* HDPT CLS_SettleBit
    xml,           \* the recovery file: NoXml or its tags that still read "N"
    net,           \* the request on its way to the host
    reply,         \* the answer on its way to the terminal
    received,      \* host: the rows it holds of the upload it is collecting
    hostClosed,    \* host: it has closed the batch the terminal holds
    crashes,       \* history: power failures so far
    expectNum,     \* history: the number the batch in use should have
    acked,         \* history: the rows of the batch the host has ever taken
    lostClose,     \* history: a power failure hid that the host closed the batch
    interrupted,   \* history: where a power failure cut an upload off
    refused95      \* history: the host answered 95 to 960000 for this batch

disk  == <<rows, voided, marked, accum, invoiceNum, batchNum>>
bits  == <<mustSettleBit, clsSettleBit>>
line  == <<net, reply, received, hostClosed>>
hist  == <<crashes, expectNum, acked, lostClose, interrupted, refused95>>
vars  == <<pc, disk, bits, xml, line, hist>>

Tag   == {"DELETE_BATCH", "PRINT_TOTAL", "DELETE_ACCUM", "REST_BATCH_INV", "UPDATE_BATCH_NUM"}
NoXml == {"no file"}

None      == [type |-> "none", row |-> 0]
Msg(t)    == [type |-> t, row |-> 0]
NoAnswer  == "none"

Tail == {"dropTables", "clearMustSettle", "clearCls", "editBatch", "printTotal",
         "deleteAccum", "editAccum", "resetInv", "editInv", "updateNum", "editNum",
         "xmlEnd"}
SendingRows == {"upload", "waitUpload", "uploadFail", "closeBit"}
Closing == {"sendClose", "waitClose"}
PC == {"idle", "connect", "sendSettle", "waitSettle", "success", "xmlStart", "boot"}
        \cup SendingRows \cup Closing \cup Tail

\* Mutant: the number runs past its maximum.
NextNumNoWrap(n) == n + 1

NextNum(n) == IF n + 1 > BatchMax THEN 1 ELSE n + 1

TypeOK ==
    /\ pc \in PC
    /\ rows \subseteq Nat /\ IsFiniteSet(rows)
    /\ voided \subseteq rows
    /\ marked \subseteq rows
    /\ accum \in Int
    /\ invoiceNum \in Nat
    /\ batchNum \in 1 .. BatchMax
    /\ mustSettleBit \in BOOLEAN
    /\ clsSettleBit \in BOOLEAN
    /\ xml = NoXml \/ xml \subseteq Tag
    /\ net \in [type : {"none", "SETTLE", "CLS_SETTLE", "BATCH_UPLOAD", "CLS_BATCH"}, row : Nat]
    /\ reply \in {NoAnswer, "00", "95", "other"}
    /\ received \subseteq Nat
    /\ hostClosed \in BOOLEAN
    /\ crashes \in Nat
    /\ expectNum \in 1 .. BatchMax
    /\ acked \subseteq Nat
    /\ lostClose \in BOOLEAN
    /\ interrupted \in {"no", "rows", "close"}
    /\ refused95 \in BOOLEAN

Init ==
    /\ pc = "idle"
    /\ rows = {} /\ voided = {} /\ marked = {}
    /\ accum = 0
    /\ invoiceNum = 1
    /\ batchNum = 1
    /\ mustSettleBit = FALSE
    /\ clsSettleBit = FALSE
    /\ xml = NoXml
    /\ net = None
    /\ reply = NoAnswer
    /\ received = {}
    /\ hostClosed = FALSE
    /\ crashes = 0
    /\ expectNum = 1
    /\ acked = {}
    /\ lostClose = FALSE
    /\ interrupted = "no"
    /\ refused95 = FALSE

\* A step of the flow that moves on and leaves all else alone.
Goto(from, to) == pc = from /\ pc' = to

\* inBATCH_Get_ATS_Batch_Still_Not_Upload: live rows that are no void and not
\* marked, the smallest invoice number first.
ToUpload == rows \ (voided \cup marked)
-----------------------------------------------------------------------------
(* Between settlements.                                                    *)

Sale ==
    /\ pc = "idle"
    /\ ~mustSettleBit
    /\ rows' = rows \cup {invoiceNum}
    /\ accum' = accum + 1
    /\ invoiceNum' = invoiceNum + 1
    /\ mustSettleBit' = (invoiceNum + 1 > InvoiceMax)
    /\ UNCHANGED <<pc, voided, marked, batchNum, clsSettleBit, xml, line, hist>>

Void ==
    /\ pc = "idle"
    /\ ~mustSettleBit
    /\ \E i \in rows \ voided : voided' = voided \cup {i}
    /\ accum' = accum - 1
    /\ UNCHANGED <<pc, rows, marked, invoiceNum, batchNum, bits, xml, line, hist>>
-----------------------------------------------------------------------------
(* The dialogue with the host.                                             *)

\* Mutant: the bit is left for the end of the settlement.
StartSettleUnguarded ==
    /\ Goto("idle", "connect")
    /\ UNCHANGED <<disk, bits, xml, line, hist>>

\* The must-settle bit is set before anything is sent.
StartSettle ==
    /\ Goto("idle", "connect")
    /\ mustSettleBit' = TRUE
    /\ UNCHANGED <<disk, clsSettleBit, xml, line, hist>>

\* No connection, or the reversal, an advice or an e-receipt advice failed.
PreambleFail ==
    /\ Goto("connect", "idle")
    /\ UNCHANGED <<disk, bits, xml, line, hist>>

PreambleDone ==
    /\ Goto("connect", "sendSettle")
    /\ UNCHANGED <<disk, bits, xml, line, hist>>

Send(from, msg, to) ==
    /\ Goto(from, to)
    /\ net = None
    /\ net' = msg
    /\ UNCHANGED <<disk, bits, xml, reply, received, hostClosed, hist>>

SettleCode == IF clsSettleBit THEN "CLS_SETTLE" ELSE "SETTLE"
SendSettle == Send("sendSettle", Msg(SettleCode), "waitSettle")

\* One answer to the request of the step named by from.
Answered(from, code, to) ==
    /\ Goto(from, to)
    /\ reply = code
    /\ reply' = NoAnswer
    /\ UNCHANGED <<net, received, hostClosed>>

SettleAccepted ==
    /\ Answered("waitSettle", "00", "success")
    /\ UNCHANGED <<disk, bits, xml, hist>>

SettleRefused ==
    /\ Answered("waitSettle", "other", "idle")
    /\ UNCHANGED <<disk, bits, xml, hist>>

\* Mutant: the bit is not saved before the upload.
UploadRequestedUnsaved ==
    /\ Answered("waitSettle", "95", "upload")
    /\ UNCHANGED <<disk, bits, xml, hist>>

\* 95: the totals differ, the host wants every transaction.
UploadRequested ==
    /\ Answered("waitSettle", "95", "upload")
    /\ clsSettleBit' = TRUE
    /\ UNCHANGED <<disk, mustSettleBit, xml, hist>>

SendRow ==
    /\ \E i \in ToUpload :
         /\ \A j \in ToUpload : i <= j
         /\ Send("upload", [type |-> "BATCH_UPLOAD", row |-> i], "waitUpload")

UploadDone ==
    /\ Goto("upload", "closeBit")
    /\ ToUpload = {}
    /\ UNCHANGED <<disk, bits, xml, line, hist>>

\* Mutant: the response code of the row is not looked at.
RowAcceptedUnread ==
    /\ \E code \in {"00", "other"} : Answered("waitUpload", code, "upload")
    /\ \E i \in ToUpload :
         /\ \A j \in ToUpload : i <= j
         /\ marked' = marked \cup {i}
    /\ UNCHANGED <<rows, voided, accum, invoiceNum, batchNum, bits, xml, hist>>

\* The row sent is still the smallest unmarked one.
RowAccepted ==
    /\ Answered("waitUpload", "00", "upload")
    /\ \E i \in ToUpload :
         /\ \A j \in ToUpload : i <= j
         /\ marked' = marked \cup {i}
    /\ UNCHANGED <<rows, voided, accum, invoiceNum, batchNum, bits, xml, hist>>

RowRefused ==
    /\ \E code \in {"95", "other"} : Answered("waitUpload", code, "uploadFail")
    /\ UNCHANGED <<disk, bits, xml, hist>>

UploadFailed ==
    /\ Goto("uploadFail", "idle")
    /\ clsSettleBit' = TRUE
    /\ UNCHANGED <<disk, mustSettleBit, xml, line, hist>>

\* The bit is saved before the closing request is sent.
ClearClsBeforeClose ==
    /\ Goto("closeBit", "sendClose")
    /\ clsSettleBit' = FALSE
    /\ interrupted' = IF interrupted = "rows" THEN "no" ELSE interrupted
    /\ UNCHANGED <<disk, mustSettleBit, xml, line, crashes, expectNum, acked, lostClose, refused95>>

SendClose == Send("sendClose", Msg("CLS_BATCH"), "waitClose")

CloseAccepted ==
    /\ Answered("waitClose", "00", "success")
    /\ UNCHANGED <<disk, bits, xml, hist>>

CloseRefused ==
    /\ \E code \in {"95", "other"} :
         /\ Answered("waitClose", code, "idle")
         /\ refused95' = (refused95 \/ code = "95")
    /\ UNCHANGED <<disk, bits, xml, crashes, expectNum, acked, lostClose, interrupted>>

Timeout ==
    /\ \/ Goto("waitSettle", "idle")
       \/ Goto("waitUpload", "uploadFail")
       \/ Goto("waitClose", "idle")
    /\ reply' = NoAnswer
    /\ UNCHANGED <<disk, bits, xml, net, received, hostClosed, hist>>
-----------------------------------------------------------------------------
(* After the host closed the batch: the recovery file, then every clean-up *)
(* step with its tag, in the order of SETTLE_TRT_NCCC_ATS_TABLE.  Start-up *)
(* runs the same functions for the tags that still read "N".               *)

ClearMustSettle ==
    /\ Goto("success", "xmlStart")
    /\ mustSettleBit' = FALSE
    /\ UNCHANGED <<disk, clsSettleBit, xml, line, hist>>

\* The first step of the first tag that still reads "N".
FirstStep(todo) ==
    IF "DELETE_BATCH" \in todo THEN "dropTables"
    ELSE IF "PRINT_TOTAL" \in todo THEN "printTotal"
    ELSE IF "DELETE_ACCUM" \in todo THEN "deleteAccum"
    ELSE IF "REST_BATCH_INV" \in todo THEN "resetInv"
    ELSE IF "UPDATE_BATCH_NUM" \in todo THEN "updateNum"
    ELSE "xmlEnd"

XmlStart ==
    /\ Goto("xmlStart", FirstStep(Tag))
    /\ xml' = Tag
    /\ expectNum' = NextNum(expectNum)
    /\ UNCHANGED <<disk, bits, line, crashes, acked, lostClose, interrupted, refused95>>

\* Mutant: the tag is not rewritten and the function runs again.
EditNothing(from, tag) ==
    /\ Goto(from, FirstStep(xml))
    /\ UNCHANGED <<disk, bits, xml, line, hist>>

\* inNCCC_Func_Settlement_XML_Edit(tag, "Y").
Edit(from, tag) ==
    /\ Goto(from, FirstStep(xml \ {tag}))
    /\ xml' = xml \ {tag}
    /\ UNCHANGED <<disk, bits, line, hist>>

\* The history variables about the batch end with the batch.
DropTables ==
    /\ Goto("dropTables", "clearMustSettle")
    /\ rows' = {} /\ voided' = {} /\ marked' = {}
    /\ hostClosed' = FALSE /\ received' = {}
    /\ acked' = {} /\ lostClose' = FALSE /\ interrupted' = "no" /\ refused95' = FALSE
    /\ UNCHANGED <<accum, invoiceNum, batchNum, bits, xml, net, reply, crashes, expectNum>>

DeleteBatchMustSettle ==
    /\ Goto("clearMustSettle", "clearCls")
    /\ mustSettleBit' = FALSE
    /\ UNCHANGED <<disk, clsSettleBit, xml, line, hist>>

DeleteBatchCls ==
    /\ Goto("clearCls", "editBatch")
    /\ clsSettleBit' = FALSE
    /\ UNCHANGED <<disk, mustSettleBit, xml, line, hist>>

EditBatch  == Edit("editBatch", "DELETE_BATCH")
PrintTotal == Edit("printTotal", "PRINT_TOTAL")

DeleteAccum ==
    /\ Goto("deleteAccum", "editAccum")
    /\ accum' = 0
    /\ UNCHANGED <<rows, voided, marked, invoiceNum, batchNum, bits, xml, line, hist>>

EditAccum == Edit("editAccum", "DELETE_ACCUM")

ResetBatchInvNum ==
    /\ Goto("resetInv", "editInv")
    /\ invoiceNum' = 1
    /\ clsSettleBit' = FALSE
    /\ UNCHANGED <<rows, voided, marked, accum, batchNum, mustSettleBit, xml, line, hist>>

EditInv == Edit("editInv", "REST_BATCH_INV")

\* Mutant: the largest number is never used.
UpdateBatchNumShort ==
    /\ Goto("updateNum", "editNum")
    /\ batchNum' = IF batchNum + 1 >= BatchMax THEN 1 ELSE batchNum + 1
    /\ UNCHANGED <<rows, voided, marked, accum, invoiceNum, bits, xml, line, hist>>

UpdateBatchNum ==
    /\ Goto("updateNum", "editNum")
    /\ batchNum' = NextNum(batchNum)
    /\ UNCHANGED <<rows, voided, marked, accum, invoiceNum, bits, xml, line, hist>>

EditNum == Edit("editNum", "UPDATE_BATCH_NUM")

XmlEnd ==
    /\ Goto("xmlEnd", "idle")
    /\ xml' = NoXml
    /\ UNCHANGED <<disk, bits, line, hist>>
-----------------------------------------------------------------------------
(* Power failure and start-up.                                             *)

Crash ==
    /\ crashes < MaxCrash
    /\ crashes' = crashes + 1
    /\ pc' = "boot"
    /\ reply' = NoAnswer
    /\ lostClose' = (lostClose \/ pc = "xmlStart")
    /\ interrupted' = CASE pc \in SendingRows -> "rows"
                        [] pc \in Closing /\ marked # {} -> "close"
                        [] OTHER -> interrupted
    /\ expectNum' = IF pc = "editNum" THEN NextNum(expectNum) ELSE expectNum
    /\ UNCHANGED <<disk, bits, xml, net, received, hostClosed, acked, refused95>>

\* Mutant: start-up does not look for the recovery file.
BootWithoutRecovery ==
    /\ Goto("boot", "idle")
    /\ IF mustSettleBit
       THEN UNCHANGED <<invoiceNum, mustSettleBit>>
       ELSE /\ invoiceNum' = invoiceNum + 2
            /\ mustSettleBit' = (invoiceNum + 2 > InvoiceMax /\ rows # {})
    /\ UNCHANGED <<rows, voided, marked, accum, batchNum, clsSettleBit, xml, line, hist>>

\* The invoice repair of start-up, then the recovery file.
Boot ==
    /\ Goto("boot", IF xml = NoXml THEN "idle" ELSE FirstStep(xml))
    /\ IF mustSettleBit
       THEN UNCHANGED <<invoiceNum, mustSettleBit>>
       ELSE /\ invoiceNum' = invoiceNum + 2
            /\ mustSettleBit' = (invoiceNum + 2 > InvoiceMax /\ rows # {})
    /\ UNCHANGED <<rows, voided, marked, accum, batchNum, clsSettleBit, xml, line, hist>>
-----------------------------------------------------------------------------
(* The host.  920000 starts its collection over, 930000 continues it, and  *)
(* it closes on 960000 only when it holds every transaction.               *)

Deliver(code) ==
    /\ net' = None
    /\ reply' = IF pc \in {"waitSettle", "waitUpload", "waitClose"} THEN code ELSE NoAnswer
    /\ UNCHANGED <<pc, disk, bits, xml, crashes, expectNum, lostClose, interrupted, refused95>>

HostSettle ==
    /\ net.type \in {"SETTLE", "CLS_SETTLE"}
    /\ \E code \in {"00", "95", "other"} :
         /\ Deliver(code)
         /\ hostClosed' = (hostClosed \/ code = "00")
    /\ received' = IF net.type = "SETTLE" THEN {} ELSE received
    /\ UNCHANGED acked

HostRow ==
    /\ net.type = "BATCH_UPLOAD"
    /\ \E code \in {"00", "other"} :
         /\ Deliver(code)
         /\ received' = IF code = "00" THEN received \cup {net.row} ELSE received
         /\ acked' = acked \cup received'
    /\ UNCHANGED hostClosed

HostClose ==
    /\ net.type = "CLS_BATCH"
    /\ \E code \in {"00", "95", "other"} :
         /\ code = "00" => rows \ voided \subseteq received
         /\ Deliver(code)
         /\ hostClosed' = (hostClosed \/ code = "00")
    /\ UNCHANGED <<received, acked>>

LoseRequest ==
    /\ net # None
    /\ net' = None
    /\ UNCHANGED <<pc, disk, bits, xml, reply, received, hostClosed, hist>>
-----------------------------------------------------------------------------
Trade    == Sale \/ Void
Dialogue == PreambleFail \/ PreambleDone \/ SendSettle \/ SettleAccepted
              \/ SettleRefused \/ UploadRequested \/ Timeout
Upload   == SendRow \/ UploadDone \/ RowAccepted \/ RowRefused \/ UploadFailed
              \/ ClearClsBeforeClose \/ SendClose \/ CloseAccepted \/ CloseRefused
CleanUp  == ClearMustSettle \/ XmlStart \/ DropTables \/ DeleteBatchMustSettle
              \/ DeleteBatchCls \/ EditBatch \/ PrintTotal \/ DeleteAccum \/ EditAccum
              \/ ResetBatchInvNum \/ EditInv \/ UpdateBatchNum \/ EditNum \/ XmlEnd
Host     == HostSettle \/ HostRow \/ HostClose \/ LoseRequest

Next == Trade \/ StartSettle \/ Dialogue \/ Upload \/ CleanUp \/ Crash \/ Boot \/ Host

Spec == Init /\ [][Next]_vars

(* Fairness: the flow is one thread, its waits end by a timer, a message   *)
(* does not stay on the line for ever.  The merchant and the host are free.*)
FairSpec == Spec /\ WF_vars(Dialogue \/ Upload \/ CleanUp \/ Boot) /\ WF_vars(Host)
-----------------------------------------------------------------------------
(* What must hold.                                                         *)

\* A row counts as uploaded only when the host took it: a lost, refused or late
\* answer never makes the terminal skip a row, whatever restarts come between.
MarkedRowsAreAcked == marked \subseteq acked

\* When power failed while rows were being sent, the next settlement request
\* resumes the upload with 930000 instead of starting over, and no sale or void
\* comes in between: the rows to upload are those of the upload cut off.
RowUploadResumes ==
    [][interrupted = "rows" =>
         /\ net' # net => net'.type # "SETTLE"
         /\ rows' # rows \/ voided' # voided => xml # NoXml \/ lostClose]_vars

\* At rest the totals, the batch table and the invoice counter describe the same
\* batch: no power failure leaves the clean-up half done.
CleanUpIsAtomic ==
    pc = "idle" =>
        /\ xml = NoXml
        /\ accum = Cardinality(rows \ voided)
        /\ \A i \in rows : i < invoiceNum

\* Every settlement moves the batch number on by one; only a power failure
\* between saving it and ticking its tag makes it skip a number.
BatchNumTracksSettlements == pc = "idle" => batchNum = expectNum

\* The settlement implements BatchLedger: the clean-up, with its recovery file and
\* however many restarts, is one step to whoever looks at the batch from outside.
InCleanUp == xml # NoXml

Ledger == INSTANCE BatchLedger WITH
    book   <- IF InCleanUp THEN {} ELSE rows \ voided,
    total  <- IF InCleanUp THEN 0 ELSE accum,
    closed <- hostClosed /\ ~InCleanUp,
    lost   <- lostClose /\ ~InCleanUp

ImplementsBatchLedger == Ledger!Spec

\* The clean-up always finishes, whatever power failures interrupt it.
CleanUpFinishes == xml # NoXml ~> xml = NoXml
-----------------------------------------------------------------------------
(* What comments of the source say and the code does not do.               *)

\* "95" to 960000: the next settlement starts over with 920000 and uploads again.
\* So when 960000 is sent after that, the host has every row since that 920000.
ReuploadAfter95 ==
    net.type = "CLS_BATCH" /\ refused95 => rows \ voided \subseteq received

\* When power failed anywhere in the upload, the closing request included, the
\* next settlement request is 930000.
InterruptedUploadResumes ==
    [][net' # net /\ interrupted # "no" => net'.type # "SETTLE"]_vars
=============================================================================
