------------------------------ MODULE EcrLink ------------------------------
(***************************************************************************)
(* The serial link between the terminal and a cash register                *)
(* (src/SOURCE/FUNCTION/ECR.c, RS232.c; the standard 8N1 format).  The     *)
(* register offers a sale; the terminal answers the frame with ACK or NAK, *)
(* keeps the request in a file, runs the sale, keeps its answer in a       *)
(* second file and sends it, with retries, until the register acknowledges *)
(* it.  A register that hears no answer asks for the last transaction: the *)
(* terminal compares the inquiry with the request file and repeats the     *)
(* contents of the answer file.                                            *)
(*                                                                         *)
(* Bytes are not modelled: the receive buffer `rx' holds frames,           *)
(* acknowledgements and noise.  What the terminal sends is heard at once,  *)
(* garbled or lost.  The register is external; it acts as the code expects *)
(* it to: it repeats an unacknowledged frame, takes an answer only to a    *)
(* frame that was acknowledged, and cannot tell which sale an answer is    *)
(* for.                                                                    *)
(***************************************************************************)
EXTENDS Integers, Sequences, FiniteSets

CONSTANTS
  MaxSale,      \* sales the register rings up
  MaxCrash,     \* power failures of the terminal
  MaxFault,     \* frames damaged and stray bytes on the line
  RetryTimes,   \* _ECR_RETRYTIMES_
  SplitCheck    \* szSplitTransCheckEnable: the repeated-card check is on

ASSUME EcrAssumption ==
  /\ MaxSale \in Nat \ {0} /\ MaxCrash \in Nat /\ MaxFault \in Nat
  /\ RetryTimes \in Nat /\ SplitCheck \in BOOLEAN

VARIABLES
  reg,        \* the register: what it is doing, and its latest sale
  told,       \* what the register concluded of its latest sale
  rx,         \* the terminal's receive buffer
  step,       \* where the terminal's handling of one request stands
  tran,       \* gsrECROb.srTransData: the request being handled
  retry,      \* frames refused with NAK (inRetry)
  tries,      \* transmissions of the answer (inTryTimes)
  reply,      \* the answer being sent
  isResponse, \* uszIsResponse: the request has been answered
  lastSend,   \* ECRLASTSEND.txt: the sale of the stored request, 0 if there is none
  lastRece,   \* ECRLASTRECE.txt: the stored answer
  dupPAN,     \* gszDuplicatePAN: the card of the latest booked sale, in memory only
  booked,     \* the rows the register's latest sale has in the batch
  said,       \* history: the different answers given to the request being handled
  mishap,     \* history: what went wrong since the register rang it up
  crashes, faults

reader == <<tran, retry, tries, reply, isResponse>>
files  == <<lastSend, lastRece>>
host   == <<dupPAN, booked>>
count  == <<crashes, faults>>
vars   == <<reg, told, rx, step, reader, files, host, said, mishap, count>>

Sales   == 1 .. MaxSale
RxMax   == 2                          \* bound on what waits in the buffer
NoTran  == [t |-> "none", n |-> 0]
Frames  == [t : {"sale", "ask"}, n : Sales]
Sign(t) == [t |-> t, n |-> 0]
Signals == {Sign("ack"), Sign("nak")}
Broken  == Sign("broken")             \* a frame with a bad check byte
Junk    == Sign("junk")               \* bytes without a start of text
Noise   == {Broken, Junk}
Answers == [code : {"approved", "failed", "operation"}, of : 0 .. MaxSale]
Blank   == [code |-> "blank", of |-> 0]
NoFile  == [code |-> "nofile", of |-> 0]

Steps == {"idle", "receive", "unpack", "keep", "flow", "booked", "answer", "create", "write",
          "flush", "send", "await", "after", "end"}

Init ==
  /\ reg = [at |-> "idle", sale |-> 0]
  /\ told = "open"
  /\ rx = <<>>
  /\ step = "idle"
  /\ tran = NoTran /\ retry = 0 /\ tries = 0 /\ reply = Blank /\ isResponse = FALSE
  /\ lastSend = 0 /\ lastRece = NoFile
  /\ dupPAN = 0
  /\ booked = 0
  /\ said = {}
  /\ mishap = {}
  /\ crashes = 0 /\ faults = 0

-----------------------------------------------------------------------------
(* The cash register and the line (external)                               *)

Request == [t |-> IF reg.at \in {"idle", "offer"} THEN "sale" ELSE "ask", n |-> reg.sale]

(* The cashier rings up the next sale, and its frame goes out.             *)
RegisterOffers ==
  /\ reg.at = "idle" /\ reg.sale < MaxSale
  /\ reg' = [at |-> "offer", sale |-> reg.sale + 1]
  /\ told' = "open" /\ booked' = 0 /\ mishap' = {}
  /\ Len(rx) < RxMax
  /\ rx' = Append(rx, [t |-> "sale", n |-> reg.sale + 1])
  /\ UNCHANGED <<step, reader, files, dupPAN, said, count>>

(* A frame that was refused, or not acknowledged in time, goes out again.  *)
RegisterRepeats ==
  /\ reg.at \in {"offer", "ask"}
  /\ Len(rx) < RxMax
  /\ rx' = Append(rx, Request)
  /\ UNCHANGED <<reg, told, step, reader, files, host, said, mishap, count>>

(* No answer came in time: the register asks for the last transaction.     *)
RegisterAsks ==
  /\ reg.at \in {"wait", "asked"}
  /\ reg' = [reg EXCEPT !.at = "ask"]
  /\ Len(rx) < RxMax
  /\ rx' = Append(rx, [t |-> "ask", n |-> reg.sale])
  /\ UNCHANGED <<told, step, reader, files, host, said, mishap, count>>

(* A frame in the buffer arrives damaged.                                  *)
FrameDamaged ==
  /\ faults < MaxFault
  /\ \E i \in 1 .. Len(rx), bad \in Noise :
       /\ rx[i] \in Frames
       /\ rx' = [rx EXCEPT ![i] = bad]
  /\ faults' = faults + 1
  /\ UNCHANGED <<reg, told, step, reader, files, host, said, mishap, crashes>>

(* A stray byte on the line.                                               *)
StrayByte ==
  /\ faults < MaxFault /\ Len(rx) < RxMax
  /\ rx' = Append(rx, Junk)
  /\ faults' = faults + 1
  /\ UNCHANGED <<reg, told, step, reader, files, host, said, mishap, crashes>>

(* What the register does with an ACK it hears, and with an answer.        *)
AfterAck ==
  CASE reg.at = "offer" -> [reg EXCEPT !.at = "wait"]
    [] reg.at = "ask"   -> [reg EXCEPT !.at = "asked"]
    [] OTHER            -> reg

Conclusion ==
  CASE reply.code = "approved" -> "paid"
    [] reply.code = "failed"   -> "failed"
    [] OTHER                   -> "manual"   \* the cashier has to look

RegisterHears ==
  IF reg.at \in {"wait", "asked"}
  THEN /\ told' = Conclusion
       /\ reg' = [reg EXCEPT !.at = "idle"]
  ELSE UNCHANGED <<reg, told>>

-----------------------------------------------------------------------------
(* The terminal receives a request                                         *)

(* The idle loop finds something in the buffer and starts the event, which *)
(* clears the data of the last request.                                    *)
Listen ==
  /\ step = "idle" /\ rx # <<>>
  /\ step' = "receive"
  /\ tran' = NoTran /\ isResponse' = FALSE
  /\ UNCHANGED <<reg, told, rx, retry, tries, reply, files, host, said, mishap, count>>

Receiving == step = "receive" /\ retry <= RetryTimes

(* A good frame is acknowledged; what else is in the buffer is read with   *)
(* it and dropped.  Nobody checks that the ACK goes out.                   *)
ReceiveFrame(heard) ==
  /\ Receiving /\ rx # <<>> /\ Head(rx) \in Frames
  /\ tran' = Head(rx) /\ rx' = <<>> /\ retry' = 0
  /\ step' = "unpack"
  /\ reg' = IF heard THEN AfterAck ELSE reg
  /\ mishap' = IF heard \/ Head(rx).t = "ask" THEN mishap
               ELSE mishap \union {"ack"}
  /\ UNCHANGED <<told, tries, reply, isResponse, files, host, said, count>>

(* A frame of the right length with a wrong check byte is refused.         *)
ReceiveBroken ==
  /\ Receiving /\ rx # <<>> /\ Head(rx) = Broken
  /\ rx' = <<>> /\ retry' = retry + 1
  /\ UNCHANGED <<reg, told, step, tran, tries, reply, isResponse, files, host, said, mishap, count>>

(* Bytes before a start of text are skipped one by one.                    *)
ReceiveJunk ==
  /\ Receiving /\ rx # <<>> /\ Head(rx) \in Signals \union {Junk}
  /\ rx' = Tail(rx)
  /\ UNCHANGED <<reg, told, step, reader, files, host, said, mishap, count>>

(* Too many refusals, or ten seconds without a frame: an error answer.     *)
ReceiveFails ==
  /\ step = "receive"
  /\ rx = <<>> \/ retry > RetryTimes
  /\ reply' = [code |-> "failed", of |-> 0]
  /\ step' = "answer" /\ retry' = 0
  /\ UNCHANGED <<reg, told, rx, tran, tries, isResponse, files, host, said, mishap, count>>

Fails(code) ==
  /\ reply' = [code |-> code, of |-> tran.n]
  /\ step' = "answer"

(* The request is refused before it is stored (no transaction type, a host *)
(* that is unknown or not open, ...).  What the unpacking refuses after it *)
(* stored the request, a missing amount say, is a case of SaleFails.       *)
UnpackRefuses ==
  /\ step = "unpack" /\ tran.t = "sale"
  /\ Fails("failed")
  /\ UNCHANGED <<reg, told, rx, tran, retry, tries, isResponse, files, host, said, mishap, count>>

(* inECR_Save_Request deletes the file and writes it anew.                 *)
DropRequest ==
  /\ step = "unpack" /\ tran.t = "sale"
  /\ lastSend' = 0
  /\ step' = "keep"
  /\ UNCHANGED <<reg, told, rx, reader, lastRece, host, said, mishap, count>>

KeepRequest ==
  /\ step = "keep"
  /\ lastSend' = tran.n
  /\ step' = "flow"
  /\ UNCHANGED <<reg, told, rx, reader, lastRece, host, said, mishap, count>>

(* inECR_Inquiry_Last_Transction: the request file must be the sale asked  *)
(* for, and there must be an answer file; its contents are the answer.     *)
(* Mutant: the inquiry is not compared with the stored request.            *)
InquiryMatchesAny == lastRece # NoFile

InquiryMatches == lastSend = tran.n /\ lastRece # NoFile

Inquire ==
  /\ step = "unpack" /\ tran.t = "ask"
  /\ IF InquiryMatches
     THEN /\ reply' = lastRece
          /\ step' = "answer"
     ELSE Fails("operation")
  /\ UNCHANGED <<reg, told, rx, tran, retry, tries, isResponse, files, host, said, mishap, count>>

-----------------------------------------------------------------------------
(* The sale itself (its dialogue with the host is AtsOnline's and          *)
(* EmvOnline's)                                                            *)

IsDuplicate == SplitCheck /\ dupPAN = tran.n

DuplicateCheck ==
  /\ step = "flow" /\ IsDuplicate
  /\ Fails("failed")
  /\ UNCHANGED <<reg, told, rx, tran, retry, tries, isResponse, files, host, said, mishap, count>>

SaleFails ==
  /\ step = "flow" /\ ~ IsDuplicate
  /\ Fails("failed")
  /\ UNCHANGED <<reg, told, rx, tran, retry, tries, isResponse, files, host, said, mishap, count>>

SaleBooked ==
  /\ step = "flow" /\ ~ IsDuplicate
  /\ booked' = IF tran.n = reg.sale THEN booked + 1 ELSE booked
  /\ step' = "booked"
  /\ UNCHANGED <<reg, told, rx, reader, files, dupPAN, said, mishap, count>>

(* Mutant: the card is not remembered.                                     *)
DuplicateSaveNothing ==
  /\ step = "booked"
  /\ Fails("approved")
  /\ UNCHANGED <<reg, told, rx, tran, retry, tries, isResponse, files, host, said, mishap, count>>

DuplicateSave ==
  /\ step = "booked"
  /\ dupPAN' = IF SplitCheck THEN tran.n ELSE dupPAN
  /\ Fails("approved")
  /\ UNCHANGED <<reg, told, rx, tran, retry, tries, isResponse, files, booked, said, mishap, count>>

-----------------------------------------------------------------------------
(* The terminal answers                                                    *)

(* A request is answered once.  The answer to an inquiry is not stored.    *)
AlreadyAnswered ==
  /\ step = "answer" /\ isResponse
  /\ step' = "end"
  /\ UNCHANGED <<reg, told, rx, reader, files, host, said, mishap, count>>

RepeatStored ==
  /\ step = "answer" /\ ~ isResponse /\ tran.t = "ask"
  /\ step' = "flush"
  /\ UNCHANGED <<reg, told, rx, reader, files, host, said, mishap, count>>

(* Mutant: an answer that is on file already is left there.                *)
DropResponseUnlessStored ==
  /\ step = "answer" /\ ~ isResponse /\ tran.t # "ask"
  /\ step' = IF lastRece = NoFile THEN "create" ELSE "flush"
  /\ UNCHANGED <<reg, told, rx, reader, files, host, said, mishap, count>>

(* inECR_Save_Response deletes the file, creates it and writes it.         *)
DropResponse ==
  /\ step = "answer" /\ ~ isResponse /\ tran.t # "ask"
  /\ lastRece' = NoFile
  /\ step' = "create"
  /\ UNCHANGED <<reg, told, rx, reader, lastSend, host, said, mishap, count>>

CreateResponse ==
  /\ step = "create"
  /\ lastRece' = Blank
  /\ step' = "write"
  /\ UNCHANGED <<reg, told, rx, reader, lastSend, host, said, mishap, count>>

WriteResponse ==
  /\ step = "write"
  /\ lastRece' = reply
  /\ step' = "flush"
  /\ mishap' = IF tran = NoTran /\ lastSend = reg.sale
               THEN mishap \union {"noise"}
               ELSE mishap
  /\ UNCHANGED <<reg, told, rx, reader, lastSend, host, said, count>>

(* inECR_Send clears the receive buffer once, before the first try.        *)
SendStart ==
  /\ step = "flush"
  /\ rx' = <<>>
  /\ step' = "send"
  /\ UNCHANGED <<reg, told, tran, retry, tries, reply, isResponse, files, host, said, mishap, count>>

Transmit ==
  /\ step = "send"
  /\ tries' = tries + 1
  /\ said' = said \union {reply}
  /\ step' = "await"
  /\ UNCHANGED <<tran, retry, reply, isResponse, files, host, mishap, count>>

(* The register hears the answer and acknowledges it with two bytes, which *)
(* may be lost; or it gets a garbled frame; or nothing.                    *)
Bytes(signal) == {<<>>, <<signal>>, <<signal, signal>>}

SendHeard(signals) ==
  /\ Transmit
  /\ RegisterHears
  /\ rx' = rx \o signals

SendUnheard(signals) ==
  /\ Transmit
  /\ rx' = rx \o signals
  /\ UNCHANGED <<reg, told>>

(* Mutant: the request is not marked as answered.                          *)
SendDoneUnmarked ==
  /\ tries' = 0
  /\ step' = "after"
  /\ UNCHANGED isResponse

SendDone ==
  /\ isResponse' = TRUE /\ tries' = 0
  /\ step' = "after"

(* Mutant: one try too many.                                               *)
SendAgainOnceMore ==
  IF tries > RetryTimes + 1
  THEN SendDone
  ELSE step' = "send" /\ UNCHANGED <<isResponse, tries>>

SendAgain ==
  IF tries > RetryTimes
  THEN SendDone
  ELSE step' = "send" /\ UNCHANGED <<isResponse, tries>>

AckReceived ==
  /\ step = "await" /\ rx # <<>> /\ Head(rx) = Sign("ack")
  /\ rx' = Tail(rx)
  /\ SendDone
  /\ UNCHANGED <<reg, told, tran, retry, reply, files, host, said, mishap, count>>

NakReceived ==
  /\ step = "await" /\ rx # <<>> /\ Head(rx) = Sign("nak")
  /\ rx' = Tail(rx)
  /\ SendAgain
  /\ UNCHANGED <<reg, told, tran, retry, reply, files, host, said, mishap, count>>

(* Anything else is skipped while an acknowledgement is awaited.           *)
SkipInput ==
  /\ step = "await" /\ rx # <<>> /\ Head(rx) \notin Signals
  /\ rx' = Tail(rx)
  /\ UNCHANGED <<reg, told, step, reader, files, host, said, mishap, count>>

(* Mutant: every byte that comes in starts the second anew.                *)
AckTimeoutOnSilence ==
  /\ step = "await" /\ rx = <<>>
  /\ SendAgain
  /\ UNCHANGED <<reg, told, rx, tran, retry, reply, files, host, said, mishap, count>>

(* A second passes without an acknowledgement, or it comes too late.       *)
AckTimeout ==
  /\ step = "await"
  /\ SendAgain
  /\ UNCHANGED <<reg, told, rx, tran, retry, reply, files, host, said, mishap, count>>

(* The flow goes on whether or not the register acknowledged the answer: a *)
(* later function may still fail, and reports that failure again.          *)
FlowEnds ==
  /\ step = "after"
  /\ step' = "end"
  /\ UNCHANGED <<reg, told, rx, reader, files, host, said, mishap, count>>

FlowFailsLater ==
  /\ step = "after"
  /\ Fails("failed")
  /\ UNCHANGED <<reg, told, rx, tran, retry, tries, isResponse, files, host, said, mishap, count>>

(* Back to idle: the event clears the buffer once more.                    *)
EventEnds ==
  /\ step = "end"
  /\ rx' = <<>> /\ reply' = Blank /\ said' = {}
  /\ step' = "idle"
  /\ UNCHANGED <<reg, told, tran, retry, tries, isResponse, files, host, mishap, count>>

(* Power fails: memory and the buffer are lost, files and batch stay.      *)
PowerFailure ==
  /\ crashes < MaxCrash
  /\ crashes' = crashes + 1
  /\ rx' = <<>>
  /\ step' = "idle"
  /\ tran' = NoTran /\ retry' = 0 /\ tries' = 0 /\ reply' = Blank /\ isResponse' = FALSE
  /\ dupPAN' = 0
  /\ said' = {}
  /\ mishap' = mishap \union {"power"}
  /\ UNCHANGED <<reg, told, files, booked, faults>>

-----------------------------------------------------------------------------
Register == RegisterOffers \/ RegisterRepeats \/ RegisterAsks
Line     == FrameDamaged \/ StrayByte

Receive ==
  \/ Listen
  \/ \E heard \in BOOLEAN : ReceiveFrame(heard)
  \/ ReceiveBroken \/ ReceiveJunk \/ ReceiveFails

Handle ==
  \/ UnpackRefuses \/ DropRequest \/ KeepRequest \/ Inquire
  \/ DuplicateCheck \/ SaleFails \/ SaleBooked \/ DuplicateSave

Send ==
  \/ AlreadyAnswered \/ RepeatStored \/ DropResponse \/ CreateResponse \/ WriteResponse
  \/ SendStart
  \/ \E signals \in Bytes(Sign("ack")) : SendHeard(signals)
  \/ \E signals \in Bytes(Sign("nak")) : SendUnheard(signals)
  \/ AckReceived \/ NakReceived \/ SkipInput \/ AckTimeout
  \/ FlowEnds \/ FlowFailsLater \/ EventEnds

Terminal == Receive \/ Handle \/ Send

Next == Register \/ Line \/ Terminal \/ PowerFailure

Spec == Init /\ [][Next]_vars

(* The terminal always goes on, and the second it waits for an ACK passes; *)
(* a register with an open sale repeats its frame or asks; a line that is  *)
(* tried for ever works now and then.                                      *)
Served == reg.at \in {"wait", "asked"} /\ SendHeard(<<Sign("ack")>>)

FairSpec ==
  /\ Spec
  /\ WF_vars(Terminal) /\ WF_vars(AckTimeout)
  /\ WF_vars(RegisterRepeats) /\ WF_vars(RegisterAsks)
  /\ SF_vars(ReceiveFrame(TRUE)) /\ SF_vars(Served)

-----------------------------------------------------------------------------
TypeOK ==
  /\ reg \in [at : {"idle", "offer", "wait", "ask", "asked"}, sale : 0 .. MaxSale]
  /\ told \in {"open", "paid", "failed", "manual"}
  /\ rx \in Seq(Frames \union Signals \union Noise)
  /\ step \in Steps
  /\ tran \in Frames \union {NoTran}
  /\ retry \in 0 .. RetryTimes + 1
  /\ tries \in 0 .. RetryTimes + 1
  /\ reply \in Answers \union {Blank}
  /\ isResponse \in BOOLEAN
  /\ lastSend \in 0 .. MaxSale
  /\ lastRece \in Answers \union {Blank, NoFile}
  /\ dupPAN \in 0 .. MaxSale
  /\ booked \in Nat
  /\ said \subseteq Answers \union {Blank}
  /\ mishap \subseteq {"power", "ack", "noise"}
  /\ crashes \in 0 .. MaxCrash /\ faults \in 0 .. MaxFault

(* A request gets one answer, repeated at most: a sale that was answered   *)
(* as approved is not reported as failed when the paper runs out           *)
(* afterwards, whether or not the register acknowledged the answer         *)
(* (RS232.c: uszIsResponse).                                               *)
OneAnswer == Cardinality(said) <= 1

(* When the terminal is idle, the answer on file belongs to the request on *)
(* file, so that an inquiry repeats the answer the sale was given; the     *)
(* exceptions are a power failure during the sale, and an unreadable frame *)
(* after it, whose error answer is stored over the answer of the sale.     *)
StoredAnswerMatches ==
  (step = "idle" /\ lastSend = reg.sale /\ lastSend # 0) =>
     \/ lastRece.of = lastSend
     \/ mishap \intersect {"power", "noise"} # {}

(* What the register concludes from the direct answer or from an inquiry   *)
(* is so: a sale it takes for paid is in the batch unless power failed     *)
(* during it; a sale it takes for failed is not, unless power failed, the  *)
(* ACK of its frame was lost or an unreadable frame followed it.           *)
RegisterToldTheTruth ==
  /\ told = "paid" => booked > 0 \/ "power" \in mishap
  /\ told = "failed" => booked = 0 \/ mishap # {}

(* A frame the register repeats is not booked as a second sale: that takes *)
(* a lost ACK, and with the repeated-card check also a power failure,      *)
(* because the card of the last sale is in memory only.                    *)
BookedOnce ==
  booked > 1 => "ack" \in mishap /\ (SplitCheck => "power" \in mishap)

(* A register with an open sale gets an answer it can act on, in spite of  *)
(* damaged frames, lost acknowledgements and power failures, unless it     *)
(* never has the patience to wait for one: the terminal does not wait for  *)
(* the register for ever, and always returns to listening.                 *)
RegisterServed ==
  \/ (reg.at # "idle" ~> reg.at = "idle")
  \/ []<><<RegisterAsks /\ step # "idle">>_vars

(* The comments on the two files: the request is stored to be checked by   *)
(* an inquiry, and an inquiry that matches gets the answer of that sale.   *)
InquiryRepeatsTheAnswer ==
  (step = "send" /\ tran.t = "ask" /\ tran.n = lastSend) => reply.of = tran.n

=============================================================================
