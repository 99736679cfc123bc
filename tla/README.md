# Verification of the NCCC payment terminal

The repository is the application of a Castles V3 payment terminal (EDC/POS) of
NCCC, the card acquirer of Taiwan: about half a million lines of C that run one
merchant's sales, voids and settlements against several hosts. This directory
holds TLA+ models of the part that handles money on the main host ("ATS") and of
its link to a cash register, what TLC checks about them, and what TLAPS proves.

    tlc -config AtsOnline.cfg          AtsOnline.tla    half a minute
    tlc -config AtsOnlineLive.cfg      AtsOnline.tla
    tlc -config Settlement.cfg         Settlement.tla
    tlc -config AdviceQueue.cfg        AdviceQueue.tla  a minute and a half
    tlc -config EmvOnline.cfg          EmvOnline.tla    a minute
    tlc -config EmvOnlineBackup.cfg    EmvOnline.tla    a minute
    tlc -config EcrLink.cfg            EcrLink.tla      a minute and a half

    tlc -config SettlementReupload.cfg Settlement.tla   these five find a violation,
    tlc -config SettlementResume.cfg   Settlement.tla   see Findings
    tlc -config EmvDisplaced.cfg       EmvOnline.tla
    tlc -config EmvReferral.cfg        EmvOnline.tla
    tlc -config EcrInquiry.cfg         EcrLink.tla

    tlapm AtsOnline_proofs.tla ; tlapm AtsLedger_proofs.tla ; tlapm AtsBooks_proofs.tla
    tlapm Settlement_proofs.tla ; tlapm EcrLink_proofs.tla
    tlapm AdviceQueue_proofs.tla ; tlapm EmvOnline_proofs.tla
    tlapm EmvLedger_proofs.tla                              a few minutes each

## 1. The system

`appmain.c` runs the boot events and then one loop, `inMENU_Decide_Idle_Menu`.
There is one thread (the only `pthread_create`, in `SOURCE/COMM/WiFi.c`, accepts a
connection and ends). A transaction is a table of functions that
`inNCCC_RunTRT` (`NCCC/NCCCsrc.c`) runs in order until one fails. All state that
outlives a transaction is in files: parameter tables (the host parameter record
HDPT among them), an SQLite batch table, totals, a reversal file, an advice file,
a settlement recovery file. There is no transaction across files, so what makes
this program hard is the *order of writes* and *power failure* between them, and
the *host and line* on the other side, which lose, delay and refuse.

| component | state | operations | talks to |
|---|---|---|---|
| ATS transaction path (`NCCCats.c`) | `SendReversalBit`, reversal file, the transaction in RAM | connect, send old reversal, store reversal, send request, analyse answer, referral | batch, totals, HDPT, host |
| batch, totals, invoice counter (`Batch.c`, `Sqlite.c`, `Accum.c`, `Function.c`) | rows, counts and amounts, `InvoiceNum`, `MustSettleBit` | update totals, mark replaced row, insert row, next invoice number | transaction path, settlement |
| settlement (`NCCCats.c`, `NCCCsrc.c`, `Function.c`) | `MustSettleBit`, `CLS_SettleBit`, upload mark of each row, recovery file, `BatchNum` | 920000/930000, upload of each row, 960000, clean-up, recovery at boot | batch, totals, host |
| boot sequence (`Flow.c`) | none of its own | repair the invoice number, finish the clean-up | HDPT, recovery file |
| advice queue (`NCCCats.c`, `Batch.c`) | advice file, upload flags of rows | append, send head, update flags, drop head | transaction path, settlement |
| dial-backup reversal (`NCCCats.c`) | second reversal file | as the reversal file, for the backup line | transaction path |
| counters (`Function.c`, `NCCCats.c`) | STAN, reversal count | wrap, limit | everything |
| e-receipts (`NCCCesc*.c`) | upload queue | upload, hold a settlement | settlement |
| ECR link (`ECR*.c`, `RS232.c`) | last message, retry count | ACK/NAK, resend | menus |
| other hosts (`AMEX`, `DINERS`, `HG`, `TAKA*`, `FISC`) | their own HDPT records and files | same scheme, other formats | as ATS |
| electronic purses (`ECC`, `ICASH`, `IPASS`, tickets) | vendor libraries | wrappers around binary libraries | cards |
| communication (`SOURCE/COMM`) | handles | open, send, receive with timers | lines |
| TMS, keys, printing, display | tables, key slots | download, crypto, output | |

What makes each correct, for the parts that carry money:

* transaction path: whatever the host approves ends in the batch or is reversed;
  what is in the batch is never reversed; one reversal file is enough;
* invoice counter: the host never sees one number for two sales, and reaching the
  limit forces a settlement;
* totals: they agree with the host at rest;
* settlement: no batch is dropped that the host has not closed, no sale joins a
  closed batch, an interrupted upload resumes, the clean-up is all or nothing;
* advice queue: each advice reaches the host, in order, once at rest;
* e-receipts, ECR: each item is delivered once or reported as failed.

`PROJECT.json` lists the hazards behind these, each at its line.

## 2. The modules

### AtsOnline: one online transaction after another

The flow of `inNCCC_ATS_Func_BuildAndSendPacket` for a magnetic or manual card,
step by step: a *step* ends where the code writes a file or touches the line, so
that `Crash` can come between any two writes. `pc` names the next step.

| state | code |
|---|---|
| `sendReversalBit`, `invoiceNum`, `mustSettleBit` | fields of `HDPT_REC` |
| `reversalFile` | the `.rev` file: absent, created but empty, or the attempt stored |
| `accum`, `batch` | `Accum.c` totals as one net count; rows of the SQLite batch table |
| `cur`, `pc` | `pobTran` and the place in the flow: RAM, lost in a crash |
| `host`, `net`, `reply` | the host and the line, modelled from how the code uses them |
| `cur.calls` | how many referrals deep the call stack is: each telephoned sale runs inside the analysis of the one before |
| `req`, `nAttempt`, `lost`, `presumed`, `crashes`, `settled`, `closed` | history for the properties and bounds |

| actions | code |
|---|---|
| `StartSale`, `StartVoid`, `StartSettle`, `ConnectFail`, `Connected` | start checks (`inNCCC_Func_Must_SETTLE`, `inNCCC_Func_VOID_Check`), connection, `inNCCC_ATS_ProcessReversal` |
| `SendReversal`, `ReversalAnswered`, `DeleteReversal` | `inNCCC_ATS_ReversalSendRecvPacket` |
| `ReversalSaveDelete` ... `ReversalSaveBit` | `inNCCC_ATS_ReversalSave`, one action per write |
| `SendAuth`, `Timeout` | `inNCCC_ATS_SendPackRecvUnPack`, `inNCCC_ATS_CommSendRecvToHost` |
| `TakenForApproved` | a telephoned sale that was telephoned again and then not answered, or not readably: line 16483 of `NCCCats.c` tests for VS_ERROR only |
| `Authorized`, `Cancelled`, `Unusable`, `Referral*` | `inNCCC_ATS_CheckRespCode`, `inNCCC_ATS_CheckAuthCode`, `inNCCC_ATS_OnlineAnalyseMagneticManual` |
| `PiggybackAdvice`, `UpdateAccum`, `MarkOldRow`, `InsertRow`, `UpdateInvNum`, `CheckOverLimit` | the tail of the transaction table: totals, batch, invoice number |
| `Boot`, `FixInvoice`, `FixOverLimit`, `BumpInvoice`, `BumpOverLimit` | `inNCCC_Func_Fix_Inv_Problem_At_Reboot` |
| `SettleFailed`, `CloseBatch` | the rest of a settlement, one step: the dialogue and clean-up of module Settlement, whose `CleanUpIsAtomic` and `CleanUpFinishes` justify the single step |
| `Host*`, `LoseRequest` | external |

Abstracted: amounts (each transaction counts one), card data, the STAN (a message
carries the identity of its attempt), wording and retries of the screen dialogue.
A referral that the merchant confirms becomes a new request, as in the code, and
the host may refer that one again, and again. From the second referral of an
invoice on, an exchange that fails with VS_COMM_ERROR or VS_ISO_UNPACK_ERROR passes
for success: the sale is booked although the host may not have approved it, with
its reversal armed (see EmvReferral in section 4, the same fault with a chip). The
model runs this (`TakenForApproved`) and keeps the sales concerned in `presumed`. A
property that such a sale breaks says so by name, and says what holds instead: it
counts in the totals, its approval must be reversed before the next request.

### TxnLedger: what the transaction path promises

An abstract ledger with two variables: the status of every request at the
terminal (`none`, `open`, `kept`, `undone`, `lost`, `presumed`, `disowned`) and the
set the host stands by. One request is in question at a time, an open one is
resolved only when both sides agree, and a resolved outcome never changes. Two
exceptions are explicit. `lost`: a power failure between clearing the reversal and
writing the row. `presumed`: the terminal has written the row of a sale without
knowing what the host decided; it stays in question, and blocks every other request,
until the host has let go of it (`disowned`), which never changes again.
`AtsOnline!ImplementsLedger` refines it: a request is open exactly while its
reversal is armed or it is being booked, and presumed when it has a row besides
(`INSTANCE TxnLedger WITH status <- statusBar, hostHas <- hostHasBar`).

This module, BatchLedger and ChipLedger end with what follows from them whatever
implements them (`OutcomesAgree`, `OutcomesAreFinal`, `VanishesWhole`); section 5
carries these over to the detailed modules.

### Settlement: closing the batch

Sales and voids are one step each here (AtsOnline has their inside); the
settlement adds what AtsOnline's `SettleFailed` and `CloseBatch` leave out. The batch is a set of
invoice numbers with the sets of voided and of uploaded rows.

| actions | code |
|---|---|
| `StartSettle` ... `SettleRefused`, `UploadRequested` | `inNCCC_ATS_Func_BuildAndSendPacket` and the settlement branch of the analysis |
| `SendRow` ... `CloseRefused` | `inNCCC_ATS_ProcessSettleBatchUpload` |
| `ClearMustSettle`, `XmlStart` | the must-settle bit, then `inNCCC_Func_Create_Settlement_XML_NCCC` |
| `DropTables` ... `XmlEnd` | the clean-up functions of the settlement table; each ends by ticking its tag in the recovery file |
| `Boot` | invoice repair, then `inNCCC_Func_Check_And_Recover_Settlement_XML`, which runs the same clean-up functions for the tags still open |

The recovery file is the set of tags that still read "N"; every function that
ticks a tag is followed by the first open one, in the order of the table.

### BatchLedger: what a settlement promises

Four variables: the transactions of the open batch, their total, whether the host
has closed it and whether the terminal has forgotten that. Transactions join and
leave only while the batch is open; once the host has closed it, all of them and
their total vanish in one step. `Settlement!ImplementsBatchLedger` refines it:
while the recovery file exists, the clean-up it describes counts as done, although
the tables are dropped and counted down in nine steps with power failures between
them. The exception is explicit (`Forget`): a power failure after the must-settle
bit is cleared and before the recovery file is created.

### AdviceQueue: what is sent later

Offline sales, tips and voids; their advices; the sending loop of
`inNCCC_ATS_ProcessAdvice` after an online approval (one advice) and before a
settlement (all). The row of an invoice keeps the upload bits, the file keeps the
order; they change in separate steps, and the file is rewritten in place.

| state | code |
|---|---|
| `queue`, `rest` | the `.adv` file as a sequence of invoice numbers; what is in memory or in the `.adb` file during a rewrite |
| `rows` | the newest row of each invoice: code, original code, upload bits (1: advice, 2: tip or void) |
| `invoiceNum`, `mustSettle`, `pc = "locked"` | HDPT fields and the EDC lock |
| `booked`, `net`, `reply`, `again` | the host and the line |
| `pastEnd` | what a file read past the end reports; the vendor library is not in the repository, so both outcomes are explored |
| `unheard`, `harmed`, `wasted` | history: which invoices lost an answer, were hit by a power failure, or were voided as unsent though sent |

| actions | code |
|---|---|
| `StartOfflineSale`, `OnlineSale`, `StartTip`, `StartOfflineVoid`, `OnlineVoid` | `inNCCC_ATS_Func_SetTxnOnlineOffline` decides the path and the upload bits |
| `SaveAppend`, `Delete*`, `RenameBackup` | `inADVICE_SaveAppend`, `inADVICE_DeleteRecordFlow` with its search, its backup file and its failure that locks the terminal |
| `InsertRow`, `SaveInvoice` | the batch update and the invoice counter |
| `StartSettle`, `SendHead`, `HeadHasNoRow`, `NoMoreAdvices`, `Accepted`, `Refused`, `Timeout` | the sending loop: the row decides what is sent |
| `UpdateRow`, `DropOnly`, `DropFirst`, `RewriteRest` | `inNCCC_ATS_ISOAdviceAnalyse`, then `inADVICE_Update` |
| `CloseBatch`, `SettleFailed` | the rest of the settlement (module Settlement) as one step |
| `Boot`, `Unlock`, `UnlockAndDelete` | the invoice repair, the EDC unlock and the deletion of all batches |

Abstracted: failures of the file system other than the read past the end; an
empty file is an absent one; a void of a row with a tip is refused by the code,
so a row never owes three messages. The must-settle bit set by the invoice limit
is AtsOnline's.

### Outbox: what is promised of a stored advice

Five variables: the messages owed to the host, those it has taken, the invoices of
which an answer went unheard, those a power failure spoilt, and whether the
terminal is locked. A message becomes owed once, may be taken while it is owed (a
tip only when no sale of its invoice is), and leaves the outbox when it is known
to be taken or when its transaction is withdrawn before the host heard of it;
the batch is closed only when the outbox is empty. `AdviceQueue!ImplementsOutbox`
refines it: what is owed is read off the upload bits of the rows. The two
exceptions are one explicit action (`Mishap`): an unheard answer lets a message
be taken twice, or be kept by the host though withdrawn, and of a spoilt invoice
nothing is promised any more. That the file leads to every row that owes something
is not visible here; it is `QueueMatchesRows`, on which the refinement rests.

### EmvOnline: the chip decides after the host

A contact chip sale with its two kernel callbacks. Unlike a magnetic card it is
completed whatever became of the request: `inNCCC_ATS_OnlineEMV_Complete` clears
or stores the reversal again after the second generate AC, and a sale approved by
both sides owes the host a certificate (TC), sent at once or put at the head of
the advice file. On a terminal with a modem the reversal is stored in two files.

| state | code |
|---|---|
| `sendReversalBit`, `rev`, `dbk`, `commMode` | HDPT bit, the two reversal files, ethernet or modem |
| `cur` | `pobTran`: attempt, kind, result so far, whether the reversal is being stored again, telephone calls |
| `rows`, `queue`, `rest` | `uszTCUploadBit` of each row; the advice file and its copy in memory |
| `host`, `hostTC`, `net`, `reply` | the host and the line |
| `fate`, `displaced`, `hit` | history: how each attempt ended, whose armed reversal was overwritten, whom a power failure hit |

| actions | code |
|---|---|
| `StartChipSale`, `Connected`, `ConnectFail`, `SendReversal` ... `DeleteReversal` | connection and the reversal left behind |
| `RevDelete` ... `DbkBit` | `inNCCC_ATS_ReversalSave_Flow`, one action per write |
| `SendAuth`, `Answered`, `AnswerUnusable`, `Timeout`, `OnlineAnalyseEMV` | request, answer, `inNCCC_ATS_OnlineAnalyseEMV` |
| `Referral`, `ReferralDenied`, `ReferralApproved`, `AnalyseForced` | the telephoned approval and the sale it sends |
| `ChipApproves`, `ChipApprovesInVain`, `ChipRefuses` | `OnTxnResult`, `inNCCC_ATS_OnlineEMV_Complete` |
| `SendTC`, `TCSent`, `TCFailed`, `SaveTop*`, `UpdateBatch` | the TC upload, `inADVICE_SaveTop`, the row |
| `StartSettle`, `SendAdvice` ... `SettleFailed` | advices before a settlement; one sent advice is removed in one step (AdviceQueue has the inside), a batch closed in one (Settlement) |

Abstracted: failures of file writes; the MPAS mode and the customer variants;
pre-authorisation and redemption; a card that decides at the first generate AC
(Y1, Z1); the instalment check of a table before the second generate is part of
the chip's refusal.

### ChipLedger: what is promised of a chip sale

Two variables: what has become of each sale at the terminal, and the sales the
host stands by. A sale is `armed` before it is `asked`, one at a time; it may be
`answered`, `kept`, its reversal `pending`, or it is `undone`. Kept needs the host,
undone needs that the host has nothing, and neither changes again. Where the
code's promise ends the ledger says so with `adrift`, a sale the terminal has let
go of while the host may stand by it: the chip decided before an answer came
(`LetGo`), a later sale's reversal was stored over the pending one (`Displace`), or
power failed (`PowerFails`). `EmvOnline!ImplementsChipLedger` refines it: the status
is read off bit, file, row and the place in the flow, and each generate AC, file
write and power failure is one step of the ledger or none.

### EcrLink: the cash register

The standard format over RS232 (`ECR.c`, `RS232.c`): a sale is offered, stored in a
request file, run, its answer stored in a second file and sent with retries until
acknowledged; the register may ask for the last transaction, and the terminal
then repeats the stored answer when the stored request matches. The
duplicate-transaction check, whose memory is RAM only, belongs here: it is what
keeps a repeated frame from being booked twice.

| state | code |
|---|---|
| `rx` | the receive buffer: frames, signals, damaged frames, stray bytes |
| `step`, `tran`, `retry`, `tries`, `reply`, `isResponse` | the handling of one request and the fields of `gsrECROb` |
| `lastSend`, `lastRece` | the files `ECRLASTSEND.txt`, `ECRLASTRECE.txt` |
| `dupPAN` | `gszDuplicatePAN` |
| `reg`, `told` | the register, external |
| `booked`, `said`, `mishap` | rows of the latest sale; history |

Each write of a file is an action, as is each transmission. Abstracted: bytes (a
check byte that happens to equal a signal is not mistaken for one), failures of
the file system, an empty request file is a missing one. The register is external
and strict: it repeats an unacknowledged frame, takes an answer only to a frame
that was acknowledged, and cannot tell sales apart in answers; two sales differ in
their requests. The run uses `RetryTimes` 1 where the code has 3.

## 3. What is checked

**AtsOnline** (4 requests, invoice limit 4, 2 power failures; 1,168,711 states)

* `NoOrphanApproval`: every approval of the host has a row in the batch or in one
  since settled, or its reversal
  is armed and readable, or it is being booked, or a power failure hit exactly that
  booking. The exception is the code's: it clears the reversal before it books. For
  a sale taken for approved the row does not count: its approval must be reversible.
* `KeptIsNeverReversed`: a row of the batch, or of one since settled, is approved at
  the host, and neither the file nor the line can still reverse it, unless it is the
  row of a sale taken for approved.
* `OneExposure`: a request leaves only when no earlier approval is unresolved, that of
  a sale taken for approved included.
* `OneApprovalPerInvoice`: no two approved sales of a batch with one number, whatever the
  counter forgot; no two approved voids of an invoice, cut-off voids apart.
* `TotalsAgree`: at rest the totals exceed the host's by the number of sales taken for
  approved and by nothing else, if no failure hit a booking: without a second referral
  of an invoice they are the host's.
* `OverLimitOnlyOnEmptyBatch`: the counter passes its limit without forcing a
  settlement only while there is nothing to settle.
* `ImplementsLedger`: every step is a step of TxnLedger or a stutter.

Why the bounds are enough: two requests are what any property relates; a third
and a fourth allow a referral or a retry between them. A sale taken for approved is the
third request of its invoice, and the fourth is the request that must wait until it is
reversed. Two power failures allow
one in the transaction and one in the repair. The limit of 4 is passed both by
sales and by the repair (which skips two numbers at each start-up), and is large
enough for a void cut off by a power failure to be asked again afterwards; with 3
the repair already forces the settlement.

**AtsOnlineLive** (3, 2, 2; 95,798 states): `FlowReturns`, the flow always comes back
to idle; `ReversalResolved`, an armed reversal is cleared in the end. Fairness:
the flow is one thread and every wait has a timer (weak fairness of the flow and
of the line); the must-settle bit makes the merchant settle at the latest, and of
infinitely many connections, reversals on the line and confirmations on their way
some succeed (strong fairness). The last part is about the world, not the code:
without it a host that refuses a reversal for ever blocks the terminal for ever,
which is the code's intent.

**Settlement** (invoice limit 3, batch numbers 1..2, 2 power failures; 60,224 states)

* `ImplementsBatchLedger`: no batch is dropped that the host has not closed, no sale
  joins a closed one, the clean-up is one step for whoever looks at rest.
* `MarkedRowsAreAcked`: a row counts as uploaded only if the host took it.
* `RowUploadResumes`: after a power failure among the rows the next settlement
  sends 930000 and uploads the rest of the same rows: no sale or void comes between.
* `CleanUpIsAtomic`, `CleanUpFinishes`: at rest the clean-up is done or not begun,
  and once begun it ends.
* `BatchNumTracksSettlements`: one number per settlement; only a failure between
  saving the number and ticking its tag skips one.

Up to three sales per batch make an upload with a first, a middle and a last row;
two batch numbers make the counter wrap.
Fairness is weak fairness of the flow and of the line; the merchant and the host
are free.

**AdviceQueue** (invoices 1..2, 2 power failures; 331,417 states)

* `QueueMatchesRows`: between transactions the file holds one entry for each upload
  bit of a row, but for the invoices a power failure hit.
* `NothingDueIsForgotten`: when the batch is closed the host has taken every offline
  sale and tip that still stands.
* `TipAfterItsSale`: the host never hears of a tip before its sale, whatever power
  failures did to the file: the row decides what is sent.
* `TakenTwiceOnlyIfCutOff`: an advice is taken twice only if its answer was lost or a
  power failure hit it.
* `WastedOnlyIfUnheard`: an offline void removes an advice as "not uploaded"
  (`NCCCats.c:15331`) that the host has in fact taken only if the answer was lost or
  a power failure hit it. That loss is real: nothing tells the host of the void.
* `MustSettleEnds`: a terminal that must settle does, or locks itself, or an entry
  without a row heads the file, which makes every settlement fail.

* `ImplementsOutbox`: every step is a step of Outbox or a stutter.

Two invoices give up to four entries, so an entry is found at the head, inside,
at the end and not at all. Instances with three invoices and one or two power
failures (2 and 14 million states) satisfied the safety properties as well.
Fairness: the program is one thread with timers (weak); the must-settle bit lets
the merchant do nothing but settle (weak); a host asked for ever takes an advice,
has its answer heard and closes a batch now and then (strong).

**EmvOnline** (3 sales of four kinds, 1 power failure, 2 telephone calls; 2,462,413 states)

* `ImplementsChipLedger`: every step is a step of ChipLedger or a stutter: no request
  goes out before its reversal is armed, and the terminal and the host part only
  where the ledger says so.
* `KeptStaysBooked`: no reversal of a kept sale is ever sent, over either line, in
  this batch or a later one.
* `TCOwedIsQueued`: the advice file holds exactly the TCs owed, each once, and the
  host has the others.
* `OnlyOwedIsUploaded`: a sale made online is never sent as an offline sale.
* `ClosedClean`: a batch closes with no reversal pending and no TC owed.

All of these are stated for attempts no power failure hit half-done
(`Exposed`): the flow has no recovery for those, and `hit` names them exactly.

**EmvOnlineBackup** (the same with a modem; 3 plain sales, 1 power failure, 1 call;
837,268 states):

* `ApprovalAccounted`: at rest an approval of the host is kept, or its reversal is
  armed in every file the lines use, or it is one of the three losses the code
  has: an answer that cannot be used and a chip that refuses; a union pay card that
  approves after no answer came (`NCCCats.c:17323`); an armed reversal that a later
  sale threw away. The run has plain sales only, the theorem all kinds, with and
  without a modem.
* `ArmedIsReadable`: an armed bit has a file for either line unless power failed.
* `FlowReturns`: every flow ends. Fairness is weak, of each group of flow steps and of
  the line.

**EcrLink** (2 sales, 1 power failure, 1 damaged frame or stray byte; 477,242 states)

* `OneAnswer`: a request is given one answer, repeated at most.
* `StoredAnswerMatches`: at rest the stored answer is that of the stored request,
  unless power failed or an unreadable frame followed.
* `RegisterToldTheTruth`: what the register concludes, directly or by an inquiry, is
  so but for power failures, a lost ACK or noise.
* `BookedOnce`: a sale is booked twice only after a lost ACK and, with the duplicate
  check on, a power failure as well.
* `RegisterServed`: a register with an open sale gets an answer, unless for ever it
  asks again while the terminal is busy. Fairness: the terminal goes on and its
  waits end (weak), the register repeats and asks (weak), a line tried for ever
  delivers a frame with its ACK and an answer now and then (strong).

Two sales give the files a content to be stale, and one mishap of each kind is what
separates the properties.

The runs of AtsOnline, Settlement and AdviceQueue check for deadlock; none occurs.
EmvOnline and EcrLink say `CHECK_DEADLOCK FALSE`, because there the bounded supply of
sales runs out with nothing left to settle or to answer.

Every property has a mutant: a definition of the module with a plausible bug
(a dropped guard, a missing save, an unread answer, an off-by-one), marked
`Mutant` in the module and listed in `PROJECT.json`. With the mutant in place of
the definition the property fails.

## 4. Findings

* **SettlementReupload** (`ReuploadAfter95`). When the host answers 95 to the
  closing request 960000, a comment (`NCCCats.c:11187`) says that the next
  settlement starts from the beginning and uploads the batch again. The mark of
  an uploaded row is never reset, so the next settlement finds nothing to upload
  and sends 960000 at once.
* **SettlementResume** (`InterruptedUploadResumes`). A comment
  (`NCCCats.c:16301`) says that after power failed in an upload the next
  settlement carries 930000. The bit is cleared before 960000 is sent, so a
  failure during that exchange makes it 920000.

* **EmvDisplaced** (`PendingReversalSurvives`). A comment (`NCCCats.c:15203`) says
  that a reversal that timed out must be sent before the next message. A chip sale
  that fails before its own request is sent is completed all the same
  (`NCCCats.c:17342`): when the card refuses, a reversal of the sale never sent is
  stored over the armed one, which is lost.
* **EmvReferral** (`KeptWasAnswered`). A comment (`NCCCats.c:16479`) says that the
  analysis returns VS_ERROR or VS_SUCCESS, and its callers test for VS_ERROR. The
  second telephoned sale of a referral returns VS_COMM_ERROR when it goes
  unanswered, and is kept as approved (`NCCCats.c:16483`). A magnetic sale is kept in the
  same way: there AtsOnline follows what becomes of it (`presumed`), to the end that the
  totals are too high by it and its row is settled although the host has reversed it.
* **EcrInquiry** (`InquiryRepeatsTheAnswer`). A comment (`ECR.c:4762`) says that an
  inquiry that matches the stored request is given the answer of that transaction.
  An unreadable reception after the sale stores its error answer over it, and a
  register that missed the approval is told of an error.

The first two lose no transaction in the model: the host closes only a complete
batch. The other three do, or tell the register the opposite of what happened.

## 5. What is proved

For every value of the constants; the only assumptions are those on the
constants (`AtsAssumption`, `SettlementAssumption`, `AdviceAssumption`,
`EmvAssumption`, `EcrAssumption`).

| module | theorems |
|---|---|
| `AtsOnline_proofs` | `SpecIInv`, `SpecTypeOK`, `SpecNoOrphanApproval`, `SpecKeptIsNeverReversed`, `SpecOneExposure` |
| `AtsLedger_proofs` | `SpecImplementsLedger`, `SpecOutcomesAgree`, `SpecOutcomesAreFinal` |
| `AtsBooks_proofs` | `SpecBInv`, `SpecOneApprovalPerInvoice`, `SpecTotalsAgree`, `SpecOverLimitOnlyOnEmptyBatch` |
| `Settlement_proofs` | `SpecIInv`, `SpecTypeOK`, `SpecMarkedRowsAreAcked`, `SpecCleanUpIsAtomic`, `SpecBatchNumTracksSettlements`, `SpecRowUploadResumes`, `SpecImplementsBatchLedger`, `SpecVanishesWhole` |
| `AdviceQueue_proofs` | `SpecIInv`, `SpecTypeOK`, `SpecQueueMatchesRows`, `SpecNothingDueIsForgotten`, `SpecTipAfterItsSale`, `SpecTakenTwiceOnlyIfCutOff`, `SpecWastedOnlyIfUnheard`, `SpecImplementsOutbox` |
| `EmvOnline_proofs` | `SpecIInv`, `SpecTypeOK`, `SpecApprovalAccounted`, `SpecKeptStaysBooked`, `SpecArmedIsReadable`, `SpecTCOwedIsQueued`, `SpecOnlyOwedIsUploaded`, `SpecClosedClean` |
| `EmvLedger_proofs` | `SpecLInv`, `SpecImplementsChipLedger`, `SpecOutcomesAgree`, `SpecOutcomesAreFinal` |
| `EcrLink_proofs` | `SpecIInv`, `SpecTypeOK`, `SpecOneAnswer`, `SpecStoredAnswerMatches`, `SpecRegisterToldTheTruth`, `SpecBookedOnce` |

Each component has one inductive invariant `IInv`, checked with TLC first, by one
proof step per action, grouped as `Next` is; the properties follow from it.

*AtsOnline.* `NoOrphanApproval` is not inductive: it does not say that a request
on the line is one whose reversal is armed. `IInv` adds, part by part: the
request being prepared is fresh (`FreshRequest`) and no later one was ever asked
(`NothingUnasked`); an armed reversal file holds an attempt (`ArmedIsReadable`),
the bit is set wherever the flow relies on it (`ArmedWhenNeeded`) and whatever is
on the line is covered by it (`LineIsArmed`); an answer tells the truth about the
host (`AnswerIsTrue`); what is being booked or is in the batch is approved or taken
for it (`BookingIsApproved`, `RecordedIsApproved`), the latter only if it is a sale
(`OnlySalesRefer`) and with its reversal armed while it is booked; the invoice counter bounds the rows
(`InvoiceCoversRows`, needed for the largest number that start-up looks for to
exist).

*The ledger.* `OneOpen` shows from IInv that at most one attempt is in question; five
lemmas show what the steps that move the ledger do to it (opening; undoing or
disowning; keeping, or presuming when the row is of a sale taken for approved;
deciding; losing), all others leave it unchanged (`LedgerStutters`).

*The books.* The three properties of AtsOnline that count or compare requests need
more than IInv, which follows one request at a time. `AtsBooks_proofs` adds, for all
requests since the last settlement: which ones these are (`ClosedFits`); that a
row is the request it was made for (`RowsFit`) and the transaction in hand the
latest one (`HandFits`); that the number of an approved sale is below the counter
once another sale can start (`NumbersFit`), that no two rows of sales share one,
whoever approved them (`SaleRowsFit`), and that a void is later than its sale
(`VoidsFit`), so that the request whose reversal is armed shares kind and number
with no approval but a void that was cut off (`ArmedAlone`), and the host, which
decides on that request only, cannot approve a number twice. `LimitFits` and
`BooksFit` say at every step what the other two properties say at rest; the
lemmas about `Standing` say which steps change the count of approvals, and
`PresumedSales` counts the sales taken for approved.

*Settlement.* The parts say what the recovery file may hold at each step
(`XmlFits`), and what a ticked tag means: rows and totals are gone (`BatchGone`,
`AccumGone`), the numbers are the new ones (`NumFits`); how rows and totals agree
before (`BookFits`); what is on the line (`LineFits`), when the host has closed
(`ClosedFits`), which rows it has (`UploadFits`), and what the two bits tell at
rest (`MustSettleFits`, `ClsFits`). For the refinement a sale is `Keep`, a void
`Cancel`, the creation of the recovery file `Clear`, a power failure just before it
`Forget`; the host closes, everything else is hidden.

*AdviceQueue.* `QueueMatchesRows` speaks of rest only. `Matches` says it of every step:
the entries in the file and in memory together (`Held`) are those the row calls
for, where the row in hand counts between the file and the booking, and one more
is there between the update of a row and the removal of its entry. A row owes
entries exactly while the host has not heard of it: what it no longer owes is
booked (`Heard`), what it owes is not, but for the answer being worked on
(`Unsent`), and a booked tip is in its row (`BookedFits`). `FirstIsOwed` then says
that the first entry leads to a row that owes something, hence that what is
sent is new to the host. `CurFits`, `RowFits` and `FileFits` say which rows and
which lengths there can be; `Covers`, that a new sale has no row. The lemmas
about `Count` say what an append, a removal and a rewrite do to a sequence. For the
refinement only two steps move the outbox: the booking of a row (`InsertRefines`:
`Owe` or `Withdraw`) and the answer that comes to it (`UpdateRefines`: `Done`);
`HostTakesRefines` shows from `FirstIsOwed` that what the host takes is due, and
`NothingOwedAtClose` from `Matches` that the sending loop leaves nothing owed.

*EmvOnline.* The parts say what is known of the request in hand (`CurFits`,
`Untried`, `FateFits`, `NotAsked`, `IsApproved`, `UnusableFits`), what is on the
line (`LineFits`), what bit and files hold at each of the saving steps (`FilesFit`),
that nothing kept is in a file or on the line (`KeptFits`), that every approval
is accounted for at every step and not only at rest (`Accounted`, with the attempts
`AtRisk` in between), that an armed bit has a file (`Readable`), and that the advice
file as it is rewritten holds each certificate owed once (`QueueFits`, `OnceFits`,
`OwedFits`).

*The chip ledger.* The refinement needs four facts more than `IInv` (`LInv`): a sale whose
reversal is not in its file when the chip decides was never asked (`UnaskedFits`);
a pending reversal of a sale the host may stand by is in every file, so that its
confirmation over either line undoes that sale (`PendingFits`); a referral leaves
the reversal in its file and a refused sale is not booked (`ReferralFits`); the
settlement sends the head of the advice file only if it has a row (`HeadFits`).
`InHandFits` then tabulates the status of the sale in hand by the place in the
flow, `StatusElsewhere` that of every other sale; what remains of an action is to
compare the two before and after it (`CurMoves`, `NobodyMoves`), with a lemma of
its own where two sales move (`Displaces`, `ConfirmedLedger`), for the host
(`HeardOf`: what it hears of was asked) and for a power failure (`CrashLedger`).

*EcrLink.* The parts follow the life of one request: what is on the line is of the
latest sale (`LineFits`, `TranFits`, `RegFits`), what was said is what is being
said (`SaidFits`, `TriesFit`), a sale is run once without a mishap (`Once`,
`Remembered`), the answer in hand and the one on file say what became of the sale
(`ReplyIsTrue`, `BookedIsStored`, `StoredIsTrue`) and whose it is
(`ReplyIsForRequest`, `StoredIsForRequest`).

*What the ledgers mean.* What an abstract module implies is proved from its few
actions and, with the refinement theorem, holds of the detailed module. Both
ledgers of requests say that host and terminal agree on every request but the
one in question (`SpecOutcomesAgree`) and that an outcome is never revised
(`SpecOutcomesAreFinal`), a magnetic sale taken for approved being in question until
the host has disowned it; the batch ledger that a batch never loses a part of its
transactions (`SpecVanishesWhole`). For a chip sale that speaks of every step, where
`ApprovalAccounted` speaks of the terminal at rest.

Only model-checked: liveness (out of the prover's reach): `FlowReturns`,
`ReversalResolved`, `CleanUpFinishes`, `MustSettleEnds`, `RegisterServed`.

## 6. What is not modelled

See the components of `PROJECT.json`, each with its reason. Within the modelled
flows: amounts, a torn write inside one file, failing file writes (so in EcrLink the step
`_FUNCTION_UPDATE_INV_`, between the row and the answer to the register, never fails), Y1/Z1
completions of a chip, pre-authorisation and redemption, adjustments and force
cash (which take the advice path with other codes), the other formats and
carriers of the cash register link, the totals request and the reports of a
settlement. The STAN is not part of a message: that an answer is matched without
it (`NCCCats.c:185`) is the one hazard without a property, since the model closes
the connection with every exchange that ends without an answer.

## 7. Plan

1. *Counters*: STAN, reversal count and their limits as pure functions against
   their documented ranges; several exchanges on one connection with late answers.
2. An abstract specification of the cash register link (asked, booked, answered),
   and EcrLink shown to implement it.
3. The e-receipt queue and its hold on a settlement; the flow engine.
