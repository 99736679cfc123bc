------------------------------ MODULE EmvOnline ------------------------------
(***************************************************************************)
(* An online sale with a chip card, on a terminal with or without a modem  *)
(* as backup line.  The chip decides after the host: a second generate AC  *)
(* follows whatever became of the request, and the terminal then keeps,    *)
(* clears or stores the reversal again.  An approved sale owes the host a  *)
(* transaction certificate (TC), sent at once or put at the top of the     *)
(* advice file and sent before the settlement.  With a backup line the     *)
(* reversal is stored twice, one file for each line.                       *)
(*                                                                         *)
(* Persistent: the two reversal files, the bit that arms them, the batch   *)
(* rows and the advice file.  An empty file reads like a missing one.  The *)
(* totals and the invoice number are AtsOnline's, the removal of one sent  *)
(* advice is one step (AdviceQueue has the inside), closing the batch is   *)
(* one step (Settlement).  A card that answers the first generate AC by    *)
(* itself (Y1, Z1) is refused before anything changes and is left out.     *)
(***************************************************************************)
EXTENDS Integers, FiniteSets, SequencesExt

CONSTANTS MaxAttempt,   \* bound: how many sales are tried
          MaxCrash,     \* bound: how many power failures
          MaxReferral,  \* bound: how often the bank approves one sale by telephone
          Kinds,        \* the kinds of sale
          DialBackup    \* DialBackupEnable: a modem stands by for the ethernet

ASSUME EmvAssumption ==
    /\ MaxAttempt \in Nat /\ MaxCrash \in Nat /\ MaxReferral \in Nat
    /\ Kinds \subseteq {"SALE", "CUP_SALE", "INST_SALE", "CASH_ADVANCE"}
    /\ DialBackup \in BOOLEAN

VARIABLES
    pc,           \* where the flow is
    cur,          \* pobTran: the transaction in hand
    commMode,     \* CFGT CommMode
    rest,         \* the advice file as read, to be written back
    sendReversalBit, \* HDPT SendReversalBit
    rev,          \* the .rev file: the attempt it reverses
    dbk,          \* the reversal file for the backup line
    rows,         \* the batch row of each attempt, with its uszTCUploadBit
    queue,        \* the .adv file: attempts that owe a TC, the next one first
    host,         \* host: what it has decided for each attempt
    hostTC,       \* host: the attempts whose TC it has
    net,          \* the message on its way to the host
    reply,        \* the answer on its way to the terminal
    nAttempt,     \* history: how many sales were tried
    fate,         \* history: how the chip decision of each attempt came out
    displaced,    \* history: attempts whose armed reversal a later sale threw away
    hit,          \* history: attempts a power failure caught half-done
    crashes       \* history: power failures so far

files == <<sendReversalBit, rev, dbk>>
books == <<rows, queue>>
line  == <<host, hostTC, net, reply>>
hist  == <<nAttempt, fate, displaced, hit, crashes>>
vars  == <<pc, cur, commMode, rest, files, books, line, hist>>

Attempt == 1 .. MaxAttempt
NoFile  == 0
None    == [type |-> "none", id |-> 0]
NoFate  == [result |-> "none", chip |-> "none"]
Result  == {"none", "authorized", "cancelled", "noAuthCode", "unparsed", "commError"}
NoCur   == [id |-> 0, kind |-> "SETTLE", result |-> "none", resave |-> FALSE, calls |-> 0]
Saving  == {"rev", "revWrite", "revBit", "dbk", "dbkWrite", "dbkBit"}
Booking == {"tc", "waitTC", "top", "topHead", "topRest", "book", "bookSent"}
Waiting == {"waitReversal", "waitAuth", "waitTC", "waitAdvice"}
PC == {"idle", "connect", "reversal", "delReversal", "ask", "analyse", "callBank",
       "gen2", "advice", "drop", "close"} \cup Saving \cup Booking \cup Waiting
TCState == {"none", "owed", "sent", "exempt", "closed"}

TypeOK ==
    /\ pc \in PC
    /\ cur \in [id : Attempt \cup {0}, kind : Kinds \cup {"SETTLE"}, result : Result,
                resave : BOOLEAN, calls : 0 .. MaxReferral]
    /\ commMode \in {"ethernet", "modem"} /\ (commMode = "modem" => DialBackup)
    /\ rest \in Seq(Attempt) /\ queue \in Seq(Attempt)
    /\ sendReversalBit \in BOOLEAN
    /\ rev \in Attempt \cup {NoFile} /\ dbk \in Attempt \cup {NoFile}
    /\ rows \in [Attempt -> TCState]
    /\ host \in [Attempt -> {"none", "approved", "declined", "reversed"}]
    /\ hostTC \subseteq Attempt
    /\ net \in [type : {"auth", "reversal", "tc", "advice"}, id : Attempt] \cup {None}
    /\ reply \in {"none", "00", "other", "referral", "noAuthCode", "unparsed"}
    /\ nAttempt \in 0 .. MaxAttempt
    /\ fate \in [Attempt -> [result : Result, chip : {"none", "TC", "AAC"}]]
    /\ displaced \subseteq Attempt /\ hit \subseteq Attempt
    /\ crashes \in 0 .. MaxCrash

Init ==
    /\ pc = "idle" /\ cur = NoCur /\ commMode = "ethernet" /\ rest = <<>>
    /\ sendReversalBit = FALSE /\ rev = NoFile /\ dbk = NoFile
    /\ rows = [a \in Attempt |-> "none"] /\ queue = <<>>
    /\ host = [a \in Attempt |-> "none"] /\ hostTC = {} /\ net = None /\ reply = "none"
    /\ nAttempt = 0 /\ fate = [a \in Attempt |-> NoFate]
    /\ displaced = {} /\ hit = {} /\ crashes = 0

Goto(from, to) == pc = from /\ pc' = to
\* The event loop goes back to the ethernet after every transaction.
Finish(from) == pc = from /\ pc' = "idle" /\ commMode' = "ethernet"
-----------------------------------------------------------------------------
(* Connecting, and the reversal an earlier sale left behind.               *)

StartChipSale ==
    /\ Goto("idle", "connect")
    /\ nAttempt < MaxAttempt
    /\ nAttempt' = nAttempt + 1
    /\ \E kind \in Kinds : cur' = [NoCur EXCEPT !.id = nAttempt + 1, !.kind = kind]
    /\ UNCHANGED <<commMode, rest, files, books, line, fate, displaced, hit, crashes>>

StartSettle ==
    /\ Goto("idle", "connect")
    /\ \E a \in Attempt : rows[a] \notin {"none", "closed"}
    /\ cur' = NoCur
    /\ UNCHANGED <<commMode, rest, files, books, line, hist>>

AfterReversal == IF cur.kind = "SETTLE" THEN "advice" ELSE "rev"

\* Mutant: the modem is tried although there is none.
ConnectedAnyway ==
    /\ Goto("connect", IF sendReversalBit THEN "reversal" ELSE AfterReversal)
    /\ commMode' \in {commMode, "modem"}
    /\ UNCHANGED <<cur, rest, files, books, line, hist>>

Connected ==
    /\ Goto("connect", IF sendReversalBit THEN "reversal" ELSE AfterReversal)
    /\ commMode' \in IF DialBackup THEN {commMode, "modem"} ELSE {commMode}
    /\ UNCHANGED <<cur, rest, files, books, line, hist>>

\* The telephoned sale of a referral.
Forced == cur.calls > 0

\* The transaction fails without an analysis.  The chip does not know: it is asked
\* for its second decision all the same, but not again after a telephoned approval.
\* The telephoned sale of a telephoned sale is taken for approved: its caller
\* tests for VS_ERROR, and what an unanswered request returns is VS_COMM_ERROR.
Fails(from, result) ==
    /\ cur' = [cur EXCEPT !.result = result]
    /\ IF cur.calls > 1 /\ from = "waitAuth"
       THEN Goto(from, "bookSent") /\ UNCHANGED commMode
       ELSE IF cur.kind = "SETTLE" \/ Forced
       THEN Finish(from)
       ELSE Goto(from, "gen2") /\ UNCHANGED commMode

ConnectFail ==
    /\ Fails("connect", "commError")
    /\ UNCHANGED <<rest, files, books, line, hist>>

\* The reversal is built for the line it goes over.
ReversalFile == IF commMode = "modem" THEN dbk ELSE rev

SendReversal ==
    /\ net = None /\ ReversalFile # NoFile
    /\ Goto("reversal", "waitReversal")
    /\ net' = [type |-> "reversal", id |-> ReversalFile]
    /\ UNCHANGED <<cur, commMode, rest, files, books, host, hostTC, reply, hist>>

ReversalUnreadable ==
    /\ ReversalFile = NoFile
    /\ Fails("reversal", "none")
    /\ UNCHANGED <<rest, files, books, line, hist>>

ReversalConfirmed ==
    /\ reply = "00" /\ reply' = "none"
    /\ Goto("waitReversal", "delReversal")
    /\ sendReversalBit' = FALSE
    /\ UNCHANGED <<cur, commMode, rest, rev, dbk, books, host, hostTC, net, hist>>

ReversalRefused ==
    /\ reply \in {"other", "unparsed"} /\ reply' = "none"
    /\ Fails("waitReversal", IF reply = "other" THEN "cancelled" ELSE "unparsed")
    /\ UNCHANGED <<rest, files, books, host, hostTC, net, hist>>

\* Over the ethernet the file for the backup line stays.
DeleteReversal ==
    /\ Goto("delReversal", AfterReversal)
    /\ rev' = NoFile
    /\ dbk' = IF commMode = "modem" THEN NoFile ELSE dbk
    /\ UNCHANGED <<cur, commMode, rest, sendReversalBit, books, line, hist>>
-----------------------------------------------------------------------------
(* inNCCC_ATS_ReversalSave_Flow: one file, the bit, the other file, the    *)
(* bit.  Before the request, or again after the chip refused.              *)

Saved == IF cur.resave THEN "end" ELSE "ask"

\* History: an armed reversal of another attempt is thrown away.
Discards(file) ==
    displaced' = displaced \cup
        (IF sendReversalBit /\ file \in Attempt \ {cur.id} THEN {file} ELSE {})

SaveStep(from, to) ==
    /\ IF to # "end" THEN Goto(from, to) /\ UNCHANGED commMode ELSE Finish(from)
    /\ UNCHANGED <<cur, rest, books, line, nAttempt, fate, hit, crashes>>

RevDelete ==
    /\ SaveStep("rev", "revWrite")
    /\ rev' = NoFile /\ Discards(rev)
    /\ UNCHANGED <<sendReversalBit, dbk>>

RevWrite ==
    /\ SaveStep("revWrite", "revBit")
    /\ rev' = cur.id
    /\ UNCHANGED <<sendReversalBit, dbk, displaced>>

\* Mutant: the request goes out before the reversal is armed.
RevBitUnset ==
    /\ SaveStep("revBit", IF DialBackup THEN "dbk" ELSE Saved)
    /\ UNCHANGED <<sendReversalBit, rev, dbk, displaced>>

\* Mutant: the second file is never written.
RevBitOnly ==
    /\ SaveStep("revBit", Saved)
    /\ sendReversalBit' = TRUE
    /\ UNCHANGED <<rev, dbk, displaced>>

RevBit ==
    /\ SaveStep("revBit", IF DialBackup THEN "dbk" ELSE Saved)
    /\ sendReversalBit' = TRUE
    /\ UNCHANGED <<rev, dbk, displaced>>

DbkDelete ==
    /\ SaveStep("dbk", "dbkWrite")
    /\ dbk' = NoFile
    /\ UNCHANGED <<sendReversalBit, rev, displaced>>

\* Mutant: a failed write goes unnoticed.
DbkWriteNothing ==
    /\ SaveStep("dbkWrite", "dbkBit")
    /\ UNCHANGED <<sendReversalBit, rev, dbk, displaced>>

DbkWrite ==
    /\ SaveStep("dbkWrite", "dbkBit")
    /\ dbk' = cur.id
    /\ UNCHANGED <<sendReversalBit, rev, displaced>>

DbkBit ==
    /\ SaveStep("dbkBit", Saved)
    /\ sendReversalBit' = TRUE
    /\ UNCHANGED <<rev, dbk, displaced>>
-----------------------------------------------------------------------------
(* The request, its answer, and what OnlineAnalyseEMV does with the bit.   *)

SendAuth ==
    /\ net = None
    /\ Goto("ask", "waitAuth")
    /\ net' = [type |-> "auth", id |-> cur.id]
    /\ UNCHANGED <<cur, commMode, rest, files, books, host, hostTC, reply, hist>>

\* A union pay sale needs no authorization code; only some kinds may call the bank.
Approves(code) == code = "00" \/ (code = "noAuthCode" /\ cur.kind = "CUP_SALE")
Declines(code) == code = "other" \/ (code = "referral" /\ cur.kind = "INST_SALE")

\* Approved or declined: the answer is analysed.
Answered ==
    /\ Approves(reply) \/ Declines(reply)
    /\ reply' = "none"
    /\ Goto("waitAuth", "analyse")
    /\ cur' = [cur EXCEPT !.result = IF Approves(reply) THEN "authorized" ELSE "cancelled"]
    /\ UNCHANGED <<commMode, rest, files, books, host, hostTC, net, hist>>

\* An answer that cannot be used ends the dialogue without analysis.
AnswerUnusable ==
    /\ reply \in {"noAuthCode", "unparsed"} /\ ~Approves(reply)
    /\ reply' = "none"
    /\ Fails("waitAuth", reply)
    /\ UNCHANGED <<rest, files, books, host, hostTC, net, hist>>

\* Mutant: only a wait for the authorization has a timer.
TimeoutOfAuth ==
    /\ reply' = "none" /\ ~Forced
    /\ Goto("waitAuth", "analyse")
    /\ cur' = [cur EXCEPT !.result = "commError"]
    /\ UNCHANGED <<commMode, rest, files, books, host, hostTC, net, hist>>

\* A chip card whose request went unanswered is analysed, every other wait just
\* fails; an answer still on its way is dropped with the connection.
Timeout ==
    /\ reply' = "none"
    /\ \/ /\ ~Forced
          /\ Goto("waitAuth", "analyse")
          /\ cur' = [cur EXCEPT !.result = "commError"]
          /\ UNCHANGED commMode
       \/ Forced /\ Fails("waitAuth", "commError")
       \/ Fails("waitReversal", "commError")
    /\ UNCHANGED <<rest, files, books, host, hostTC, net, hist>>

\* No answer to a plain sale, or a refusal, clears the bit before the chip decides.
Disarms ==
    \/ cur.result = "cancelled"
    \/ cur.result = "commError" /\ cur.kind \in {"SALE", "CUP_SALE"}

OnlineAnalyseEMV ==
    /\ ~Forced
    /\ Goto("analyse", "gen2")
    /\ sendReversalBit' = (sendReversalBit /\ ~Disarms)
    /\ UNCHANGED <<cur, commMode, rest, rev, dbk, books, line, hist>>

\* The sale telephoned to the bank is analysed like a magnetic one.
AnalyseForced ==
    /\ Forced /\ pc = "analyse"
    /\ IF cur.result = "authorized"
       THEN Goto("analyse", "bookSent") /\ UNCHANGED commMode
       ELSE Finish("analyse")
    /\ sendReversalBit' = FALSE
    /\ UNCHANGED <<cur, rest, rev, dbk, books, line, hist>>

\* The host wants the bank called; the bit is cleared either way.
Referral ==
    /\ reply = "referral" /\ reply' = "none"
    /\ cur.kind # "INST_SALE"
    /\ Goto("waitAuth", "callBank")
    /\ sendReversalBit' = FALSE
    /\ UNCHANGED <<cur, commMode, rest, rev, dbk, books, host, hostTC, net, hist>>

ReferralDenied ==
    /\ Fails("callBank", "cancelled")
    /\ UNCHANGED <<rest, files, books, line, hist>>

\* The telephoned approval is sent as a sale of its own, with its own reversal.
ReferralApproved ==
    /\ Goto("callBank", "connect")
    /\ cur.calls < MaxReferral
    /\ cur' = [cur EXCEPT !.calls = @ + 1]
    /\ UNCHANGED <<commMode, rest, files, books, line, hist>>
-----------------------------------------------------------------------------
(* inNCCC_ATS_OnlineEMV_Complete, after the second generate AC.            *)

\* inEMV_SecondGenerateAC fails on AAC, and on TC (Y3) when no answer came to a plain
\* sale or a cash advance.
MayApprove == ~(cur.result = "commError" /\ cur.kind \in {"SALE", "CASH_ADVANCE"})

Decided(chip) ==
    /\ pc = "gen2"
    /\ fate' = [fate EXCEPT ![cur.id] = [result |-> cur.result, chip |-> chip]]
    /\ UNCHANGED <<rest, rev, dbk, books, line, nAttempt, hit, crashes>>

\* Mutant: the reversal stays armed.
ChipApprovesArmed ==
    /\ MayApprove /\ cur.result = "authorized"
    /\ Decided("TC")
    /\ pc' = "tc"
    /\ UNCHANGED <<cur, commMode, displaced, sendReversalBit>>

ChipApproves ==
    /\ MayApprove /\ cur.result = "authorized"
    /\ Decided("TC")
    /\ pc' = "tc"
    /\ sendReversalBit' = FALSE
    /\ UNCHANGED <<cur, commMode, displaced>>

\* The card would approve but the host did not: nothing is done.
ChipApprovesInVain ==
    /\ MayApprove /\ cur.result # "authorized"
    /\ Decided("TC")
    /\ Finish("gen2")
    /\ UNCHANGED <<cur, sendReversalBit, displaced>>

Rebuilds == cur.result \in {"authorized", "commError"}

ChipRefuses ==
    /\ Decided("AAC")
    /\ \/ /\ Rebuilds
          /\ pc' = "rev"
          /\ cur' = [cur EXCEPT !.resave = TRUE]
          /\ UNCHANGED <<commMode, sendReversalBit, displaced>>
       \/ /\ ~Rebuilds
          /\ Finish("gen2")
          /\ Discards(rev)
          /\ sendReversalBit' = FALSE
          /\ UNCHANGED cur
-----------------------------------------------------------------------------
(* The TC of the sale in hand, then its row.                               *)

SendTC ==
    /\ net = None
    /\ Goto("tc", "waitTC")
    /\ net' = [type |-> "tc", id |-> cur.id]
    /\ UNCHANGED <<cur, commMode, rest, files, books, host, hostTC, reply, hist>>

TCSent ==
    /\ reply = "00" /\ reply' = "none"
    /\ Goto("waitTC", "bookSent")
    /\ UNCHANGED <<cur, commMode, rest, files, books, host, hostTC, net, hist>>

\* No connection, no answer or another answer: the TC goes into the advice file.
TCFailed ==
    /\ pc \in {"tc", "waitTC"} /\ pc' = "top"
    /\ reply' = "none"
    /\ UNCHANGED <<cur, commMode, rest, files, books, host, hostTC, net, hist>>

SaveTop(from, to, content, memory) ==
    /\ Goto(from, to)
    /\ queue' = content
    /\ rest' = memory
    /\ UNCHANGED <<cur, commMode, files, rows, line, hist>>

\* inADVICE_SaveTop: the file is read, deleted and written again behind the new entry.
SaveTopDelete == queue # <<>> /\ SaveTop("top", "topHead", <<>>, queue)
SaveTopFirst  == queue = <<>> /\ SaveTop("top", "book", <<cur.id>>, <<>>)
SaveTopHead   == SaveTop("topHead", "topRest", <<cur.id>>, rest)

\* Mutant: the entries read before are not written back.
SaveTopForgets == SaveTop("topRest", "book", queue, <<>>)

SaveTopRest   == SaveTop("topRest", "book", queue \o rest, <<>>)

\* Mutant: the bit says sent although the TC waits in the file.
RowStateSent == IF Forced THEN "exempt" ELSE "sent"

\* uszTCUploadBit of the row; a telephoned sale is exempt.
RowState == CASE Forced -> "exempt" [] pc = "book" -> "owed" [] OTHER -> "sent"

UpdateBatch ==
    /\ pc \in {"book", "bookSent"} /\ Finish(pc)
    /\ rows' = [rows EXCEPT ![cur.id] = RowState]
    /\ fate' = [fate EXCEPT ![cur.id].result = cur.result]
    /\ UNCHANGED <<cur, rest, files, queue, line, nAttempt, displaced, hit, crashes>>
-----------------------------------------------------------------------------
(* The TCs owed go out before the settlement.                              *)

HasRow(a) == rows[a] \notin {"none", "closed"}

\* A row whose TC the host is known to have is sent as if it were an offline sale.
SendAdvice ==
    /\ net = None /\ queue # <<>> /\ HasRow(Head(queue))
    /\ Goto("advice", "waitAdvice")
    /\ net' = [type |-> IF rows[Head(queue)] = "owed" THEN "tc" ELSE "advice",
               id |-> Head(queue)]
    /\ UNCHANGED <<cur, commMode, rest, files, books, host, hostTC, reply, hist>>

\* The head has no row, no answer came, or another: the settlement fails.
AdviceFailed ==
    /\ \/ pc = "advice" /\ queue # <<>> /\ ~HasRow(Head(queue))
       \/ pc = "waitAdvice"
    /\ Finish(pc)
    /\ reply' = "none"
    /\ UNCHANGED <<cur, rest, files, books, host, hostTC, net, hist>>

AdviceAccepted ==
    /\ reply = "00" /\ reply' = "none"
    /\ Goto("waitAdvice", "drop")
    /\ rows' = [rows EXCEPT ![Head(queue)] = "sent"]
    /\ UNCHANGED <<cur, commMode, rest, files, queue, host, hostTC, net, hist>>

AdviceUpdate ==
    /\ Goto("drop", "advice")
    /\ queue' = Tail(queue)
    /\ UNCHANGED <<cur, commMode, rest, files, rows, line, hist>>

\* Mutant: the first advice is enough.
AdvicesDoneEarly ==
    /\ Goto("advice", "close")
    /\ UNCHANGED <<cur, commMode, rest, files, books, line, hist>>

AdvicesDone ==
    /\ queue = <<>>
    /\ Goto("advice", "close")
    /\ UNCHANGED <<cur, commMode, rest, files, books, line, hist>>

\* The host and the terminal close the batch; both reversal files go.
CloseBatch ==
    /\ Finish("close")
    /\ rows' = [a \in Attempt |-> IF rows[a] = "none" THEN "none" ELSE "closed"]
    /\ rev' = NoFile /\ dbk' = NoFile
    /\ UNCHANGED <<cur, rest, sendReversalBit, queue, line, hist>>

SettleFailed ==
    /\ Finish("close")
    /\ UNCHANGED <<cur, rest, files, books, line, hist>>
-----------------------------------------------------------------------------
(* Power failure: the attempts it may have spoilt are remembered.          *)

Exposed ==
    (IF pc \in Booking \/ (cur.resave /\ pc \in Saving) \/ (pc = "gen2" /\ ~sendReversalBit)
     THEN {cur.id} ELSE {})
    \cup (IF pc = "dbk" THEN {dbk} \ {NoFile} ELSE {})
    \cup (IF pc = "drop" THEN {Head(queue)} ELSE {})
    \cup ToSet(rest)

Crash ==
    /\ pc # "idle" /\ crashes < MaxCrash
    /\ crashes' = crashes + 1
    /\ hit' = hit \cup Exposed
    /\ pc' = "idle" /\ cur' = NoCur /\ commMode' = "ethernet" /\ rest' = <<>>
    /\ reply' = "none"
    /\ UNCHANGED <<files, books, host, hostTC, net, nAttempt, fate, displaced>>

(* The host and the line: a message is delivered once or lost.             *)

Deliver(codes) ==
    /\ net' = None
    /\ \E code \in codes : reply' = IF pc \in Waiting THEN code ELSE "none"
    /\ UNCHANGED <<pc, cur, commMode, rest, files, books, hist>>

HostAuthorize ==
    /\ net.type = "auth"
    /\ Deliver({"00", "noAuthCode", "unparsed"})
    /\ host' = [host EXCEPT ![net.id] = "approved"]
    /\ UNCHANGED hostTC

HostDecline ==
    /\ net.type = "auth"
    /\ Deliver({"other", "referral", "unparsed"})
    /\ host' = [host EXCEPT ![net.id] = "declined"]
    /\ UNCHANGED hostTC

HostReverse ==
    /\ net.type = "reversal"
    /\ Deliver({"00", "unparsed"})
    /\ host' = [host EXCEPT ![net.id] = "reversed"]
    /\ UNCHANGED hostTC

HostTakesTC ==
    /\ net.type \in {"tc", "advice"}
    /\ Deliver({"00", "unparsed"})
    /\ hostTC' = IF net.type = "tc" THEN hostTC \cup {net.id} ELSE hostTC
    /\ UNCHANGED host

HostRefuses ==
    /\ net.type \in {"reversal", "tc", "advice"}
    /\ Deliver({"other"})
    /\ UNCHANGED <<host, hostTC>>

LoseRequest ==
    /\ net # None /\ net' = None
    /\ UNCHANGED <<pc, cur, commMode, rest, files, books, host, hostTC, reply, hist>>
-----------------------------------------------------------------------------
Dialogue == \/ StartChipSale \/ Connected \/ ConnectFail
            \/ SendReversal \/ ReversalUnreadable \/ ReversalConfirmed
            \/ ReversalRefused \/ DeleteReversal
            \/ SendAuth \/ Answered \/ AnswerUnusable \/ Timeout
            \/ OnlineAnalyseEMV \/ AnalyseForced
            \/ Referral \/ ReferralDenied \/ ReferralApproved
Save     == RevDelete \/ RevWrite \/ RevBit \/ DbkDelete \/ DbkWrite \/ DbkBit
Complete == ChipApproves \/ ChipApprovesInVain \/ ChipRefuses
Book     == \/ SendTC \/ TCSent \/ TCFailed
            \/ SaveTopDelete \/ SaveTopFirst \/ SaveTopHead \/ SaveTopRest \/ UpdateBatch
Settle   == \/ SendAdvice \/ AdviceFailed \/ AdviceAccepted \/ AdviceUpdate
            \/ AdvicesDone \/ CloseBatch \/ SettleFailed
Host     == \/ HostAuthorize \/ HostDecline \/ HostReverse
            \/ HostTakesTC \/ HostRefuses \/ LoseRequest

Next == Dialogue \/ StartSettle \/ Save \/ Complete \/ Book \/ Settle \/ Crash \/ Host

Spec == Init /\ [][Next]_vars

\* A flow that has begun goes on, and the line delivers or loses what it carries.
Fairness ==
    /\ WF_vars(Dialogue /\ pc # "idle")
    /\ WF_vars(Save) /\ WF_vars(Complete) /\ WF_vars(Book) /\ WF_vars(Settle) /\ WF_vars(Host)

LiveSpec == Spec /\ Fairness
-----------------------------------------------------------------------------
(* Properties.                                                             *)

AtRest   == pc = "idle"
Armed(a) == sendReversalBit /\ rev = a /\ (DialBackup => dbk = a)

\* A sale the host approved and the terminal did not keep has its reversal stored
\* and armed, for either line.  The code lets it down in three cases: the chip
\* refused after an answer that could not be used, a union pay card approved
\* after no answer came, and a later sale threw the armed reversal away.
ApprovalAccounted ==
    \A a \in Attempt \ hit :
        AtRest /\ host[a] = "approved" /\ rows[a] = "none" =>
            \/ Armed(a)
            \/ fate[a].result \in {"noAuthCode", "unparsed"} /\ fate[a].chip = "AAC"
            \/ fate[a].result = "commError" /\ fate[a].chip = "TC"
            \/ a \in displaced

\* What the terminal kept on the host's word stays booked at the host: no reversal
\* of it is ever sent over either line, in this batch or a later one.
KeptStaysBooked ==
    \A a \in Attempt \ hit :
        rows[a] # "none" /\ fate[a].result = "authorized" => host[a] = "approved"

\* As long as no power failure hits the terminal, an armed bit has a file to send:
\* without it every later transaction fails before its request.
ArmedIsReadable ==
    AtRest /\ crashes = 0 /\ sendReversalBit => rev # NoFile /\ (DialBackup => dbk # NoFile)

\* The advice file holds the TCs owed, each once, and the host has the others:
\* the file, the rows and the host agree but for what a power failure spoilt.
TCOwedIsQueued ==
    AtRest => \A a \in Attempt \ hit :
        /\ rows[a] = "owed" <=> a \in ToSet(queue)
        /\ Cardinality({k \in DOMAIN queue : queue[k] = a}) <= 1
        /\ rows[a] = "sent" => a \in hostTC

\* A sale made online is never sent to the host again as an offline sale, but when
\* a power failure fell between its row and its entry in the advice file.
OnlyOwedIsUploaded == net.type = "advice" => net.id \in hit

\* A batch is closed only when no reversal is pending and no TC is owed.
ClosedClean ==
    [][\A a \in Attempt \ hit :
        rows[a] \notin {"none", "closed"} /\ rows'[a] = "closed" =>
            ~sendReversalBit /\ rows[a] # "owed"]_vars

\* Every flow ends: no wait of the chip dialogue is without its timer.
FlowReturns == []<>AtRest

\* NCCCats.c on a reversal that times out: it must be sent before the next
\* transaction's message.  So it survives until it was sent.
PendingReversalSurvives == displaced = {}

\* NCCCats.c where a telephoned sale fails: the value returned is VS_ERROR or
\* VS_SUCCESS, and the caller tests for these two.  So what is kept was answered.
KeptWasAnswered ==
    \A a \in Attempt : rows[a] # "none" => fate[a].result = "authorized"
-----------------------------------------------------------------------------
(* Refinement: bit, files, rows and host together are a ChipLedger.        *)

InHand == pc # "idle" /\ cur.kind # "SETTLE"

\* The host has approved the attempt or may still do so.
MayBeApproved(a) == host[a] = "approved" \/ net = [type |-> "auth", id |-> a]

\* A telephoned sale starts from the host's refusal of the first one.
Retried == Forced /\ pc \in {"connect", "reversal", "waitReversal", "delReversal",
                             "rev", "revWrite", "revBit"}

\* From the request to the row, or to where the reversal is stored again.
InQuestion(a) ==
    /\ InHand /\ a = cur.id
    /\ \/ pc \in {"waitAuth", "analyse", "callBank"} \cup Booking
       \/ pc = "gen2" /\ rev = a
       \/ Retried

\* The host has decided, as the terminal knows.
Understood ==
    \/ pc = "callBank" \/ Retried
    \/ pc \in {"analyse", "gen2"} \cup Booking /\ cur.result \in {"authorized", "cancelled"}

\* Its reversal is armed, or is being stored again.
Stored(a) ==
    /\ a \notin hit
    /\ \/ sendReversalBit /\ rev = a
       \/ /\ InHand /\ a = cur.id /\ cur.resave
          /\ pc \in Saving \ {"rev"} \/ (pc = "rev" /\ rev = a)

ToBeAsked(a) == InHand /\ a = cur.id /\ ~cur.resave /\ pc \in Saving \cup {"ask"}

Status(a) ==
    IF rows[a] # "none" THEN
        IF a \notin hit /\ fate[a].result = "authorized" THEN "kept" ELSE "adrift"
    ELSE IF InQuestion(a) THEN IF Understood THEN "answered" ELSE "asked"
    ELSE IF Stored(a) THEN IF ToBeAsked(a) THEN "armed" ELSE "pending"
    ELSE IF (InHand /\ a = cur.id) \/ a > nAttempt THEN "none"
    ELSE IF MayBeApproved(a) THEN "adrift" ELSE "undone"

statusBar  == [a \in Attempt |-> Status(a)]
hostHasBar == {a \in Attempt : host[a] = "approved"}

Ledger == INSTANCE ChipLedger WITH status <- statusBar, hostHas <- hostHasBar

\* What has become of a chip sale moves as ChipLedger allows and no other way: a request
\* goes out only behind its armed reversal, one sale at a time; what was kept or undone
\* stays so at both ends; the host and the terminal part only over a sale that was not
\* answered, one whose reversal a later sale threw away, or one a power failure caught.
ImplementsChipLedger == Ledger!Spec
=============================================================================
