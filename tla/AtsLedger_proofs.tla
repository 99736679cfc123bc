--------------------------- MODULE AtsLedger_proofs ---------------------------
(***************************************************************************)
(* AtsOnline implements TxnLedger for every value of the constants.  The   *)
(* inductive invariant of AtsOnline_proofs tells which step of the ledger  *)
(* each action is: storing the reversal opens an attempt, the host's       *)
(* answers decide it, clearing the reversal without booking undoes it, the *)
(* batch row keeps it, a power failure while booking loses it, and every   *)
(* other action is a stutter.  The row of a sale taken for approved        *)
(* presumes it, and clearing its reversal disowns it.                      *)
(***************************************************************************)
EXTENDS AtsOnline_proofs

USE AtsAssumption
    DEF AtsAssumption, Attempt, Kind, NoFile, Empty, None, NoAnswer, Booking, Clearing,
        Saving, Asking, Answer, HostState, NoCur, Unchecked, hdpt, books, line, hist,
        TypeOK, PC, Message, FreshRequest, NothingUnasked, ArmedIsReadable, ArmedWhenNeeded, LineIsArmed,
        AnswerIsTrue, BookingIsApproved, RecordedIsApproved, OnlySalesRefer,
        NoOrphanApproval, ReversalPending, BookingOf

\* What the ledger has in question, open or presumed.
IsOpen(a) == ReversalPending(a) \/ BookingOf(a)

\* What the refinement mapping says of each attempt.
LEMMA StatusOf ==
  ASSUME NEW a \in Attempt
  PROVE  statusBar[a] = IF a \in lost \ presumed THEN "lost"
                     ELSE IF a \in Recorded \ presumed THEN "kept"
                     ELSE IF IsOpen(a) THEN IF a \in Recorded THEN "presumed" ELSE "open"
                     ELSE IF a \in Recorded THEN "disowned"
                     ELSE IF a <= nAttempt THEN "undone"
                     ELSE "none"
BY DEF statusBar, IsOpen

\* An action that changes none of the six leaves the ledger alone.
LEMMA LedgerStutters ==
  ASSUME UNCHANGED <<host, lost, presumed, nAttempt>>, Recorded' = Recorded,
         \A a \in Attempt : IsOpen(a)' = IsOpen(a)
  PROVE  UNCHANGED Ledger!ledgerVars
BY DEF statusBar, hostHasBar, Ledger!ledgerVars, IsOpen

\* At most one attempt is in question, and none that is kept or lost.
LEMMA OneOpen ==
  ASSUME IInv, NEW a \in Attempt, IsOpen(a)
  PROVE  /\ a \notin lost \ presumed /\ a \notin Recorded \ presumed
         /\ statusBar[a] = IF a \in Recorded THEN "presumed" ELSE "open"
         /\ \A b \in Attempt : IsOpen(b) => b = a
<1>1. a \notin lost \ presumed /\ a \notin Recorded \ presumed
      /\ \A b \in Attempt : IsOpen(b) => b = a
  BY DEF IInv, IsOpen
<1> QED BY <1>1, StatusOf

\* A new terminal is an empty ledger.
LEMMA InitRefines == Init => Ledger!Init
<1> SUFFICES ASSUME Init PROVE Ledger!Init
  OBVIOUS
<1>1. Recorded = {}
  BY DEF Init, Recorded
<1>2. \A a \in Attempt : statusBar[a] = "none"
  BY <1>1 DEF Init, statusBar, IsOpen
<1>3. statusBar = [a \in Attempt |-> "none"]
  BY <1>2 DEF statusBar
<1>4. hostHasBar = {}
  BY DEF Init, hostHasBar
<1> QED BY <1>3, <1>4 DEF Ledger!Init

(* The steps that move the ledger.                                         *)

\* Arming the stored reversal opens the request in the ledger.
LEMMA SaveOpens ==
  ASSUME IInv, ReversalSaveBit
  PROVE  Ledger!Next
<1>1. cur.id \in Attempt /\ cur.id = nAttempt + 1 /\ ~sendReversalBit
  BY DEF IInv, ReversalSaveBit
<1>2. /\ Recorded' = Recorded /\ lost' = lost /\ presumed' = presumed /\ host' = host
      /\ nAttempt' = cur.id
  BY DEF ReversalSaveBit, Recorded
<1>3. \A b \in Attempt : IsOpen(b)' <=> b = cur.id
  BY <1>1 DEF IsOpen, ReversalSaveBit, IInv
<1>4. \A b \in Attempt : ~IsOpen(b)
  BY DEF IsOpen, ReversalSaveBit, IInv
<1>5. statusBar[cur.id] = "none" /\ \A b \in Attempt : statusBar[b] \notin {"open", "presumed"}
  BY <1>1, <1>4, StatusOf DEF IInv
<1>6. \A b \in Attempt : statusBar'[b] = IF b = cur.id THEN "open" ELSE statusBar[b]
  BY <1>1, <1>2, <1>3, <1>4, StatusOf DEF IInv, statusBar, IsOpen
<1>7. statusBar' = [statusBar EXCEPT ![cur.id] = "open"]
  BY <1>6 DEF statusBar
<1>8. UNCHANGED hostHasBar
  BY <1>2 DEF hostHasBar
<1> QED BY <1>1, <1>5, <1>7, <1>8 DEF Ledger!Next, Ledger!Open, Ledger!InQuestion

\* Clearing the bit after a refusal or a confirmed reversal undoes the request, and disowns it
\* when it has a row.
LEMMA AnswerUndoes ==
  ASSUME IInv, NEW a \in Attempt, IsOpen(a), host[a] # "approved",
         UNCHANGED <<host, lost, presumed, nAttempt>>, Recorded' = Recorded,
         \A b \in Attempt : ~IsOpen(b)'
  PROVE  Ledger!Next
<1> DEFINE outcome == IF a \in Recorded THEN "disowned" ELSE "undone"
<1>1. a <= nAttempt /\ a \notin hostHasBar
  BY DEF IInv, IsOpen, hostHasBar
<1>2. statusBar[a] = (IF a \in Recorded THEN "presumed" ELSE "open")
      /\ \A b \in Attempt \ {a} : ~IsOpen(b)
  BY OneOpen
<1>3. \A b \in Attempt : statusBar'[b] = IF b = a THEN outcome ELSE statusBar[b]
  BY <1>1, <1>2, OneOpen DEF statusBar, IsOpen, IInv
<1>4. statusBar' = [statusBar EXCEPT ![a] = outcome]
  BY <1>3 DEF statusBar
<1>5. UNCHANGED hostHasBar
  BY DEF hostHasBar
<1> QED BY <1>1, <1>2, <1>4, <1>5 DEF Ledger!Next, Ledger!Resolve, Ledger!Disown

\* Writing the row keeps the request in the ledger, or presumes it.
LEMMA InsertKeeps ==
  ASSUME IInv, InsertRow
  PROVE  Ledger!Next
<1> DEFINE outcome == IF cur.id \in presumed THEN "presumed" ELSE "kept"
<1>1. /\ cur.id \in Attempt /\ cur.kind \in Kind
      /\ cur.id \in presumed \/ cur.id \in hostHasBar
      /\ cur.id \notin Recorded /\ cur.id \notin lost /\ IsOpen(cur.id)
  BY DEF IInv, InsertRow, IsOpen, hostHasBar
<1>2. Recorded' = Recorded \cup {cur.id}
  BY <1>1, InsertAddsCurrent DEF IInv
<1>3. UNCHANGED <<host, lost, presumed, nAttempt>>
      /\ \A b \in Attempt : IsOpen(b)' <=> b = cur.id /\ b \in presumed
  BY <1>1 DEF InsertRow, IsOpen, IInv
<1>4. statusBar[cur.id] = "open" /\ \A b \in Attempt \ {cur.id} : ~IsOpen(b)
  BY <1>1, OneOpen
<1>5. \A b \in Attempt : statusBar'[b] = IF b = cur.id THEN outcome ELSE statusBar[b]
  BY <1>1, <1>2, <1>3, <1>4 DEF statusBar, IsOpen
<1>6. statusBar' = [statusBar EXCEPT ![cur.id] = outcome]
  BY <1>5 DEF statusBar
<1>7. UNCHANGED hostHasBar
  BY <1>3 DEF hostHasBar
<1> QED BY <1>1, <1>4, <1>6, <1>7 DEF Ledger!Next, Ledger!Resolve, Ledger!Presume

\* What the host books for a request in question is its decision in the ledger.
LEMMA HostDecides ==
  ASSUME IInv, net # None, Recorded' = Recorded, NEW s \in HostState,
         host' = [host EXCEPT ![net.id] = s],
         UNCHANGED <<lost, presumed, nAttempt, pc, cur, sendReversalBit, reversalFile>>
  PROVE  Ledger!Next
<1>1. net.id \in Attempt /\ IsOpen(net.id)
  BY DEF IInv, IsOpen
<1>2. statusBar[net.id] \in {"open", "presumed"}
  BY <1>1, OneOpen
<1>3. UNCHANGED statusBar
  BY DEF statusBar
<1>4. hostHasBar' = IF s = "approved" THEN hostHasBar \cup {net.id} ELSE hostHasBar \ {net.id}
  BY <1>1 DEF hostHasBar, IInv
<1>5. hostHasBar' \in {hostHasBar \cup {net.id}, hostHasBar \ {net.id}}
  BY <1>4
<1> QED BY <1>1, <1>2, <1>3, <1>5 DEF Ledger!Next, Ledger!Decide, Ledger!InQuestion

\* A power failure inside the booking loses the approved request being booked; one taken for
\* approved is still to be reversed.
LEMMA CrashLoses ==
  ASSUME IInv, Crash
  PROVE  [Ledger!Next]_(Ledger!ledgerVars)
<1>1. Recorded' = Recorded /\ UNCHANGED <<host, presumed, nAttempt>>
  BY DEF Crash, Recorded
<1>2. CASE pc \notin Booking
  <2>1. lost' = lost /\ \A a \in Attempt : IsOpen(a)' = IsOpen(a)
    BY <1>2 DEF Crash, IsOpen
  <2> QED BY <1>1, <2>1, LedgerStutters
<1>3. CASE pc \in Booking /\ cur.id \in presumed
  <2>1. sendReversalBit /\ reversalFile = cur.id
    BY <1>3 DEF IInv
  <2>2. lost' \ presumed = lost \ presumed /\ \A a \in Attempt : IsOpen(a)' = IsOpen(a)
    BY <1>3, <2>1 DEF Crash, IsOpen
  <2>3. UNCHANGED statusBar
    BY <1>1, <2>2 DEF statusBar, IsOpen
  <2>4. UNCHANGED hostHasBar
    BY <1>1 DEF hostHasBar
  <2> QED BY <2>3, <2>4 DEF Ledger!ledgerVars
<1>4. CASE pc \in Booking /\ cur.id \notin presumed
  <2>1. /\ cur.id \in Attempt /\ cur.id \in hostHasBar /\ IsOpen(cur.id)
        /\ ~sendReversalBit /\ cur.id <= nAttempt /\ cur.id \notin Recorded
    BY <1>4 DEF IInv, IsOpen, hostHasBar
  <2>2. lost' = lost \cup {cur.id} /\ \A b \in Attempt : ~IsOpen(b)'
    BY <1>4, <2>1 DEF Crash, IsOpen
  <2>3. statusBar[cur.id] = "open" /\ \A b \in Attempt \ {cur.id} : ~IsOpen(b)
    BY <2>1, OneOpen
  <2>4. \A b \in Attempt : statusBar'[b] = IF b = cur.id THEN "lost" ELSE statusBar[b]
    BY <1>1, <1>4, <2>1, <2>2, <2>3 DEF statusBar, IsOpen
  <2>5. statusBar' = [statusBar EXCEPT ![cur.id] = "lost"]
    BY <2>4 DEF statusBar
  <2>6. UNCHANGED hostHasBar
    BY <1>1 DEF hostHasBar
  <2> QED BY <2>1, <2>3, <2>5, <2>6 DEF Ledger!Next, Ledger!Resolve
<1> QED BY <1>2, <1>3, <1>4
-----------------------------------------------------------------------------
(* One lemma for each group of actions.                                    *)

\* Starting and connecting do not touch the ledger.
LEMMA BeforeRefines ==
  ASSUME IInv, Before PROVE [Ledger!Next]_(Ledger!ledgerVars)
<1>1. CASE StartSale
  <2>1. UNCHANGED <<host, lost, presumed, nAttempt>> /\ Recorded' = Recorded
    BY <1>1 DEF StartSale, Start, Recorded
  <2>2. \A a \in Attempt : IsOpen(a)' = IsOpen(a)
    BY <1>1 DEF StartSale, Start, IsOpen, IInv
  <2> QED BY <2>1, <2>2, LedgerStutters
<1>2. CASE StartVoid
  <2>1. UNCHANGED <<host, lost, presumed, nAttempt>> /\ Recorded' = Recorded
    BY <1>2 DEF StartVoid, Start, Recorded
  <2>2. \A a \in Attempt : IsOpen(a)' = IsOpen(a)
    BY <1>2 DEF StartVoid, Start, IsOpen, IInv
  <2> QED BY <2>1, <2>2, LedgerStutters
<1>3. CASE StartSettle
  <2>1. UNCHANGED <<host, lost, presumed, nAttempt>> /\ Recorded' = Recorded
    BY <1>3 DEF StartSettle, Start, Recorded
  <2>2. \A a \in Attempt : IsOpen(a)' = IsOpen(a)
    BY <1>3 DEF StartSettle, Start, IsOpen, IInv
  <2> QED BY <2>1, <2>2, LedgerStutters
<1>4. CASE ConnectFail
  <2>1. UNCHANGED <<host, lost, presumed, nAttempt>> /\ Recorded' = Recorded
    BY <1>4 DEF ConnectFail, Recorded
  <2>2. \A a \in Attempt : IsOpen(a)' = IsOpen(a)
    BY <1>4 DEF ConnectFail, IsOpen, IInv
  <2> QED BY <2>1, <2>2, LedgerStutters
<1>5. CASE Connected
  <2>1. UNCHANGED <<host, lost, presumed, nAttempt>> /\ Recorded' = Recorded
    BY <1>5 DEF Connected, AfterReversal, Recorded
  <2>2. \A a \in Attempt : IsOpen(a)' = IsOpen(a)
    BY <1>5 DEF Connected, AfterReversal, IsOpen, IInv
  <2> QED BY <2>1, <2>2, LedgerStutters
<1> QED BY <1>1, <1>2, <1>3, <1>4, <1>5 DEF Before

\* A confirmed reversal undoes its request, or disowns it; the other steps do not touch the ledger.
LEMMA ClearRefines ==
  ASSUME IInv, Clear PROVE [Ledger!Next]_(Ledger!ledgerVars)
<1>1. CASE SendReversal
  <2>1. UNCHANGED <<host, lost, presumed, nAttempt>> /\ Recorded' = Recorded
    BY <1>1 DEF SendReversal, Recorded
  <2>2. \A a \in Attempt : IsOpen(a)' = IsOpen(a)
    BY <1>1 DEF SendReversal, IsOpen, IInv
  <2> QED BY <2>1, <2>2, LedgerStutters
<1>2. CASE ReversalAnswered
  <2>1. UNCHANGED <<host, lost, presumed, nAttempt>> /\ Recorded' = Recorded
    BY <1>2 DEF ReversalAnswered, Recorded
  <2>2. CASE reply = "approve"
    <3>1. reversalFile \in Attempt /\ IsOpen(reversalFile) /\ host[reversalFile] # "approved"
      BY <1>2, <2>2 DEF ReversalAnswered, IInv, IsOpen
    <3>2. \A b \in Attempt : ~IsOpen(b)'
      BY <1>2, <2>2 DEF ReversalAnswered, IsOpen
    <3> QED BY <2>1, <3>1, <3>2, AnswerUndoes
  <2>3. CASE reply # "approve"
    <3>1. \A b \in Attempt : IsOpen(b)' = IsOpen(b)
      BY <1>2, <2>3 DEF ReversalAnswered, IsOpen
    <3> QED BY <2>1, <3>1, LedgerStutters
  <2> QED BY <2>2, <2>3
<1>3. CASE DeleteReversal
  <2>1. UNCHANGED <<host, lost, presumed, nAttempt>> /\ Recorded' = Recorded
    BY <1>3 DEF DeleteReversal, AfterReversal, Recorded
  <2>2. \A a \in Attempt : IsOpen(a)' = IsOpen(a)
    BY <1>3 DEF DeleteReversal, AfterReversal, IsOpen, IInv
  <2> QED BY <2>1, <2>2, LedgerStutters
<1> QED BY <1>1, <1>2, <1>3 DEF Clear

\* The last of the four writes opens the request; the others do not touch the ledger.
LEMMA SaveRefines ==
  ASSUME IInv, Save PROVE [Ledger!Next]_(Ledger!ledgerVars)
<1>1. CASE ReversalSaveDelete
  <2>1. UNCHANGED <<host, lost, presumed, nAttempt>> /\ Recorded' = Recorded
    BY <1>1 DEF ReversalSaveDelete, SaveFile, Recorded
  <2>2. \A a \in Attempt : IsOpen(a)' = IsOpen(a)
    BY <1>1 DEF ReversalSaveDelete, SaveFile, IsOpen, IInv
  <2> QED BY <2>1, <2>2, LedgerStutters
<1>2. CASE ReversalSaveCreate
  <2>1. UNCHANGED <<host, lost, presumed, nAttempt>> /\ Recorded' = Recorded
    BY <1>2 DEF ReversalSaveCreate, SaveFile, Recorded
  <2>2. \A a \in Attempt : IsOpen(a)' = IsOpen(a)
    BY <1>2 DEF ReversalSaveCreate, SaveFile, IsOpen, IInv
  <2> QED BY <2>1, <2>2, LedgerStutters
<1>3. CASE ReversalSaveWrite
  <2>1. UNCHANGED <<host, lost, presumed, nAttempt>> /\ Recorded' = Recorded
    BY <1>3 DEF ReversalSaveWrite, SaveFile, Recorded
  <2>2. \A a \in Attempt : IsOpen(a)' = IsOpen(a)
    BY <1>3 DEF ReversalSaveWrite, SaveFile, IsOpen, IInv
  <2> QED BY <2>1, <2>2, LedgerStutters
<1>4. CASE ReversalSaveBit
  BY <1>4, SaveOpens
<1> QED BY <1>1, <1>2, <1>3, <1>4 DEF Save

\* A refusal undoes the request; approval, time-out and the rest do not touch the ledger, which
\* learns of a sale taken for approved by its row.
LEMMA AskRefines ==
  ASSUME IInv, Ask PROVE [Ledger!Next]_(Ledger!ledgerVars)
<1>1. CASE SendAuth
  <2>1. UNCHANGED <<host, lost, presumed, nAttempt>> /\ Recorded' = Recorded
    BY <1>1 DEF SendAuth, Recorded
  <2>2. \A a \in Attempt : IsOpen(a)' = IsOpen(a)
    BY <1>1 DEF SendAuth, IsOpen, IInv
  <2> QED BY <2>1, <2>2, LedgerStutters
<1>2. CASE Timeout
  <2>1. UNCHANGED <<host, lost, presumed, nAttempt>> /\ Recorded' = Recorded
    BY <1>2 DEF Timeout, Recorded
  <2>2. \A a \in Attempt : IsOpen(a)' = IsOpen(a)
    BY <1>2 DEF Timeout, IsOpen, IInv
  <2> QED BY <2>1, <2>2, LedgerStutters
<1>3. CASE Authorized
  <2>1. UNCHANGED <<host, lost, presumed, nAttempt>> /\ Recorded' = Recorded
    BY <1>3 DEF Authorized, Answered, Recorded
  <2>2. \A a \in Attempt : IsOpen(a)' = IsOpen(a)
    BY <1>3 DEF Authorized, Answered, IsOpen, IInv
  <2> QED BY <2>1, <2>2, LedgerStutters
<1>4. CASE Cancelled
  <2>1. UNCHANGED <<host, lost, presumed, nAttempt>> /\ Recorded' = Recorded
    BY <1>4 DEF Cancelled, Answered, Recorded
  <2>2. cur.id \in Attempt /\ IsOpen(cur.id) /\ host[cur.id] # "approved"
    BY <1>4 DEF Cancelled, Answered, IInv, IsOpen
  <2>3. \A b \in Attempt : ~IsOpen(b)'
    BY <1>4 DEF Cancelled, Answered, IsOpen
  <2> QED BY <2>1, <2>2, <2>3, AnswerUndoes
<1>5. CASE Unusable
  <2>1. UNCHANGED <<host, lost, presumed, nAttempt>> /\ Recorded' = Recorded
    BY <1>5 DEF Unusable, Answered, Recorded
  <2>2. \A a \in Attempt : IsOpen(a)' = IsOpen(a)
    BY <1>5 DEF Unusable, Answered, IsOpen, IInv
  <2> QED BY <2>1, <2>2, LedgerStutters
<1>6. CASE Referral
  <2>1. UNCHANGED <<host, lost, presumed, nAttempt>> /\ Recorded' = Recorded
    BY <1>6 DEF Referral, Answered, Recorded
  <2>2. cur.id \in Attempt /\ IsOpen(cur.id) /\ host[cur.id] # "approved"
    BY <1>6 DEF Referral, Answered, IInv, IsOpen
  <2>3. \A b \in Attempt : ~IsOpen(b)'
    BY <1>6 DEF Referral, Answered, IsOpen
  <2> QED BY <2>1, <2>2, <2>3, AnswerUndoes
<1>7. CASE ReferralApproved
  <2>1. UNCHANGED <<host, lost, presumed, nAttempt>> /\ Recorded' = Recorded
    BY <1>7 DEF ReferralApproved, Recorded
  <2>2. \A a \in Attempt : IsOpen(a)' = IsOpen(a)
    BY <1>7 DEF ReferralApproved, IsOpen, IInv
  <2> QED BY <2>1, <2>2, LedgerStutters
<1>8. CASE ReferralCancelled
  <2>1. UNCHANGED <<host, lost, presumed, nAttempt>> /\ Recorded' = Recorded
    BY <1>8 DEF ReferralCancelled, Recorded
  <2>2. \A a \in Attempt : IsOpen(a)' = IsOpen(a)
    BY <1>8 DEF ReferralCancelled, IsOpen, IInv
  <2> QED BY <2>1, <2>2, LedgerStutters
<1>9. CASE TakenForApproved
  <2>1. UNCHANGED <<host, lost, nAttempt>> /\ Recorded' = Recorded
        /\ presumed' = presumed \cup {cur.id}
    BY <1>9 DEF TakenForApproved, Recorded
  <2>2. IsOpen(cur.id) /\ cur.id \notin Recorded \cup lost
    BY <1>9 DEF TakenForApproved, IsOpen, IInv
  <2>3. \A a \in Attempt : IsOpen(a)' = IsOpen(a)
    BY <1>9 DEF TakenForApproved, IsOpen, IInv
  <2>4. UNCHANGED statusBar
    BY <2>1, <2>2, <2>3 DEF statusBar, IsOpen
  <2>5. UNCHANGED hostHasBar
    BY <2>1 DEF hostHasBar
  <2> QED BY <2>4, <2>5 DEF Ledger!ledgerVars
<1> QED BY <1>1, <1>2, <1>3, <1>4, <1>5, <1>6, <1>7, <1>8, <1>9 DEF Ask

\* The insert keeps the request; the rest of the booking does not touch the ledger.
LEMMA BookRefines ==
  ASSUME IInv, Book PROVE [Ledger!Next]_(Ledger!ledgerVars)
<1>1. CASE PiggybackAdvice
  <2>1. UNCHANGED <<host, lost, presumed, nAttempt>> /\ Recorded' = Recorded
    BY <1>1 DEF PiggybackAdvice, Recorded
  <2>2. \A a \in Attempt : IsOpen(a)' = IsOpen(a)
    BY <1>1 DEF PiggybackAdvice, IsOpen, IInv
  <2> QED BY <2>1, <2>2, LedgerStutters
<1>2. CASE UpdateAccum
  <2>1. UNCHANGED <<host, lost, presumed, nAttempt>> /\ Recorded' = Recorded
    BY <1>2 DEF UpdateAccum, Recorded
  <2>2. \A a \in Attempt : IsOpen(a)' = IsOpen(a)
    BY <1>2 DEF UpdateAccum, IsOpen, IInv
  <2> QED BY <2>1, <2>2, LedgerStutters
<1>3. CASE MarkOldRow
  <2>1. Recorded' = Recorded
    BY <1>3, MarkKeepsRecorded DEF IInv
  <2>2. UNCHANGED <<host, lost, presumed, nAttempt>> /\ \A a \in Attempt : IsOpen(a)' = IsOpen(a)
    BY <1>3 DEF MarkOldRow, IsOpen
  <2> QED BY <2>1, <2>2, LedgerStutters
<1>4. CASE InsertRow
  BY <1>4, InsertKeeps
<1>5. CASE UpdateInvNum
  <2>1. UNCHANGED <<host, lost, presumed, nAttempt>> /\ Recorded' = Recorded
    BY <1>5 DEF UpdateInvNum, SaveInvoice, Recorded
  <2>2. \A a \in Attempt : IsOpen(a)' = IsOpen(a)
    BY <1>5 DEF UpdateInvNum, SaveInvoice, IsOpen, IInv
  <2> QED BY <2>1, <2>2, LedgerStutters
<1>6. CASE CheckOverLimit
  <2>1. UNCHANGED <<host, lost, presumed, nAttempt>> /\ Recorded' = Recorded
    BY <1>6 DEF CheckOverLimit, RaiseMustSettle, Recorded
  <2>2. \A a \in Attempt : IsOpen(a)' = IsOpen(a)
    BY <1>6 DEF CheckOverLimit, RaiseMustSettle, IsOpen, IInv
  <2> QED BY <2>1, <2>2, LedgerStutters
<1> QED BY <1>1, <1>2, <1>3, <1>4, <1>5, <1>6 DEF Book

\* Closing the batch does not touch the ledger: what it held stays kept.
LEMMA SettleRefines ==
  ASSUME IInv, Settle PROVE [Ledger!Next]_(Ledger!ledgerVars)
<1>1. CASE SettleFailed
  <2>1. UNCHANGED <<host, lost, presumed, nAttempt>> /\ Recorded' = Recorded
    BY <1>1 DEF SettleFailed, Recorded
  <2>2. \A a \in Attempt : IsOpen(a)' = IsOpen(a)
    BY <1>1 DEF SettleFailed, IsOpen, IInv
  <2> QED BY <2>1, <2>2, LedgerStutters
<1>2. CASE CloseBatch
  <2>1. UNCHANGED <<host, lost, presumed, nAttempt>> /\ Recorded' = Recorded
    BY <1>2 DEF CloseBatch, Recorded
  <2>2. \A a \in Attempt : IsOpen(a)' = IsOpen(a)
    BY <1>2 DEF CloseBatch, IsOpen, IInv
  <2> QED BY <2>1, <2>2, LedgerStutters
<1> QED BY <1>1, <1>2 DEF Settle

\* Start-up does not touch the ledger.
LEMMA RestartRefines ==
  ASSUME IInv, Restart PROVE [Ledger!Next]_(Ledger!ledgerVars)
<1>1. CASE Boot
  <2>1. UNCHANGED <<host, lost, presumed, nAttempt>> /\ Recorded' = Recorded
    BY <1>1 DEF Boot, Recorded
  <2>2. \A a \in Attempt : IsOpen(a)' = IsOpen(a)
    BY <1>1 DEF Boot, IsOpen, IInv
  <2> QED BY <2>1, <2>2, LedgerStutters
<1>2. CASE FixInvoice
  <2>1. UNCHANGED <<host, lost, presumed, nAttempt>> /\ Recorded' = Recorded
    BY <1>2 DEF FixInvoice, SaveInvoice, Recorded
  <2>2. \A a \in Attempt : IsOpen(a)' = IsOpen(a)
    BY <1>2 DEF FixInvoice, SaveInvoice, IsOpen, IInv
  <2> QED BY <2>1, <2>2, LedgerStutters
<1>3. CASE FixOverLimit
  <2>1. UNCHANGED <<host, lost, presumed, nAttempt>> /\ Recorded' = Recorded
    BY <1>3 DEF FixOverLimit, RaiseMustSettle, Recorded
  <2>2. \A a \in Attempt : IsOpen(a)' = IsOpen(a)
    BY <1>3 DEF FixOverLimit, RaiseMustSettle, IsOpen, IInv
  <2> QED BY <2>1, <2>2, LedgerStutters
<1>4. CASE BumpInvoice
  <2>1. UNCHANGED <<host, lost, presumed, nAttempt>> /\ Recorded' = Recorded
    BY <1>4 DEF BumpInvoice, SaveInvoice, Recorded
  <2>2. \A a \in Attempt : IsOpen(a)' = IsOpen(a)
    BY <1>4 DEF BumpInvoice, SaveInvoice, IsOpen, IInv
  <2> QED BY <2>1, <2>2, LedgerStutters
<1>5. CASE BumpOverLimit
  <2>1. UNCHANGED <<host, lost, presumed, nAttempt>> /\ Recorded' = Recorded
    BY <1>5 DEF BumpOverLimit, RaiseMustSettle, Recorded
  <2>2. \A a \in Attempt : IsOpen(a)' = IsOpen(a)
    BY <1>5 DEF BumpOverLimit, RaiseMustSettle, IsOpen, IInv
  <2> QED BY <2>1, <2>2, LedgerStutters
<1> QED BY <1>1, <1>2, <1>3, <1>4, <1>5 DEF Restart

\* A host decision is one of the ledger; losing a message does not touch it.
LEMMA HostRefines ==
  ASSUME IInv, Host PROVE [Ledger!Next]_(Ledger!ledgerVars)
<1>1. CASE HostAuthorize
  <2>1. net # None /\ host' = [host EXCEPT ![net.id] = "approved"] /\ Recorded' = Recorded
        /\ UNCHANGED <<lost, presumed, nAttempt, pc, cur, sendReversalBit, reversalFile>>
    BY <1>1 DEF HostAuthorize, Deliver, Recorded
  <2> QED BY <2>1, HostDecides
<1>2. CASE HostDecline
  <2>1. net # None /\ host' = [host EXCEPT ![net.id] = "declined"] /\ Recorded' = Recorded
        /\ UNCHANGED <<lost, presumed, nAttempt, pc, cur, sendReversalBit, reversalFile>>
    BY <1>2 DEF HostDecline, Deliver, Recorded
  <2> QED BY <2>1, HostDecides
<1>3. CASE HostReverse
  <2>1. net # None /\ host' = [host EXCEPT ![net.id] = "reversed"] /\ Recorded' = Recorded
        /\ UNCHANGED <<lost, presumed, nAttempt, pc, cur, sendReversalBit, reversalFile>>
    BY <1>3 DEF HostReverse, Deliver, Recorded
  <2> QED BY <2>1, HostDecides
<1>4. CASE HostRefuseReversal
  <2>1. UNCHANGED <<host, lost, presumed, nAttempt>> /\ Recorded' = Recorded
    BY <1>4 DEF HostRefuseReversal, Deliver, Recorded
  <2>2. \A a \in Attempt : IsOpen(a)' = IsOpen(a)
    BY <1>4 DEF HostRefuseReversal, Deliver, IsOpen, IInv
  <2> QED BY <2>1, <2>2, LedgerStutters
<1>5. CASE LoseRequest
  <2>1. UNCHANGED <<host, lost, presumed, nAttempt>> /\ Recorded' = Recorded
    BY <1>5 DEF LoseRequest, Recorded
  <2>2. \A a \in Attempt : IsOpen(a)' = IsOpen(a)
    BY <1>5 DEF LoseRequest, IsOpen, IInv
  <2> QED BY <2>1, <2>2, LedgerStutters
<1> QED BY <1>1, <1>2, <1>3, <1>4, <1>5 DEF Host

\* Every step of the flow is a step of the ledger or leaves it unchanged.
LEMMA StepRefines == IInv /\ [Next]_vars => [Ledger!Next]_(Ledger!ledgerVars)
<1>1. ASSUME UNCHANGED vars PROVE UNCHANGED Ledger!ledgerVars
  BY <1>1 DEF vars, Ledger!ledgerVars, statusBar, hostHasBar, Recorded
<1> QED
  BY <1>1, BeforeRefines, ClearRefines, SaveRefines, AskRefines, BookRefines,
     SettleRefines, CrashLoses, RestartRefines, HostRefines DEF Next

\* The transaction path of NCCCats.c, with its crashes, retries, lost answers and referrals of
\* referrals, does nothing the ledger forbids: one request in question at a time, every outcome
\* the same on both sides and none revised, but for the power failures inside the booking and for
\* the sales taken for approved, which keep the next request back until the host disowns them.
THEOREM SpecImplementsLedger == Spec => ImplementsLedger
BY InitRefines, StepRefines, SpecIInv, PTL DEF Spec, ImplementsLedger, Ledger!Spec

-----------------------------------------------------------------------------
(***************************************************************************)
(* What the ledger means for the transactions.                             *)
(***************************************************************************)

\* At every step the host stands by what the terminal kept or a power failure lost, and not by
\* what was undone, disowned or not asked yet; at most one request is in question, that of a sale
\* taken for approved included.
THEOREM SpecOutcomesAgree == Spec => []Ledger!OutcomesAgree
<1>1. Ledger!Init => Ledger!OutcomesAgree
  BY DEF Ledger!Init, Ledger!OutcomesAgree, Ledger!InQuestion
<1>2. statusBar = [a \in Attempt |-> statusBar[a]]
  BY DEF statusBar
<1>3. Ledger!OutcomesAgree /\ [Ledger!Next]_(Ledger!ledgerVars) => Ledger!OutcomesAgree'
  <2> SUFFICES ASSUME Ledger!OutcomesAgree, [Ledger!Next]_(Ledger!ledgerVars)
               PROVE  Ledger!OutcomesAgree'
    OBVIOUS
  <2> USE DEF Ledger!OutcomesAgree, Ledger!InQuestion
  <2>1. ASSUME NEW a \in Attempt, Ledger!Open(a) PROVE Ledger!OutcomesAgree'
    BY <1>2, <2>1 DEF Ledger!Open
  <2>2. ASSUME NEW a \in Attempt, Ledger!Decide(a) PROVE Ledger!OutcomesAgree'
    BY <1>2, <2>2 DEF Ledger!Decide
  <2>3. ASSUME NEW a \in Attempt, Ledger!Presume(a) \/ Ledger!Disown(a)
        PROVE  Ledger!OutcomesAgree'
    BY <1>2, <2>3 DEF Ledger!Presume, Ledger!Disown
  <2>4. ASSUME NEW a \in Attempt, NEW outcome \in {"kept", "undone", "lost"},
               Ledger!Resolve(a, outcome)
        PROVE  Ledger!OutcomesAgree'
    BY <1>2, <2>4 DEF Ledger!Resolve
  <2>5. CASE UNCHANGED Ledger!ledgerVars
    BY <2>5 DEF Ledger!ledgerVars
  <2> QED BY <2>1, <2>2, <2>3, <2>4, <2>5 DEF Ledger!Next
<1> QED BY <1>1, <1>3, SpecImplementsLedger, PTL DEF ImplementsLedger, Ledger!Spec

\* An outcome is never revised, at neither end, not by retries, late answers, referrals or power
\* failures; what the terminal presumed it never unbooks, and the host can only disown it.
THEOREM SpecOutcomesAreFinal == Spec => Ledger!OutcomesAreFinal
<1> DEFINE Final ==
      \A a \in Attempt :
          /\ statusBar[a] \in {"kept", "undone", "lost", "disowned"} =>
                statusBar'[a] = statusBar[a] /\ (a \in hostHasBar' <=> a \in hostHasBar)
          /\ statusBar[a] = "presumed" => statusBar'[a] \in {"presumed", "disowned"}
<1>1. statusBar = [a \in Attempt |-> statusBar[a]]
  BY DEF statusBar
<1>2. Ledger!Next => Final
  BY <1>1 DEF Ledger!Next, Ledger!Open, Ledger!Decide, Ledger!Resolve, Ledger!Presume,
     Ledger!Disown, Ledger!InQuestion
<1>3. [Ledger!Next]_(Ledger!ledgerVars) => [Final]_(Ledger!ledgerVars)
  BY <1>2
<1> QED BY <1>3, SpecImplementsLedger, PTL
       DEF ImplementsLedger, Ledger!Spec, Ledger!OutcomesAreFinal
=============================================================================
