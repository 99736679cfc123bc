-------------------------- MODULE EmvLedger_proofs --------------------------
(***************************************************************************)
(* EmvOnline implements ChipLedger for every value of the constants.  Four *)
(* more facts are needed than the properties of EmvOnline need; with them  *)
(* the inductive invariant tells which step of the ledger each action is.  *)
(***************************************************************************)
EXTENDS EmvOnline_proofs

(***************************************************************************)
(* What the ledger needs beyond IInv.                                      *)
(***************************************************************************)

\* A sale whose reversal is not in its file when the chip decides was never asked.
UnaskedFits ==
    InHand /\ (pc = "gen2" \/ (pc = "rev" /\ cur.resave)) /\ rev # cur.id
        => ~MayBeApproved(cur.id)

\* A pending reversal of a sale the host may stand by is armed in every file.
PendingFits ==
    \A a \in Attempt \ hit :
        sendReversalBit /\ rev = a /\ rows[a] = "none" /\ MayBeApproved(a)
            => Armed(a) \/ (InHand /\ a = cur.id)

\* A referral leaves the reversal in its file; a refused sale is not booked.
ReferralFits ==
    /\ pc = "callBank" => rev = cur.id
    /\ pc = "bookSent" => cur.result # "cancelled"

\* The settlement sends the head of the advice file only if it has a row.
HeadFits == pc = "waitAdvice" => rows[Head(queue)] # "none"

LInv == IInv /\ UnaskedFits /\ PendingFits /\ ReferralFits /\ HeadFits

USE EmvAssumption
    DEF EmvAssumption, Attempt, NoFile, None, files, books, line, hist, Goto, Finish,
        Saving, Booking, Waiting, Before, Asking, Settling, DbkSteps, InHand, MayBeApproved,
        Forced, Armed

\* Where a failed transaction goes, and what of it stays.
LEMMA FailsFacts ==
  ASSUME TypeOK, NEW from, NEW result, Fails(from, result)
  PROVE  /\ pc = from
         /\ cur'.id = cur.id /\ cur'.kind = cur.kind /\ cur'.resave = cur.resave
         /\ cur'.calls = cur.calls /\ cur'.result = result
         /\ \/ pc' = "bookSent" /\ cur.calls > 1 /\ from = "waitAuth"
            \/ pc' = "idle" /\ (cur.kind = "SETTLE" \/ cur.calls > 0)
            \/ pc' = "gen2" /\ cur.kind # "SETTLE" /\ ~(cur.calls > 0)
<1>1. /\ cur'.id = cur.id /\ cur'.kind = cur.kind /\ cur'.resave = cur.resave
      /\ cur'.calls = cur.calls /\ cur'.result = result
  BY DEF Fails, TypeOK
<1>2. cur.calls \in Nat
  BY DEF TypeOK
<1> QED BY <1>1, <1>2 DEF Fails

\* A step of the dialogue keeps the four facts.
LEMMA DialogueFits ==
  ASSUME LInv, IInv', Dialogue \/ StartSettle
  PROVE  LInv'
<1> USE DEF LInv, UnaskedFits, PendingFits, ReferralFits, HeadFits, IInv
<1>1. CASE StartChipSale \/ StartSettle
  <2>1. pc = "idle" /\ pc' = "connect" /\ UNCHANGED <<files, rows, host, net, hit>>
    BY <1>1 DEF StartChipSale, StartSettle
  <2>2. PendingFits' /\ UnaskedFits' /\ ReferralFits' /\ HeadFits'
    BY <2>1
  <2> QED BY <2>2
<1>2. CASE Connected \/ SendReversal \/ ReversalConfirmed \/ DeleteReversal
  BY <1>2 DEF Connected, SendReversal, ReversalConfirmed, DeleteReversal, AfterReversal, CurFits,
     FilesFit
<1>3. CASE ConnectFail \/ ReversalUnreadable \/ ReversalRefused
  BY <1>3, FailsFacts DEF ConnectFail, ReversalUnreadable, ReversalRefused, NotAsked, CurFits,
     FilesFit
<1>4. CASE SendAuth \/ Answered \/ OnlineAnalyseEMV \/ AnalyseForced
  <2>1. CASE SendAuth
    <3>1. /\ pc = "ask" /\ pc' = "waitAuth" /\ rev = cur.id /\ cur.kind # "SETTLE"
          /\ UNCHANGED <<cur, files, rows, host, hit>>
      BY <2>1 DEF SendAuth, FilesFit, CurFits
    <3>2. PendingFits' /\ UnaskedFits' /\ ReferralFits' /\ HeadFits'
      BY <3>1
    <3> QED BY <3>2
  <2>2. CASE Answered
    BY <2>2 DEF Answered, FilesFit, CurFits, TypeOK
  <2>3. CASE OnlineAnalyseEMV
    <3>1. sendReversalBit' => sendReversalBit
      BY <2>3, Zenon DEF OnlineAnalyseEMV
    <3>2. /\ pc = "analyse" /\ pc' = "gen2" /\ rev = cur.id /\ cur.kind # "SETTLE"
          /\ UNCHANGED <<cur, rev, dbk, rows, host, net, hit>>
      BY <2>3 DEF OnlineAnalyseEMV, FilesFit, CurFits
    <3>3. ASSUME NEW a \in Attempt \ hit, sendReversalBit, rev = a
          PROVE  a = cur.id
      BY <3>2, <3>3
    <3>4. PendingFits'
      BY <3>1, <3>2, <3>3
    <3>5. UnaskedFits' /\ ReferralFits' /\ HeadFits'
      BY <3>2
    <3> QED BY <3>4, <3>5
  <2>4. CASE AnalyseForced
    <3>1. /\ ~sendReversalBit' /\ pc' \in {"bookSent", "idle"} /\ cur' = cur
          /\ pc' = "bookSent" => cur.result = "authorized"
      BY <2>4 DEF AnalyseForced
    <3> QED BY <3>1
  <2> QED BY <1>4, <2>1, <2>2, <2>3, <2>4
<1>5. CASE AnswerUnusable \/ Timeout
  <2>1. CASE Fails("waitReversal", "commError") /\ Timeout
    <3>1. UNCHANGED <<files, rows, host, net, hit>>
      BY <2>1 DEF Timeout
    <3> QED BY <2>1, <3>1, FailsFacts DEF CurFits, NotAsked
  <2>2. CASE pc = "waitAuth"
    <3>1. /\ UNCHANGED <<files, rows, host, net, hit>> /\ cur'.id = cur.id /\ cur'.kind = cur.kind
          /\ pc' \in {"idle", "analyse", "gen2", "bookSent"}
          /\ pc' = "bookSent" => cur'.result # "cancelled"
      BY <1>5, <2>2, FailsFacts DEF AnswerUnusable, Timeout, TypeOK
    <3>2. rev = cur.id /\ Armed(cur.id)
      BY <2>2 DEF FilesFit
    <3> QED BY <3>1, <3>2
  <2> QED BY <1>5, <2>1, <2>2 DEF AnswerUnusable, Timeout, Fails
<1>6. CASE Referral \/ ReferralDenied \/ ReferralApproved
  <2>1. CASE Referral
    BY <2>1 DEF Referral, FilesFit, CurFits
  <2>2. CASE ReferralDenied
    <3>1. UNCHANGED <<files, rows, host, net, hit>>
      BY <2>2 DEF ReferralDenied
    <3> QED BY <2>2, <3>1, FailsFacts DEF ReferralDenied, FilesFit
  <2>3. CASE ReferralApproved
    <3>1. /\ pc = "callBank" /\ pc' = "connect" /\ UNCHANGED <<files, rows, host, net, hit>>
      BY <2>3 DEF ReferralApproved
    <3> QED BY <3>1 DEF FilesFit
  <2> QED BY <1>6, <2>1, <2>2, <2>3
<1> QED BY <1>1, <1>2, <1>3, <1>4, <1>5, <1>6 DEF Dialogue

\* Storing a reversal and the chip's decision keep them.
LEMMA CompleteFits ==
  ASSUME LInv, IInv', Save \/ Complete
  PROVE  LInv'
<1> USE DEF LInv, UnaskedFits, PendingFits, ReferralFits, HeadFits, IInv
<1>1. CASE Save
  BY <1>1 DEF Save, RevDelete, RevWrite, RevBit, DbkDelete, DbkWrite, DbkBit, SaveStep, FilesFit,
     CurFits, Saved
<1>2. CASE ChipApproves \/ ChipRefuses
  BY <1>2 DEF ChipApproves, ChipRefuses, Decided, CurFits, FilesFit
<1>3. CASE ChipApprovesInVain
  BY <1>3 DEF ChipApprovesInVain, Decided, CurFits, Accounted, AtRisk, FateFits, NoFate
<1> QED BY <1>1, <1>2, <1>3 DEF Complete

\* Booking and settling keep them.
LEMMA BookFits ==
  ASSUME LInv, IInv', Book \/ Settle
  PROVE  LInv'
<1> USE DEF LInv, UnaskedFits, PendingFits, ReferralFits, HeadFits, IInv
<1>1. CASE Book
  <2>1. CASE UpdateBatch
    <3>1. /\ cur.id \in Attempt /\ rows \in [Attempt -> TCState] /\ RowState # "none"
          /\ rows' = [rows EXCEPT ![cur.id] = RowState] /\ pc' = "idle"
          /\ UNCHANGED <<cur, rest, files, host, net, hit>>
      BY <2>1 DEF UpdateBatch, TypeOK, CurFits, RowState
    <3>2. \A a \in Attempt : rows'[a] = "none" => rows[a] = "none" /\ a # cur.id
      BY <3>1
    <3> QED BY <3>1, <3>2
  <2> QED BY <1>1, <2>1 DEF Book, SendTC, TCSent, TCFailed, SaveTopDelete, SaveTopFirst,
         SaveTopHead, SaveTopRest, SaveTop, IsApproved, CurFits
<1>2. CASE Settle
  <2>1. ~sendReversalBit /\ ~sendReversalBit'
    BY <1>2 DEF Settle, SendAdvice, AdviceFailed, AdviceAccepted, AdviceUpdate,
       AdvicesDone, CloseBatch, SettleFailed, FilesFit
  <2>2. pc' \notin {"gen2", "rev", "callBank", "bookSent"}
    BY <1>2 DEF Settle, SendAdvice, AdviceFailed, AdviceAccepted, AdviceUpdate,
       AdvicesDone, CloseBatch, SettleFailed
  <2>3. HeadFits'
    <3>1. CASE SendAdvice
      BY <3>1 DEF SendAdvice, HasRow
    <3>2. CASE ~SendAdvice
      <4>1. pc' # "waitAdvice"
        BY <1>2, <3>2 DEF Settle, AdviceFailed, AdviceAccepted, AdviceUpdate,
           AdvicesDone, CloseBatch, SettleFailed
      <4> QED BY <4>1
    <3> QED BY <3>1, <3>2
  <2> QED BY <2>1, <2>2, <2>3
<1> QED BY <1>1, <1>2

\* So do a power failure, which ends the dialogue, and the host.
LEMMA MishapFits ==
  ASSUME LInv, IInv', Crash \/ Host \/ UNCHANGED vars
  PROVE  LInv'
<1> USE DEF LInv, UnaskedFits, PendingFits, ReferralFits, HeadFits, IInv
<1>1. CASE Crash
  <2>1. pc' = "idle" /\ hit \subseteq hit' /\ UNCHANGED <<rows, files, host, net>>
    BY <1>1 DEF Crash
  <2>2. ASSUME NEW a \in Attempt \ hit', sendReversalBit, rev = a, rows[a] = "none",
               MayBeApproved(a), InHand, a = cur.id
        PROVE  Armed(a)
    <3>1. a \notin Exposed
      BY <1>1, <2>2 DEF Crash
    <3>2. ~AtRisk(a)
      BY <2>2, <3>1 DEF Exposed, AtRisk
    <3>3. a \notin hit /\ a \notin displaced
      BY <2>1, <2>2 DEF CurFits
    <3>4. fate[a] = NoFate
      BY <2>2, <3>2 DEF FateFits, AtRisk
    <3> QED BY <2>2, <3>2, <3>3, <3>4 DEF Accounted, NoFate
  <2> QED BY <2>1, <2>2
<1>2. CASE Host
  <2>1. UNCHANGED <<pc, cur, files, books, hit>>
    BY <1>2 DEF Host, HostAuthorize, HostDecline, HostReverse, HostTakesTC, HostRefuses,
       LoseRequest, Deliver
  <2>2. \A a \in Attempt : MayBeApproved(a)' => MayBeApproved(a)
    BY <1>2 DEF Host, HostAuthorize, HostDecline, HostReverse, HostTakesTC, HostRefuses,
       LoseRequest, Deliver, TypeOK
  <2>3. InHand => cur.id \in Attempt
    BY DEF TypeOK, CurFits
  <2> QED BY <2>1, <2>2, <2>3
<1>3. CASE UNCHANGED vars
  BY <1>3 DEF vars
<1> QED BY <1>1, <1>2, <1>3

\* In every reachable state the four facts hold beside IInv.
THEOREM SpecLInv == Spec => []LInv
<1>1. Init => LInv
  BY InitInv DEF Init, LInv, UnaskedFits, PendingFits, ReferralFits, HeadFits
<1>2. LInv /\ IInv' /\ [Next]_vars => LInv'
  BY DialogueFits, CompleteFits, BookFits, MishapFits DEF Next
<1> QED BY <1>1, <1>2, SpecIInv, PTL DEF Spec
-----------------------------------------------------------------------------
(***************************************************************************)
(* What the mapping says of an attempt: of the one in hand, of others, and *)
(* of those a step does not touch.                                         *)
(***************************************************************************)

\* What is known of the sale in hand by the result so far.
ByResult == IF cur.result \in {"authorized", "cancelled"} THEN "answered" ELSE "asked"

\* The sale in hand, step by step of its flow.
InHandFits ==
    /\ cur.id \in Attempt /\ cur.id = nAttempt
    /\ pc = "waitAuth" => statusBar[cur.id] = "asked"
    /\ pc = "callBank" => statusBar[cur.id] = "answered"
    /\ pc \in {"analyse"} \cup Booking => statusBar[cur.id] = ByResult
    /\ pc = "gen2" => statusBar[cur.id] = IF rev = cur.id THEN ByResult ELSE "none"
    /\ pc \in Before \cup {"rev", "revWrite", "revBit"} /\ ~cur.resave =>
         statusBar[cur.id] = IF cur.calls > 0 THEN "answered" ELSE "none"
    /\ pc \in DbkSteps \cup {"ask"} /\ ~cur.resave => statusBar[cur.id] = "armed"
    /\ pc \in Saving /\ cur.resave =>
         statusBar[cur.id] = IF pc = "rev" /\ rev # cur.id THEN "none" ELSE "pending"

\* What the files and the result say of the sale in hand is what the mapping says.
LEMMA StatusInHand == IInv /\ InHand => InHandFits
<1> SUFFICES ASSUME IInv, InHand PROVE InHandFits
  OBVIOUS
<1>1. /\ cur.id \in Attempt /\ cur.id = nAttempt /\ cur.id \notin hit /\ rows[cur.id] = "none"
      /\ ~(cur.id > nAttempt)
  BY DEF IInv, CurFits, TypeOK
<1> DEFINE c == cur.id
<1>2. statusBar[c] = IF InQuestion(c) THEN IF Understood THEN "answered" ELSE "asked"
                  ELSE IF Stored(c) THEN IF ToBeAsked(c) THEN "armed" ELSE "pending"
                  ELSE "none"
  BY <1>1 DEF Status, statusBar
<1>3. pc \in {"waitAuth", "callBank", "analyse"} \cup Booking => InQuestion(c)
  BY DEF InQuestion
<1>4. pc = "waitAuth" => ~Understood
  BY DEF Understood, Retried
<1>5. pc = "callBank" => Understood
  BY DEF Understood
<1>6. pc \in {"analyse", "gen2"} \cup Booking =>
        (Understood <=> cur.result \in {"authorized", "cancelled"})
  BY DEF Understood, Retried
<1>7. pc = "gen2" => (InQuestion(c) <=> rev = c) /\ (rev # c => ~Stored(c))
  BY DEF InQuestion, Retried, Stored
<1>8. pc \in Before \cup {"rev", "revWrite", "revBit"} /\ ~cur.resave =>
        /\ InQuestion(c) <=> cur.calls > 0
        /\ cur.calls > 0 => Understood
        /\ ~(cur.calls > 0) => ~Stored(c)
  BY DEF InQuestion, Retried, Understood, Stored, IInv, CurFits, FilesFit
<1>9. pc \in DbkSteps \cup {"ask"} /\ ~cur.resave => ~InQuestion(c) /\ Stored(c) /\ ToBeAsked(c)
  BY <1>1 DEF InQuestion, Retried, Stored, ToBeAsked, IInv, FilesFit
<1>10. pc \in Saving /\ cur.resave =>
         /\ ~InQuestion(c) /\ ~ToBeAsked(c)
         /\ Stored(c) <=> ~(pc = "rev" /\ rev # c)
  BY <1>1 DEF InQuestion, Retried, Stored, ToBeAsked, IInv, CurFits, FilesFit
<1>11. pc = "waitAuth" => statusBar[c] = "asked"
  BY <1>2, <1>3, <1>4
<1>12. pc = "callBank" => statusBar[c] = "answered"
  BY <1>2, <1>3, <1>5
<1>13. pc \in {"analyse"} \cup Booking => statusBar[c] = ByResult
  <2>1. pc \in {"analyse"} \cup Booking => InQuestion(c)
    BY <1>3
  <2> QED BY <2>1, <1>2, <1>6 DEF ByResult
<1>14. pc = "gen2" => statusBar[c] = IF rev = c THEN ByResult ELSE "none"
  BY <1>2, <1>6, <1>7 DEF ByResult
<1>15. pc \in Before \cup {"rev", "revWrite", "revBit"} /\ ~cur.resave =>
         statusBar[c] = IF cur.calls > 0 THEN "answered" ELSE "none"
  BY <1>2, <1>8
<1>16. pc \in DbkSteps \cup {"ask"} /\ ~cur.resave => statusBar[c] = "armed"
  BY <1>2, <1>9
<1>17. pc \in Saving /\ cur.resave =>
         statusBar[c] = IF pc = "rev" /\ rev # c THEN "none" ELSE "pending"
  BY <1>2, <1>10
<1> HIDE DEF Booking, Before, DbkSteps, Saving
<1> QED BY <1>1, <1>11, <1>12, <1>13, <1>14, <1>15, <1>16, <1>17 DEF InHandFits

\* The same after a step.
LEMMA NextInHand == IInv' /\ InHand' => InHandFits'
BY StatusInHand, PTL

\* A sale that is not in hand.
LEMMA StatusElsewhere ==
  ASSUME NEW a \in Attempt, ~(InHand /\ a = cur.id)
  PROVE  statusBar[a] =
           IF rows[a] # "none" THEN
               IF a \notin hit /\ fate[a].result = "authorized" THEN "kept" ELSE "adrift"
           ELSE IF a \notin hit /\ sendReversalBit /\ rev = a THEN "pending"
           ELSE IF a > nAttempt THEN "none"
           ELSE IF MayBeApproved(a) THEN "adrift" ELSE "undone"
<1>1. ~InQuestion(a) /\ ~ToBeAsked(a)
      /\ (Stored(a) <=> a \notin hit /\ sendReversalBit /\ rev = a)
  BY DEF InQuestion, ToBeAsked, Stored
<1> QED BY <1>1 DEF statusBar, Status

\* One that is not in hand after a step.
LEMMA NextElsewhere ==
  ASSUME NEW a \in Attempt, ~(InHand' /\ a = cur'.id)
  PROVE  statusBar'[a] =
           IF rows'[a] # "none" THEN
               IF a \notin hit' /\ fate'[a].result = "authorized" THEN "kept" ELSE "adrift"
           ELSE IF a \notin hit' /\ sendReversalBit' /\ rev' = a THEN "pending"
           ELSE IF a > nAttempt' THEN "none"
           ELSE IF MayBeApproved(a)' THEN "adrift" ELSE "undone"
<1>1. ~InQuestion(a)' /\ ~ToBeAsked(a)'
      /\ (Stored(a)' <=> a \notin hit' /\ sendReversalBit' /\ rev' = a)
  BY DEF InQuestion, ToBeAsked, Stored
<1> QED BY <1>1 DEF statusBar, Status

\* A step that concerns the sale in hand, if any, leaves every other one alone.
LEMMA OthersStay ==
  ASSUME NEW c, InHand => cur.id = c, InHand' => cur'.id = c, UNCHANGED <<hit, nAttempt>>,
         \A b \in Attempt \ {c} :
             /\ rows'[b] = "none" <=> rows[b] = "none"
             /\ fate'[b] = fate[b]
             /\ rows[b] = "none" /\ b \notin hit =>
                  (sendReversalBit' /\ rev' = b <=> sendReversalBit /\ rev = b)
             /\ MayBeApproved(b)' <=> MayBeApproved(b)
  PROVE  \A b \in Attempt \ {c} : statusBar'[b] = statusBar[b]
<1> SUFFICES ASSUME NEW b \in Attempt \ {c} PROVE statusBar'[b] = statusBar[b]
  OBVIOUS
<1> QED BY StatusElsewhere, NextElsewhere

\* What may become of one sale while all others stay.
LEMMA LedgerMoves ==
  ASSUME NEW c \in Attempt, UNCHANGED host,
         \A b \in Attempt \ {c} : statusBar'[b] = statusBar[b],
         \/ statusBar'[c] = statusBar[c]
         \/ statusBar[c] = "armed" /\ statusBar'[c] = "asked"
         \/ statusBar[c] = "asked" /\ statusBar'[c] \in {"answered", "adrift"}
         \/ statusBar[c] \in {"armed", "asked", "answered"} /\ statusBar'[c] = "pending"
         \/ statusBar[c] = "answered" /\ host[c] = "approved" /\ statusBar'[c] = "kept"
         \/ statusBar[c] = "answered" /\ host[c] # "approved" /\ statusBar'[c] = "armed"
         \/ /\ statusBar[c] \notin {"kept", "undone"} /\ host[c] # "approved"
            /\ statusBar'[c] = "undone"
         \/ /\ statusBar[c] = "none" /\ statusBar'[c] \in {"armed", "pending"}
            /\ \A b \in Attempt : statusBar[b] \notin Ledger!Busy
  PROVE  [Ledger!Next]_(Ledger!chipVars)
<1>1. UNCHANGED hostHasBar /\ (c \in hostHasBar <=> host[c] = "approved")
  BY DEF hostHasBar
<1>2. statusBar' = [statusBar EXCEPT ![c] = statusBar'[c]]
  BY DEF statusBar
<1>3. CASE statusBar'[c] = statusBar[c]
  BY <1>1, <1>3 DEF statusBar, Ledger!chipVars
<1>4. ASSUME NEW s, statusBar'[c] = s PROVE Ledger!Becomes(c, s)
  BY <1>1, <1>2, <1>4 DEF Ledger!Becomes
<1>5. CASE statusBar'[c] # statusBar[c]
  BY <1>1, <1>4, <1>5 DEF Ledger!Next, Ledger!Ask, Ledger!Hear, Ledger!LetGo, Ledger!Reverse,
     Ledger!Keep, Ledger!Arm, Ledger!Undo, Ledger!Store
<1> QED BY <1>3, <1>5

\* A step that touches no sale.
LEMMA LedgerStutters ==
  ASSUME UNCHANGED host, \A b \in Attempt : statusBar'[b] = statusBar[b]
  PROVE  UNCHANGED Ledger!chipVars
<1>1. statusBar' = statusBar
  BY DEF statusBar
<1> QED BY <1>1 DEF hostHasBar, Ledger!chipVars


\* A step that concerns the sale in hand only is what becomes of that sale.
LEMMA CurMoves ==
  ASSUME IInv, InHand, cur'.id = cur.id, UNCHANGED <<hit, nAttempt, host>>,
         \A b \in Attempt \ {cur.id} :
             /\ rows'[b] = "none" <=> rows[b] = "none"
             /\ fate'[b] = fate[b]
             /\ rows[b] = "none" /\ b \notin hit =>
                  (sendReversalBit' /\ rev' = b <=> sendReversalBit /\ rev = b)
             /\ MayBeApproved(b)' <=> MayBeApproved(b),
         \/ statusBar'[cur.id] = statusBar[cur.id]
         \/ statusBar[cur.id] = "armed" /\ statusBar'[cur.id] = "asked"
         \/ statusBar[cur.id] = "asked" /\ statusBar'[cur.id] \in {"answered", "adrift"}
         \/ /\ statusBar[cur.id] \in {"armed", "asked", "answered"}
            /\ statusBar'[cur.id] = "pending"
         \/ /\ statusBar[cur.id] = "answered" /\ host[cur.id] = "approved"
            /\ statusBar'[cur.id] = "kept"
         \/ /\ statusBar[cur.id] = "answered" /\ host[cur.id] # "approved"
            /\ statusBar'[cur.id] = "armed"
         \/ /\ statusBar[cur.id] \notin {"kept", "undone"} /\ host[cur.id] # "approved"
            /\ statusBar'[cur.id] = "undone"
         \/ /\ statusBar[cur.id] = "none" /\ statusBar'[cur.id] \in {"armed", "pending"}
            /\ ~(sendReversalBit /\ rev \in Attempt \ (hit \cup {cur.id}) /\ rows[rev] = "none")
  PROVE  [Ledger!Next]_(Ledger!chipVars)
<1> DEFINE c == cur.id
<1>1. c \in Attempt
  BY StatusInHand DEF InHandFits
<1>2. \A b \in Attempt \ {c} : statusBar'[b] = statusBar[b]
  BY OthersStay
<1>3. ASSUME statusBar[c] = "none",
             ~(sendReversalBit /\ rev \in Attempt \ (hit \cup {c}) /\ rows[rev] = "none")
      PROVE  \A b \in Attempt : statusBar[b] \notin Ledger!Busy
  <2>1. ASSUME NEW b \in Attempt \ {c} PROVE statusBar[b] \notin Ledger!Busy
    BY <1>3, <2>1, StatusElsewhere DEF Ledger!Busy
  <2> QED BY <1>3, <2>1 DEF Ledger!Busy
<1> HIDE DEF InHand, MayBeApproved
<1> QED BY <1>1, <1>2, <1>3, LedgerMoves

\* A step of the dialogue that settles, or of the settlement.
LEMMA NobodyMoves ==
  ASSUME ~InHand, ~InHand', UNCHANGED <<hit, nAttempt, host>>,
         \A b \in Attempt :
             /\ rows'[b] = "none" <=> rows[b] = "none"
             /\ fate'[b] = fate[b]
             /\ sendReversalBit' /\ rev' = b <=> sendReversalBit /\ rev = b
             /\ MayBeApproved(b)' <=> MayBeApproved(b)
  PROVE  [Ledger!Next]_(Ledger!chipVars)
<1>1. \A b \in Attempt \ {0} : statusBar'[b] = statusBar[b]
  <2> HIDE DEF InHand, MayBeApproved
  <2> QED BY OthersStay
<1>2. 0 \notin Attempt
  OBVIOUS
<1> QED BY <1>1, <1>2, LedgerStutters

-----------------------------------------------------------------------------
(***************************************************************************)
(* The dialogue.                                                           *)
(***************************************************************************)

\* Beginning, or a failed connection, before anything is stored.
LEMMA FailsBefore ==
  ASSUME LInv, IInv', NEW from \in {"connect", "reversal", "waitReversal"}, NEW result,
         Fails(from, result), UNCHANGED <<files, rows, host, net, hit, nAttempt, fate>>
  PROVE  [Ledger!Next]_(Ledger!chipVars)
<1>1. /\ pc = from /\ cur'.id = cur.id /\ cur'.kind = cur.kind
      /\ \/ pc' = "idle" /\ (cur.kind = "SETTLE" \/ cur.calls > 0)
         \/ pc' = "gen2" /\ cur.kind # "SETTLE" /\ ~(cur.calls > 0)
  BY FailsFacts DEF LInv, IInv
<1>2. CASE cur.kind = "SETTLE"
  <2>1. ~InHand /\ ~InHand'
    BY <1>1, <1>2
  <2> QED BY <2>1, NobodyMoves
<1>3. CASE cur.kind # "SETTLE"
  <2>1. InHand /\ ~cur.resave /\ pc \in Before
    BY <1>1, <1>3 DEF LInv, IInv, CurFits
  <2>2. statusBar[cur.id] = IF cur.calls > 0 THEN "answered" ELSE "none"
    BY <2>1, StatusInHand DEF LInv, InHandFits
  <2>3. CASE pc' = "idle"
    <3>1. cur.calls > 0 /\ pc = "connect" /\ ~sendReversalBit
      BY <1>1, <1>3, <2>3 DEF LInv, IInv, FilesFit
    <3>2. /\ ~MayBeApproved(cur.id) /\ rows[cur.id] = "none"
          /\ cur.id \in Attempt /\ cur.id = nAttempt
      BY <2>1 DEF LInv, IInv, NotAsked, CurFits, TypeOK
    <3>3. statusBar'[cur.id] = "undone"
      BY <2>3, <3>1, <3>2, NextElsewhere
    <3> QED BY <1>1, <2>1, <2>2, <3>1, <3>2, <3>3, CurMoves DEF LInv
  <2>4. CASE pc' = "gen2"
    <3>1. rev # cur.id /\ ~(cur.calls > 0)
      BY <1>1, <2>1, <2>4 DEF LInv, IInv, CurFits
    <3>2. InHand'
      BY <1>1, <1>3, <2>4
    <3>3. statusBar'[cur.id] = "none"
      BY <1>1, <2>4, <3>1, <3>2, NextInHand DEF InHandFits
    <3> QED BY <1>1, <2>1, <2>2, <3>1, <3>3, CurMoves DEF LInv
  <2> QED BY <1>1, <2>3, <2>4
<1> QED BY <1>2, <1>3

\* The request goes unanswered, or its answer cannot be used.
LEMMA FailsAsked ==
  ASSUME LInv, IInv', NEW result \in {"noAuthCode", "unparsed", "commError"},
         Fails("waitAuth", result), UNCHANGED <<files, rows, host, net, hit, nAttempt, fate>>
  PROVE  [Ledger!Next]_(Ledger!chipVars)
<1>1. /\ pc = "waitAuth" /\ cur'.id = cur.id /\ cur'.kind = cur.kind /\ cur'.result = result
      /\ pc' \in {"idle", "gen2", "bookSent"}
  BY FailsFacts DEF LInv, IInv
<1>2. InHand /\ Armed(cur.id)
  BY <1>1 DEF LInv, IInv, CurFits, FilesFit
<1>3. statusBar[cur.id] = "asked"
  BY <1>1, <1>2, StatusInHand DEF LInv, InHandFits
<1>4. CASE pc' = "idle"
  <2>1. cur.id \in Attempt /\ cur.id \notin hit /\ rows[cur.id] = "none"
    BY <1>2 DEF LInv, IInv, CurFits, TypeOK
  <2>2. statusBar'[cur.id] = "pending"
    BY <1>2, <1>4, <2>1, NextElsewhere
  <2> QED BY <1>1, <1>2, <1>3, <2>2, CurMoves DEF LInv
<1>5. CASE pc' \in {"gen2", "bookSent"}
  <2>1. InHand' /\ rev' = cur'.id
    BY <1>1, <1>2, <1>5
  <2>2. ByResult' = "asked"
    BY <1>1 DEF ByResult
  <2>3. statusBar'[cur.id] = "asked"
    BY <1>1, <1>5, <2>1, <2>2, NextInHand DEF InHandFits
  <2> QED BY <1>1, <1>2, <1>3, <2>3, CurMoves DEF LInv
<1> QED BY <1>1, <1>4, <1>5

\* A new sale is not asked yet; a settlement is none.
LEMMA StartsLedger ==
  ASSUME LInv, IInv', StartChipSale \/ StartSettle \/ Connected \/ SendReversal \/ DeleteReversal
  PROVE  [Ledger!Next]_(Ledger!chipVars)
<1>1. CASE StartChipSale
  <2> DEFINE n == nAttempt + 1
  <2>1. /\ pc = "idle" /\ pc' = "connect" /\ nAttempt' = n /\ n \in Attempt
        /\ cur'.id = n /\ cur'.kind # "SETTLE" /\ cur'.calls = 0 /\ ~cur'.resave
        /\ UNCHANGED <<rows, files, host, net, hit, fate>>
    <3>1. PICK kind \in Kinds : cur' = [NoCur EXCEPT !.id = n, !.kind = kind]
      BY <1>1 DEF StartChipSale
    <3>2. /\ cur'.id = n /\ cur'.kind # "SETTLE" /\ cur'.calls = 0 /\ ~cur'.resave
      BY <3>1 DEF NoCur
    <3>3. nAttempt \in 0 .. MaxAttempt /\ nAttempt < MaxAttempt
      BY <1>1 DEF StartChipSale, LInv, IInv, TypeOK
    <3>4. n \in Attempt
      BY <3>3
    <3>5. pc = "idle" /\ pc' = "connect" /\ nAttempt' = n
      BY <1>1 DEF StartChipSale
    <3>6. UNCHANGED <<rows, files, host, net, hit, fate>>
      BY <1>1 DEF StartChipSale
    <3> QED BY <3>2, <3>4, <3>5, <3>6
  <2>2. statusBar'[n] = "none"
    BY <2>1, NextInHand DEF InHandFits
  <2>3. statusBar[n] = "none"
    <3>1. rows[n] = "none" /\ rev # n /\ n > nAttempt
      BY <2>1 DEF LInv, IInv, Untried, TypeOK
    <3>2. ~InHand
      BY <2>1
    <3> QED BY <2>1, <3>1, <3>2, StatusElsewhere
  <2>4. ASSUME NEW b \in Attempt \ {n} PROVE statusBar'[b] = statusBar[b]
    <3>1. b > nAttempt <=> b > nAttempt'
      BY <2>1 DEF LInv, IInv, TypeOK
    <3>2. ~InHand /\ ~(InHand' /\ b = cur'.id)
      BY <2>1
    <3> QED BY <2>1, <3>1, <3>2, StatusElsewhere, NextElsewhere
  <2> QED BY <2>1, <2>2, <2>3, <2>4, LedgerStutters
<1>2. CASE StartSettle
  <2>1. /\ ~InHand /\ ~InHand' /\ UNCHANGED <<rows, files, host, net, hit, fate, nAttempt>>
    BY <1>2 DEF StartSettle, NoCur
  <2> QED BY <2>1, NobodyMoves
<1>3. CASE Connected \/ SendReversal \/ DeleteReversal
  <2>1. /\ pc \in Before /\ cur' = cur /\ pc' # "idle"
        /\ UNCHANGED <<rows, host, hit, fate, nAttempt, sendReversalBit>>
        /\ pc' \in Before \cup {"rev", "advice"}
        /\ pc' = "advice" => cur.kind = "SETTLE"
    BY <1>3 DEF Connected, SendReversal, DeleteReversal, AfterReversal
  <2>2. \A b \in Attempt : MayBeApproved(b)' <=> MayBeApproved(b)
    BY <1>3 DEF Connected, SendReversal, DeleteReversal
  <2>3. \A b : sendReversalBit' /\ rev' = b <=> sendReversalBit /\ rev = b
    BY <1>3 DEF Connected, SendReversal, DeleteReversal, LInv, IInv, FilesFit
  <2>4. CASE cur.kind = "SETTLE"
    BY <2>1, <2>2, <2>3, <2>4, NobodyMoves
  <2>5. CASE cur.kind # "SETTLE"
    <3>1. InHand /\ InHand' /\ ~cur.resave
      BY <2>1, <2>5 DEF LInv, IInv, CurFits
    <3>2. statusBar[cur.id] = IF cur.calls > 0 THEN "answered" ELSE "none"
      BY <2>1, <3>1, StatusInHand DEF LInv, InHandFits
    <3>3. statusBar'[cur.id] = IF cur.calls > 0 THEN "answered" ELSE "none"
      BY <2>1, <2>5, <3>1, NextInHand DEF InHandFits
    <3> QED BY <2>1, <2>2, <2>3, <3>1, <3>2, <3>3, CurMoves DEF LInv
  <2> QED BY <2>4, <2>5
<1> QED BY <1>1, <1>2, <1>3

\* The stored reversal was confirmed: its sale is undone, whichever line it went over.
LEMMA ConfirmedLedger ==
  ASSUME LInv, IInv', ReversalConfirmed
  PROVE  [Ledger!Next]_(Ledger!chipVars)
<1>1. /\ pc = "waitReversal" /\ pc' = "delReversal" /\ cur' = cur /\ reply = "00"
      /\ ~sendReversalBit' /\ UNCHANGED <<rev, dbk, rows, host, net, hit, fate, nAttempt>>
  BY DEF ReversalConfirmed
<1>2. sendReversalBit /\ ~Forced
  BY <1>1 DEF LInv, IInv, FilesFit
<1>3. InHand => rev # cur.id /\ ~cur.resave /\ cur.id \in Attempt
  BY <1>1, <1>2 DEF LInv, IInv, CurFits, TypeOK
<1>4. ASSUME InHand PROVE statusBar'[cur.id] = statusBar[cur.id]
  <2>1. InHand'
    BY <1>1, <1>4
  <2>2. statusBar[cur.id] = "none"
    BY <1>1, <1>2, <1>3, <1>4, StatusInHand DEF LInv, InHandFits
  <2>3. statusBar'[cur.id] = "none"
    BY <1>1, <1>2, <1>3, <2>1, NextInHand DEF InHandFits
  <2> QED BY <2>2, <2>3
<1>5. ASSUME NEW b \in Attempt, rev # b \/ b \in hit \/ rows[b] # "none"
      PROVE  statusBar'[b] = statusBar[b]
  <2>1. CASE InHand /\ b = cur.id
    BY <1>4, <2>1
  <2>2. CASE ~(InHand /\ b = cur.id)
    <3>1. ~(InHand' /\ b = cur'.id) /\ (MayBeApproved(b)' <=> MayBeApproved(b))
      BY <1>1, <2>2
    <3>2. UNCHANGED <<rows, hit, fate, nAttempt>> /\ ~sendReversalBit' /\ rev' = rev
      BY <1>1
    <3> HIDE DEF MayBeApproved, InHand
    <3> QED BY <1>5, <2>2, <3>1, <3>2, StatusElsewhere, NextElsewhere
  <2> QED BY <2>1, <2>2
<1>6. ASSUME rev \in Attempt, rev \notin hit, rows[rev] = "none" PROVE ~MayBeApproved(rev)
  <2>1. net = None
    BY <1>1 DEF LInv, IInv, LineFits
  <2>2. host[ReversalFile] = "reversed"
    BY <1>1 DEF LInv, IInv, LineFits
  <2>3. CASE commMode # "modem"
    BY <2>1, <2>2, <2>3 DEF ReversalFile
  <2>4. CASE commMode = "modem"
    <3>1. DialBackup /\ host[dbk] = "reversed"
      BY <2>2, <2>4 DEF ReversalFile, LInv, IInv, TypeOK
    <3>2. MayBeApproved(rev) => dbk = rev
      BY <1>2, <1>3, <1>6, <3>1 DEF LInv, PendingFits
    <3> QED BY <2>1, <3>1, <3>2
  <2> QED BY <2>3, <2>4
<1>7. CASE rev \in Attempt /\ rev \notin hit /\ rows[rev] = "none"
  <2>1. ~(InHand /\ rev = cur.id) /\ ~(InHand' /\ rev' = cur'.id)
    BY <1>1, <1>3
  <2>2. ~MayBeApproved(rev) /\ ~(MayBeApproved(rev)')
    BY <1>1, <1>6, <1>7
  <2>3. ~(rev > nAttempt)
    BY <1>7 DEF LInv, IInv, Untried, TypeOK
  <2>4. statusBar[rev] = "pending"
    BY <1>2, <1>7, <2>1, StatusElsewhere
  <2>5. statusBar'[rev] = "undone"
    <3>1. ~(InHand' /\ rev = cur'.id) /\ rev' = rev /\ ~sendReversalBit'
          /\ rows' = rows /\ nAttempt' = nAttempt
      BY <1>1, <2>1
    <3> HIDE DEF MayBeApproved, InHand
    <3> QED BY <1>7, <2>2, <2>3, <3>1, NextElsewhere
  <2>6. host[rev] # "approved"
    BY <2>2
  <2> QED BY <1>1, <1>5, <1>7, <2>4, <2>5, <2>6, LedgerMoves
<1>8. CASE ~(rev \in Attempt /\ rev \notin hit /\ rows[rev] = "none")
  BY <1>1, <1>5, <1>8, LedgerStutters
<1> QED BY <1>7, <1>8

\* The request and what is heard of it.
LEMMA AsksLedger ==
  ASSUME LInv, IInv', SendAuth \/ Answered \/ OnlineAnalyseEMV \/ AnalyseForced
  PROVE  [Ledger!Next]_(Ledger!chipVars)
<1>1. /\ pc \in Asking /\ rev' = rev /\ cur'.id = cur.id /\ cur'.kind = cur.kind
      /\ UNCHANGED <<rows, host, hit, fate, nAttempt>>
  BY DEF SendAuth, Answered, OnlineAnalyseEMV, AnalyseForced, LInv, IInv, TypeOK
<1>2. InHand /\ Armed(cur.id) /\ ~cur.resave
  BY <1>1 DEF LInv, IInv, CurFits, FilesFit
<1>3. \A b \in Attempt \ {cur.id} :
        /\ sendReversalBit' /\ rev' = b <=> sendReversalBit /\ rev = b
        /\ MayBeApproved(b)' <=> MayBeApproved(b)
  <2>1. \A b \in Attempt \ {cur.id} : sendReversalBit' /\ rev' = b <=> sendReversalBit /\ rev = b
    BY <1>1, <1>2
  <2>2. \A b \in Attempt \ {cur.id} : MayBeApproved(b)' <=> MayBeApproved(b)
    BY DEF SendAuth, Answered, OnlineAnalyseEMV, AnalyseForced
  <2> QED BY <2>1, <2>2
<1>4. CASE SendAuth
  <2>1. pc = "ask" /\ pc' = "waitAuth" /\ InHand'
    BY <1>1, <1>2, <1>4 DEF SendAuth
  <2>2. statusBar[cur.id] = "armed"
    BY <1>2, <2>1, StatusInHand DEF LInv, InHandFits
  <2>3. statusBar'[cur.id] = "asked"
    BY <1>1, <2>1, NextInHand DEF InHandFits
  <2> QED BY <1>1, <1>2, <1>3, <2>2, <2>3, CurMoves DEF LInv
<1>5. CASE Answered
  <2>1. pc = "waitAuth" /\ pc' = "analyse" /\ InHand' /\ cur'.result \in {"authorized", "cancelled"}
    BY <1>1, <1>2, <1>5 DEF Answered, LInv, IInv, TypeOK
  <2>2. statusBar[cur.id] = "asked"
    BY <1>2, <2>1, StatusInHand DEF LInv, InHandFits
  <2>3. ByResult' = "answered"
    BY <2>1 DEF ByResult
  <2>4. statusBar'[cur.id] = "answered"
    BY <1>1, <2>1, <2>3, NextInHand DEF InHandFits
  <2> QED BY <1>1, <1>2, <1>3, <2>2, <2>4, CurMoves DEF LInv
<1>6. ASSUME pc = "analyse", cur' = cur, pc' \in {"gen2", "bookSent"}
      PROVE  [Ledger!Next]_(Ledger!chipVars)
  <2>1. InHand' /\ rev' = cur'.id
    BY <1>1, <1>2, <1>6
  <2>2. statusBar[cur.id] = ByResult
    BY <1>2, <1>6, StatusInHand DEF LInv, InHandFits
  <2>3. ByResult' = ByResult
    BY <1>6 DEF ByResult
  <2>4. statusBar'[cur.id] = ByResult
    BY <1>1, <1>6, <2>1, <2>3, NextInHand DEF InHandFits
  <2> QED BY <1>1, <1>2, <1>3, <2>2, <2>4, CurMoves DEF LInv
<1>7. CASE OnlineAnalyseEMV
  <2>1. pc = "analyse" /\ pc' = "gen2" /\ cur' = cur
    BY <1>7 DEF OnlineAnalyseEMV
  <2> QED BY <1>6, <2>1
<1>8. CASE AnalyseForced
  <2>1. pc = "analyse" /\ cur' = cur /\ Forced
    BY <1>8 DEF AnalyseForced
  <2>2. CASE cur.result = "authorized"
    <3>1. pc' = "bookSent"
      BY <1>8, <2>2 DEF AnalyseForced
    <3> QED BY <1>6, <2>1, <3>1
  <2>3. CASE cur.result # "authorized"
    <3>1. pc' = "idle" /\ ~sendReversalBit'
      BY <1>8, <2>3 DEF AnalyseForced
    <3>2. cur.result = "cancelled"
      BY <2>1, <2>3 DEF LInv, IInv, IsApproved
    <3>3. /\ ~MayBeApproved(cur.id) /\ rows[cur.id] = "none"
          /\ cur.id \in Attempt /\ cur.id = nAttempt
      BY <1>2, <2>1, <3>2 DEF LInv, IInv, NotAsked, CurFits, TypeOK
    <3>4. statusBar[cur.id] = ByResult
      BY <1>2, <2>1, StatusInHand DEF LInv, InHandFits
    <3>5. ~(MayBeApproved(cur.id)')
      BY <1>8, <2>1, <3>3 DEF AnalyseForced
    <3>6. statusBar'[cur.id] = "undone"
      BY <1>1, <3>1, <3>3, <3>5, NextElsewhere
    <3>7. statusBar[cur.id] = "answered" /\ host[cur.id] # "approved"
      BY <3>2, <3>3, <3>4 DEF ByResult
    <3> QED BY <1>1, <1>2, <1>3, <3>6, <3>7, CurMoves DEF LInv
  <2> QED BY <2>2, <2>3
<1> QED BY <1>4, <1>5, <1>7, <1>8

\* The bank is called: the host refused, and may be asked once more.
LEMMA ReferralLedger ==
  ASSUME LInv, IInv', Referral \/ ReferralDenied \/ ReferralApproved
  PROVE  [Ledger!Next]_(Ledger!chipVars)
<1>1. CASE Referral
  <2>1. /\ pc = "waitAuth" /\ pc' = "callBank" /\ rev' = rev /\ cur' = cur
        /\ UNCHANGED <<rows, host, hit, fate, nAttempt, net>>
    BY <1>1 DEF Referral
  <2>2. InHand /\ InHand' /\ rev = cur.id
    BY <2>1 DEF LInv, IInv, CurFits, FilesFit
  <2>3. statusBar[cur.id] = "asked"
    BY <2>1, <2>2, StatusInHand DEF LInv, InHandFits
  <2>4. statusBar'[cur.id] = "answered"
    BY <2>1, <2>2, NextInHand DEF InHandFits
  <2> QED BY <2>1, <2>2, <2>3, <2>4, CurMoves DEF LInv
<1>2. CASE ReferralDenied
  <2>1. /\ pc = "callBank" /\ cur'.id = cur.id /\ cur'.kind = cur.kind /\ cur'.result = "cancelled"
        /\ pc' \in {"idle", "gen2"} /\ UNCHANGED <<files, rows, host, hit, fate, nAttempt, net>>
    <3>1. pc = "callBank" /\ cur'.id = cur.id /\ cur'.kind = cur.kind /\ cur'.result = "cancelled"
          /\ pc' \in {"idle", "gen2"}
      BY <1>2, FailsFacts DEF ReferralDenied, LInv, IInv
    <3> QED BY <1>2, <3>1 DEF ReferralDenied
  <2>2. InHand /\ rev = cur.id /\ ~sendReversalBit
    BY <2>1 DEF LInv, ReferralFits, IInv, CurFits, FilesFit
  <2>3. statusBar[cur.id] = "answered"
    BY <2>1, <2>2, StatusInHand DEF LInv, InHandFits
  <2>4. CASE pc' = "idle"
    <3>1. /\ ~MayBeApproved(cur.id) /\ rows[cur.id] = "none"
          /\ cur.id \in Attempt /\ cur.id = nAttempt
      BY <2>1, <2>2 DEF LInv, IInv, NotAsked, CurFits, TypeOK
    <3>2. statusBar'[cur.id] = "undone" /\ host[cur.id] # "approved"
      BY <2>1, <2>2, <2>4, <3>1, NextElsewhere
    <3> QED BY <2>1, <2>2, <2>3, <3>2, CurMoves DEF LInv
  <2>5. CASE pc' = "gen2"
    <3>1. InHand' /\ rev' = cur'.id /\ ByResult' = "answered"
      BY <2>1, <2>2, <2>5 DEF ByResult
    <3>2. statusBar'[cur.id] = "answered"
      BY <2>1, <2>5, <3>1, NextInHand DEF InHandFits
    <3> QED BY <2>1, <2>2, <2>3, <3>2, CurMoves DEF LInv
  <2> QED BY <2>1, <2>4, <2>5
<1>3. CASE ReferralApproved
  <2>1. /\ pc = "callBank" /\ pc' = "connect" /\ cur'.id = cur.id /\ cur'.kind = cur.kind
        /\ cur'.calls = cur.calls + 1 /\ cur'.resave = cur.resave /\ cur.calls \in Nat
        /\ UNCHANGED <<files, rows, host, hit, fate, nAttempt, net>>
    BY <1>3 DEF ReferralApproved, LInv, IInv, TypeOK
  <2>2. InHand /\ InHand' /\ ~cur.resave
    BY <2>1 DEF LInv, IInv, CurFits
  <2>3. statusBar[cur.id] = "answered"
    BY <2>1, <2>2, StatusInHand DEF LInv, InHandFits
  <2>4. statusBar'[cur.id] = "answered"
    BY <2>1, <2>2, NextInHand DEF InHandFits
  <2> QED BY <2>1, <2>2, <2>3, <2>4, CurMoves DEF LInv
<1> QED BY <1>1, <1>2, <1>3

\* Every step of the dialogue.
LEMMA DialogueLedger ==
  ASSUME LInv, IInv', Dialogue \/ StartSettle
  PROVE  [Ledger!Next]_(Ledger!chipVars)
<1>1. CASE ConnectFail \/ ReversalUnreadable \/ ReversalRefused
  BY <1>1, FailsBefore DEF ConnectFail, ReversalUnreadable, ReversalRefused
<1>2. CASE AnswerUnusable
  <2>1. Fails("waitAuth", reply) /\ reply \in {"noAuthCode", "unparsed"}
        /\ UNCHANGED <<files, rows, host, net, hit, nAttempt, fate>>
    BY <1>2 DEF AnswerUnusable
  <2> QED BY <2>1, FailsAsked
<1>3. CASE Timeout
  <2>1. UNCHANGED <<files, rows, host, net, hit, nAttempt, fate>>
    BY <1>3 DEF Timeout
  <2>2. CASE Fails("waitReversal", "commError")
    BY <2>1, <2>2, FailsBefore
  <2>3. CASE Fails("waitAuth", "commError")
    BY <2>1, <2>3, FailsAsked
  <2>4. CASE Goto("waitAuth", "analyse") /\ cur' = [cur EXCEPT !.result = "commError"]
    <3>1. /\ cur'.id = cur.id /\ cur'.kind = cur.kind /\ cur'.result = "commError"
      BY <2>4 DEF LInv, IInv, TypeOK
    <3>2. InHand /\ InHand'
      BY <2>4, <3>1 DEF LInv, IInv, CurFits
    <3>3. statusBar[cur.id] = "asked"
      BY <2>4, <3>2, StatusInHand DEF LInv, InHandFits
    <3>4. ByResult' = "asked"
      BY <3>1 DEF ByResult
    <3>5. statusBar'[cur.id] = "asked"
      BY <2>4, <3>1, <3>2, <3>4, NextInHand DEF InHandFits
    <3> QED BY <2>1, <3>1, <3>2, <3>3, <3>5, CurMoves DEF LInv
  <2> QED BY <1>3, <2>2, <2>3, <2>4 DEF Timeout
<1> QED BY <1>1, <1>2, <1>3, StartsLedger, ConfirmedLedger, AsksLedger, ReferralLedger
       DEF Dialogue

-----------------------------------------------------------------------------
(***************************************************************************)
(* Storing the reversal, and the chip's decision.                          *)
(***************************************************************************)

\* A reversal that is armed for another sale is thrown away.
LEMMA Displaces ==
  ASSUME LInv, InHand, cur'.id = cur.id, UNCHANGED <<hit, nAttempt, host, net, rows>>,
         \A b \in Attempt \ {cur.id} : fate'[b] = fate[b],
         sendReversalBit, rev \in Attempt \ hit, rev # cur.id, rows[rev] = "none",
         ~sendReversalBit' \/ rev' = NoFile,
         statusBar[cur.id] = "none", statusBar'[cur.id] \in {"pending", "undone"}
  PROVE  [Ledger!Next]_(Ledger!chipVars)
<1> PICK c : c = cur.id
  OBVIOUS
<1> PICK d : d = rev
  OBVIOUS
<1>1. c \in Attempt /\ d \in Attempt
  BY StatusInHand DEF LInv, InHandFits
<1>2. statusBar[d] = "pending"
  BY <1>1, StatusElsewhere
<1>3. ASSUME NEW b \in Attempt \ {c} PROVE ~(InHand' /\ b = cur'.id)
  BY <1>3
<1>4. \A b \in Attempt \ {c} : MayBeApproved(b)' <=> MayBeApproved(b)
  OBVIOUS
<1>5. statusBar'[d] = IF MayBeApproved(d) THEN "adrift" ELSE "undone"
  <2>1. ~(d > nAttempt)
    BY DEF LInv, IInv, Untried, TypeOK
  <2>2. ~(sendReversalBit' /\ rev' = d)
    OBVIOUS
  <2>3. d \in Attempt \ {c} /\ rows'[d] = "none" /\ nAttempt' = nAttempt
    BY <1>1
  <2>4. ~(InHand' /\ d = cur'.id) /\ (MayBeApproved(d)' <=> MayBeApproved(d))
    BY <1>3, <1>4, <2>3
  <2> HIDE DEF MayBeApproved, InHand
  <2> QED BY <2>1, <2>2, <2>3, <2>4, NextElsewhere
<1>6. ASSUME NEW b \in Attempt \ {c, d} PROVE statusBar'[b] = statusBar[b]
  <2>1. ~(InHand' /\ b = cur'.id) /\ ~(InHand /\ b = cur.id)
    BY <1>3, <1>6
  <2>2. (MayBeApproved(b)' <=> MayBeApproved(b)) /\ fate'[b] = fate[b]
    BY <1>4, <1>6
  <2>3. ~(sendReversalBit' /\ rev' = b) /\ rev # b
    BY <1>6
  <2>4. UNCHANGED <<hit, nAttempt, rows>>
    OBVIOUS
  <2> HIDE DEF MayBeApproved, InHand
  <2> QED BY <1>6, <2>1, <2>2, <2>3, <2>4, StatusElsewhere, NextElsewhere
<1>7. UNCHANGED hostHasBar /\ (d \in hostHasBar <=> host[d] = "approved")
  BY <1>1 DEF hostHasBar
<1>8. PICK s : s = statusBar'[d]
  OBVIOUS
<1>9. PICK t : t = statusBar'[c]
  OBVIOUS
<1>10. statusBar' = [statusBar EXCEPT ![d] = s, ![c] = t]
  <2>1. \A b \in Attempt : statusBar'[b] = [statusBar EXCEPT ![d] = s, ![c] = t][b]
    BY <1>1, <1>6, <1>8, <1>9 DEF statusBar
  <2>2. statusBar' = [b \in Attempt |-> statusBar'[b]]
    BY DEF statusBar
  <2>3. [statusBar EXCEPT ![d] = s, ![c] = t]
          = [b \in Attempt |-> [statusBar EXCEPT ![d] = s, ![c] = t][b]]
    BY DEF statusBar
  <2> QED BY <2>1, <2>2, <2>3
<1>11. s \in {"adrift"} \cup (IF d \in hostHasBar THEN {} ELSE {"undone"})
  BY <1>5, <1>7, <1>8
<1>12. Ledger!Displace(d, c)
  <2>1. statusBar[c] = "none" /\ t \in {"pending", "undone"}
    BY <1>9
  <2>2. \E v \in {"adrift"} \cup (IF d \in hostHasBar THEN {} ELSE {"undone"}),
           w \in {"pending", "undone"} : statusBar' = [statusBar EXCEPT ![d] = v, ![c] = w]
    BY <1>10, <1>11, <2>1
  <2>3. UNCHANGED hostHasBar
    BY <1>7
  <2> QED BY <1>2, <2>1, <2>2, <2>3 DEF Ledger!Displace
<1> QED BY <1>1, <1>12 DEF Ledger!Next

\* Throwing away what is in the reversal file, another sale's or one's own.
LEMMA DeletesLedger ==
  ASSUME LInv, IInv', RevDelete
  PROVE  [Ledger!Next]_(Ledger!chipVars)
<1>1. /\ pc = "rev" /\ pc' = "revWrite" /\ cur' = cur /\ rev' = NoFile
      /\ UNCHANGED <<sendReversalBit, rows, host, net, hit, fate, nAttempt>>
  BY DEF RevDelete, SaveStep
<1>2. InHand /\ InHand'
  BY <1>1 DEF LInv, IInv, CurFits
<1>3. CASE ~cur.resave
  <2>1. ~sendReversalBit
    BY <1>1, <1>3 DEF LInv, IInv, FilesFit
  <2>2. statusBar[cur.id] = IF cur.calls > 0 THEN "answered" ELSE "none"
    BY <1>1, <1>2, <1>3, StatusInHand DEF LInv, InHandFits
  <2>3. statusBar'[cur.id] = IF cur.calls > 0 THEN "answered" ELSE "none"
    BY <1>1, <1>2, <1>3, NextInHand DEF InHandFits
  <2> QED BY <1>1, <1>2, <2>1, <2>2, <2>3, CurMoves DEF LInv
<1>4. CASE cur.resave
  <2>1. statusBar[cur.id] = IF rev # cur.id THEN "none" ELSE "pending"
    BY <1>1, <1>2, <1>4, StatusInHand DEF LInv, InHandFits
  <2>2. statusBar'[cur.id] = "pending"
    BY <1>1, <1>2, <1>4, NextInHand DEF InHandFits
  <2>3. CASE rev = cur.id
    BY <1>1, <1>2, <2>1, <2>2, <2>3, CurMoves DEF LInv
  <2>4. CASE rev # cur.id /\ sendReversalBit /\ rev \in Attempt \ hit /\ rows[rev] = "none"
    BY <1>1, <1>2, <2>1, <2>2, <2>4, Displaces
  <2>5. CASE rev # cur.id /\ ~(sendReversalBit /\ rev \in Attempt \ hit /\ rows[rev] = "none")
    BY <1>1, <1>2, <2>1, <2>2, <2>5, CurMoves DEF LInv
  <2> QED BY <2>3, <2>4, <2>5
<1> QED BY <1>3, <1>4

\* Writing the files and arming them.
LEMMA SaveLedger ==
  ASSUME LInv, IInv', Save
  PROVE  [Ledger!Next]_(Ledger!chipVars)
<1>1. CASE RevDelete
  BY <1>1, DeletesLedger
<1>2. ASSUME RevWrite \/ RevBit \/ DbkDelete \/ DbkWrite \/ DbkBit
      PROVE  [Ledger!Next]_(Ledger!chipVars)
  <2>1. /\ cur' = cur /\ UNCHANGED <<rows, host, net, hit, fate, nAttempt>>
        /\ pc \in Saving \ {"rev"} /\ rev' = cur.id
        /\ pc = "revWrite" => rev = NoFile /\ pc' = "revBit" /\ UNCHANGED sendReversalBit
        /\ pc # "revWrite" => rev = cur.id /\ sendReversalBit'
    BY <1>2 DEF RevWrite, RevBit, DbkDelete, DbkWrite, DbkBit, SaveStep, LInv, IInv, FilesFit
  <2>2. /\ pc = "revBit" \/ pc \in DbkSteps =>
             pc' \in DbkSteps \/ pc' = (IF cur.resave THEN "idle" ELSE "ask")
    BY <1>2 DEF RevWrite, RevBit, DbkDelete, DbkWrite, DbkBit, SaveStep, Saved
  <2>3. InHand /\ cur.id \in Attempt /\ cur.id \notin hit /\ rows[cur.id] = "none"
    BY <2>1 DEF LInv, IInv, CurFits, TypeOK
  <2>4. \A b \in Attempt \ {cur.id} :
           sendReversalBit' /\ rev' = b <=> sendReversalBit /\ rev = b
    BY <2>1
  <2>5. CASE pc = "revWrite"
    <3>1. InHand'
      BY <2>1, <2>3, <2>5
    <3>2. statusBar'[cur.id] = statusBar[cur.id]
      <4>1. CASE cur.resave
        <5>1. statusBar[cur.id] = "pending"
          BY <2>1, <2>3, <2>5, <4>1, StatusInHand DEF LInv, InHandFits
        <5>2. statusBar'[cur.id] = "pending"
          BY <2>1, <2>5, <3>1, <4>1, NextInHand DEF InHandFits
        <5> QED BY <5>1, <5>2
      <4>2. CASE ~cur.resave
        <5>1. statusBar[cur.id] = IF cur.calls > 0 THEN "answered" ELSE "none"
          BY <2>1, <2>3, <2>5, <4>2, StatusInHand DEF LInv, InHandFits
        <5>2. statusBar'[cur.id] = IF cur.calls > 0 THEN "answered" ELSE "none"
          BY <2>1, <2>5, <3>1, <4>2, NextInHand DEF InHandFits
        <5> QED BY <5>1, <5>2
      <4> QED BY <4>1, <4>2
    <3> QED BY <2>1, <2>3, <2>4, <3>2, CurMoves DEF LInv
  <2>6. CASE pc # "revWrite" /\ cur.resave
    <3>1. statusBar[cur.id] = "pending"
      BY <2>1, <2>3, <2>6, StatusInHand DEF LInv, InHandFits
    <3>2. CASE pc' = "idle"
      <4>1. statusBar'[cur.id] = "pending"
        BY <2>1, <2>3, <2>6, <3>2, NextElsewhere
      <4> QED BY <2>1, <2>3, <2>4, <3>1, <4>1, CurMoves DEF LInv
    <3>3. CASE pc' \in DbkSteps
      <4>1. InHand'
        BY <2>1, <2>3, <3>3
      <4>2. statusBar'[cur.id] = "pending"
        BY <2>1, <2>6, <3>3, <4>1, NextInHand DEF InHandFits
      <4> QED BY <2>1, <2>3, <2>4, <3>1, <4>2, CurMoves DEF LInv
    <3> QED BY <2>1, <2>2, <2>6, <3>2, <3>3
  <2>7. CASE pc # "revWrite" /\ ~cur.resave
    <3>1. pc' \in DbkSteps \cup {"ask"} /\ InHand'
      BY <2>1, <2>2, <2>3, <2>7
    <3>2. statusBar'[cur.id] = "armed"
      BY <2>1, <2>7, <3>1, NextInHand DEF InHandFits
    <3>3. CASE pc = "revBit"
      <4>1. statusBar[cur.id] = IF cur.calls > 0 THEN "answered" ELSE "none"
        BY <2>3, <2>7, <3>3, StatusInHand DEF LInv, InHandFits
      <4>2. host[cur.id] # "approved" /\ rev = cur.id
        BY <2>1, <2>3, <2>7, <3>3 DEF LInv, IInv, NotAsked
      <4> QED BY <2>1, <2>3, <2>4, <3>2, <4>1, <4>2, CurMoves DEF LInv
    <3>4. CASE pc \in DbkSteps
      <4>1. statusBar[cur.id] = "armed"
        BY <2>3, <2>7, <3>4, StatusInHand DEF LInv, InHandFits
      <4> QED BY <2>1, <2>3, <2>4, <3>2, <4>1, CurMoves DEF LInv
    <3> QED BY <2>1, <2>7, <3>3, <3>4
  <2> QED BY <2>5, <2>6, <2>7
<1> QED BY <1>1, <1>2 DEF Save

\* The second generate AC: the sale goes on, is stored again, or is let go.
LEMMA CompleteLedger ==
  ASSUME LInv, IInv', Complete
  PROVE  [Ledger!Next]_(Ledger!chipVars)
<1>1. /\ pc = "gen2" /\ UNCHANGED <<rev, dbk, rows, host, net, hit, nAttempt>>
      /\ cur'.id = cur.id /\ cur'.kind = cur.kind /\ cur'.result = cur.result
      /\ \A b \in Attempt \ {cur.id} : fate'[b] = fate[b]
  BY DEF Complete, ChipApproves, ChipApprovesInVain, ChipRefuses, Decided, LInv, IInv, TypeOK
<1>2. /\ InHand /\ cur.id \in Attempt /\ cur.id \notin hit /\ rows[cur.id] = "none"
      /\ cur.id = nAttempt
  BY <1>1 DEF LInv, IInv, CurFits, TypeOK
<1>3. statusBar[cur.id] = IF rev = cur.id THEN ByResult ELSE "none"
  BY <1>1, <1>2, StatusInHand DEF LInv, InHandFits
<1>4. ByResult' = ByResult /\ ByResult \in {"answered", "asked"}
  BY <1>1 DEF ByResult
<1>5. CASE ChipApproves
  <2>1. pc' = "tc" /\ rev = cur.id /\ cur' = cur
    BY <1>1, <1>5 DEF ChipApproves, LInv, IInv, FilesFit
  <2>2. statusBar'[cur.id] = ByResult
    <3>1. InHand'
      BY <1>2, <2>1
    <3> QED BY <1>1, <1>4, <2>1, <3>1, NextInHand DEF InHandFits
  <2> QED BY <1>1, <1>2, <1>3, <2>1, <2>2, CurMoves DEF LInv
<1>6. ASSUME pc' = "idle", cur.result # "authorized"
      PROVE  /\ sendReversalBit' /\ rev = cur.id => statusBar'[cur.id] = "pending"
             /\ ~(sendReversalBit' /\ rev = cur.id) =>
                  statusBar'[cur.id] = IF MayBeApproved(cur.id) THEN "adrift" ELSE "undone"
             /\ rev # cur.id => ~MayBeApproved(cur.id)
             /\ ByResult = "answered" => ~MayBeApproved(cur.id)
  <2>1. MayBeApproved(cur.id)' <=> MayBeApproved(cur.id)
    BY <1>1
  <2>2. statusBar'[cur.id] = IF sendReversalBit' /\ rev = cur.id THEN "pending"
                             ELSE IF MayBeApproved(cur.id) THEN "adrift" ELSE "undone"
    <3>1. ~InHand' /\ cur.id \notin hit' /\ rows'[cur.id] = "none" /\ ~(cur.id > nAttempt')
      BY <1>1, <1>2, <1>6 DEF LInv, IInv, TypeOK
    <3> HIDE DEF MayBeApproved, InHand
    <3> QED BY <1>1, <1>2, <2>1, <3>1, NextElsewhere
  <2>3. rev # cur.id => ~MayBeApproved(cur.id)
    BY <1>1, <1>2 DEF LInv, UnaskedFits
  <2>4. ByResult = "answered" => ~MayBeApproved(cur.id)
    BY <1>1, <1>2, <1>6 DEF ByResult, LInv, IInv, NotAsked
  <2> HIDE DEF MayBeApproved
  <2> QED BY <2>2, <2>3, <2>4
<1>7. CASE ChipApprovesInVain
  <2>1. pc' = "idle" /\ cur.result # "authorized" /\ UNCHANGED sendReversalBit
    BY <1>7 DEF ChipApprovesInVain
  <2>2. MayBeApproved(cur.id) \/ host[cur.id] # "approved"
    OBVIOUS
  <2>3. \/ statusBar[cur.id] = "asked" /\ statusBar'[cur.id] \in {"pending", "adrift"}
        \/ statusBar[cur.id] = "answered" /\ statusBar'[cur.id] = "pending"
        \/ /\ statusBar[cur.id] \in {"asked", "answered", "none"}
           /\ host[cur.id] # "approved" /\ statusBar'[cur.id] = "undone"
    <3>1. statusBar'[cur.id] = "undone" => host[cur.id] # "approved"
      BY <1>6, <2>1
    <3> HIDE DEF MayBeApproved, InHand
    <3> QED BY <1>3, <1>4, <1>6, <2>1, <3>1
  <2> QED BY <1>1, <1>2, <2>1, <2>3, CurMoves DEF LInv
<1>8. CASE ChipRefuses /\ Rebuilds
  <2>1. pc' = "rev" /\ cur'.resave /\ UNCHANGED sendReversalBit
    BY <1>8 DEF ChipRefuses, LInv, IInv, TypeOK
  <2>2. InHand'
    BY <1>1, <1>2, <2>1
  <2>3. statusBar'[cur.id] = IF rev # cur.id THEN "none" ELSE "pending"
    BY <1>1, <2>1, <2>2, NextInHand DEF InHandFits
  <2> QED BY <1>1, <1>2, <1>3, <1>4, <2>1, <2>3, CurMoves DEF LInv
<1>9. CASE ChipRefuses /\ ~Rebuilds
  <2>1. pc' = "idle" /\ ~sendReversalBit' /\ cur.result # "authorized"
    BY <1>9 DEF ChipRefuses, Rebuilds
  <2>2. CASE rev = cur.id
    <3>1. \/ statusBar[cur.id] = "asked" /\ statusBar'[cur.id] = "adrift"
          \/ /\ statusBar[cur.id] \in {"asked", "answered"}
             /\ host[cur.id] # "approved" /\ statusBar'[cur.id] = "undone"
      <4>1. statusBar'[cur.id] = "undone" => host[cur.id] # "approved"
        BY <1>6, <2>1
      <4> HIDE DEF MayBeApproved, InHand
      <4> QED BY <1>3, <1>4, <1>6, <2>1, <2>2, <4>1
    <3> QED BY <1>1, <1>2, <2>1, <2>2, <3>1, CurMoves DEF LInv
  <2>3. CASE rev # cur.id
    <3>1. /\ statusBar[cur.id] = "none" /\ statusBar'[cur.id] = "undone"
          /\ host[cur.id] # "approved"
      BY <1>3, <1>6, <2>1, <2>3
    <3>2. CASE sendReversalBit /\ rev \in Attempt \ hit /\ rows[rev] = "none"
      BY <1>1, <1>2, <2>1, <2>3, <3>1, <3>2, Displaces
    <3>3. CASE ~(sendReversalBit /\ rev \in Attempt \ hit /\ rows[rev] = "none")
      BY <1>1, <1>2, <2>1, <2>3, <3>1, <3>3, CurMoves DEF LInv
    <3> QED BY <3>2, <3>3
  <2> QED BY <2>2, <2>3
<1> QED BY <1>5, <1>7, <1>8, <1>9 DEF Complete

-----------------------------------------------------------------------------
(***************************************************************************)
(* Booking, settling, power failures and the host.                         *)
(***************************************************************************)

\* A sale is kept when its row is written; a TC on its way changes nothing.
LEMMA BookLedger ==
  ASSUME LInv, IInv', Book
  PROVE  [Ledger!Next]_(Ledger!chipVars)
<1>1. /\ pc \in Booking /\ UNCHANGED <<cur, sendReversalBit, rev, host, hit, nAttempt>>
  BY DEF Book, SendTC, TCSent, TCFailed, SaveTopDelete, SaveTopFirst, SaveTopHead, SaveTopRest,
     SaveTop, UpdateBatch
<1>2. \A b \in Attempt : MayBeApproved(b)' <=> MayBeApproved(b)
  BY DEF Book, SendTC, TCSent, TCFailed, SaveTopDelete, SaveTopFirst, SaveTopHead, SaveTopRest,
     SaveTop, UpdateBatch
<1>3. /\ InHand /\ cur.id \in Attempt /\ cur.id \notin hit
  BY <1>1 DEF LInv, IInv, CurFits, TypeOK
<1>4. statusBar[cur.id] = ByResult
  BY <1>1, <1>3, StatusInHand DEF LInv, InHandFits
<1>5. CASE ~UpdateBatch
  <2>1. pc' \in Booking /\ UNCHANGED <<rows, fate>>
    BY <1>5 DEF Book, SendTC, TCSent, TCFailed, SaveTopDelete, SaveTopFirst, SaveTopHead,
       SaveTopRest, SaveTop
  <2>2. InHand' /\ ByResult' = ByResult
    BY <1>1, <1>3, <2>1 DEF ByResult
  <2>3. statusBar'[cur.id] = ByResult
    BY <1>1, <2>1, <2>2, NextInHand DEF InHandFits
  <2> HIDE DEF MayBeApproved, InHand
  <2> QED BY <1>1, <1>2, <1>3, <1>4, <2>1, <2>3, CurMoves DEF LInv
<1>6. CASE UpdateBatch
  <2>1. /\ pc' = "idle" /\ rows'[cur.id] # "none" /\ fate'[cur.id].result = cur.result
        /\ \A b \in Attempt \ {cur.id} : rows'[b] = rows[b] /\ fate'[b] = fate[b]
    <3>1. RowState # "none"
      BY DEF RowState
    <3>2. /\ rows \in [Attempt -> TCState]
          /\ fate \in [Attempt -> [result : Result, chip : {"none", "TC", "AAC"}]]
      BY DEF LInv, IInv, TypeOK
    <3>3. rows'[cur.id] = RowState /\ \A b \in Attempt \ {cur.id} : rows'[b] = rows[b]
      BY <1>3, <1>6, <3>2 DEF UpdateBatch
    <3>4. fate' = [fate EXCEPT ![cur.id].result = cur.result]
      BY <1>6 DEF UpdateBatch
    <3>5. /\ fate'[cur.id].result = cur.result
          /\ \A b \in Attempt \ {cur.id} : fate'[b] = fate[b]
      BY <1>3, <3>2, <3>4
    <3> QED BY <1>6, <3>1, <3>3, <3>5 DEF UpdateBatch
  <2>2. statusBar'[cur.id] = IF cur.result = "authorized" THEN "kept" ELSE "adrift"
    BY <1>1, <1>3, <2>1, NextElsewhere
  <2>3. CASE cur.result = "authorized"
    <3>1. host[cur.id] = "approved" /\ statusBar[cur.id] = "answered"
      BY <1>1, <1>4, <2>3 DEF LInv, IInv, IsApproved, ByResult
    <3>2. statusBar'[cur.id] = "kept"
      BY <2>2, <2>3
    <3> HIDE DEF MayBeApproved, InHand
    <3> QED BY <1>1, <1>2, <1>3, <2>1, <3>1, <3>2, CurMoves DEF LInv
  <2>4. CASE cur.result # "authorized"
    <3>1. cur.result # "cancelled"
      BY <1>1, <2>4 DEF LInv, IInv, IsApproved, ReferralFits
    <3>2. statusBar[cur.id] = "asked" /\ statusBar'[cur.id] = "adrift"
      BY <1>4, <2>2, <2>4, <3>1 DEF ByResult
    <3> HIDE DEF MayBeApproved, InHand
    <3> QED BY <1>1, <1>2, <1>3, <2>1, <3>2, CurMoves DEF LInv
  <2> QED BY <2>3, <2>4
<1> QED BY <1>5, <1>6

\* The settlement changes what is owed and what is closed, not what became of a sale.
LEMMA SettleLedger ==
  ASSUME LInv, IInv', Settle
  PROVE  [Ledger!Next]_(Ledger!chipVars)
<1>1. /\ pc \in Settling /\ pc' \in Settling \cup {"idle"} /\ cur' = cur
      /\ UNCHANGED <<sendReversalBit, host, hit, nAttempt, fate>>
  BY DEF Settle, SendAdvice, AdviceFailed, AdviceAccepted, AdviceUpdate, AdvicesDone, CloseBatch,
     SettleFailed
<1>2. ~InHand /\ ~InHand' /\ ~sendReversalBit /\ ~sendReversalBit'
  BY <1>1 DEF LInv, IInv, CurFits, FilesFit
<1>3. \A b \in Attempt : MayBeApproved(b)' <=> MayBeApproved(b)
  BY DEF Settle, SendAdvice, AdviceFailed, AdviceAccepted, AdviceUpdate, AdvicesDone, CloseBatch,
     SettleFailed
<1>4. \A b \in Attempt : rows'[b] = "none" <=> rows[b] = "none"
  <2>1. rows \in [Attempt -> TCState] /\ queue \in Seq(Attempt)
    BY DEF LInv, IInv, TypeOK
  <2>2. CASE AdviceAccepted
    <3>1. queue # <<>> /\ rows[Head(queue)] # "none"
      BY <2>2 DEF AdviceAccepted, LInv, HeadFits, IInv, QueueFits
    <3>2. rows' = [rows EXCEPT ![Head(queue)] = "sent"]
      BY <2>2 DEF AdviceAccepted
    <3> QED BY <2>1, <3>1, <3>2
  <2>3. CASE CloseBatch
    BY <2>1, <2>3 DEF CloseBatch
  <2>4. CASE ~AdviceAccepted /\ ~CloseBatch
    <3>1. rows' = rows
      BY <2>4 DEF Settle, SendAdvice, AdviceFailed, AdviceUpdate, AdvicesDone, SettleFailed
    <3> QED BY <3>1
  <2> QED BY <2>2, <2>3, <2>4
<1> HIDE DEF MayBeApproved, InHand
<1> QED BY <1>1, <1>2, <1>3, <1>4, NobodyMoves

\* The host hears only of sales that were asked and are not done with.
LEMMA HeardOf ==
  ASSUME LInv, NEW a \in Attempt,
         \/ net = [type |-> "auth", id |-> a]
         \/ net = [type |-> "reversal", id |-> a] /\ host[a] = "approved"
  PROVE  statusBar[a] \in {"asked", "pending", "adrift"}
<1>1. MayBeApproved(a) /\ ~(a > nAttempt)
  BY DEF LInv, IInv, Untried, TypeOK
<1>2. CASE InHand /\ a = cur.id
  <2>1. net = [type |-> "auth", id |-> a]
    BY <1>2 DEF LInv, IInv, CurFits
  <2>2. ~(pc \in Before \cup {"callBank", "ask"}) /\ ~(pc \in Saving /\ ~cur.resave)
    BY <1>1, <1>2 DEF LInv, IInv, NotAsked
  <2>3. pc \in {"analyse", "gen2"} \cup Booking => ByResult = "asked"
    BY <1>1, <1>2, <2>1 DEF ByResult, LInv, IInv, NotAsked, IsApproved, ReferralFits
  <2>4. pc = "gen2" \/ (pc = "rev" /\ cur.resave) => rev = cur.id
    BY <1>1, <1>2 DEF LInv, UnaskedFits
  <2>5. pc \in {"waitAuth", "analyse", "gen2"} \cup Booking \/ (pc \in Saving /\ cur.resave)
    BY <1>2, <2>2 DEF LInv, IInv, TypeOK, PC, CurFits
  <2>6. InHandFits
    BY <1>2, StatusInHand DEF LInv
  <2>7. CASE pc \in {"waitAuth", "analyse", "gen2"} \cup Booking
    BY <1>2, <2>3, <2>4, <2>6, <2>7 DEF InHandFits
  <2>8. CASE pc \in Saving /\ cur.resave
    BY <1>2, <2>4, <2>6, <2>8 DEF InHandFits
  <2> QED BY <2>5, <2>7, <2>8
<1>3. CASE ~(InHand /\ a = cur.id)
  <2>1. ~(rows[a] # "none" /\ a \notin hit /\ fate[a].result = "authorized")
    BY DEF LInv, IInv, KeptFits
  <2> HIDE DEF MayBeApproved, InHand
  <2> QED BY <1>1, <1>3, <2>1, StatusElsewhere
<1> QED BY <1>2, <1>3

\* What the host does concerns the sale it decides about only.
LEMMA HostStays ==
  ASSUME LInv, IInv', UNCHANGED <<pc, cur, rows, sendReversalBit, rev, hit, fate, nAttempt>>,
         NEW b \in Attempt, (InHand /\ b = cur.id) \/ (MayBeApproved(b)' <=> MayBeApproved(b))
  PROVE  statusBar'[b] = statusBar[b]
<1>1. CASE InHand /\ b = cur.id
  <2>1. /\ InQuestion(b)' <=> InQuestion(b)
        /\ Understood' <=> Understood
        /\ Stored(b)' <=> Stored(b)
        /\ ToBeAsked(b)' <=> ToBeAsked(b)
    BY DEF InQuestion, Understood, Stored, ToBeAsked, Retried
  <2>2. InHand' /\ b = cur'.id
    BY <1>1
  <2> HIDE DEF MayBeApproved, InHand
  <2> QED BY <1>1, <2>1, <2>2 DEF statusBar, Status
<1>2. CASE ~(InHand /\ b = cur.id)
  <2>1. ~(InHand' /\ b = cur'.id) /\ (MayBeApproved(b)' <=> MayBeApproved(b))
    BY <1>2
  <2> HIDE DEF MayBeApproved, InHand
  <2> QED BY <1>2, <2>1, StatusElsewhere, NextElsewhere
<1> QED BY <1>1, <1>2

\* A sale of which the host no longer holds anything: let go of by both, if by the terminal.
LEMMA HostForgets ==
  ASSUME LInv, IInv', UNCHANGED <<pc, cur, rows, sendReversalBit, rev, hit, fate, nAttempt>>,
         NEW a \in Attempt, ~(MayBeApproved(a)')
  PROVE  \/ statusBar'[a] = statusBar[a]
         \/ statusBar[a] = "adrift" /\ statusBar'[a] = "undone"
<1>1. CASE InHand /\ a = cur.id
  BY <1>1, HostStays
<1>2. CASE ~(InHand /\ a = cur.id)
  <2>1. ~(InHand' /\ a = cur'.id)
    BY <1>2
  <2> HIDE DEF MayBeApproved, InHand
  <2> QED BY <1>2, <2>1, StatusElsewhere, NextElsewhere
<1> QED BY <1>1, <1>2

\* The host decides, or a message is lost.
LEMMA HostLedger ==
  ASSUME LInv, IInv', Host
  PROVE  [Ledger!Next]_(Ledger!chipVars)
<1>1. /\ UNCHANGED <<pc, cur, rows, sendReversalBit, rev, hit, fate, nAttempt>>
      /\ net' = None
  BY DEF Host, HostAuthorize, HostDecline, HostReverse, HostTakesTC, HostRefuses, LoseRequest,
     Deliver
<1>2. /\ host \in [Attempt -> {"none", "approved", "declined", "reversed"}]
      /\ net = None \/ net.id \in Attempt
  BY DEF LInv, IInv, TypeOK
<1>3. CASE HostTakesTC \/ HostRefuses \/ LoseRequest
  <2>1. host' = host
    BY <1>3 DEF HostTakesTC, HostRefuses, LoseRequest
  <2>2. CASE net.type # "auth"
    <3>1. \A b \in Attempt : MayBeApproved(b)' <=> MayBeApproved(b)
      BY <1>1, <2>1, <2>2
    <3>2. \A b \in Attempt : statusBar'[b] = statusBar[b]
      BY <1>1, <3>1, HostStays
    <3> QED BY <2>1, <3>2, LedgerStutters
  <2>3. CASE net.type = "auth"
    <3>1. net.id \in Attempt
      BY <1>2, <2>3
    <3>2. ASSUME NEW b \in Attempt \ {net.id} PROVE statusBar'[b] = statusBar[b]
      <4>1. MayBeApproved(b)' <=> MayBeApproved(b)
        BY <1>1, <2>1, <3>2
      <4> QED BY <1>1, <4>1, HostStays
    <3>3. CASE host[net.id] = "approved"
      <4>1. MayBeApproved(net.id) /\ host'[net.id] = "approved"
        BY <2>1, <3>3
      <4>2. ASSUME NEW b \in Attempt PROVE statusBar'[b] = statusBar[b]
        <5>1. MayBeApproved(b)' <=> MayBeApproved(b)
          BY <1>1, <2>1, <3>3
        <5> QED BY <1>1, <5>1, HostStays
      <4> QED BY <2>1, <4>2, LedgerStutters
    <3>4. CASE host[net.id] # "approved"
      <4> PICK n \in Attempt : n = net.id
        BY <3>1
      <4>1. ~(MayBeApproved(n)')
        BY <1>1, <2>1, <3>4
      <4>2. \/ statusBar'[n] = statusBar[n]
            \/ statusBar[n] = "adrift" /\ statusBar'[n] = "undone"
        BY <1>1, <4>1, HostForgets
      <4> QED BY <2>1, <3>2, <3>4, <4>2, LedgerMoves
    <3> QED BY <3>3, <3>4
  <2> QED BY <2>2, <2>3
<1>4. CASE HostAuthorize
  <2> PICK n \in Attempt : n = net.id
    BY <1>2, <1>4 DEF HostAuthorize
  <2>1. net = [type |-> "auth", id |-> n] /\ host' = [host EXCEPT ![n] = "approved"]
    BY <1>4 DEF HostAuthorize, LInv, IInv, TypeOK
  <2>2. \A b \in Attempt : MayBeApproved(b)' <=> MayBeApproved(b)
    BY <1>1, <1>2, <2>1
  <2>3. \A b \in Attempt : statusBar'[b] = statusBar[b]
    BY <1>1, <2>2, HostStays
  <2>4. statusBar' = statusBar
    BY <2>3 DEF statusBar
  <2>5. hostHasBar' = hostHasBar \cup {n}
    BY <1>2, <2>1 DEF hostHasBar
  <2>6. statusBar[n] \in {"asked", "pending", "adrift"}
    BY <2>1, HeardOf
  <2>7. Ledger!HostTakes(n)
    BY <2>4, <2>5, <2>6 DEF Ledger!HostTakes
  <2> QED BY <2>7 DEF Ledger!Next
<1>5. CASE HostDecline \/ HostReverse
  <2> PICK n \in Attempt : n = net.id
    BY <1>2, <1>5 DEF HostDecline, HostReverse
  <2>1. /\ net \in {[type |-> "auth", id |-> n], [type |-> "reversal", id |-> n]}
        /\ net.type = "reversal" <=> ~HostDecline
        /\ host'[n] \in {"declined", "reversed"} /\ \A b \in Attempt \ {n} : host'[b] = host[b]
    BY <1>2, <1>5 DEF HostDecline, HostReverse, LInv, IInv, TypeOK
  <2>2. \A b \in Attempt \ {n} : statusBar'[b] = statusBar[b]
    <3>1. \A b \in Attempt \ {n} : MayBeApproved(b)' <=> MayBeApproved(b)
      BY <1>1, <2>1
    <3> QED BY <1>1, <3>1, HostStays
  <2>3. ~(MayBeApproved(n)')
    BY <1>1, <2>1
  <2>4. \/ statusBar'[n] = statusBar[n]
        \/ statusBar[n] = "adrift" /\ statusBar'[n] = "undone"
    BY <1>1, <2>3, HostForgets
  <2>5. hostHasBar' = hostHasBar \ {n}
    BY <2>1 DEF hostHasBar
  <2>6. CASE host[n] = "approved" \/ net = [type |-> "auth", id |-> n]
    <3>1. statusBar[n] \in {"asked", "pending", "adrift"}
      BY <2>1, <2>6, HeardOf
    <3>2. statusBar' = statusBar \/ statusBar' = [statusBar EXCEPT ![n] = "undone"]
      BY <2>2, <2>4 DEF statusBar
    <3>3. statusBar' # statusBar => statusBar[n] = "adrift"
      BY <2>2, <2>4 DEF statusBar
    <3>4. Ledger!HostLetsGo(n)
      BY <2>5, <3>1, <3>2, <3>3 DEF Ledger!HostLetsGo
    <3> QED BY <3>4 DEF Ledger!Next
  <2>7. CASE host[n] # "approved" /\ net = [type |-> "reversal", id |-> n]
    <3>1. MayBeApproved(n)' <=> MayBeApproved(n)
      BY <1>1, <2>1, <2>7
    <3>2. statusBar'[n] = statusBar[n]
      BY <1>1, <3>1, HostStays
    <3>3. statusBar' = statusBar
      BY <2>2, <3>2 DEF statusBar
    <3>4. hostHasBar' = hostHasBar
      BY <2>5, <2>7 DEF hostHasBar
    <3> QED BY <3>3, <3>4 DEF Ledger!chipVars
  <2> QED BY <2>1, <2>6, <2>7
<1> QED BY <1>3, <1>4, <1>5 DEF Host

\* A power failure leaves the sale in hand pending, undone or adrift.
LEMMA CrashLedger ==
  ASSUME LInv, IInv', Crash
  PROVE  [Ledger!Next]_(Ledger!chipVars)
<1>1. /\ pc' = "idle" /\ hit \subseteq hit'
      /\ UNCHANGED <<rows, sendReversalBit, rev, host, net, fate, nAttempt>>
  BY DEF Crash
<1>2. ~InHand' /\ \A a \in Attempt : MayBeApproved(a)' <=> MayBeApproved(a)
  BY <1>1
<1>3. UNCHANGED hostHasBar
  BY <1>1 DEF hostHasBar
<1>4. ASSUME NEW a \in Attempt
      PROVE  \/ statusBar'[a] = statusBar[a]
             \/ statusBar[a] \in Ledger!Busy \cup {"kept"} /\ statusBar'[a] = "adrift"
             \/ statusBar[a] \in Ledger!Busy /\ statusBar'[a] = "pending"
             \/ /\ statusBar[a] \notin {"kept", "undone"}
                /\ a \notin hostHasBar /\ statusBar'[a] = "undone"
  <2>1. statusBar'[a] =
           IF rows[a] # "none" THEN
               IF a \notin hit' /\ fate[a].result = "authorized" THEN "kept" ELSE "adrift"
           ELSE IF a \notin hit' /\ sendReversalBit /\ rev = a THEN "pending"
           ELSE IF a > nAttempt THEN "none"
           ELSE IF MayBeApproved(a) THEN "adrift" ELSE "undone"
    <3>1. ~(InHand' /\ a = cur'.id) /\ (MayBeApproved(a)' <=> MayBeApproved(a))
      BY <1>2
    <3> HIDE DEF MayBeApproved, InHand
    <3> QED BY <1>1, <3>1, NextElsewhere
  <2>2. a \notin hit' => a \notin hit
    BY <1>1
  <2>3. ~MayBeApproved(a) => a \notin hostHasBar
    BY DEF hostHasBar
  <2>4. CASE ~(InHand /\ a = cur.id)
    <3>1. statusBar[a] =
             IF rows[a] # "none" THEN
                 IF a \notin hit /\ fate[a].result = "authorized" THEN "kept" ELSE "adrift"
             ELSE IF a \notin hit /\ sendReversalBit /\ rev = a THEN "pending"
             ELSE IF a > nAttempt THEN "none"
             ELSE IF MayBeApproved(a) THEN "adrift" ELSE "undone"
      BY <2>4, StatusElsewhere
    <3>2. rev = a => ~(a > nAttempt)
      BY DEF LInv, IInv, Untried, TypeOK
    <3> HIDE DEF MayBeApproved, InHand
    <3> QED BY <2>1, <2>2, <2>3, <3>1, <3>2 DEF Ledger!Busy
  <2>5. CASE InHand /\ a = cur.id
    <3>1. rows[a] = "none" /\ ~(a > nAttempt)
      BY <2>5 DEF LInv, IInv, CurFits, TypeOK
    <3>2. InHandFits
      BY <2>5, StatusInHand DEF LInv
    <3>3. statusBar[a] \in {"none"} \cup Ledger!Busy
      <4>1. ByResult \in {"answered", "asked"}
        BY DEF ByResult
      <4>2. pc \in PC /\ pc \notin Settling \cup {"idle"}
        BY <2>5 DEF LInv, IInv, TypeOK, CurFits
      <4>3. pc \in Before \cup {"callBank"} \cup Asking \cup {"gen2"} => ~cur.resave
        BY DEF LInv, IInv, CurFits
      <4>4. CASE pc \in {"waitAuth", "callBank", "analyse", "gen2"} \cup Booking
        BY <2>5, <3>2, <4>1, <4>4 DEF InHandFits, Ledger!Busy
      <4>5. CASE pc \in Before \cup {"ask"} \cup Saving /\ ~cur.resave
        BY <2>5, <3>2, <4>5 DEF InHandFits, Ledger!Busy
      <4>6. CASE pc \in Saving /\ cur.resave
        BY <2>5, <3>2, <4>6 DEF InHandFits, Ledger!Busy
      <4> QED BY <4>2, <4>3, <4>4, <4>5, <4>6 DEF PC
    <3>4. statusBar[a] = "none" => ~MayBeApproved(a) /\ ~(sendReversalBit /\ rev = a)
      <4>1. ByResult # "none"
        BY DEF ByResult
      <4>2. ASSUME statusBar[a] = "none"
            PROVE  \/ pc \in Before \cup {"rev", "revWrite", "revBit"} /\ ~cur.resave /\ ~Forced
                   \/ (pc = "gen2" \/ (pc = "rev" /\ cur.resave)) /\ rev # cur.id
        <5>1. pc \in PC /\ pc \notin Settling \cup {"idle"}
          BY <2>5 DEF LInv, IInv, TypeOK, CurFits
        <5>2. pc \in Before \cup {"callBank"} \cup Asking \cup {"gen2"} => ~cur.resave
          BY DEF LInv, IInv, CurFits
        <5>3. pc \notin {"waitAuth", "callBank", "analyse"} \cup Booking
          BY <2>5, <3>2, <4>1, <4>2 DEF InHandFits
        <5>4. ~(pc \in DbkSteps \cup {"ask"} /\ ~cur.resave)
          BY <2>5, <3>2, <4>2 DEF InHandFits
        <5>5. pc = "gen2" => rev # cur.id
          BY <2>5, <3>2, <4>1, <4>2 DEF InHandFits
        <5>6. pc \in Before \cup {"rev", "revWrite", "revBit"} /\ ~cur.resave => ~Forced
          BY <2>5, <3>2, <4>2 DEF InHandFits
        <5>7. pc \in Saving /\ cur.resave => pc = "rev" /\ rev # cur.id
          BY <2>5, <3>2, <4>2 DEF InHandFits
        <5> QED BY <5>1, <5>2, <5>3, <5>4, <5>5, <5>6, <5>7 DEF PC
      <4>3. ASSUME pc \in Before \cup {"rev", "revWrite", "revBit"}, ~cur.resave, ~Forced
            PROVE  ~MayBeApproved(a) /\ ~(sendReversalBit /\ rev = a)
        BY <2>5, <4>3 DEF LInv, IInv, NotAsked, CurFits, FilesFit
      <4>4. ASSUME pc = "gen2" \/ (pc = "rev" /\ cur.resave), rev # cur.id
            PROVE  ~MayBeApproved(a) /\ ~(sendReversalBit /\ rev = a)
        BY <2>5, <4>4 DEF LInv, UnaskedFits
      <4> QED BY <4>2, <4>3, <4>4
    <3>5. statusBar'[a] \in {"pending", "adrift", "undone"}
      BY <2>1, <3>1
    <3>6. /\ statusBar'[a] = "pending" => sendReversalBit /\ rev = a
          /\ statusBar'[a] = "adrift" => MayBeApproved(a)
          /\ statusBar'[a] = "undone" => ~MayBeApproved(a)
      BY <2>1, <3>1
    <3> HIDE DEF MayBeApproved, InHand
    <3> QED BY <2>3, <3>3, <3>4, <3>5, <3>6 DEF Ledger!Busy
  <2> QED BY <2>4, <2>5
<1>5. Ledger!PowerFails
  BY <1>3, <1>4 DEF Ledger!PowerFails
<1> QED BY <1>5 DEF Ledger!Next

-----------------------------------------------------------------------------
(***************************************************************************)
(* The refinement.                                                         *)
(***************************************************************************)

\* Nothing was tried yet.
LEMMA InitLedger == Init => Ledger!Init
<1> SUFFICES ASSUME Init PROVE Ledger!Init
  OBVIOUS
<1>1. ~InHand /\ \A a \in Attempt : ~MayBeApproved(a) /\ a > nAttempt
  BY DEF Init
<1>2. ASSUME NEW a \in Attempt PROVE statusBar[a] = "none"
  BY <1>1, <1>2, StatusElsewhere DEF Init
<1>3. hostHasBar = {}
  BY DEF hostHasBar, Init
<1>4. statusBar = [a \in Attempt |-> "none"]
  BY <1>2 DEF statusBar
<1> QED BY <1>3, <1>4 DEF Ledger!Init

\* Every step is one of the ledger's, or leaves it as it was.
LEMMA NextLedger == LInv /\ IInv' /\ [Next]_vars => [Ledger!Next]_(Ledger!chipVars)
<1> SUFFICES ASSUME LInv, IInv', [Next]_vars PROVE [Ledger!Next]_(Ledger!chipVars)
  OBVIOUS
<1>1. CASE UNCHANGED vars
  <2>1. UNCHANGED <<pc, cur, rows, sendReversalBit, rev, hit, fate, nAttempt, host, net>>
    BY <1>1 DEF vars
  <2>2. \A b \in Attempt : statusBar'[b] = statusBar[b]
    BY <2>1, HostStays
  <2> QED BY <2>1, <2>2, LedgerStutters
<1> QED BY <1>1, DialogueLedger, SaveLedger, CompleteLedger, BookLedger, SettleLedger,
       CrashLedger, HostLedger DEF Next

\* EmvOnline implements ChipLedger: whatever the host and the line do and wherever the
\* power fails, what has become of a chip sale moves only as the ledger allows.
THEOREM SpecImplementsChipLedger == Spec => ImplementsChipLedger
<1> QED BY SpecIInv, SpecLInv, InitLedger, NextLedger, PTL
       DEF Spec, ImplementsChipLedger, Ledger!Spec

-----------------------------------------------------------------------------
(***************************************************************************)
(* What the ledger means for the chip sales.                               *)
(***************************************************************************)

\* A ledger's steps keep its outcomes the same at both ends.
LEMMA LedgerAgrees ==
  ASSUME Ledger!OutcomesAgree, statusBar = [a \in Attempt |-> statusBar[a]], [Ledger!Next]_(Ledger!chipVars)
  PROVE  Ledger!OutcomesAgree'
<1> USE DEF Ledger!OutcomesAgree, Ledger!Busy, Ledger!Becomes
<1>1. ASSUME NEW a \in Attempt,
             \/ Ledger!Arm(a) \/ Ledger!Ask(a) \/ Ledger!Hear(a) \/ Ledger!Keep(a)
             \/ Ledger!Reverse(a) \/ Ledger!Undo(a) \/ Ledger!LetGo(a) \/ Ledger!Store(a)
      PROVE  Ledger!OutcomesAgree'
  BY <1>1 DEF Ledger!Arm, Ledger!Ask, Ledger!Hear, Ledger!Keep, Ledger!Reverse, Ledger!Undo,
     Ledger!LetGo, Ledger!Store
<1>2. ASSUME NEW a \in Attempt, Ledger!HostTakes(a) \/ Ledger!HostLetsGo(a)
      PROVE  Ledger!OutcomesAgree'
  BY <1>2 DEF Ledger!HostTakes, Ledger!HostLetsGo
<1>3. ASSUME NEW a \in Attempt, NEW b \in Attempt, Ledger!Displace(a, b)
      PROVE  Ledger!OutcomesAgree'
  BY <1>3 DEF Ledger!Displace
<1>4. CASE Ledger!PowerFails
  BY <1>4 DEF Ledger!PowerFails
<1>5. CASE UNCHANGED Ledger!chipVars
  BY <1>5 DEF Ledger!chipVars
<1> QED BY <1>1, <1>2, <1>3, <1>4, <1>5 DEF Ledger!Next

\* At every step of a chip sale the host stands by what the terminal kept and not by what
\* it undid or did not ask yet, and at most one sale is in question or to be reversed.
THEOREM SpecOutcomesAgree == Spec => []Ledger!OutcomesAgree
<1>1. Ledger!Init => Ledger!OutcomesAgree
  BY DEF Ledger!Init, Ledger!OutcomesAgree, Ledger!Busy
<1>2. statusBar = [a \in Attempt |-> statusBar[a]]
  BY DEF statusBar, Status
<1>3. Ledger!OutcomesAgree /\ [Ledger!Next]_(Ledger!chipVars) => Ledger!OutcomesAgree'
  BY <1>2, LedgerAgrees
<1> QED BY <1>1, <1>3, SpecImplementsChipLedger, PTL DEF ImplementsChipLedger, Ledger!Spec

\* What was undone is never approved afterwards, and what was kept is never reversed.
THEOREM SpecOutcomesAreFinal == Spec => Ledger!OutcomesAreFinal
<1> DEFINE Final ==
      \A a \in Attempt :
          /\ statusBar[a] = "undone" => statusBar'[a] = "undone" /\ a \notin hostHasBar'
          /\ statusBar[a] = "kept" =>
               statusBar'[a] \in {"kept", "adrift"} /\ a \in hostHasBar'
<1>1. statusBar = [a \in Attempt |-> statusBar[a]]
  BY DEF statusBar, Status
<1>2. Ledger!OutcomesAgree /\ Ledger!Next => Final
  <2> SUFFICES ASSUME Ledger!OutcomesAgree, Ledger!Next PROVE Final
    OBVIOUS
  <2> USE DEF Ledger!OutcomesAgree, Ledger!Busy, Ledger!Becomes
  <2>1. ASSUME NEW a \in Attempt,
               \/ Ledger!Arm(a) \/ Ledger!Ask(a) \/ Ledger!Hear(a) \/ Ledger!Keep(a)
               \/ Ledger!Reverse(a) \/ Ledger!Undo(a) \/ Ledger!LetGo(a) \/ Ledger!Store(a)
        PROVE  Final
    BY <1>1, <2>1 DEF Ledger!Arm, Ledger!Ask, Ledger!Hear, Ledger!Keep, Ledger!Reverse,
       Ledger!Undo, Ledger!LetGo, Ledger!Store
  <2>2. ASSUME NEW a \in Attempt, Ledger!HostTakes(a) \/ Ledger!HostLetsGo(a)
        PROVE  Final
    BY <1>1, <2>2 DEF Ledger!HostTakes, Ledger!HostLetsGo
  <2>3. ASSUME NEW a \in Attempt, NEW b \in Attempt, Ledger!Displace(a, b)
        PROVE  Final
    BY <1>1, <2>3 DEF Ledger!Displace
  <2>4. CASE Ledger!PowerFails
    BY <2>4 DEF Ledger!PowerFails
  <2> QED BY <2>1, <2>2, <2>3, <2>4 DEF Ledger!Next
<1>3. Ledger!OutcomesAgree /\ [Ledger!Next]_(Ledger!chipVars) => [Final]_(Ledger!chipVars)
  BY <1>2
<1> QED BY <1>3, SpecOutcomesAgree, SpecImplementsChipLedger, PTL
       DEF ImplementsChipLedger, Ledger!Spec, Ledger!OutcomesAreFinal
=============================================================================
