---------------------------- MODULE EmvOnline_proofs ----------------------------
(***************************************************************************)
(* Proofs about EmvOnline for every number of sales, power failures and    *)
(* telephone calls, every set of kinds, with and without a backup line:    *)
(* what the host approved is accounted for, what is kept stays booked, the *)
(* advice file holds the certificates owed, and a batch closes clean.      *)
(***************************************************************************)
EXTENDS EmvOnline, FiniteSetTheorems, SequenceTheorems, TLAPS

(***************************************************************************)
(* The inductive invariant.                                                *)
(***************************************************************************)

Settling == {"advice", "waitAdvice", "drop", "close"}
Asking   == {"ask", "waitAuth", "analyse"}
Before   == {"connect", "reversal", "waitReversal", "delReversal"}
DbkSteps == {"dbk", "dbkWrite", "dbkBit"}

InFile(a) == a \in ToSet(queue) \/ a \in ToSet(rest)

\* The sale in hand is the latest, and nothing is known of it elsewhere yet.
CurFits ==
    /\ pc \in {"callBank", "gen2"} \cup Asking \cup Saving \cup Booking => cur.kind # "SETTLE"
    /\ pc \in Settling => cur.kind = "SETTLE"
    /\ cur.kind = "SETTLE" => ~Forced
    /\ InHand =>
         /\ cur.id = nAttempt /\ cur.id # 0
         /\ rows[cur.id] = "none"
         /\ cur.id \notin hit /\ cur.id \notin displaced
         /\ net # [type |-> "reversal", id |-> cur.id]
         /\ pc \notin {"topRest", "book"} => ~InFile(cur.id)
    /\ pc \in Before /\ InHand /\ ~Forced => rev # cur.id /\ dbk # cur.id
    /\ pc \in Before \cup {"callBank"} \cup Asking \cup {"gen2"} => ~cur.resave
    /\ pc \in {"gen2"} \cup (Booking \ {"bookSent"}) => ~Forced
    /\ cur.resave => ~Forced

\* Attempts to come have left no trace.
Untried ==
    /\ \A a \in Attempt : a > nAttempt =>
         /\ rows[a] = "none" /\ host[a] = "none" /\ fate[a] = NoFate
         /\ a \notin displaced /\ a \notin hit /\ ~InFile(a)
    /\ rev <= nAttempt /\ dbk <= nAttempt /\ net.id <= nAttempt

\* The chip has not decided about the sale in hand before it is asked.
FateFits ==
    InHand /\ pc \notin Booking /\ ~(pc \in Saving /\ cur.resave) => fate[cur.id] = NoFate

\* Nothing was asked of the host before the reversal is stored and armed.
NotAsked ==
    InHand /\ \/ pc \in Before \cup {"callBank", "ask"}
              \/ pc \in Saving /\ ~cur.resave
              \/ pc \in {"analyse", "gen2"} /\ cur.result \in {"none", "cancelled"}
        => ~MayBeApproved(cur.id)

\* The request of the sale in hand went through.
IsApproved ==
    /\ pc \in {"analyse", "gen2"} \cup Booking /\ cur.result = "authorized" =>
         host[cur.id] = "approved" /\ net # [type |-> "auth", id |-> cur.id]
    /\ pc \in Booking \ {"bookSent"} => cur.result = "authorized"
    /\ pc = "analyse" => cur.result \in IF Forced THEN {"authorized", "cancelled"}
                                       ELSE {"authorized", "cancelled", "commError"}
    /\ pc = "bookSent" /\ ~Forced => cur.result = "authorized" /\ cur.id \in hostTC

\* An unusable answer leaves the reversal armed until the chip has decided.
UnusableFits ==
    pc = "gen2" /\ cur.result \in {"noAuthCode", "unparsed"} =>
        Armed(cur.id) \/ ~MayBeApproved(cur.id)

\* An answer is heard by who waits for it, and tells the truth.
LineFits ==
    /\ reply # "none" => net = None /\ pc \in Waiting
    /\ pc = "waitAuth" =>
         /\ net \in {None, [type |-> "auth", id |-> cur.id]}
         /\ reply \in {"00", "noAuthCode"} => host[cur.id] = "approved"
         /\ reply \in {"other", "referral"} => host[cur.id] = "declined"
    /\ pc = "waitReversal" =>
         /\ ReversalFile # NoFile
         /\ net \in {None, [type |-> "reversal", id |-> ReversalFile]}
         /\ reply = "00" => host[ReversalFile] = "reversed"
    /\ pc = "waitTC" =>
         /\ net \in {None, [type |-> "tc", id |-> cur.id]}
         /\ reply = "00" => cur.id \in hostTC
    /\ pc = "waitAdvice" =>
         /\ net = None \/ (net.type \in {"tc", "advice"} /\ net.id = Head(queue))
         /\ reply = "00" => Head(queue) \in hostTC \cup hit

\* The bit and the files, as the steps that store a reversal leave them.
FilesFit ==
    /\ ~DialBackup => dbk = NoFile
    /\ pc = "revWrite" => rev = NoFile
    /\ pc = "revBit" \/ pc \in DbkSteps => rev = cur.id
    /\ pc \in DbkSteps => sendReversalBit /\ DialBackup
    /\ pc = "dbkBit" => dbk = cur.id
    /\ pc \in {"rev", "revWrite", "revBit"} /\ ~cur.resave => ~sendReversalBit
    /\ pc \in Asking => Armed(cur.id)
    /\ pc \in {"reversal", "waitReversal"} => sendReversalBit /\ ~Forced
    /\ pc = "connect" /\ Forced => ~sendReversalBit
    /\ pc \in {"delReversal", "callBank"} \cup Settling => ~sendReversalBit
    /\ pc \in Booking /\ cur.result = "authorized" => ~sendReversalBit
    /\ pc = "gen2" /\ cur.result = "authorized" => rev = cur.id

\* Nothing is left that could reverse a sale kept on the host's word.
KeptFits ==
    \A a \in Attempt \ hit :
        rows[a] # "none" /\ fate[a].result = "authorized" =>
            /\ host[a] = "approved"
            /\ net \notin {[type |-> "auth", id |-> a], [type |-> "reversal", id |-> a]}
            /\ sendReversalBit => rev # a
            /\ sendReversalBit /\ dbk = a => pc = "dbk"

\* A power failure now would be remembered against the sale in hand.
AtRisk(a) ==
    InHand /\ a = cur.id /\ \/ pc \in Booking
                            \/ cur.resave /\ pc \in Saving
                            \/ pc = "gen2" /\ ~sendReversalBit

\* ApprovalAccounted, at rest or not, for what the host may still approve as well.
Accounted ==
    \A a \in Attempt \ hit :
        MayBeApproved(a) /\ rows[a] = "none" =>
            \/ AtRisk(a)
            \/ Armed(a)
            \/ fate[a].result \in {"noAuthCode", "unparsed"} /\ fate[a].chip = "AAC"
            \/ fate[a].result = "commError" /\ fate[a].chip = "TC"
            \/ a \in displaced

\* While no power failed an armed bit has its files, but where they are rewritten.
Readable ==
    crashes = 0 /\ sendReversalBit =>
        \/ rev # NoFile /\ (DialBackup => dbk # NoFile)
        \/ pc \in {"revWrite", "revBit", "dbk", "dbkWrite"}

\* An entry is in the file once.
Once(s) == \A i, j \in DOMAIN s : s[i] = s[j] /\ s[i] \notin hit => i = j

\* The advice file and what was read from it hold the certificates owed.
QueueFits ==
    /\ rest # <<>> => pc \in {"topHead", "topRest"}
    /\ pc = "topHead" => queue = <<>>
    /\ pc = "topRest" => queue = <<cur.id>>
    /\ pc = "book" => cur.id \in ToSet(queue)
    /\ pc \in {"waitAdvice", "drop"} => queue # <<>>
    /\ pc = "close" => queue = <<>>

OnceFits ==
    /\ Once(queue) /\ Once(rest)
    /\ \A a \in Attempt \ hit : ~(a \in ToSet(queue) /\ a \in ToSet(rest))

OwedFits ==
    \A a \in Attempt \ hit :
        /\ rows[a] = "owed" => InFile(a)
        /\ InFile(a) => \/ rows[a] = "owed"
                        \/ pc \in {"topRest", "book"} /\ a = cur.id
                        \/ pc = "drop" /\ a = Head(queue)
        /\ pc = "drop" /\ a = Head(queue) => rows[a] # "owed"
        /\ rows[a] = "sent" => a \in hostTC

IInv ==
    /\ TypeOK
    /\ CurFits
    /\ Untried
    /\ FateFits
    /\ NotAsked
    /\ IsApproved
    /\ UnusableFits
    /\ LineFits
    /\ FilesFit
    /\ KeptFits
    /\ Accounted
    /\ Readable
    /\ QueueFits
    /\ OnceFits
    /\ OwedFits
    /\ OnlyOwedIsUploaded

-----------------------------------------------------------------------------
(* Sequences.                                                              *)

\* The entries of a sequence, by their places.
LEMMA Entries ==
  ASSUME NEW S, NEW s \in Seq(S)
  PROVE  \A x : x \in ToSet(s) <=> \E i \in 1 .. Len(s) : s[i] = x
  BY DEF ToSet

\* The advice file when it was deleted or is not there.
LEMMA NoEntry == ToSet(<<>>) = {} /\ Once(<<>>)
  BY DEF ToSet, Once

\* The advice file with the new entry only.
LEMMA OneEntry ==
  ASSUME NEW S, NEW e \in S
  PROVE  <<e>> \in Seq(S) /\ ToSet(<<e>>) = {e} /\ Once(<<e>>)
  BY DEF ToSet, Once

\* The new entry and what is written again behind it.
LEMMA ConcatEntries ==
  ASSUME NEW S, NEW s \in Seq(S), NEW t \in Seq(S)
  PROVE  s \o t \in Seq(S) /\ ToSet(s \o t) = ToSet(s) \cup ToSet(t)
<1>1. /\ s \o t \in Seq(S) /\ Len(s \o t) = Len(s) + Len(t)
      /\ \A i \in 1 .. Len(s) + Len(t) :
           (s \o t)[i] = IF i <= Len(s) THEN s[i] ELSE t[i - Len(s)]
  BY ConcatProperties
<1>2. ToSet(s \o t) \subseteq ToSet(s) \cup ToSet(t)
  BY <1>1 DEF ToSet
<1>3. ToSet(s) \subseteq ToSet(s \o t)
  BY <1>1 DEF ToSet
<1>4. ASSUME NEW i \in 1 .. Len(t) PROVE t[i] \in ToSet(s \o t)
  <2>1. Len(s) + i \in 1 .. Len(s \o t) /\ (s \o t)[Len(s) + i] = t[i]
    BY <1>1
  <2> QED BY <1>1, <2>1, Entries
<1>5. ToSet(t) \subseteq ToSet(s \o t)
  BY <1>4, Entries
<1> QED BY <1>1, <1>2, <1>3, <1>5

\* The advice file before and after its first entry is removed.
LEMMA TailEntries ==
  ASSUME NEW S, NEW s \in Seq(S), s # <<>>
  PROVE  /\ Head(s) \in S /\ Tail(s) \in Seq(S)
         /\ ToSet(s) = {Head(s)} \cup ToSet(Tail(s))
<1>1. /\ Head(s) = s[1] /\ Head(s) \in S /\ Tail(s) \in Seq(S) /\ Len(s) > 0
      /\ Len(Tail(s)) = Len(s) - 1 /\ \A i \in 1 .. Len(s) - 1 : Tail(s)[i] = s[i + 1]
  OBVIOUS
<1>2. ASSUME NEW i \in 1 .. Len(s), i # 1 PROVE s[i] \in ToSet(Tail(s))
  <2>1. i - 1 \in 1 .. Len(Tail(s)) /\ Tail(s)[i - 1] = s[i]
    BY <1>1, <1>2
  <2> QED BY <1>1, <2>1, Entries
<1>3. ToSet(Tail(s)) \subseteq ToSet(s)
  BY <1>1 DEF ToSet
<1> QED BY <1>1, <1>2, <1>3 DEF ToSet

\* Entries stay without repetition when sequences without a common entry are put
\* together.
LEMMA ConcatOnce ==
  ASSUME NEW S, NEW s \in Seq(S), NEW t \in Seq(S),
         Once(s), Once(t), \A a \in ToSet(s) \cap ToSet(t) : a \in hit
  PROVE  Once(s \o t)
<1>1. /\ s \o t \in Seq(S) /\ Len(s \o t) = Len(s) + Len(t)
      /\ \A i \in 1 .. Len(s) + Len(t) :
           (s \o t)[i] = IF i <= Len(s) THEN s[i] ELSE t[i - Len(s)]
  BY ConcatProperties
<1>2. SUFFICES ASSUME NEW i \in 1 .. Len(s) + Len(t), NEW j \in 1 .. Len(s) + Len(t),
                      (s \o t)[i] = (s \o t)[j], (s \o t)[i] \notin hit
               PROVE  i = j
  BY <1>1 DEF Once
<1>3. CASE i <= Len(s) /\ j <= Len(s)
  BY <1>1, <1>2, <1>3 DEF Once
<1>4. CASE i > Len(s) /\ j > Len(s)
  <2>1. i - Len(s) \in 1 .. Len(t) /\ j - Len(s) \in 1 .. Len(t)
    BY <1>4
  <2> QED BY <1>1, <1>2, <1>4, <2>1 DEF Once
<1>5. CASE i <= Len(s) /\ j > Len(s)
  <2>1. j - Len(s) \in 1 .. Len(t) /\ i \in 1 .. Len(s)
    BY <1>5
  <2>2. s[i] = t[j - Len(s)] /\ s[i] \notin hit
    BY <1>1, <1>2, <1>5
  <2> QED BY <2>1, <2>2 DEF ToSet
<1>6. CASE i > Len(s) /\ j <= Len(s)
  <2>1. i - Len(s) \in 1 .. Len(t) /\ j \in 1 .. Len(s)
    BY <1>6
  <2>2. s[j] = t[i - Len(s)] /\ s[j] \notin hit
    BY <1>1, <1>2, <1>6
  <2> QED BY <2>1, <2>2 DEF ToSet
<1> QED BY <1>3, <1>4, <1>5, <1>6

\* They stay so when the first one goes, and it is not left behind.
LEMMA TailOnce ==
  ASSUME NEW S, NEW s \in Seq(S), s # <<>>, Once(s)
  PROVE  Once(Tail(s)) /\ (Head(s) \in hit \/ Head(s) \notin ToSet(Tail(s)))
<1>1. /\ Head(s) = s[1] /\ Tail(s) \in Seq(S) /\ Len(s) > 0
      /\ Len(Tail(s)) = Len(s) - 1 /\ \A i \in 1 .. Len(s) - 1 : Tail(s)[i] = s[i + 1]
  OBVIOUS
<1>2. Once(Tail(s))
  <2>1. SUFFICES ASSUME NEW i \in 1 .. Len(s) - 1, NEW j \in 1 .. Len(s) - 1,
                        s[i + 1] = s[j + 1], s[i + 1] \notin hit
                 PROVE  i = j
    BY <1>1 DEF Once
  <2>2. i + 1 \in 1 .. Len(s) /\ j + 1 \in 1 .. Len(s)
    BY <1>1
  <2> QED BY <2>1, <2>2 DEF Once
<1>3. ASSUME Head(s) \notin hit, NEW i \in 1 .. Len(s) - 1, Tail(s)[i] = Head(s)
      PROVE  FALSE
  <2>1. i + 1 \in 1 .. Len(s) /\ 1 \in 1 .. Len(s) /\ s[i + 1] = s[1]
    BY <1>1, <1>3
  <2> QED BY <1>1, <1>3, <2>1 DEF Once
<1> QED BY <1>1, <1>2, <1>3 DEF ToSet


\* Connecting, and sending an old reversal, keeps the invariant.
LEMMA ConnectStep ==
  ASSUME TypeOK, CurFits, Untried, FateFits, NotAsked, IsApproved, UnusableFits, LineFits,
         FilesFit, KeptFits, Accounted, Readable, QueueFits, OnceFits, OwedFits,
         OnlyOwedIsUploaded,
         StartChipSale \/ Connected \/ ConnectFail \/ SendReversal \/ ReversalUnreadable
           \/ ReversalConfirmed \/ ReversalRefused \/ DeleteReversal
  PROVE  IInv'
<1> USE EmvAssumption DEF EmvAssumption, Attempt, NoFile, None, files, books, line, hist
<1>1. CASE StartChipSale
  <2> USE <1>1
  <2>1. \E kind \in Kinds : cur' = [id |-> nAttempt + 1, kind |-> kind, result |-> "none",
                             resave |-> FALSE, calls |-> 0]
    BY DEF StartChipSale, NoCur
  <2>2. cur'.id = nAttempt + 1 /\ cur'.kind # "SETTLE" /\ cur'.result = "none" /\
     ~cur'.resave /\ cur'.calls = 0
    BY <2>1
  <2>3. nAttempt \in 0 .. MaxAttempt
    BY DEF TypeOK
  <2>4. pc' = "connect" /\ pc = "idle" /\ nAttempt < MaxAttempt /\ nAttempt' = nAttempt + 1
    BY DEF StartChipSale, Goto
  <2>5. nAttempt' \in Attempt /\ nAttempt' \in 0 .. MaxAttempt
    BY <2>3, <2>4
  <2>6. UNCHANGED <<commMode, rest, files, books, line, fate, displaced, hit, crashes>>
    BY DEF StartChipSale
  <2>7. TypeOK'
    <3>1. nAttempt + 1 \in Attempt /\ "none" \in Result /\ 0 \in 0 .. MaxReferral
      BY <2>4, <2>5 DEF Result
    <3>2. cur' \in [id : Attempt \cup {0}, kind : Kinds \cup {"SETTLE"}, result : Result,
                     resave : BOOLEAN, calls : 0 .. MaxReferral]
      BY <2>1, <3>1
    <3> QED BY <3>2, <2>4, <2>5, <2>6 DEF TypeOK, PC
  <2>8. CurFits'
    BY <2>2, <2>4, <2>5, <2>6 DEF CurFits, InHand, InFile, Forced, Before, Asking, Saving,
       Booking, Settling, TypeOK, Untried, NoFate
  <2>9. Untried'
    BY <2>2, <2>4, <2>5, <2>6 DEF Untried, InFile, TypeOK, NoFate
  <2>10. FateFits'
    BY <2>2, <2>4, <2>5, <2>6 DEF FateFits, InHand, Booking, Saving, TypeOK, Untried, InFile,
       NoFate
  <2>11. NotAsked'
    BY <2>2, <2>4, <2>5, <2>6 DEF NotAsked, InHand, MayBeApproved, Before, Saving, TypeOK,
       Untried, InFile, NoFate
  <2>12. IsApproved'
    BY DEF IsApproved, Booking, Forced, TypeOK, CurFits, InHand, LineFits, StartChipSale, Goto
  <2>13. UnusableFits'
    BY DEF UnusableFits, Armed, MayBeApproved, TypeOK, CurFits, NotAsked, LineFits, FilesFit,
       InHand, Before, Asking, StartChipSale, Goto
  <2>14. LineFits'
    BY DEF LineFits, Waiting, ReversalFile, TypeOK, CurFits, InHand, StartChipSale, Goto
  <2>15. FilesFit'
    BY <2>2, <2>4, <2>5, <2>6 DEF FilesFit, DbkSteps, Asking, Settling, Booking, Armed,
       Forced, TypeOK, Untried, InFile, NoFate
  <2>16. KeptFits'
    BY DEF KeptFits, TypeOK, StartChipSale, Goto
  <2>17. Accounted'
    BY DEF Accounted, MayBeApproved, AtRisk, InHand, Armed, Booking, Saving, TypeOK,
       StartChipSale, Goto
  <2>18. Readable'
    BY DEF Readable, TypeOK, StartChipSale, Goto
  <2>19. QueueFits'
    BY DEF QueueFits, TypeOK, StartChipSale, Goto
  <2>20. OwedFits'
    BY DEF OwedFits, InFile, TypeOK, StartChipSale, Goto
  <2>21. OnceFits' /\ OnlyOwedIsUploaded'
    BY DEF OnceFits, Once, OnlyOwedIsUploaded, StartChipSale, Goto
  <2> QED BY <2>1, <2>2, <2>3, <2>4, <2>5, <2>6, <2>7, <2>8, <2>9, <2>10, <2>11, <2>12,
     <2>13, <2>14, <2>15, <2>16, <2>17, <2>18, <2>19, <2>20, <2>21 DEF IInv
<1>2. CASE Connected
  <2> USE <1>2 DEF Connected, Goto, AfterReversal
  <2>1. TypeOK'
    <3>1. pc' \in PC
      BY DEF TypeOK, PC, Saving, Booking, Waiting
    <3>2. commMode' \in {"ethernet", "modem"} /\ (commMode' = "modem" => DialBackup)
      BY DEF TypeOK
    <3> QED BY <3>1, <3>2 DEF TypeOK
  <2>2. CurFits'
    BY DEF CurFits, InHand, InFile, Forced, Before, Asking, Saving, Booking, Settling,
       TypeOK, Untried, FilesFit
  <2>3. FateFits'
    BY DEF FateFits, InHand, Booking, Saving, TypeOK
  <2>4. NotAsked'
    BY DEF NotAsked, InHand, MayBeApproved, Before, Saving, TypeOK, CurFits, LineFits
  <2>5. IsApproved'
    BY DEF IsApproved, Booking, Forced, TypeOK, CurFits, InHand, LineFits
  <2>6. UnusableFits'
    BY DEF UnusableFits, Armed, MayBeApproved, TypeOK, CurFits, NotAsked, LineFits, FilesFit,
       InHand, Before, Asking
  <2>7. LineFits'
    BY DEF LineFits, Waiting, ReversalFile, TypeOK, CurFits, InHand
  <2>8. FilesFit'
    BY DEF FilesFit, DbkSteps, Asking, Settling, Booking, Armed, Forced, TypeOK, CurFits, InHand
  <2>9. KeptFits'
    BY DEF KeptFits, TypeOK
  <2>10. Accounted'
    BY DEF Accounted, MayBeApproved, AtRisk, InHand, Armed, Booking, Saving, TypeOK
  <2>11. Readable'
    BY DEF Readable, TypeOK
  <2>12. QueueFits'
    BY DEF QueueFits, TypeOK
  <2>13. OwedFits'
    BY DEF OwedFits, InFile, TypeOK
  <2>14. Untried' /\ OnceFits' /\ OnlyOwedIsUploaded'
    BY DEF Untried, InFile, OnceFits, Once, OnlyOwedIsUploaded
  <2> QED BY <2>1, <2>2, <2>3, <2>4, <2>5, <2>6, <2>7, <2>8, <2>9, <2>10, <2>11, <2>12,
     <2>13, <2>14 DEF IInv
<1>3. CASE ConnectFail
  <2> USE <1>3 DEF ConnectFail, Fails, Goto, Finish, Forced
  <2>1. TypeOK'
    <3>1. pc' \in PC
      BY DEF TypeOK, PC, Saving, Booking, Waiting
    <3>2. cur' \in [id : Attempt \cup {0}, kind : Kinds \cup {"SETTLE"}, result : Result,
                     resave : BOOLEAN, calls : 0 .. MaxReferral]
      BY DEF TypeOK, Result, NoCur
    <3>3. commMode' \in {"ethernet", "modem"} /\ (commMode' = "modem" => DialBackup)
      BY DEF TypeOK
    <3> QED BY <3>1, <3>2, <3>3 DEF TypeOK
  <2>2. CurFits'
    BY DEF CurFits, InHand, InFile, Before, Asking, Saving, Booking, Settling, TypeOK,
       Untried, FilesFit
  <2>3. FateFits'
    BY DEF FateFits, InHand, Booking, Saving, TypeOK
  <2>4. NotAsked'
    BY DEF NotAsked, InHand, MayBeApproved, Before, Saving, TypeOK, CurFits, LineFits
  <2>5. IsApproved'
    BY DEF IsApproved, Booking, TypeOK, CurFits, InHand, LineFits
  <2>6. UnusableFits'
    BY DEF UnusableFits, Armed, MayBeApproved, TypeOK, CurFits, NotAsked, LineFits, FilesFit,
       InHand, Before, Asking
  <2>7. LineFits'
    BY DEF LineFits, Waiting, ReversalFile, TypeOK, CurFits, InHand
  <2>8. FilesFit'
    BY DEF FilesFit, DbkSteps, Asking, Settling, Booking, Armed, TypeOK, CurFits, InHand
  <2>9. KeptFits'
    BY DEF KeptFits, TypeOK
  <2>10. Accounted'
    BY DEF Accounted, MayBeApproved, AtRisk, InHand, Armed, Booking, Saving, TypeOK
  <2>11. Readable'
    BY DEF Readable, TypeOK
  <2>12. QueueFits'
    BY DEF QueueFits, TypeOK
  <2>13. OwedFits'
    BY DEF OwedFits, InFile, TypeOK
  <2>14. Untried' /\ OnceFits' /\ OnlyOwedIsUploaded'
    BY DEF Untried, InFile, OnceFits, Once, OnlyOwedIsUploaded
  <2> QED BY <2>1, <2>2, <2>3, <2>4, <2>5, <2>6, <2>7, <2>8, <2>9, <2>10, <2>11, <2>12,
     <2>13, <2>14 DEF IInv
<1>4. CASE SendReversal
  <2> USE <1>4 DEF SendReversal, Goto
  <2>1. ReversalFile \in Attempt /\ sendReversalBit /\ ReversalFile \in {rev, dbk}
    BY DEF ReversalFile, TypeOK, FilesFit
  <2>2. net' = [type |-> "reversal", id |-> ReversalFile] /\ net'.id = ReversalFile /\
     net'.type = "reversal"
    OBVIOUS
  <2>3. TypeOK'
    <3>1. pc' \in PC
      BY DEF TypeOK, PC, Saving, Booking, Waiting
    <3>2. net' \in [type : {"auth", "reversal", "tc", "advice"}, id : Attempt] \cup {None}
      BY <2>1, <2>2 DEF TypeOK
    <3> QED BY <3>1, <3>2 DEF TypeOK
  <2>4. CurFits'
    BY <2>1, <2>2 DEF CurFits, InHand, InFile, Forced, Before, Asking, Saving, Booking,
       Settling, TypeOK, FilesFit
  <2>5. Untried'
    BY <2>1, <2>2 DEF Untried, InFile
  <2>6. FateFits'
    BY DEF FateFits, InHand, Booking, Saving, TypeOK
  <2>7. NotAsked'
    BY DEF NotAsked, InHand, MayBeApproved, Before, Saving, TypeOK, CurFits, LineFits
  <2>8. IsApproved'
    BY DEF IsApproved, Booking, Forced, TypeOK, CurFits, InHand, LineFits
  <2>9. UnusableFits'
    BY DEF UnusableFits, Armed, MayBeApproved, TypeOK, CurFits, NotAsked, LineFits, FilesFit,
       InHand, Before, Asking
  <2>10. LineFits'
    BY DEF LineFits, Waiting, ReversalFile, TypeOK, CurFits, InHand
  <2>11. FilesFit'
    BY DEF FilesFit, DbkSteps, Asking, Settling, Booking, Armed, Forced, TypeOK, CurFits, InHand
  <2>12. KeptFits'
    BY <2>1, <2>2 DEF KeptFits, TypeOK, CurFits, InHand, FilesFit, Before
  <2>13. Accounted'
    BY DEF Accounted, MayBeApproved, AtRisk, InHand, Armed, Booking, Saving, TypeOK
  <2>14. Readable'
    BY DEF Readable, TypeOK
  <2>15. QueueFits'
    BY DEF QueueFits, TypeOK
  <2>16. OwedFits'
    BY DEF OwedFits, InFile, TypeOK
  <2>17. OnlyOwedIsUploaded'
    BY DEF OnlyOwedIsUploaded, TypeOK
  <2>18. OnceFits'
    BY DEF OnceFits, Once
  <2> QED BY <2>1, <2>2, <2>3, <2>4, <2>5, <2>6, <2>7, <2>8, <2>9, <2>10, <2>11, <2>12,
     <2>13, <2>14, <2>15, <2>16, <2>17, <2>18 DEF IInv
<1>5. CASE ReversalUnreadable
  <2> USE <1>5 DEF ReversalUnreadable, Fails, Goto, Finish, Forced
  <2>1. TypeOK'
    <3>1. pc' \in PC
      BY DEF TypeOK, PC, Saving, Booking, Waiting
    <3>2. cur' \in [id : Attempt \cup {0}, kind : Kinds \cup {"SETTLE"}, result : Result,
                     resave : BOOLEAN, calls : 0 .. MaxReferral]
      BY DEF TypeOK, Result, NoCur
    <3>3. commMode' \in {"ethernet", "modem"} /\ (commMode' = "modem" => DialBackup)
      BY DEF TypeOK
    <3> QED BY <3>1, <3>2, <3>3 DEF TypeOK
  <2>2. CurFits'
    BY DEF CurFits, InHand, InFile, Before, Asking, Saving, Booking, Settling, TypeOK,
       Untried, FilesFit
  <2>3. FateFits'
    BY DEF FateFits, InHand, Booking, Saving, TypeOK
  <2>4. NotAsked'
    BY DEF NotAsked, InHand, MayBeApproved, Before, Saving, TypeOK, CurFits, LineFits
  <2>5. IsApproved'
    BY DEF IsApproved, Booking, TypeOK, CurFits, InHand, LineFits
  <2>6. UnusableFits'
    BY DEF UnusableFits, Armed, MayBeApproved, TypeOK, CurFits, NotAsked, LineFits, FilesFit,
       InHand, Before, Asking
  <2>7. LineFits'
    BY DEF LineFits, Waiting, ReversalFile, TypeOK, CurFits, InHand
  <2>8. FilesFit'
    BY DEF FilesFit, DbkSteps, Asking, Settling, Booking, Armed, TypeOK, CurFits, InHand
  <2>9. KeptFits'
    BY DEF KeptFits, TypeOK
  <2>10. Accounted'
    BY DEF Accounted, MayBeApproved, AtRisk, InHand, Armed, Booking, Saving, TypeOK
  <2>11. Readable'
    BY DEF Readable, TypeOK
  <2>12. QueueFits'
    BY DEF QueueFits, TypeOK
  <2>13. OwedFits'
    BY DEF OwedFits, InFile, TypeOK
  <2>14. Untried' /\ OnceFits' /\ OnlyOwedIsUploaded'
    BY DEF Untried, InFile, OnceFits, Once, OnlyOwedIsUploaded
  <2> QED BY <2>1, <2>2, <2>3, <2>4, <2>5, <2>6, <2>7, <2>8, <2>9, <2>10, <2>11, <2>12,
     <2>13, <2>14 DEF IInv
<1>6. CASE ReversalConfirmed
  <2> USE <1>6 DEF ReversalConfirmed, Goto
  <2>1. TypeOK'
    <3>1. pc' \in PC
      BY DEF TypeOK, PC, Saving, Booking, Waiting
    <3>2. sendReversalBit' \in BOOLEAN
      BY DEF TypeOK
    <3>3. reply' \in {"none", "00", "other", "referral", "noAuthCode", "unparsed"}
      BY DEF TypeOK
    <3> QED BY <3>1, <3>2, <3>3 DEF TypeOK
  <2>2. CurFits'
    BY DEF CurFits, InHand, InFile, Forced, Before, Asking, Saving, Booking, Settling,
       TypeOK, Untried, FilesFit
  <2>3. FateFits'
    BY DEF FateFits, InHand, Booking, Saving, TypeOK
  <2>4. NotAsked'
    BY DEF NotAsked, InHand, MayBeApproved, Before, Saving, TypeOK, CurFits, LineFits
  <2>5. IsApproved'
    BY DEF IsApproved, Booking, Forced, TypeOK, CurFits, InHand, LineFits
  <2>6. UnusableFits'
    BY DEF UnusableFits, Armed, MayBeApproved, TypeOK, CurFits, NotAsked, LineFits, FilesFit,
       InHand, Before, Asking
  <2>7. LineFits'
    BY DEF LineFits, Waiting, ReversalFile, TypeOK, CurFits, InHand
  <2>8. FilesFit'
    BY DEF FilesFit, DbkSteps, Asking, Settling, Booking, Armed, Forced, TypeOK, CurFits, InHand
  <2>9. KeptFits'
    BY DEF KeptFits, TypeOK
  <2>10. Accounted'
    BY DEF Accounted, MayBeApproved, AtRisk, InHand, Armed, Booking, Saving, TypeOK,
       LineFits, ReversalFile
  <2>11. Readable'
    BY DEF Readable, TypeOK
  <2>12. QueueFits'
    BY DEF QueueFits, TypeOK
  <2>13. OwedFits'
    BY DEF OwedFits, InFile, TypeOK
  <2>14. Untried' /\ OnceFits' /\ OnlyOwedIsUploaded'
    BY DEF Untried, InFile, OnceFits, Once, OnlyOwedIsUploaded
  <2> QED BY <2>1, <2>2, <2>3, <2>4, <2>5, <2>6, <2>7, <2>8, <2>9, <2>10, <2>11, <2>12,
     <2>13, <2>14 DEF IInv
<1>7. CASE ReversalRefused
  <2> USE <1>7 DEF ReversalRefused, Fails, Goto, Finish, Forced
  <2>1. TypeOK'
    <3>1. pc' \in PC
      BY DEF TypeOK, PC, Saving, Booking, Waiting
    <3>2. cur' \in [id : Attempt \cup {0}, kind : Kinds \cup {"SETTLE"}, result : Result,
                     resave : BOOLEAN, calls : 0 .. MaxReferral]
      BY DEF TypeOK, Result, NoCur
    <3>3. commMode' \in {"ethernet", "modem"} /\ (commMode' = "modem" => DialBackup)
      BY DEF TypeOK
    <3>4. reply' \in {"none", "00", "other", "referral", "noAuthCode", "unparsed"}
      BY DEF TypeOK
    <3> QED BY <3>1, <3>2, <3>3, <3>4 DEF TypeOK
  <2>2. CurFits'
    BY DEF CurFits, InHand, InFile, Before, Asking, Saving, Booking, Settling, TypeOK,
       Untried, FilesFit
  <2>3. FateFits'
    BY DEF FateFits, InHand, Booking, Saving, TypeOK
  <2>4. NotAsked'
    BY DEF NotAsked, InHand, MayBeApproved, Before, Saving, TypeOK, CurFits, LineFits
  <2>5. IsApproved'
    BY DEF IsApproved, Booking, TypeOK, CurFits, InHand, LineFits
  <2>6. UnusableFits'
    BY DEF UnusableFits, Armed, MayBeApproved, TypeOK, CurFits, NotAsked, LineFits, FilesFit,
       InHand, Before, Asking
  <2>7. LineFits'
    BY DEF LineFits, Waiting, ReversalFile, TypeOK, CurFits, InHand
  <2>8. FilesFit'
    BY DEF FilesFit, DbkSteps, Asking, Settling, Booking, Armed, TypeOK, CurFits, InHand
  <2>9. KeptFits'
    BY DEF KeptFits, TypeOK
  <2>10. Accounted'
    BY DEF Accounted, MayBeApproved, AtRisk, InHand, Armed, Booking, Saving, TypeOK
  <2>11. Readable'
    BY DEF Readable, TypeOK
  <2>12. QueueFits'
    BY DEF QueueFits, TypeOK
  <2>13. OwedFits'
    BY DEF OwedFits, InFile, TypeOK
  <2>14. Untried' /\ OnceFits' /\ OnlyOwedIsUploaded'
    BY DEF Untried, InFile, OnceFits, Once, OnlyOwedIsUploaded
  <2> QED BY <2>1, <2>2, <2>3, <2>4, <2>5, <2>6, <2>7, <2>8, <2>9, <2>10, <2>11, <2>12,
     <2>13, <2>14 DEF IInv
<1>8. CASE DeleteReversal
  <2> USE <1>8 DEF DeleteReversal, Goto, AfterReversal
  <2>1. TypeOK'
    <3>1. pc' \in PC
      BY DEF TypeOK, PC, Saving, Booking, Waiting
    <3>2. rev' \in Attempt \cup {NoFile}
      BY DEF TypeOK
    <3>3. dbk' \in Attempt \cup {NoFile}
      BY DEF TypeOK
    <3> QED BY <3>1, <3>2, <3>3 DEF TypeOK
  <2>2. CurFits'
    BY DEF CurFits, InHand, InFile, Forced, Before, Asking, Saving, Booking, Settling,
       TypeOK, Untried, FilesFit
  <2>3. Untried'
    BY DEF Untried, InFile, TypeOK, CurFits, InHand
  <2>4. FateFits'
    BY DEF FateFits, InHand, Booking, Saving, TypeOK
  <2>5. NotAsked'
    BY DEF NotAsked, InHand, MayBeApproved, Before, Saving, TypeOK, CurFits, LineFits
  <2>6. IsApproved'
    BY DEF IsApproved, Booking, Forced, TypeOK, CurFits, InHand, LineFits
  <2>7. UnusableFits'
    BY DEF UnusableFits, Armed, MayBeApproved, TypeOK, CurFits, NotAsked, LineFits, FilesFit,
       InHand, Before, Asking
  <2>8. LineFits'
    BY DEF LineFits, Waiting, ReversalFile, TypeOK, CurFits, InHand
  <2>9. FilesFit'
    BY DEF FilesFit, DbkSteps, Asking, Settling, Booking, Armed, Forced, TypeOK, CurFits, InHand
  <2>10. KeptFits'
    BY DEF KeptFits, TypeOK
  <2>11. Accounted'
    BY DEF Accounted, MayBeApproved, AtRisk, InHand, Armed, Booking, Saving, TypeOK, FilesFit
  <2>12. Readable'
    BY DEF Readable, FilesFit
  <2>13. QueueFits'
    BY DEF QueueFits, TypeOK
  <2>14. OwedFits'
    BY DEF OwedFits, InFile, TypeOK
  <2>15. OnceFits' /\ OnlyOwedIsUploaded'
    BY DEF OnceFits, Once, OnlyOwedIsUploaded
  <2> QED BY <2>1, <2>2, <2>3, <2>4, <2>5, <2>6, <2>7, <2>8, <2>9, <2>10, <2>11, <2>12,
     <2>13, <2>14, <2>15 DEF IInv
<1> QED BY <1>1, <1>2, <1>3, <1>4, <1>5, <1>6, <1>7, <1>8

\* The request and its answer keep the invariant.
LEMMA AskStep ==
  ASSUME TypeOK, CurFits, Untried, FateFits, NotAsked, IsApproved, UnusableFits, LineFits,
         FilesFit, KeptFits, Accounted, Readable, QueueFits, OnceFits, OwedFits,
         OnlyOwedIsUploaded,
         SendAuth \/ Answered \/ AnswerUnusable \/ Timeout \/ OnlineAnalyseEMV
           \/ AnalyseForced \/ Referral \/ ReferralDenied \/ ReferralApproved
  PROVE  IInv'
<1> USE EmvAssumption DEF EmvAssumption, Attempt, NoFile, None, files, books, line, hist
<1>1. CASE SendAuth
  <2> USE <1>1 DEF SendAuth, Goto
  <2>1. cur.id = nAttempt /\ cur.id \in Attempt /\ rows[cur.id] = "none" /\ Armed(cur.id)
    BY DEF CurFits, InHand, Asking, TypeOK, FilesFit
  <2>2. net' = [type |-> "auth", id |-> cur.id] /\ net'.id = cur.id /\ net'.type = "auth"
    OBVIOUS
  <2>3. TypeOK'
    <3>1. pc' \in PC
      BY DEF TypeOK, PC, Saving, Booking, Waiting
    <3>2. net' \in [type : {"auth", "reversal", "tc", "advice"}, id : Attempt] \cup {None}
      BY <2>1, <2>2 DEF TypeOK
    <3> QED BY <3>1, <3>2 DEF TypeOK
  <2>4. CurFits'
    BY DEF CurFits, InHand, InFile, Forced, Before, Asking, Saving, Booking, Settling,
       TypeOK, Untried, FilesFit
  <2>5. Untried'
    BY <2>1, <2>2 DEF Untried, InFile, TypeOK
  <2>6. FateFits'
    BY DEF FateFits, InHand, Booking, Saving, TypeOK
  <2>7. NotAsked'
    BY DEF NotAsked, InHand, MayBeApproved, Before, Saving, TypeOK, CurFits, LineFits
  <2>8. IsApproved'
    BY DEF IsApproved, Booking, Forced, TypeOK, CurFits, InHand, LineFits
  <2>9. UnusableFits'
    BY DEF UnusableFits, Armed, MayBeApproved, TypeOK, CurFits, NotAsked, LineFits, FilesFit,
       InHand, Before, Asking
  <2>10. LineFits'
    BY DEF LineFits, Waiting, ReversalFile, TypeOK, CurFits, InHand
  <2>11. FilesFit'
    BY DEF FilesFit, DbkSteps, Asking, Settling, Booking, Armed, Forced, TypeOK, CurFits, InHand
  <2>12. KeptFits'
    BY <2>1, <2>2 DEF KeptFits, TypeOK
  <2>13. Accounted'
    BY <2>1, <2>2 DEF Accounted, MayBeApproved, AtRisk, InHand, Armed, Booking, Saving, TypeOK
  <2>14. Readable'
    BY DEF Readable, TypeOK
  <2>15. QueueFits'
    BY DEF QueueFits, TypeOK
  <2>16. OwedFits'
    BY DEF OwedFits, InFile, TypeOK
  <2>17. OnlyOwedIsUploaded'
    BY DEF OnlyOwedIsUploaded, TypeOK
  <2>18. OnceFits'
    BY DEF OnceFits, Once
  <2> QED BY <2>1, <2>2, <2>3, <2>4, <2>5, <2>6, <2>7, <2>8, <2>9, <2>10, <2>11, <2>12,
     <2>13, <2>14, <2>15, <2>16, <2>17, <2>18 DEF IInv
<1>2. CASE Answered
  <2> USE <1>2 DEF Answered, Goto, Approves, Declines
  <2>1. TypeOK'
    <3>1. pc' \in PC
      BY DEF TypeOK, PC, Saving, Booking, Waiting
    <3>2. cur' \in [id : Attempt \cup {0}, kind : Kinds \cup {"SETTLE"}, result : Result,
                     resave : BOOLEAN, calls : 0 .. MaxReferral]
      BY DEF TypeOK, Result, NoCur
    <3>3. reply' \in {"none", "00", "other", "referral", "noAuthCode", "unparsed"}
      BY DEF TypeOK
    <3> QED BY <3>1, <3>2, <3>3 DEF TypeOK
  <2>2. CurFits'
    BY DEF CurFits, InHand, InFile, Forced, Before, Asking, Saving, Booking, Settling,
       TypeOK, Untried, FilesFit
  <2>3. FateFits'
    BY DEF FateFits, InHand, Booking, Saving, TypeOK
  <2>4. NotAsked'
    BY DEF NotAsked, InHand, MayBeApproved, Before, Saving, TypeOK, CurFits, LineFits
  <2>5. IsApproved'
    BY DEF IsApproved, Booking, Forced, TypeOK, CurFits, InHand, LineFits
  <2>6. UnusableFits'
    BY DEF UnusableFits, Armed, MayBeApproved, TypeOK, CurFits, NotAsked, LineFits, FilesFit,
       InHand, Before, Asking
  <2>7. LineFits'
    BY DEF LineFits, Waiting, ReversalFile, TypeOK, CurFits, InHand
  <2>8. FilesFit'
    BY DEF FilesFit, DbkSteps, Asking, Settling, Booking, Armed, Forced, TypeOK, CurFits, InHand
  <2>9. KeptFits'
    BY DEF KeptFits, TypeOK
  <2>10. Accounted'
    BY DEF Accounted, MayBeApproved, AtRisk, InHand, Armed, Booking, Saving, TypeOK
  <2>11. Readable'
    BY DEF Readable, TypeOK
  <2>12. QueueFits'
    BY DEF QueueFits, TypeOK
  <2>13. OwedFits'
    BY DEF OwedFits, InFile, TypeOK
  <2>14. Untried' /\ OnceFits' /\ OnlyOwedIsUploaded'
    BY DEF Untried, InFile, OnceFits, Once, OnlyOwedIsUploaded
  <2> QED BY <2>1, <2>2, <2>3, <2>4, <2>5, <2>6, <2>7, <2>8, <2>9, <2>10, <2>11, <2>12,
     <2>13, <2>14 DEF IInv
<1>3. CASE AnswerUnusable
  <2> USE <1>3 DEF AnswerUnusable, Fails, Goto, Finish, Forced
  <2>1. TypeOK'
    <3>1. pc' \in PC
      BY DEF TypeOK, PC, Saving, Booking, Waiting
    <3>2. cur' \in [id : Attempt \cup {0}, kind : Kinds \cup {"SETTLE"}, result : Result,
                     resave : BOOLEAN, calls : 0 .. MaxReferral]
      BY DEF TypeOK, Result, NoCur
    <3>3. commMode' \in {"ethernet", "modem"} /\ (commMode' = "modem" => DialBackup)
      BY DEF TypeOK
    <3>4. reply' \in {"none", "00", "other", "referral", "noAuthCode", "unparsed"}
      BY DEF TypeOK
    <3> QED BY <3>1, <3>2, <3>3, <3>4 DEF TypeOK
  <2>2. CurFits'
    BY DEF CurFits, InHand, InFile, Before, Asking, Saving, Booking, Settling, TypeOK,
       Untried, FilesFit
  <2>3. FateFits'
    BY DEF FateFits, InHand, Booking, Saving, TypeOK
  <2>4. NotAsked'
    BY DEF NotAsked, InHand, MayBeApproved, Before, Saving, TypeOK, CurFits, LineFits
  <2>5. IsApproved'
    BY DEF IsApproved, Booking, TypeOK, CurFits, InHand, LineFits
  <2>6. UnusableFits'
    BY DEF UnusableFits, Armed, MayBeApproved, TypeOK, CurFits, NotAsked, LineFits, FilesFit,
       InHand, Before, Asking
  <2>7. LineFits'
    BY DEF LineFits, Waiting, ReversalFile, TypeOK, CurFits, InHand
  <2>8. FilesFit'
    BY DEF FilesFit, DbkSteps, Asking, Settling, Booking, Armed, TypeOK, CurFits, InHand
  <2>9. KeptFits'
    BY DEF KeptFits, TypeOK
  <2>10. Accounted'
    BY DEF Accounted, MayBeApproved, AtRisk, InHand, Armed, Booking, Saving, TypeOK
  <2>11. Readable'
    BY DEF Readable, TypeOK
  <2>12. QueueFits'
    BY DEF QueueFits, TypeOK
  <2>13. OwedFits'
    BY DEF OwedFits, InFile, TypeOK
  <2>14. Untried' /\ OnceFits' /\ OnlyOwedIsUploaded'
    BY DEF Untried, InFile, OnceFits, Once, OnlyOwedIsUploaded
  <2> QED BY <2>1, <2>2, <2>3, <2>4, <2>5, <2>6, <2>7, <2>8, <2>9, <2>10, <2>11, <2>12,
     <2>13, <2>14 DEF IInv
<1>4. CASE Timeout
  <2> USE <1>4
  <2>1. cur' = [cur EXCEPT !.result = "commError"]
    BY DEF Timeout, Fails, Goto, Finish, Forced
  <2>2. cur'.id = cur.id /\ cur'.kind = cur.kind /\ cur'.resave = cur.resave
         /\ cur'.calls = cur.calls /\ cur'.result = "commError"
    BY <2>1 DEF TypeOK
  <2>3. cur.calls > 1 => Forced
    BY DEF Forced, TypeOK
  <2>4. pc = "waitAuth" => pc' \in {"analyse", "bookSent", "idle"} /\ (pc' = "analyse" <=>
     ~Forced)
    BY <2>3 DEF Timeout, Fails, Goto, Finish
  <2>5. pc = "waitReversal" /\ pc' # "idle" => pc' = "gen2" /\ ~Forced /\ cur.kind # "SETTLE"
    BY <2>3 DEF Timeout, Fails, Goto, Finish
  <2>6. pc \in {"waitAuth", "waitReversal"}
    BY <2>3 DEF Timeout, Fails, Goto, Finish
  <2>7. UNCHANGED <<rest, files, books, host, hostTC, net, hist>>
    BY DEF Timeout
  <2>8. TypeOK'
    <3>1. pc' \in PC
      BY DEF TypeOK, PC, Saving, Booking, Waiting, Timeout, Fails, Goto, Finish, Forced
    <3>2. cur' \in [id : Attempt \cup {0}, kind : Kinds \cup {"SETTLE"}, result : Result,
                     resave : BOOLEAN, calls : 0 .. MaxReferral]
      BY DEF TypeOK, Result, NoCur, Timeout, Fails, Goto, Finish, Forced
    <3>3. commMode' \in {"ethernet", "modem"} /\ (commMode' = "modem" => DialBackup)
      BY DEF TypeOK, Timeout, Fails, Goto, Finish, Forced
    <3>4. reply' \in {"none", "00", "other", "referral", "noAuthCode", "unparsed"}
      BY DEF TypeOK, Timeout, Fails, Goto, Finish, Forced
    <3> QED BY <3>1, <3>2, <3>3, <3>4 DEF TypeOK, Timeout, Fails, Goto, Finish, Forced
  <2>9. CurFits'
    <3>1. CASE pc' = "idle"
      BY <2>2, <2>7, <3>1 DEF CurFits, InHand, InFile, Forced, Before, Asking, Saving,
         Booking, Settling
    <3>2. CASE pc = "waitAuth" /\ pc' # "idle"
      BY <2>2, <2>4, <2>7, <3>2 DEF CurFits, InHand, InFile, Forced, Before, Asking, Saving,
         Booking, Settling
    <3>3. CASE pc = "waitReversal" /\ pc' # "idle"
      BY <2>2, <2>5, <2>7, <3>3 DEF CurFits, InHand, InFile, Forced, Before, Asking, Saving,
         Booking, Settling
    <3> QED BY <2>6, <3>1, <3>2, <3>3
  <2>10. FateFits'
    BY DEF FateFits, InHand, Booking, Saving, TypeOK, Timeout, Fails, Goto, Finish, Forced
  <2>11. NotAsked'
    BY DEF NotAsked, InHand, MayBeApproved, Before, Saving, TypeOK, CurFits, LineFits,
       Timeout, Fails, Goto, Finish, Forced
  <2>12. IsApproved'
    <3>1. CASE pc' = "idle"
      BY <2>2, <2>7, <3>1 DEF IsApproved, Forced, Booking
    <3>2. CASE pc = "waitAuth" /\ pc' # "idle"
      BY <2>2, <2>4, <2>7, <3>2 DEF IsApproved, Forced, Booking
    <3>3. CASE pc = "waitReversal" /\ pc' # "idle"
      BY <2>2, <2>5, <2>7, <3>3 DEF IsApproved, Forced, Booking
    <3> QED BY <2>6, <3>1, <3>2, <3>3
  <2>13. UnusableFits'
    BY <2>2, <2>4, <2>5, <2>6, <2>7 DEF UnusableFits, Armed, MayBeApproved, TypeOK, CurFits,
       InHand, LineFits
  <2>14. LineFits'
    BY DEF LineFits, Waiting, ReversalFile, TypeOK, CurFits, InHand, Timeout, Fails, Goto,
       Finish, Forced
  <2>15. FilesFit'
    BY DEF FilesFit, DbkSteps, Asking, Settling, Booking, Armed, Forced, TypeOK, CurFits,
       InHand, Timeout, Fails, Goto, Finish
  <2>16. KeptFits'
    BY DEF KeptFits, TypeOK, Timeout, Fails, Goto, Finish, Forced
  <2>17. Accounted'
    BY DEF Accounted, MayBeApproved, AtRisk, InHand, Armed, Booking, Saving, TypeOK, Timeout,
       Fails, Goto, Finish, Forced
  <2>18. Readable'
    BY DEF Readable, TypeOK, Timeout, Fails, Goto, Finish, Forced
  <2>19. QueueFits'
    BY DEF QueueFits, TypeOK, Timeout, Fails, Goto, Finish, Forced
  <2>20. OwedFits'
    BY DEF OwedFits, InFile, TypeOK, Timeout, Fails, Goto, Finish, Forced
  <2>21. Untried' /\ OnceFits' /\ OnlyOwedIsUploaded'
    BY DEF Untried, InFile, OnceFits, Once, OnlyOwedIsUploaded, Timeout, Fails, Goto, Finish,
       Forced
  <2> QED BY <2>1, <2>2, <2>3, <2>4, <2>5, <2>6, <2>7, <2>8, <2>9, <2>10, <2>11, <2>12,
     <2>13, <2>14, <2>15, <2>16, <2>17, <2>18, <2>19, <2>20, <2>21 DEF IInv
<1>5. CASE OnlineAnalyseEMV
  <2> USE <1>5 DEF OnlineAnalyseEMV, Goto, Disarms, Forced
  <2>1. TypeOK'
    <3>1. pc' \in PC
      BY DEF TypeOK, PC, Saving, Booking, Waiting
    <3>2. sendReversalBit' \in BOOLEAN
      BY DEF TypeOK
    <3> QED BY <3>1, <3>2 DEF TypeOK
  <2>2. CurFits'
    BY DEF CurFits, InHand, InFile, Before, Asking, Saving, Booking, Settling, TypeOK,
       Untried, FilesFit
  <2>3. FateFits'
    BY DEF FateFits, InHand, Booking, Saving, TypeOK
  <2>4. NotAsked'
    BY DEF NotAsked, InHand, MayBeApproved, Before, Saving, TypeOK, CurFits, LineFits
  <2>5. IsApproved'
    BY DEF IsApproved, Booking, TypeOK, CurFits, InHand, LineFits
  <2>6. UnusableFits'
    BY DEF UnusableFits, Armed, MayBeApproved, TypeOK, CurFits, NotAsked, LineFits, FilesFit,
       InHand, Before, Asking
  <2>7. LineFits'
    BY DEF LineFits, Waiting, ReversalFile, TypeOK, CurFits, InHand
  <2>8. FilesFit'
    BY DEF FilesFit, DbkSteps, Asking, Settling, Booking, Armed, TypeOK, CurFits, InHand
  <2>9. KeptFits'
    BY DEF KeptFits, TypeOK
  <2>10. Accounted'
    BY DEF Accounted, MayBeApproved, AtRisk, InHand, Armed, Booking, Saving, TypeOK,
       FilesFit, NotAsked, CurFits, IsApproved, DbkSteps, Asking
  <2>11. Readable'
    BY DEF Readable, TypeOK
  <2>12. QueueFits'
    BY DEF QueueFits, TypeOK
  <2>13. OwedFits'
    BY DEF OwedFits, InFile, TypeOK
  <2>14. Untried' /\ OnceFits' /\ OnlyOwedIsUploaded'
    BY DEF Untried, InFile, OnceFits, Once, OnlyOwedIsUploaded
  <2> QED BY <2>1, <2>2, <2>3, <2>4, <2>5, <2>6, <2>7, <2>8, <2>9, <2>10, <2>11, <2>12,
     <2>13, <2>14 DEF IInv
<1>6. CASE AnalyseForced
  <2> USE <1>6 DEF AnalyseForced, Goto, Finish, Forced
  <2>1. TypeOK'
    <3>1. pc' \in PC
      BY DEF TypeOK, PC, Saving, Booking, Waiting
    <3>2. commMode' \in {"ethernet", "modem"} /\ (commMode' = "modem" => DialBackup)
      BY DEF TypeOK
    <3>3. sendReversalBit' \in BOOLEAN
      BY DEF TypeOK
    <3> QED BY <3>1, <3>2, <3>3 DEF TypeOK
  <2>2. CurFits'
    BY DEF CurFits, InHand, InFile, Before, Asking, Saving, Booking, Settling, TypeOK,
       Untried, FilesFit
  <2>3. FateFits'
    BY DEF FateFits, InHand, Booking, Saving, TypeOK
  <2>4. NotAsked'
    BY DEF NotAsked, InHand, MayBeApproved, Before, Saving, TypeOK, CurFits, LineFits
  <2>5. IsApproved'
    BY DEF IsApproved, Booking, TypeOK, CurFits, InHand, LineFits
  <2>6. UnusableFits'
    BY DEF UnusableFits, Armed, MayBeApproved, TypeOK, CurFits, NotAsked, LineFits, FilesFit,
       InHand, Before, Asking
  <2>7. LineFits'
    BY DEF LineFits, Waiting, ReversalFile, TypeOK, CurFits, InHand
  <2>8. FilesFit'
    BY DEF FilesFit, DbkSteps, Asking, Settling, Booking, Armed, TypeOK, CurFits, InHand
  <2>9. KeptFits'
    BY DEF KeptFits, TypeOK
  <2>10. Accounted'
    BY DEF Accounted, MayBeApproved, AtRisk, InHand, Armed, Booking, Saving, TypeOK,
       FilesFit, NotAsked, CurFits, IsApproved, Asking, Settling
  <2>11. Readable'
    BY DEF Readable, TypeOK
  <2>12. QueueFits'
    BY DEF QueueFits, TypeOK
  <2>13. OwedFits'
    BY DEF OwedFits, InFile, TypeOK
  <2>14. Untried' /\ OnceFits' /\ OnlyOwedIsUploaded'
    BY DEF Untried, InFile, OnceFits, Once, OnlyOwedIsUploaded
  <2> QED BY <2>1, <2>2, <2>3, <2>4, <2>5, <2>6, <2>7, <2>8, <2>9, <2>10, <2>11, <2>12,
     <2>13, <2>14 DEF IInv
<1>7. CASE Referral
  <2> USE <1>7 DEF Referral, Goto
  <2>1. TypeOK'
    <3>1. pc' \in PC
      BY DEF TypeOK, PC, Saving, Booking, Waiting
    <3>2. sendReversalBit' \in BOOLEAN
      BY DEF TypeOK
    <3>3. reply' \in {"none", "00", "other", "referral", "noAuthCode", "unparsed"}
      BY DEF TypeOK
    <3> QED BY <3>1, <3>2, <3>3 DEF TypeOK
  <2>2. CurFits'
    BY DEF CurFits, InHand, InFile, Forced, Before, Asking, Saving, Booking, Settling,
       TypeOK, Untried, FilesFit
  <2>3. FateFits'
    BY DEF FateFits, InHand, Booking, Saving, TypeOK
  <2>4. NotAsked'
    BY DEF NotAsked, InHand, MayBeApproved, Before, Saving, TypeOK, CurFits, LineFits
  <2>5. IsApproved'
    BY DEF IsApproved, Booking, Forced, TypeOK, CurFits, InHand, LineFits
  <2>6. UnusableFits'
    BY DEF UnusableFits, Armed, MayBeApproved, TypeOK, CurFits, NotAsked, LineFits, FilesFit,
       InHand, Before, Asking
  <2>7. LineFits'
    BY DEF LineFits, Waiting, ReversalFile, TypeOK, CurFits, InHand
  <2>8. FilesFit'
    BY DEF FilesFit, DbkSteps, Asking, Settling, Booking, Armed, Forced, TypeOK, CurFits, InHand
  <2>9. KeptFits'
    BY DEF KeptFits, TypeOK
  <2>10. Accounted'
    BY DEF Accounted, MayBeApproved, AtRisk, InHand, Armed, Booking, Saving, TypeOK,
       FilesFit, LineFits, Asking
  <2>11. Readable'
    BY DEF Readable, TypeOK
  <2>12. QueueFits'
    BY DEF QueueFits, TypeOK
  <2>13. OwedFits'
    BY DEF OwedFits, InFile, TypeOK
  <2>14. Untried' /\ OnceFits' /\ OnlyOwedIsUploaded'
    BY DEF Untried, InFile, OnceFits, Once, OnlyOwedIsUploaded
  <2> QED BY <2>1, <2>2, <2>3, <2>4, <2>5, <2>6, <2>7, <2>8, <2>9, <2>10, <2>11, <2>12,
     <2>13, <2>14 DEF IInv
<1>8. CASE ReferralDenied
  <2> USE <1>8 DEF ReferralDenied, Fails, Goto, Finish, Forced
  <2>1. TypeOK'
    <3>1. pc' \in PC
      BY DEF TypeOK, PC, Saving, Booking, Waiting
    <3>2. cur' \in [id : Attempt \cup {0}, kind : Kinds \cup {"SETTLE"}, result : Result,
                     resave : BOOLEAN, calls : 0 .. MaxReferral]
      BY DEF TypeOK, Result, NoCur
    <3>3. commMode' \in {"ethernet", "modem"} /\ (commMode' = "modem" => DialBackup)
      BY DEF TypeOK
    <3> QED BY <3>1, <3>2, <3>3 DEF TypeOK
  <2>2. CurFits'
    BY DEF CurFits, InHand, InFile, Before, Asking, Saving, Booking, Settling, TypeOK,
       Untried, FilesFit
  <2>3. FateFits'
    BY DEF FateFits, InHand, Booking, Saving, TypeOK
  <2>4. NotAsked'
    BY DEF NotAsked, InHand, MayBeApproved, Before, Saving, TypeOK, CurFits, LineFits
  <2>5. IsApproved'
    BY DEF IsApproved, Booking, TypeOK, CurFits, InHand, LineFits
  <2>6. UnusableFits'
    BY DEF UnusableFits, Armed, MayBeApproved, TypeOK, CurFits, NotAsked, LineFits, FilesFit,
       InHand, Before, Asking
  <2>7. LineFits'
    BY DEF LineFits, Waiting, ReversalFile, TypeOK, CurFits, InHand
  <2>8. FilesFit'
    BY DEF FilesFit, DbkSteps, Asking, Settling, Booking, Armed, TypeOK, CurFits, InHand
  <2>9. KeptFits'
    BY DEF KeptFits, TypeOK
  <2>10. Accounted'
    BY DEF Accounted, MayBeApproved, AtRisk, InHand, Armed, Booking, Saving, TypeOK
  <2>11. Readable'
    BY DEF Readable, TypeOK
  <2>12. QueueFits'
    BY DEF QueueFits, TypeOK
  <2>13. OwedFits'
    BY DEF OwedFits, InFile, TypeOK
  <2>14. Untried' /\ OnceFits' /\ OnlyOwedIsUploaded'
    BY DEF Untried, InFile, OnceFits, Once, OnlyOwedIsUploaded
  <2> QED BY <2>1, <2>2, <2>3, <2>4, <2>5, <2>6, <2>7, <2>8, <2>9, <2>10, <2>11, <2>12,
     <2>13, <2>14 DEF IInv
<1>9. CASE ReferralApproved
  <2> USE <1>9 DEF ReferralApproved, Goto
  <2>1. cur.calls + 1 \in 0 .. MaxReferral
    BY DEF TypeOK
  <2>2. TypeOK'
    <3>1. pc' \in PC
      BY DEF TypeOK, PC, Saving, Booking, Waiting
    <3>2. cur' \in [id : Attempt \cup {0}, kind : Kinds \cup {"SETTLE"}, result : Result,
                     resave : BOOLEAN, calls : 0 .. MaxReferral]
      BY <2>1 DEF TypeOK, Result, NoCur
    <3> QED BY <3>1, <3>2 DEF TypeOK
  <2>3. CurFits'
    BY DEF CurFits, InHand, InFile, Forced, Before, Asking, Saving, Booking, Settling,
       TypeOK, Untried, FilesFit
  <2>4. FateFits'
    BY DEF FateFits, InHand, Booking, Saving, TypeOK
  <2>5. NotAsked'
    BY DEF NotAsked, InHand, MayBeApproved, Before, Saving, TypeOK, CurFits, LineFits
  <2>6. IsApproved'
    BY DEF IsApproved, Booking, Forced, TypeOK, CurFits, InHand, LineFits
  <2>7. UnusableFits'
    BY DEF UnusableFits, Armed, MayBeApproved, TypeOK, CurFits, NotAsked, LineFits, FilesFit,
       InHand, Before, Asking
  <2>8. LineFits'
    BY DEF LineFits, Waiting, ReversalFile, TypeOK, CurFits, InHand
  <2>9. FilesFit'
    BY DEF FilesFit, DbkSteps, Asking, Settling, Booking, Armed, Forced, TypeOK, CurFits, InHand
  <2>10. KeptFits'
    BY DEF KeptFits, TypeOK
  <2>11. Accounted'
    BY DEF Accounted, MayBeApproved, AtRisk, InHand, Armed, Booking, Saving, TypeOK
  <2>12. Readable'
    BY DEF Readable, TypeOK
  <2>13. QueueFits'
    BY DEF QueueFits, TypeOK
  <2>14. OwedFits'
    BY DEF OwedFits, InFile, TypeOK
  <2>15. Untried' /\ OnceFits' /\ OnlyOwedIsUploaded'
    BY DEF Untried, InFile, OnceFits, Once, OnlyOwedIsUploaded
  <2> QED BY <2>1, <2>2, <2>3, <2>4, <2>5, <2>6, <2>7, <2>8, <2>9, <2>10, <2>11, <2>12,
     <2>13, <2>14, <2>15 DEF IInv
<1> QED BY <1>1, <1>2, <1>3, <1>4, <1>5, <1>6, <1>7, <1>8, <1>9

\* Storing the reversal keeps the invariant.
LEMMA SavingStep ==
  ASSUME TypeOK, CurFits, Untried, FateFits, NotAsked, IsApproved, UnusableFits, LineFits,
         FilesFit, KeptFits, Accounted, Readable, QueueFits, OnceFits, OwedFits,
         OnlyOwedIsUploaded,
         Save
  PROVE  IInv'
<1> USE EmvAssumption DEF EmvAssumption, Attempt, NoFile, None, files, books, line, hist
<1>1. CASE RevDelete
  <2> USE <1>1 DEF RevDelete, SaveStep, Goto, Finish, Discards
  <2>1. TypeOK'
    <3>1. pc' \in PC
      BY DEF TypeOK, PC, Saving, Booking, Waiting
    <3>2. commMode' \in {"ethernet", "modem"} /\ (commMode' = "modem" => DialBackup)
      BY DEF TypeOK
    <3>3. rev' \in Attempt \cup {NoFile}
      BY DEF TypeOK
    <3>4. displaced' \subseteq Attempt
      BY DEF TypeOK
    <3> QED BY <3>1, <3>2, <3>3, <3>4 DEF TypeOK
  <2>2. CurFits'
    BY DEF CurFits, InHand, InFile, Forced, Before, Asking, Saving, Booking, Settling,
       TypeOK, Untried, FilesFit
  <2>3. Untried'
    BY DEF Untried, InFile, TypeOK, CurFits, InHand, NotAsked, FilesFit, Saving, Before,
       DbkSteps, MayBeApproved
  <2>4. FateFits'
    BY DEF FateFits, InHand, Booking, Saving, TypeOK
  <2>5. NotAsked'
    BY DEF NotAsked, InHand, MayBeApproved, Before, Saving, TypeOK, CurFits, LineFits
  <2>6. IsApproved'
    BY DEF IsApproved, Booking, Forced, TypeOK, CurFits, InHand, LineFits
  <2>7. UnusableFits'
    BY DEF UnusableFits, Armed, MayBeApproved, TypeOK, CurFits, NotAsked, LineFits, FilesFit,
       InHand, Before, Asking
  <2>8. LineFits'
    BY DEF LineFits, Waiting, ReversalFile, TypeOK, CurFits, InHand
  <2>9. FilesFit'
    BY DEF FilesFit, DbkSteps, Asking, Settling, Booking, Armed, Forced, TypeOK, CurFits, InHand
  <2>10. KeptFits'
    BY DEF KeptFits, TypeOK, CurFits, InHand, NotAsked, FilesFit, Saving, Before, DbkSteps,
       MayBeApproved
  <2>11. Accounted'
    BY DEF Accounted, MayBeApproved, AtRisk, InHand, Armed, Booking, Saving, TypeOK, CurFits,
       NotAsked, FilesFit, Before, DbkSteps
  <2>12. Readable'
    BY DEF Readable, TypeOK, CurFits, InHand, NotAsked, FilesFit, Saving, Before, DbkSteps,
       MayBeApproved
  <2>13. QueueFits'
    BY DEF QueueFits, TypeOK
  <2>14. OwedFits'
    BY DEF OwedFits, InFile, TypeOK
  <2>15. OnceFits' /\ OnlyOwedIsUploaded'
    BY DEF OnceFits, Once, OnlyOwedIsUploaded
  <2> QED BY <2>1, <2>2, <2>3, <2>4, <2>5, <2>6, <2>7, <2>8, <2>9, <2>10, <2>11, <2>12,
     <2>13, <2>14, <2>15 DEF IInv
<1>2. CASE RevWrite
  <2> USE <1>2 DEF RevWrite, SaveStep, Goto, Finish
  <2>1. TypeOK'
    <3>1. pc' \in PC
      BY DEF TypeOK, PC, Saving, Booking, Waiting
    <3>2. commMode' \in {"ethernet", "modem"} /\ (commMode' = "modem" => DialBackup)
      BY DEF TypeOK
    <3>3. rev' \in Attempt \cup {NoFile}
      BY DEF TypeOK
    <3> QED BY <3>1, <3>2, <3>3 DEF TypeOK
  <2>2. CurFits'
    BY DEF CurFits, InHand, InFile, Forced, Before, Asking, Saving, Booking, Settling,
       TypeOK, Untried, FilesFit
  <2>3. Untried'
    BY DEF Untried, InFile, TypeOK, CurFits, InHand, NotAsked, FilesFit, Saving, Before,
       DbkSteps, MayBeApproved
  <2>4. FateFits'
    BY DEF FateFits, InHand, Booking, Saving, TypeOK
  <2>5. NotAsked'
    BY DEF NotAsked, InHand, MayBeApproved, Before, Saving, TypeOK, CurFits, LineFits
  <2>6. IsApproved'
    BY DEF IsApproved, Booking, Forced, TypeOK, CurFits, InHand, LineFits
  <2>7. UnusableFits'
    BY DEF UnusableFits, Armed, MayBeApproved, TypeOK, CurFits, NotAsked, LineFits, FilesFit,
       InHand, Before, Asking
  <2>8. LineFits'
    BY DEF LineFits, Waiting, ReversalFile, TypeOK, CurFits, InHand
  <2>9. FilesFit'
    BY DEF FilesFit, DbkSteps, Asking, Settling, Booking, Armed, Forced, TypeOK, CurFits, InHand
  <2>10. KeptFits'
    BY DEF KeptFits, TypeOK, CurFits, InHand, NotAsked, FilesFit, Saving, Before, DbkSteps,
       MayBeApproved
  <2>11. Accounted'
    BY DEF Accounted, MayBeApproved, AtRisk, InHand, Armed, Booking, Saving, TypeOK, CurFits,
       NotAsked, FilesFit, Before, DbkSteps
  <2>12. Readable'
    BY DEF Readable, TypeOK, CurFits, InHand, NotAsked, FilesFit, Saving, Before, DbkSteps,
       MayBeApproved
  <2>13. QueueFits'
    BY DEF QueueFits, TypeOK
  <2>14. OwedFits'
    BY DEF OwedFits, InFile, TypeOK
  <2>15. OnceFits' /\ OnlyOwedIsUploaded'
    BY DEF OnceFits, Once, OnlyOwedIsUploaded
  <2> QED BY <2>1, <2>2, <2>3, <2>4, <2>5, <2>6, <2>7, <2>8, <2>9, <2>10, <2>11, <2>12,
     <2>13, <2>14, <2>15 DEF IInv
<1>3. CASE RevBit
  <2> USE <1>3 DEF RevBit, SaveStep, Goto, Finish, Saved
  <2>1. TypeOK'
    <3>1. pc' \in PC
      BY DEF TypeOK, PC, Saving, Booking, Waiting
    <3>2. commMode' \in {"ethernet", "modem"} /\ (commMode' = "modem" => DialBackup)
      BY DEF TypeOK
    <3>3. sendReversalBit' \in BOOLEAN
      BY DEF TypeOK
    <3> QED BY <3>1, <3>2, <3>3 DEF TypeOK
  <2>2. CurFits'
    BY DEF CurFits, InHand, InFile, Forced, Before, Asking, Saving, Booking, Settling,
       TypeOK, Untried, FilesFit
  <2>3. FateFits'
    BY DEF FateFits, InHand, Booking, Saving, TypeOK
  <2>4. NotAsked'
    BY DEF NotAsked, InHand, MayBeApproved, Before, Saving, TypeOK, CurFits, LineFits
  <2>5. IsApproved'
    BY DEF IsApproved, Booking, Forced, TypeOK, CurFits, InHand, LineFits
  <2>6. UnusableFits'
    BY DEF UnusableFits, Armed, MayBeApproved, TypeOK, CurFits, NotAsked, LineFits, FilesFit,
       InHand, Before, Asking
  <2>7. LineFits'
    BY DEF LineFits, Waiting, ReversalFile, TypeOK, CurFits, InHand
  <2>8. FilesFit'
    BY DEF FilesFit, DbkSteps, Asking, Settling, Booking, Armed, Forced, TypeOK, CurFits, InHand
  <2>9. KeptFits'
    BY DEF KeptFits, TypeOK, CurFits, InHand, NotAsked, FilesFit, Saving, Before, DbkSteps,
       MayBeApproved
  <2>10. Accounted'
    BY DEF Accounted, MayBeApproved, AtRisk, InHand, Armed, Booking, Saving, TypeOK, CurFits,
       NotAsked, FilesFit, Before, DbkSteps
  <2>11. Readable'
    BY DEF Readable, TypeOK, CurFits, InHand, NotAsked, FilesFit, Saving, Before, DbkSteps,
       MayBeApproved
  <2>12. QueueFits'
    BY DEF QueueFits, TypeOK
  <2>13. OwedFits'
    BY DEF OwedFits, InFile, TypeOK
  <2>14. Untried' /\ OnceFits' /\ OnlyOwedIsUploaded'
    BY DEF Untried, InFile, OnceFits, Once, OnlyOwedIsUploaded
  <2> QED BY <2>1, <2>2, <2>3, <2>4, <2>5, <2>6, <2>7, <2>8, <2>9, <2>10, <2>11, <2>12,
     <2>13, <2>14 DEF IInv
<1>4. CASE DbkDelete
  <2> USE <1>4 DEF DbkDelete, SaveStep, Goto, Finish
  <2>1. TypeOK'
    <3>1. pc' \in PC
      BY DEF TypeOK, PC, Saving, Booking, Waiting
    <3>2. commMode' \in {"ethernet", "modem"} /\ (commMode' = "modem" => DialBackup)
      BY DEF TypeOK
    <3>3. dbk' \in Attempt \cup {NoFile}
      BY DEF TypeOK
    <3> QED BY <3>1, <3>2, <3>3 DEF TypeOK
  <2>2. CurFits'
    BY DEF CurFits, InHand, InFile, Forced, Before, Asking, Saving, Booking, Settling,
       TypeOK, Untried, FilesFit
  <2>3. Untried'
    BY DEF Untried, InFile, TypeOK, CurFits, InHand, NotAsked, FilesFit, Saving, Before,
       DbkSteps, MayBeApproved
  <2>4. FateFits'
    BY DEF FateFits, InHand, Booking, Saving, TypeOK
  <2>5. NotAsked'
    BY DEF NotAsked, InHand, MayBeApproved, Before, Saving, TypeOK, CurFits, LineFits
  <2>6. IsApproved'
    BY DEF IsApproved, Booking, Forced, TypeOK, CurFits, InHand, LineFits
  <2>7. UnusableFits'
    BY DEF UnusableFits, Armed, MayBeApproved, TypeOK, CurFits, NotAsked, LineFits, FilesFit,
       InHand, Before, Asking
  <2>8. LineFits'
    BY DEF LineFits, Waiting, ReversalFile, TypeOK, CurFits, InHand
  <2>9. FilesFit'
    BY DEF FilesFit, DbkSteps, Asking, Settling, Booking, Armed, Forced, TypeOK, CurFits, InHand
  <2>10. KeptFits'
    BY DEF KeptFits, TypeOK, CurFits, InHand, NotAsked, FilesFit, Saving, Before, DbkSteps,
       MayBeApproved
  <2>11. Accounted'
    BY DEF Accounted, MayBeApproved, AtRisk, InHand, Armed, Booking, Saving, TypeOK, CurFits,
       NotAsked, FilesFit, Before, DbkSteps
  <2>12. Readable'
    BY DEF Readable, TypeOK, CurFits, InHand, NotAsked, FilesFit, Saving, Before, DbkSteps,
       MayBeApproved
  <2>13. QueueFits'
    BY DEF QueueFits, TypeOK
  <2>14. OwedFits'
    BY DEF OwedFits, InFile, TypeOK
  <2>15. OnceFits' /\ OnlyOwedIsUploaded'
    BY DEF OnceFits, Once, OnlyOwedIsUploaded
  <2> QED BY <2>1, <2>2, <2>3, <2>4, <2>5, <2>6, <2>7, <2>8, <2>9, <2>10, <2>11, <2>12,
     <2>13, <2>14, <2>15 DEF IInv
<1>5. CASE DbkWrite
  <2> USE <1>5 DEF DbkWrite, SaveStep, Goto, Finish
  <2>1. TypeOK'
    <3>1. pc' \in PC
      BY DEF TypeOK, PC, Saving, Booking, Waiting
    <3>2. commMode' \in {"ethernet", "modem"} /\ (commMode' = "modem" => DialBackup)
      BY DEF TypeOK
    <3>3. dbk' \in Attempt \cup {NoFile}
      BY DEF TypeOK
    <3> QED BY <3>1, <3>2, <3>3 DEF TypeOK
  <2>2. CurFits'
    BY DEF CurFits, InHand, InFile, Forced, Before, Asking, Saving, Booking, Settling,
       TypeOK, Untried, FilesFit
  <2>3. Untried'
    BY DEF Untried, InFile, TypeOK, CurFits, InHand, NotAsked, FilesFit, Saving, Before,
       DbkSteps, MayBeApproved
  <2>4. FateFits'
    BY DEF FateFits, InHand, Booking, Saving, TypeOK
  <2>5. NotAsked'
    BY DEF NotAsked, InHand, MayBeApproved, Before, Saving, TypeOK, CurFits, LineFits
  <2>6. IsApproved'
    BY DEF IsApproved, Booking, Forced, TypeOK, CurFits, InHand, LineFits
  <2>7. UnusableFits'
    BY DEF UnusableFits, Armed, MayBeApproved, TypeOK, CurFits, NotAsked, LineFits, FilesFit,
       InHand, Before, Asking
  <2>8. LineFits'
    BY DEF LineFits, Waiting, ReversalFile, TypeOK, CurFits, InHand
  <2>9. FilesFit'
    BY DEF FilesFit, DbkSteps, Asking, Settling, Booking, Armed, Forced, TypeOK, CurFits, InHand
  <2>10. KeptFits'
    BY DEF KeptFits, TypeOK, CurFits, InHand, NotAsked, FilesFit, Saving, Before, DbkSteps,
       MayBeApproved
  <2>11. Accounted'
    BY DEF Accounted, MayBeApproved, AtRisk, InHand, Armed, Booking, Saving, TypeOK, CurFits,
       NotAsked, FilesFit, Before, DbkSteps
  <2>12. Readable'
    BY DEF Readable, TypeOK, CurFits, InHand, NotAsked, FilesFit, Saving, Before, DbkSteps,
       MayBeApproved
  <2>13. QueueFits'
    BY DEF QueueFits, TypeOK
  <2>14. OwedFits'
    BY DEF OwedFits, InFile, TypeOK
  <2>15. OnceFits' /\ OnlyOwedIsUploaded'
    BY DEF OnceFits, Once, OnlyOwedIsUploaded
  <2> QED BY <2>1, <2>2, <2>3, <2>4, <2>5, <2>6, <2>7, <2>8, <2>9, <2>10, <2>11, <2>12,
     <2>13, <2>14, <2>15 DEF IInv
<1>6. CASE DbkBit
  <2> USE <1>6 DEF DbkBit, SaveStep, Goto, Finish, Saved
  <2>1. TypeOK'
    <3>1. pc' \in PC
      BY DEF TypeOK, PC, Saving, Booking, Waiting
    <3>2. commMode' \in {"ethernet", "modem"} /\ (commMode' = "modem" => DialBackup)
      BY DEF TypeOK
    <3>3. sendReversalBit' \in BOOLEAN
      BY DEF TypeOK
    <3> QED BY <3>1, <3>2, <3>3 DEF TypeOK
  <2>2. CurFits'
    BY DEF CurFits, InHand, InFile, Forced, Before, Asking, Saving, Booking, Settling,
       TypeOK, Untried, FilesFit
  <2>3. FateFits'
    BY DEF FateFits, InHand, Booking, Saving, TypeOK
  <2>4. NotAsked'
    BY DEF NotAsked, InHand, MayBeApproved, Before, Saving, TypeOK, CurFits, LineFits
  <2>5. IsApproved'
    BY DEF IsApproved, Booking, Forced, TypeOK, CurFits, InHand, LineFits
  <2>6. UnusableFits'
    BY DEF UnusableFits, Armed, MayBeApproved, TypeOK, CurFits, NotAsked, LineFits, FilesFit,
       InHand, Before, Asking
  <2>7. LineFits'
    BY DEF LineFits, Waiting, ReversalFile, TypeOK, CurFits, InHand
  <2>8. FilesFit'
    BY DEF FilesFit, DbkSteps, Asking, Settling, Booking, Armed, Forced, TypeOK, CurFits, InHand
  <2>9. KeptFits'
    BY DEF KeptFits, TypeOK, CurFits, InHand, NotAsked, FilesFit, Saving, Before, DbkSteps,
       MayBeApproved
  <2>10. Accounted'
    BY DEF Accounted, MayBeApproved, AtRisk, InHand, Armed, Booking, Saving, TypeOK, CurFits,
       NotAsked, FilesFit, Before, DbkSteps
  <2>11. Readable'
    BY DEF Readable, TypeOK, CurFits, InHand, NotAsked, FilesFit, Saving, Before, DbkSteps,
       MayBeApproved
  <2>12. QueueFits'
    BY DEF QueueFits, TypeOK
  <2>13. OwedFits'
    BY DEF OwedFits, InFile, TypeOK
  <2>14. Untried' /\ OnceFits' /\ OnlyOwedIsUploaded'
    BY DEF Untried, InFile, OnceFits, Once, OnlyOwedIsUploaded
  <2> QED BY <2>1, <2>2, <2>3, <2>4, <2>5, <2>6, <2>7, <2>8, <2>9, <2>10, <2>11, <2>12,
     <2>13, <2>14 DEF IInv
<1> QED BY <1>1, <1>2, <1>3, <1>4, <1>5, <1>6 DEF Save

\* The decision of the chip keeps the invariant.
LEMMA CompleteStep ==
  ASSUME TypeOK, CurFits, Untried, FateFits, NotAsked, IsApproved, UnusableFits, LineFits,
         FilesFit, KeptFits, Accounted, Readable, QueueFits, OnceFits, OwedFits,
         OnlyOwedIsUploaded,
         Complete
  PROVE  IInv'
<1> USE EmvAssumption DEF EmvAssumption, Attempt, NoFile, None, files, books, line, hist
<1>1. CASE ChipApproves
  <2> USE <1>1 DEF ChipApproves, Decided
  <2>1. TypeOK'
    <3>1. pc' \in PC
      BY DEF TypeOK, PC, Saving, Booking, Waiting
    <3>2. sendReversalBit' \in BOOLEAN
      BY DEF TypeOK
    <3>3. fate' \in [Attempt -> [result : Result, chip : {"none", "TC", "AAC"}]]
      BY DEF TypeOK, Result
    <3> QED BY <3>1, <3>2, <3>3 DEF TypeOK
  <2>2. CurFits'
    BY DEF CurFits, InHand, InFile, Forced, Before, Asking, Saving, Booking, Settling,
       TypeOK, Untried, FilesFit
  <2>3. Untried'
    BY DEF Untried, InFile, TypeOK, CurFits, InHand
  <2>4. FateFits'
    BY DEF FateFits, InHand, Booking, Saving, TypeOK
  <2>5. NotAsked'
    BY DEF NotAsked, InHand, MayBeApproved, Before, Saving, TypeOK, CurFits, LineFits
  <2>6. IsApproved'
    BY DEF IsApproved, Booking, Forced, TypeOK, CurFits, InHand, LineFits
  <2>7. UnusableFits'
    BY DEF UnusableFits, Armed, MayBeApproved, TypeOK, CurFits, NotAsked, LineFits, FilesFit,
       InHand, Before, Asking
  <2>8. LineFits'
    BY DEF LineFits, Waiting, ReversalFile, TypeOK, CurFits, InHand
  <2>9. FilesFit'
    BY DEF FilesFit, DbkSteps, Asking, Settling, Booking, Armed, Forced, TypeOK, CurFits, InHand
  <2>10. KeptFits'
    BY DEF KeptFits, TypeOK, CurFits, InHand
  <2>11. Accounted'
    BY DEF Accounted, MayBeApproved, AtRisk, InHand, Armed, Booking, Saving, TypeOK, CurFits,
       FilesFit
  <2>12. Readable'
    BY DEF Readable, TypeOK
  <2>13. QueueFits'
    BY DEF QueueFits, TypeOK
  <2>14. OwedFits'
    BY DEF OwedFits, InFile, TypeOK
  <2>15. OnceFits' /\ OnlyOwedIsUploaded'
    BY DEF OnceFits, Once, OnlyOwedIsUploaded
  <2> QED BY <2>1, <2>2, <2>3, <2>4, <2>5, <2>6, <2>7, <2>8, <2>9, <2>10, <2>11, <2>12,
     <2>13, <2>14, <2>15 DEF IInv
<1>2. CASE ChipApprovesInVain
  <2> USE <1>2 DEF ChipApprovesInVain, Decided, Finish
  <2>1. TypeOK'
    <3>1. pc' \in PC
      BY DEF TypeOK, PC, Saving, Booking, Waiting
    <3>2. commMode' \in {"ethernet", "modem"} /\ (commMode' = "modem" => DialBackup)
      BY DEF TypeOK
    <3>3. fate' \in [Attempt -> [result : Result, chip : {"none", "TC", "AAC"}]]
      BY DEF TypeOK, Result
    <3> QED BY <3>1, <3>2, <3>3 DEF TypeOK
  <2>2. CurFits'
    BY DEF CurFits, InHand, InFile, Forced, Before, Asking, Saving, Booking, Settling,
       TypeOK, Untried, FilesFit
  <2>3. Untried'
    BY DEF Untried, InFile, TypeOK, CurFits, InHand
  <2>4. FateFits'
    BY DEF FateFits, InHand, Booking, Saving, TypeOK
  <2>5. NotAsked'
    BY DEF NotAsked, InHand, MayBeApproved, Before, Saving, TypeOK, CurFits, LineFits
  <2>6. IsApproved'
    BY DEF IsApproved, Booking, Forced, TypeOK, CurFits, InHand, LineFits
  <2>7. UnusableFits'
    BY DEF UnusableFits, Armed, MayBeApproved, TypeOK, CurFits, NotAsked, LineFits, FilesFit,
       InHand, Before, Asking
  <2>8. LineFits'
    BY DEF LineFits, Waiting, ReversalFile, TypeOK, CurFits, InHand
  <2>9. FilesFit'
    BY DEF FilesFit, DbkSteps, Asking, Settling, Booking, Armed, Forced, TypeOK, CurFits, InHand
  <2>10. KeptFits'
    BY DEF KeptFits, TypeOK, CurFits, InHand
  <2>11. Accounted'
    BY DEF Accounted, MayBeApproved, AtRisk, InHand, Armed, Booking, Saving, TypeOK, CurFits,
       FilesFit, NotAsked, UnusableFits, FateFits, NoFate, Result
  <2>12. Readable'
    BY DEF Readable, TypeOK
  <2>13. QueueFits'
    BY DEF QueueFits, TypeOK
  <2>14. OwedFits'
    BY DEF OwedFits, InFile, TypeOK
  <2>15. OnceFits' /\ OnlyOwedIsUploaded'
    BY DEF OnceFits, Once, OnlyOwedIsUploaded
  <2> QED BY <2>1, <2>2, <2>3, <2>4, <2>5, <2>6, <2>7, <2>8, <2>9, <2>10, <2>11, <2>12,
     <2>13, <2>14, <2>15 DEF IInv
<1>3. CASE ChipRefuses
  <2> USE <1>3 DEF ChipRefuses, Decided, Finish, Discards, Rebuilds
  <2>1. TypeOK'
    <3>1. pc' \in PC
      BY DEF TypeOK, PC, Saving, Booking, Waiting
    <3>2. cur' \in [id : Attempt \cup {0}, kind : Kinds \cup {"SETTLE"}, result : Result,
                     resave : BOOLEAN, calls : 0 .. MaxReferral]
      BY DEF TypeOK, Result, NoCur
    <3>3. commMode' \in {"ethernet", "modem"} /\ (commMode' = "modem" => DialBackup)
      BY DEF TypeOK
    <3>4. sendReversalBit' \in BOOLEAN
      BY DEF TypeOK
    <3>5. fate' \in [Attempt -> [result : Result, chip : {"none", "TC", "AAC"}]]
      BY DEF TypeOK, Result
    <3>6. displaced' \subseteq Attempt
      BY DEF TypeOK
    <3> QED BY <3>1, <3>2, <3>3, <3>4, <3>5, <3>6 DEF TypeOK
  <2>2. CurFits'
    BY DEF CurFits, InHand, InFile, Forced, Before, Asking, Saving, Booking, Settling,
       TypeOK, Untried, FilesFit
  <2>3. Untried'
    BY DEF Untried, InFile, TypeOK, CurFits, InHand
  <2>4. FateFits'
    BY DEF FateFits, InHand, Booking, Saving, TypeOK
  <2>5. NotAsked'
    BY DEF NotAsked, InHand, MayBeApproved, Before, Saving, TypeOK, CurFits, LineFits
  <2>6. IsApproved'
    BY DEF IsApproved, Booking, Forced, TypeOK, CurFits, InHand, LineFits
  <2>7. UnusableFits'
    BY DEF UnusableFits, Armed, MayBeApproved, TypeOK, CurFits, NotAsked, LineFits, FilesFit,
       InHand, Before, Asking
  <2>8. LineFits'
    BY DEF LineFits, Waiting, ReversalFile, TypeOK, CurFits, InHand
  <2>9. FilesFit'
    BY DEF FilesFit, DbkSteps, Asking, Settling, Booking, Armed, Forced, TypeOK, CurFits, InHand
  <2>10. KeptFits'
    BY DEF KeptFits, TypeOK, CurFits, InHand
  <2>11. Accounted'
    BY DEF Accounted, MayBeApproved, AtRisk, InHand, Armed, Booking, Saving, TypeOK, CurFits,
       NotAsked, Result
  <2>12. Readable'
    BY DEF Readable, TypeOK
  <2>13. QueueFits'
    BY DEF QueueFits, TypeOK
  <2>14. OwedFits'
    BY DEF OwedFits, InFile, TypeOK
  <2>15. OnceFits' /\ OnlyOwedIsUploaded'
    BY DEF OnceFits, Once, OnlyOwedIsUploaded
  <2> QED BY <2>1, <2>2, <2>3, <2>4, <2>5, <2>6, <2>7, <2>8, <2>9, <2>10, <2>11, <2>12,
     <2>13, <2>14, <2>15 DEF IInv
<1> QED BY <1>1, <1>2, <1>3 DEF Complete

\* Booking keeps the invariant.
LEMMA BookStep ==
  ASSUME TypeOK, CurFits, Untried, FateFits, NotAsked, IsApproved, UnusableFits, LineFits,
         FilesFit, KeptFits, Accounted, Readable, QueueFits, OnceFits, OwedFits,
         OnlyOwedIsUploaded,
         Book
  PROVE  IInv'
<1> USE EmvAssumption DEF EmvAssumption, Attempt, NoFile, None, files, books, line, hist
<1>1. CASE SendTC
  <2> USE <1>1 DEF SendTC, Goto
  <2>1. cur.id = nAttempt /\ cur.id \in Attempt /\ rows[cur.id] = "none" /\ cur.id \notin hit
    BY DEF CurFits, InHand, Booking, TypeOK
  <2>2. net' = [type |-> "tc", id |-> cur.id] /\ net'.id = cur.id /\ net'.type = "tc"
    OBVIOUS
  <2>3. TypeOK'
    <3>1. pc' \in PC
      BY DEF TypeOK, PC, Saving, Booking, Waiting
    <3>2. net' \in [type : {"auth", "reversal", "tc", "advice"}, id : Attempt] \cup {None}
      BY <2>1, <2>2 DEF TypeOK
    <3> QED BY <3>1, <3>2 DEF TypeOK
  <2>4. CurFits'
    BY DEF CurFits, InHand, InFile, Forced, Before, Asking, Saving, Booking, Settling,
       TypeOK, Untried, FilesFit
  <2>5. Untried'
    BY <2>1, <2>2 DEF Untried, InFile, TypeOK
  <2>6. FateFits'
    BY DEF FateFits, InHand, Booking, Saving, TypeOK
  <2>7. NotAsked'
    BY DEF NotAsked, InHand, MayBeApproved, Before, Saving, TypeOK, CurFits, LineFits
  <2>8. IsApproved'
    BY DEF IsApproved, Booking, Forced, TypeOK, CurFits, InHand, LineFits
  <2>9. UnusableFits'
    BY DEF UnusableFits, Armed, MayBeApproved, TypeOK, CurFits, NotAsked, LineFits, FilesFit,
       InHand, Before, Asking
  <2>10. LineFits'
    BY DEF LineFits, Waiting, ReversalFile, TypeOK, CurFits, InHand
  <2>11. FilesFit'
    BY DEF FilesFit, DbkSteps, Asking, Settling, Booking, Armed, Forced, TypeOK, CurFits, InHand
  <2>12. KeptFits'
    BY DEF KeptFits, TypeOK
  <2>13. Accounted'
    BY DEF Accounted, MayBeApproved, AtRisk, InHand, Armed, Booking, Saving, TypeOK
  <2>14. Readable'
    BY DEF Readable, TypeOK
  <2>15. QueueFits'
    BY DEF QueueFits, TypeOK
  <2>16. OwedFits'
    BY DEF OwedFits, InFile, TypeOK
  <2>17. OnlyOwedIsUploaded'
    BY DEF OnlyOwedIsUploaded, TypeOK
  <2>18. OnceFits'
    BY DEF OnceFits, Once
  <2> QED BY <2>1, <2>2, <2>3, <2>4, <2>5, <2>6, <2>7, <2>8, <2>9, <2>10, <2>11, <2>12,
     <2>13, <2>14, <2>15, <2>16, <2>17, <2>18 DEF IInv
<1>2. CASE TCSent
  <2> USE <1>2 DEF TCSent, Goto
  <2>1. TypeOK'
    <3>1. pc' \in PC
      BY DEF TypeOK, PC, Saving, Booking, Waiting
    <3>2. reply' \in {"none", "00", "other", "referral", "noAuthCode", "unparsed"}
      BY DEF TypeOK
    <3> QED BY <3>1, <3>2 DEF TypeOK
  <2>2. CurFits'
    BY DEF CurFits, InHand, InFile, Forced, Before, Asking, Saving, Booking, Settling,
       TypeOK, Untried, FilesFit
  <2>3. FateFits'
    BY DEF FateFits, InHand, Booking, Saving, TypeOK
  <2>4. NotAsked'
    BY DEF NotAsked, InHand, MayBeApproved, Before, Saving, TypeOK, CurFits, LineFits
  <2>5. IsApproved'
    BY DEF IsApproved, Booking, Forced, TypeOK, CurFits, InHand, LineFits
  <2>6. UnusableFits'
    BY DEF UnusableFits, Armed, MayBeApproved, TypeOK, CurFits, NotAsked, LineFits, FilesFit,
       InHand, Before, Asking
  <2>7. LineFits'
    BY DEF LineFits, Waiting, ReversalFile, TypeOK, CurFits, InHand
  <2>8. FilesFit'
    BY DEF FilesFit, DbkSteps, Asking, Settling, Booking, Armed, Forced, TypeOK, CurFits, InHand
  <2>9. KeptFits'
    BY DEF KeptFits, TypeOK
  <2>10. Accounted'
    BY DEF Accounted, MayBeApproved, AtRisk, InHand, Armed, Booking, Saving, TypeOK
  <2>11. Readable'
    BY DEF Readable, TypeOK
  <2>12. QueueFits'
    BY DEF QueueFits, TypeOK
  <2>13. OwedFits'
    BY DEF OwedFits, InFile, TypeOK
  <2>14. Untried' /\ OnceFits' /\ OnlyOwedIsUploaded'
    BY DEF Untried, InFile, OnceFits, Once, OnlyOwedIsUploaded
  <2> QED BY <2>1, <2>2, <2>3, <2>4, <2>5, <2>6, <2>7, <2>8, <2>9, <2>10, <2>11, <2>12,
     <2>13, <2>14 DEF IInv
<1>3. CASE TCFailed
  <2> USE <1>3 DEF TCFailed
  <2>1. TypeOK'
    <3>1. pc' \in PC
      BY DEF TypeOK, PC, Saving, Booking, Waiting
    <3>2. reply' \in {"none", "00", "other", "referral", "noAuthCode", "unparsed"}
      BY DEF TypeOK
    <3> QED BY <3>1, <3>2 DEF TypeOK
  <2>2. CurFits'
    BY DEF CurFits, InHand, InFile, Forced, Before, Asking, Saving, Booking, Settling,
       TypeOK, Untried, FilesFit
  <2>3. FateFits'
    BY DEF FateFits, InHand, Booking, Saving, TypeOK
  <2>4. NotAsked'
    BY DEF NotAsked, InHand, MayBeApproved, Before, Saving, TypeOK, CurFits, LineFits
  <2>5. IsApproved'
    BY DEF IsApproved, Booking, Forced, TypeOK, CurFits, InHand, LineFits
  <2>6. UnusableFits'
    BY DEF UnusableFits, Armed, MayBeApproved, TypeOK, CurFits, NotAsked, LineFits, FilesFit,
       InHand, Before, Asking
  <2>7. LineFits'
    BY DEF LineFits, Waiting, ReversalFile, TypeOK, CurFits, InHand
  <2>8. FilesFit'
    BY DEF FilesFit, DbkSteps, Asking, Settling, Booking, Armed, Forced, TypeOK, CurFits, InHand
  <2>9. KeptFits'
    BY DEF KeptFits, TypeOK
  <2>10. Accounted'
    BY DEF Accounted, MayBeApproved, AtRisk, InHand, Armed, Booking, Saving, TypeOK
  <2>11. Readable'
    BY DEF Readable, TypeOK
  <2>12. QueueFits'
    BY DEF QueueFits, TypeOK
  <2>13. OwedFits'
    BY DEF OwedFits, InFile, TypeOK
  <2>14. Untried' /\ OnceFits' /\ OnlyOwedIsUploaded'
    BY DEF Untried, InFile, OnceFits, Once, OnlyOwedIsUploaded
  <2> QED BY <2>1, <2>2, <2>3, <2>4, <2>5, <2>6, <2>7, <2>8, <2>9, <2>10, <2>11, <2>12,
     <2>13, <2>14 DEF IInv
<1>4. CASE SaveTopDelete
  <2> USE <1>4 DEF SaveTopDelete, SaveTop, Goto
  <2>1. queue # <<>> /\ rest = <<>> /\ queue' = <<>> /\ rest' = queue
    BY DEF QueueFits
  <2>2. ToSet(queue') = {} /\ ToSet(rest') = ToSet(queue) /\ ToSet(rest) = {} /\ Once(queue')
    BY <2>1, NoEntry
  <2>3. TypeOK'
    <3>1. pc' \in PC
      BY DEF TypeOK, PC, Saving, Booking, Waiting
    <3>2. rest' \in Seq(Attempt)
      BY <2>1, <2>2 DEF TypeOK
    <3>3. queue' \in Seq(Attempt)
      BY <2>1, <2>2 DEF TypeOK
    <3> QED BY <3>1, <3>2, <3>3 DEF TypeOK
  <2>4. CurFits'
    BY <2>1, <2>2 DEF CurFits, InHand, InFile, Forced, Before, Asking, Saving, Booking,
       Settling, TypeOK, QueueFits
  <2>5. Untried'
    BY <2>1, <2>2 DEF Untried, InFile, TypeOK, InHand, QueueFits, CurFits
  <2>6. FateFits'
    BY DEF FateFits, InHand, Booking, Saving, TypeOK
  <2>7. NotAsked'
    BY DEF NotAsked, InHand, MayBeApproved, Before, Saving, TypeOK, CurFits, LineFits
  <2>8. IsApproved'
    BY DEF IsApproved, Booking, Forced, TypeOK, CurFits, InHand, LineFits
  <2>9. UnusableFits'
    BY DEF UnusableFits, Armed, MayBeApproved, TypeOK, CurFits, NotAsked, LineFits, FilesFit,
       InHand, Before, Asking
  <2>10. LineFits'
    BY DEF LineFits, Waiting, ReversalFile, TypeOK, CurFits, InHand
  <2>11. FilesFit'
    BY DEF FilesFit, DbkSteps, Asking, Settling, Booking, Armed, Forced, TypeOK, CurFits, InHand
  <2>12. KeptFits'
    BY DEF KeptFits, TypeOK
  <2>13. Accounted'
    BY DEF Accounted, MayBeApproved, AtRisk, InHand, Armed, Booking, Saving, TypeOK
  <2>14. Readable'
    BY DEF Readable, TypeOK
  <2>15. QueueFits'
    BY <2>1, <2>2 DEF QueueFits, TypeOK, InHand, CurFits
  <2>16. OnceFits'
    <3>1. hit' = hit
      OBVIOUS
    <3>2. Once(queue)' /\ Once(rest)'
      BY <2>1, <2>2, <3>1 DEF OnceFits, Once
    <3> QED BY <2>1, <2>2, <3>1, <3>2 DEF OnceFits
  <2>17. OwedFits'
    BY <2>1, <2>2 DEF OwedFits, InFile, TypeOK, InHand, QueueFits, CurFits
  <2>18. OnlyOwedIsUploaded'
    BY DEF OnlyOwedIsUploaded
  <2> QED BY <2>1, <2>2, <2>3, <2>4, <2>5, <2>6, <2>7, <2>8, <2>9, <2>10, <2>11, <2>12,
     <2>13, <2>14, <2>15, <2>16, <2>17, <2>18 DEF IInv
<1>5. CASE SaveTopFirst
  <2> USE <1>5
  <2>1. cur.id = nAttempt /\ cur.id \in Attempt /\ rows[cur.id] = "none" /\ cur.id \notin hit
    BY DEF SaveTopFirst, SaveTop, Goto, CurFits, InHand, Booking, TypeOK
  <2>2. queue = <<>> /\ rest = <<>> /\ queue' = <<cur.id>> /\ rest' = <<>>
    BY DEF SaveTopFirst, SaveTop, Goto, QueueFits
  <2>3. ToSet(queue') = {cur.id} /\ queue' \in Seq(Attempt) /\ Once(queue')
    BY <2>1, <2>2, OneEntry
  <2>4. ToSet(rest') = {} /\ ToSet(queue) = {} /\ ToSet(rest) = {} /\ Once(rest')
    BY <2>2, NoEntry
  <2>5. UNCHANGED <<cur, nAttempt, rows, host, fate, displaced, hit, rev, dbk, net>>
    BY DEF SaveTopFirst, SaveTop
  <2>6. TypeOK'
    <3>1. pc' \in PC
      BY DEF TypeOK, PC, Saving, Booking, Waiting, SaveTopFirst, SaveTop, Goto
    <3>2. rest' \in Seq(Attempt)
      BY <2>1, <2>2, <2>3, <2>4 DEF TypeOK, SaveTopFirst, SaveTop, Goto
    <3>3. queue' \in Seq(Attempt)
      BY <2>1, <2>2, <2>3, <2>4 DEF TypeOK, SaveTopFirst, SaveTop, Goto
    <3> QED BY <3>1, <3>2, <3>3 DEF TypeOK, SaveTopFirst, SaveTop, Goto
  <2>7. CurFits'
    BY <2>1, <2>2, <2>3, <2>4 DEF CurFits, InHand, InFile, Forced, Before, Asking, Saving,
       Booking, Settling, TypeOK, QueueFits, SaveTopFirst, SaveTop, Goto
  <2>8. Untried'
    BY <2>1, <2>3, <2>4, <2>5 DEF Untried, InFile
  <2>9. FateFits'
    BY DEF FateFits, InHand, Booking, Saving, TypeOK, SaveTopFirst, SaveTop, Goto
  <2>10. NotAsked'
    BY DEF NotAsked, InHand, MayBeApproved, Before, Saving, TypeOK, CurFits, LineFits,
       SaveTopFirst, SaveTop, Goto
  <2>11. IsApproved'
    BY DEF IsApproved, Booking, Forced, TypeOK, CurFits, InHand, LineFits, SaveTopFirst,
       SaveTop, Goto
  <2>12. UnusableFits'
    BY DEF UnusableFits, Armed, MayBeApproved, TypeOK, CurFits, NotAsked, LineFits, FilesFit,
       InHand, Before, Asking, SaveTopFirst, SaveTop, Goto
  <2>13. LineFits'
    BY DEF LineFits, Waiting, ReversalFile, TypeOK, CurFits, InHand, SaveTopFirst, SaveTop, Goto
  <2>14. FilesFit'
    BY DEF FilesFit, DbkSteps, Asking, Settling, Booking, Armed, Forced, TypeOK, CurFits,
       InHand, SaveTopFirst, SaveTop, Goto
  <2>15. KeptFits'
    BY DEF KeptFits, TypeOK, SaveTopFirst, SaveTop, Goto
  <2>16. Accounted'
    BY DEF Accounted, MayBeApproved, AtRisk, InHand, Armed, Booking, Saving, TypeOK,
       SaveTopFirst, SaveTop, Goto
  <2>17. Readable'
    BY DEF Readable, TypeOK, SaveTopFirst, SaveTop, Goto
  <2>18. QueueFits'
    BY <2>1, <2>2, <2>3, <2>4 DEF QueueFits, TypeOK, InHand, CurFits, SaveTopFirst, SaveTop,
       Goto
  <2>19. OnceFits'
    <3>1. hit' = hit
      BY DEF SaveTopFirst, SaveTop
    <3>2. Once(queue)' /\ Once(rest)'
      BY <2>1, <2>2, <2>3, <2>4, <3>1 DEF OnceFits, Once
    <3> QED BY <2>1, <2>2, <2>3, <2>4, <3>1, <3>2 DEF OnceFits
  <2>20. OwedFits'
    BY <2>1, <2>2, <2>3, <2>4 DEF OwedFits, InFile, TypeOK, InHand, QueueFits, CurFits,
       SaveTopFirst, SaveTop, Goto
  <2>21. OnlyOwedIsUploaded'
    BY DEF OnlyOwedIsUploaded, SaveTopFirst, SaveTop, Goto
  <2> QED BY <2>1, <2>2, <2>3, <2>4, <2>5, <2>6, <2>7, <2>8, <2>9, <2>10, <2>11, <2>12,
     <2>13, <2>14, <2>15, <2>16, <2>17, <2>18, <2>19, <2>20, <2>21 DEF IInv
<1>6. CASE SaveTopHead
  <2> USE <1>6 DEF SaveTopHead, SaveTop, Goto
  <2>1. cur.id = nAttempt /\ cur.id \in Attempt /\ rows[cur.id] = "none" /\ cur.id \notin hit
    BY DEF CurFits, InHand, Booking, TypeOK
  <2>2. queue = <<>> /\ queue' = <<cur.id>> /\ rest' = rest /\ cur.id \notin ToSet(rest)
    BY <2>1 DEF QueueFits, CurFits, InHand, InFile, Booking
  <2>3. ToSet(queue') = {cur.id} /\ queue' \in Seq(Attempt) /\ Once(queue')
    BY <2>1, <2>2, OneEntry
  <2>4. ToSet(queue) = {}
    BY <2>2, NoEntry
  <2>5. TypeOK'
    <3>1. pc' \in PC
      BY DEF TypeOK, PC, Saving, Booking, Waiting
    <3>2. rest' \in Seq(Attempt)
      BY <2>1, <2>2, <2>3, <2>4 DEF TypeOK
    <3>3. queue' \in Seq(Attempt)
      BY <2>1, <2>2, <2>3, <2>4 DEF TypeOK
    <3> QED BY <3>1, <3>2, <3>3 DEF TypeOK
  <2>6. CurFits'
    BY <2>1, <2>2, <2>3, <2>4 DEF CurFits, InHand, InFile, Forced, Before, Asking, Saving,
       Booking, Settling, TypeOK, QueueFits
  <2>7. Untried'
    BY <2>1, <2>2, <2>3, <2>4 DEF Untried, InFile, TypeOK, InHand, QueueFits, CurFits
  <2>8. FateFits'
    BY DEF FateFits, InHand, Booking, Saving, TypeOK
  <2>9. NotAsked'
    BY DEF NotAsked, InHand, MayBeApproved, Before, Saving, TypeOK, CurFits, LineFits
  <2>10. IsApproved'
    BY DEF IsApproved, Booking, Forced, TypeOK, CurFits, InHand, LineFits
  <2>11. UnusableFits'
    BY DEF UnusableFits, Armed, MayBeApproved, TypeOK, CurFits, NotAsked, LineFits, FilesFit,
       InHand, Before, Asking
  <2>12. LineFits'
    BY DEF LineFits, Waiting, ReversalFile, TypeOK, CurFits, InHand
  <2>13. FilesFit'
    BY DEF FilesFit, DbkSteps, Asking, Settling, Booking, Armed, Forced, TypeOK, CurFits, InHand
  <2>14. KeptFits'
    BY DEF KeptFits, TypeOK
  <2>15. Accounted'
    BY DEF Accounted, MayBeApproved, AtRisk, InHand, Armed, Booking, Saving, TypeOK
  <2>16. Readable'
    BY DEF Readable, TypeOK
  <2>17. QueueFits'
    BY <2>1, <2>2, <2>3, <2>4 DEF QueueFits, TypeOK, InHand, CurFits
  <2>18. OnceFits'
    <3>1. hit' = hit
      OBVIOUS
    <3>2. Once(queue)' /\ Once(rest)'
      BY <2>1, <2>2, <2>3, <2>4, <3>1 DEF OnceFits, Once
    <3> QED BY <2>1, <2>2, <2>3, <2>4, <3>1, <3>2 DEF OnceFits
  <2>19. OwedFits'
    BY <2>1, <2>2, <2>3, <2>4 DEF OwedFits, InFile, TypeOK, InHand, QueueFits, CurFits
  <2>20. OnlyOwedIsUploaded'
    BY DEF OnlyOwedIsUploaded
  <2> QED BY <2>1, <2>2, <2>3, <2>4, <2>5, <2>6, <2>7, <2>8, <2>9, <2>10, <2>11, <2>12,
     <2>13, <2>14, <2>15, <2>16, <2>17, <2>18, <2>19, <2>20 DEF IInv
<1>7. CASE SaveTopRest
  <2> USE <1>7 DEF SaveTopRest, SaveTop, Goto
  <2>1. cur.id = nAttempt /\ cur.id \in Attempt /\ rows[cur.id] = "none" /\ cur.id \notin hit
    BY DEF CurFits, InHand, Booking, TypeOK
  <2>2. queue = <<cur.id>> /\ queue' = queue \o rest /\ rest' = <<>>
    BY DEF QueueFits
  <2>3. queue \in Seq(Attempt) /\ rest \in Seq(Attempt)
    BY DEF TypeOK
  <2>4. queue \o rest \in Seq(Attempt) /\ ToSet(queue \o rest) = ToSet(queue) \cup ToSet(rest)
    BY <2>3, ConcatEntries
  <2>5. ToSet(queue') = ToSet(queue) \cup ToSet(rest) /\ queue' \in Seq(Attempt)
    BY <2>2, <2>4
  <2>6. cur.id \in ToSet(queue) /\ ToSet(rest') = {} /\ Once(rest')
    BY <2>1, <2>2, OneEntry, NoEntry
  <2>7. \A a \in ToSet(queue) \cap ToSet(rest) : a \in hit
    BY <2>1, <2>2, OneEntry DEF OnceFits
  <2>8. Once(queue')
    BY <2>2, <2>3, <2>7, ConcatOnce DEF OnceFits
  <2>9. TypeOK'
    <3>1. pc' \in PC
      BY DEF TypeOK, PC, Saving, Booking, Waiting
    <3>2. rest' \in Seq(Attempt)
      BY DEF TypeOK
    <3>3. queue' \in Seq(Attempt)
      BY <2>5 DEF TypeOK
    <3> QED BY <3>1, <3>2, <3>3 DEF TypeOK
  <2>10. CurFits'
    BY <2>1, <2>2, <2>3, <2>4, <2>5, <2>6, <2>7, <2>8 DEF CurFits, InHand, InFile, Forced,
       Before, Asking, Saving, Booking, Settling, QueueFits, TypeOK
  <2>11. Untried'
    BY <2>1, <2>2, <2>3, <2>4, <2>5, <2>6, <2>7, <2>8 DEF Untried, InFile, InHand, QueueFits,
       CurFits
  <2>12. FateFits'
    BY DEF FateFits, InHand, Booking, Saving, TypeOK
  <2>13. NotAsked'
    BY DEF NotAsked, InHand, MayBeApproved, Before, Saving, TypeOK, CurFits, LineFits
  <2>14. IsApproved'
    BY DEF IsApproved, Booking, Forced, TypeOK, CurFits, InHand, LineFits
  <2>15. UnusableFits'
    BY DEF UnusableFits, Armed, MayBeApproved, TypeOK, CurFits, NotAsked, LineFits, FilesFit,
       InHand, Before, Asking
  <2>16. LineFits'
    BY DEF LineFits, Waiting, ReversalFile, TypeOK, CurFits, InHand
  <2>17. FilesFit'
    BY DEF FilesFit, DbkSteps, Asking, Settling, Booking, Armed, Forced, TypeOK, CurFits, InHand
  <2>18. KeptFits'
    BY DEF KeptFits, TypeOK
  <2>19. Accounted'
    BY DEF Accounted, MayBeApproved, AtRisk, InHand, Armed, Booking, Saving, TypeOK
  <2>20. Readable'
    BY DEF Readable, TypeOK
  <2>21. QueueFits'
    BY <2>1, <2>2, <2>3, <2>4, <2>5, <2>6, <2>7, <2>8 DEF QueueFits, InHand, CurFits, TypeOK
  <2>22. OnceFits'
    <3>1. hit' = hit
      OBVIOUS
    <3>2. Once(queue)' /\ Once(rest)'
      BY <2>6, <2>8, <3>1 DEF Once
    <3> QED BY <2>6, <3>1, <3>2 DEF OnceFits
  <2>23. OwedFits'
    BY <2>1, <2>2, <2>3, <2>4, <2>5, <2>6, <2>7, <2>8 DEF OwedFits, InFile, InHand,
       QueueFits, CurFits, TypeOK
  <2>24. OnlyOwedIsUploaded'
    BY DEF OnlyOwedIsUploaded
  <2> QED BY <2>1, <2>2, <2>3, <2>4, <2>5, <2>6, <2>7, <2>8, <2>9, <2>10, <2>11, <2>12,
     <2>13, <2>14, <2>15, <2>16, <2>17, <2>18, <2>19, <2>20, <2>21, <2>22, <2>23, <2>24 DEF IInv
<1>8. CASE UpdateBatch
  <2> USE <1>8 DEF UpdateBatch, Finish
  <2>1. cur.id = nAttempt /\ cur.id \in Attempt /\ rows[cur.id] = "none" /\ cur.id \notin hit
    BY DEF CurFits, InHand, Booking, TypeOK
  <2>2. rows' = [rows EXCEPT ![cur.id] = RowState] /\ rows'[cur.id] = RowState
         /\ RowState \in {"exempt", "owed", "sent"}
    BY <2>1 DEF RowState, TypeOK
  <2>3. (RowState = "owed" <=> pc = "book") /\ (RowState = "sent" => pc = "bookSent" /\ ~Forced)
    BY DEF RowState, CurFits, Booking
  <2>4. fate' = [fate EXCEPT ![cur.id].result = cur.result] /\ fate'[cur.id].result = cur.result
    BY <2>1 DEF TypeOK
  <2>5. UNCHANGED <<queue, rest, hit, hostTC, cur>> /\ pc' = "idle" /\ pc \in {"book",
     "bookSent"}
    OBVIOUS
  <2>6. TypeOK'
    <3>1. pc' \in PC
      BY DEF TypeOK, PC, Saving, Booking, Waiting
    <3>2. commMode' \in {"ethernet", "modem"} /\ (commMode' = "modem" => DialBackup)
      BY DEF TypeOK
    <3>3. rows' \in [Attempt -> TCState]
      BY <2>1, <2>2 DEF TypeOK, TCState
    <3>4. fate' \in [Attempt -> [result : Result, chip : {"none", "TC", "AAC"}]]
      BY DEF TypeOK, Result
    <3> QED BY <3>1, <3>2, <3>3, <3>4 DEF TypeOK
  <2>7. CurFits'
    BY DEF CurFits, InHand, InFile, Forced, Before, Asking, Saving, Booking, Settling,
       TypeOK, Untried, FilesFit
  <2>8. Untried'
    BY <2>1, <2>2, <2>4 DEF Untried, InFile, TypeOK
  <2>9. FateFits'
    BY DEF FateFits, InHand, Booking, Saving, TypeOK
  <2>10. NotAsked'
    BY DEF NotAsked, InHand, MayBeApproved, Before, Saving, TypeOK, CurFits, LineFits
  <2>11. IsApproved'
    BY DEF IsApproved, Booking, Forced, TypeOK, CurFits, InHand, LineFits
  <2>12. UnusableFits'
    BY DEF UnusableFits, Armed, MayBeApproved, TypeOK, CurFits, NotAsked, LineFits, FilesFit,
       InHand, Before, Asking
  <2>13. LineFits'
    BY DEF LineFits, Waiting, ReversalFile, TypeOK, CurFits, InHand
  <2>14. FilesFit'
    BY DEF FilesFit, DbkSteps, Asking, Settling, Booking, Armed, Forced, TypeOK, CurFits, InHand
  <2>15. KeptFits'
    BY <2>1, <2>2, <2>4 DEF KeptFits, TypeOK, CurFits, InHand, IsApproved, FilesFit, Booking
  <2>16. Accounted'
    BY <2>1, <2>2, <2>4 DEF Accounted, MayBeApproved, AtRisk, InHand, Armed, Booking, Saving,
       TypeOK, CurFits
  <2>17. Readable'
    BY DEF Readable, TypeOK
  <2>18. QueueFits'
    BY DEF QueueFits, TypeOK
  <2>19. OwedFits'
    <3>1. ASSUME NEW a \in Attempt \ hit, a # cur.id
          PROVE  /\ rows[a] = "owed" <=> InFile(a)
                 /\ rows'[a] = rows[a] /\ (rows[a] = "sent" => a \in hostTC)
      BY <2>2, <2>5, <3>1 DEF OwedFits, TypeOK
    <3>2. rows'[cur.id] = "owed" <=> InFile(cur.id)
      BY <2>1, <2>2, <2>3, <2>5 DEF CurFits, InHand, InFile, QueueFits, Booking
    <3>3. rows'[cur.id] = "sent" => cur.id \in hostTC
      BY <2>2, <2>3 DEF IsApproved
    <3> QED BY <2>5, <3>1, <3>2, <3>3 DEF OwedFits, InFile
  <2>20. OnceFits' /\ OnlyOwedIsUploaded'
    BY DEF OnceFits, Once, OnlyOwedIsUploaded
  <2> QED BY <2>1, <2>2, <2>3, <2>4, <2>5, <2>6, <2>7, <2>8, <2>9, <2>10, <2>11, <2>12,
     <2>13, <2>14, <2>15, <2>16, <2>17, <2>18, <2>19, <2>20 DEF IInv
<1> QED BY <1>1, <1>2, <1>3, <1>4, <1>5, <1>6, <1>7, <1>8 DEF Book

\* A settlement keeps the invariant.
LEMMA SettleStep ==
  ASSUME TypeOK, CurFits, Untried, FateFits, NotAsked, IsApproved, UnusableFits, LineFits,
         FilesFit, KeptFits, Accounted, Readable, QueueFits, OnceFits, OwedFits,
         OnlyOwedIsUploaded,
         Settle \/ StartSettle
  PROVE  IInv'
<1> USE EmvAssumption DEF EmvAssumption, Attempt, NoFile, None, files, books, line, hist
<1>1. CASE StartSettle
  <2> USE <1>1
  <2>1. cur' = NoCur
    BY DEF StartSettle
  <2>2. cur'.kind = "SETTLE" /\ cur'.result = "none" /\ ~cur'.resave /\ cur'.calls = 0 /\
     cur'.id = 0
    BY <2>1 DEF NoCur
  <2>3. pc = "idle" /\ pc' = "connect"
    BY DEF StartSettle, Goto
  <2>4. UNCHANGED <<commMode, rest, files, books, line, hist>>
    BY DEF StartSettle
  <2>5. TypeOK'
    <3>1. cur' \in [id : Attempt \cup {0}, kind : Kinds \cup {"SETTLE"}, result : Result,
                     resave : BOOLEAN, calls : 0 .. MaxReferral]
      BY <2>1 DEF NoCur, Result
    <3> QED BY <2>3, <2>4, <3>1 DEF TypeOK, PC
  <2>6. CurFits'
    BY <2>2, <2>3, <2>4 DEF CurFits, InHand, InFile, Forced, Before, Asking, Saving, Booking,
       Settling, TypeOK
  <2>7. FateFits'
    BY <2>2, <2>3, <2>4 DEF FateFits, InHand, Booking, Saving, TypeOK
  <2>8. NotAsked'
    BY <2>2, <2>3, <2>4 DEF NotAsked, InHand, MayBeApproved, Before, Saving, TypeOK
  <2>9. IsApproved'
    BY DEF IsApproved, Booking, Forced, TypeOK, CurFits, InHand, LineFits, StartSettle, Goto
  <2>10. UnusableFits'
    BY DEF UnusableFits, Armed, MayBeApproved, TypeOK, CurFits, NotAsked, LineFits, FilesFit,
       InHand, Before, Asking, StartSettle, Goto
  <2>11. LineFits'
    BY DEF LineFits, Waiting, ReversalFile, TypeOK, CurFits, InHand, StartSettle, Goto
  <2>12. FilesFit'
    BY <2>2, <2>3, <2>4 DEF FilesFit, DbkSteps, Asking, Settling, Booking, Armed, Forced, TypeOK
  <2>13. KeptFits'
    BY DEF KeptFits, TypeOK, StartSettle, Goto
  <2>14. Accounted'
    BY DEF Accounted, MayBeApproved, AtRisk, InHand, Armed, Booking, Saving, TypeOK,
       StartSettle, Goto
  <2>15. Readable'
    BY DEF Readable, TypeOK, StartSettle, Goto
  <2>16. QueueFits'
    BY DEF QueueFits, TypeOK, StartSettle, Goto
  <2>17. OwedFits'
    BY DEF OwedFits, InFile, TypeOK, StartSettle, Goto
  <2>18. Untried' /\ OnceFits' /\ OnlyOwedIsUploaded'
    BY DEF Untried, InFile, OnceFits, Once, OnlyOwedIsUploaded, StartSettle, Goto
  <2> QED BY <2>1, <2>2, <2>3, <2>4, <2>5, <2>6, <2>7, <2>8, <2>9, <2>10, <2>11, <2>12,
     <2>13, <2>14, <2>15, <2>16, <2>17, <2>18 DEF IInv
<1>2. CASE SendAdvice
  <2> USE <1>2
  <2>1. queue # <<>> /\ pc = "advice"
    BY DEF SendAdvice, Goto
  <2>2. Head(queue) \in Attempt /\ Head(queue) \in ToSet(queue) /\ InFile(Head(queue))
    BY <2>1, TailEntries DEF TypeOK, InFile
  <2>3. net'.id = Head(queue) /\ net'.type \in {"tc", "advice"}
    BY DEF SendAdvice
  <2>4. net'.type = "advice" => rows[Head(queue)] # "owed"
    BY DEF SendAdvice
  <2>5. Head(queue) <= nAttempt
    BY <2>2 DEF Untried, TypeOK
  <2>6. UNCHANGED <<nAttempt, rows, host, fate, displaced, hit, rev, dbk, queue, rest>>
    BY DEF SendAdvice, files, books, hist
  <2>7. TypeOK'
    <3>1. pc' \in PC
      BY DEF TypeOK, PC, Saving, Booking, Waiting, SendAdvice, Goto
    <3>2. net' \in [type : {"auth", "reversal", "tc", "advice"}, id : Attempt] \cup {None}
      BY <2>2 DEF TypeOK, SendAdvice, Goto
    <3> QED BY <3>1, <3>2 DEF TypeOK, SendAdvice, Goto
  <2>8. CurFits'
    BY DEF CurFits, InHand, InFile, Forced, Before, Asking, Saving, Booking, Settling,
       TypeOK, Untried, FilesFit, SendAdvice, Goto
  <2>9. Untried'
    BY <2>3, <2>5, <2>6 DEF Untried, InFile
  <2>10. FateFits'
    BY DEF FateFits, InHand, Booking, Saving, TypeOK, SendAdvice, Goto
  <2>11. NotAsked'
    BY DEF NotAsked, InHand, MayBeApproved, Before, Saving, TypeOK, CurFits, LineFits,
       SendAdvice, Goto
  <2>12. IsApproved'
    BY DEF IsApproved, Booking, Forced, TypeOK, CurFits, InHand, LineFits, SendAdvice, Goto
  <2>13. UnusableFits'
    BY DEF UnusableFits, Armed, MayBeApproved, TypeOK, CurFits, NotAsked, LineFits, FilesFit,
       InHand, Before, Asking, SendAdvice, Goto
  <2>14. LineFits'
    BY DEF LineFits, Waiting, ReversalFile, TypeOK, CurFits, InHand, SendAdvice, Goto
  <2>15. FilesFit'
    BY DEF FilesFit, DbkSteps, Asking, Settling, Booking, Armed, Forced, TypeOK, CurFits,
       InHand, SendAdvice, Goto
  <2>16. KeptFits'
    BY DEF KeptFits, TypeOK, SendAdvice, Goto
  <2>17. Accounted'
    BY DEF Accounted, MayBeApproved, AtRisk, InHand, Armed, Booking, Saving, TypeOK,
       SendAdvice, Goto
  <2>18. Readable'
    BY DEF Readable, TypeOK, SendAdvice, Goto
  <2>19. QueueFits'
    BY DEF QueueFits, TypeOK, SendAdvice, Goto
  <2>20. OwedFits'
    BY DEF OwedFits, InFile, TypeOK, SendAdvice, Goto
  <2>21. OnlyOwedIsUploaded'
    BY <2>1, <2>2, <2>3, <2>4, <2>6 DEF OnlyOwedIsUploaded, OwedFits
  <2>22. OnceFits'
    BY DEF OnceFits, Once, SendAdvice, Goto
  <2> QED BY <2>1, <2>2, <2>3, <2>4, <2>5, <2>6, <2>7, <2>8, <2>9, <2>10, <2>11, <2>12,
     <2>13, <2>14, <2>15, <2>16, <2>17, <2>18, <2>19, <2>20, <2>21, <2>22 DEF IInv
<1>3. CASE AdviceFailed
  <2> USE <1>3 DEF AdviceFailed, Finish
  <2>1. TypeOK'
    <3>1. pc' \in PC
      BY DEF TypeOK, PC, Saving, Booking, Waiting
    <3>2. commMode' \in {"ethernet", "modem"} /\ (commMode' = "modem" => DialBackup)
      BY DEF TypeOK
    <3>3. reply' \in {"none", "00", "other", "referral", "noAuthCode", "unparsed"}
      BY DEF TypeOK
    <3> QED BY <3>1, <3>2, <3>3 DEF TypeOK
  <2>2. CurFits'
    BY DEF CurFits, InHand, InFile, Forced, Before, Asking, Saving, Booking, Settling,
       TypeOK, Untried, FilesFit
  <2>3. FateFits'
    BY DEF FateFits, InHand, Booking, Saving, TypeOK
  <2>4. NotAsked'
    BY DEF NotAsked, InHand, MayBeApproved, Before, Saving, TypeOK, CurFits, LineFits
  <2>5. IsApproved'
    BY DEF IsApproved, Booking, Forced, TypeOK, CurFits, InHand, LineFits
  <2>6. UnusableFits'
    BY DEF UnusableFits, Armed, MayBeApproved, TypeOK, CurFits, NotAsked, LineFits, FilesFit,
       InHand, Before, Asking
  <2>7. LineFits'
    BY DEF LineFits, Waiting, ReversalFile, TypeOK, CurFits, InHand
  <2>8. FilesFit'
    BY DEF FilesFit, DbkSteps, Asking, Settling, Booking, Armed, Forced, TypeOK, CurFits, InHand
  <2>9. KeptFits'
    BY DEF KeptFits, TypeOK
  <2>10. Accounted'
    BY DEF Accounted, MayBeApproved, AtRisk, InHand, Armed, Booking, Saving, TypeOK
  <2>11. Readable'
    BY DEF Readable, TypeOK
  <2>12. QueueFits'
    BY DEF QueueFits, TypeOK
  <2>13. OwedFits'
    BY DEF OwedFits, InFile, TypeOK
  <2>14. Untried' /\ OnceFits' /\ OnlyOwedIsUploaded'
    BY DEF Untried, InFile, OnceFits, Once, OnlyOwedIsUploaded
  <2> QED BY <2>1, <2>2, <2>3, <2>4, <2>5, <2>6, <2>7, <2>8, <2>9, <2>10, <2>11, <2>12,
     <2>13, <2>14 DEF IInv
<1>4. CASE AdviceAccepted
  <2> USE <1>4
  <2>1. queue # <<>> /\ pc = "waitAdvice" /\ pc' = "drop" /\ reply = "00"
    BY DEF AdviceAccepted, Goto, QueueFits
  <2>2. Head(queue) \in Attempt /\ Head(queue) \in ToSet(queue) /\ InFile(Head(queue))
    BY <2>1, TailEntries DEF TypeOK, InFile
  <2>3. rows' = [rows EXCEPT ![Head(queue)] = "sent"] /\ rows'[Head(queue)] = "sent"
    BY <2>2 DEF AdviceAccepted, TypeOK
  <2>4. Head(queue) <= nAttempt
    BY <2>2 DEF Untried, TypeOK
  <2>5. \A a \in Attempt : a # Head(queue) => rows'[a] = rows[a]
    BY <2>3 DEF TypeOK
  <2>6. UNCHANGED <<cur, nAttempt, host, hostTC, fate, displaced, hit, rev, dbk, queue, rest,
     net, sendReversalBit>>
    BY DEF AdviceAccepted, files, hist
  <2>7. Head(queue) \notin hit => rows[Head(queue)] = "owed" /\ Head(queue) \in hostTC
    BY <2>1, <2>2 DEF OwedFits, LineFits
  <2>8. TypeOK'
    <3>1. pc' \in PC
      BY DEF TypeOK, PC, Saving, Booking, Waiting, AdviceAccepted, Goto
    <3>2. rows' \in [Attempt -> TCState]
      BY DEF TypeOK, TCState, AdviceAccepted, Goto
    <3>3. reply' \in {"none", "00", "other", "referral", "noAuthCode", "unparsed"}
      BY DEF TypeOK, AdviceAccepted, Goto
    <3> QED BY <3>1, <3>2, <3>3 DEF TypeOK, AdviceAccepted, Goto
  <2>9. CurFits'
    BY DEF CurFits, InHand, InFile, Forced, Before, Asking, Saving, Booking, Settling,
       TypeOK, Untried, FilesFit, AdviceAccepted, Goto
  <2>10. Untried'
    BY <2>4, <2>5, <2>6 DEF Untried, InFile, TypeOK
  <2>11. FateFits'
    BY DEF FateFits, InHand, Booking, Saving, TypeOK, AdviceAccepted, Goto
  <2>12. NotAsked'
    BY DEF NotAsked, InHand, MayBeApproved, Before, Saving, TypeOK, CurFits, LineFits,
       AdviceAccepted, Goto
  <2>13. IsApproved'
    BY DEF IsApproved, Booking, Forced, TypeOK, CurFits, InHand, LineFits, AdviceAccepted, Goto
  <2>14. UnusableFits'
    BY DEF UnusableFits, Armed, MayBeApproved, TypeOK, CurFits, NotAsked, LineFits, FilesFit,
       InHand, Before, Asking, AdviceAccepted, Goto
  <2>15. LineFits'
    BY DEF LineFits, Waiting, ReversalFile, TypeOK, CurFits, InHand, AdviceAccepted, Goto
  <2>16. FilesFit'
    BY DEF FilesFit, DbkSteps, Asking, Settling, Booking, Armed, Forced, TypeOK, CurFits,
       InHand, AdviceAccepted, Goto
  <2>17. KeptFits'
    BY <2>1, <2>3, <2>5, <2>6, <2>7 DEF KeptFits
  <2>18. Accounted'
    BY DEF Accounted, MayBeApproved, AtRisk, InHand, Armed, Booking, Saving, TypeOK,
       AdviceAccepted, Goto
  <2>19. Readable'
    BY DEF Readable, TypeOK, AdviceAccepted, Goto
  <2>20. QueueFits'
    BY DEF QueueFits, TypeOK, AdviceAccepted, Goto
  <2>21. OwedFits'
    BY <2>1, <2>2, <2>3, <2>5, <2>6, <2>7 DEF OwedFits, InFile
  <2>22. OnceFits' /\ OnlyOwedIsUploaded'
    BY DEF OnceFits, Once, OnlyOwedIsUploaded, AdviceAccepted, Goto
  <2> QED BY <2>1, <2>2, <2>3, <2>4, <2>5, <2>6, <2>7, <2>8, <2>9, <2>10, <2>11, <2>12,
     <2>13, <2>14, <2>15, <2>16, <2>17, <2>18, <2>19, <2>20, <2>21, <2>22 DEF IInv
<1>5. CASE AdviceUpdate
  <2> USE <1>5
  <2>1. queue # <<>> /\ pc = "drop" /\ pc' = "advice" /\ queue' = Tail(queue)
    BY DEF AdviceUpdate, Goto, QueueFits
  <2>2. queue \in Seq(Attempt)
    BY DEF TypeOK
  <2>3. Tail(queue) \in Seq(Attempt) /\ ToSet(queue) = {Head(queue)} \cup ToSet(Tail(queue))
    BY <2>1, <2>2, TailEntries
  <2>4. Once(Tail(queue)) /\ (Head(queue) \in hit \/ Head(queue) \notin ToSet(Tail(queue)))
    BY <2>1, <2>2, TailOnce DEF OnceFits
  <2>5. UNCHANGED <<cur, nAttempt, host, hostTC, fate, displaced, hit, rev, dbk, rows, rest,
     net, sendReversalBit>>
    BY DEF AdviceUpdate, files, line, hist
  <2>6. ToSet(queue') = ToSet(Tail(queue)) /\ rest = <<>> /\ ToSet(rest) = {}
    BY <2>1, NoEntry DEF QueueFits
  <2>7. TypeOK'
    <3>1. pc' \in PC
      BY DEF TypeOK, PC, Saving, Booking, Waiting, AdviceUpdate, Goto
    <3>2. queue' \in Seq(Attempt)
      BY <2>1, <2>3 DEF TypeOK, AdviceUpdate, Goto
    <3> QED BY <3>1, <3>2 DEF TypeOK, AdviceUpdate, Goto
  <2>8. CurFits'
    BY <2>1, <2>3, <2>5, <2>6 DEF CurFits, InHand, InFile, Forced, Before, Asking, Saving,
       Booking, Settling
  <2>9. Untried'
    BY <2>3, <2>5, <2>6 DEF Untried, InFile
  <2>10. FateFits'
    BY DEF FateFits, InHand, Booking, Saving, TypeOK, AdviceUpdate, Goto
  <2>11. NotAsked'
    BY DEF NotAsked, InHand, MayBeApproved, Before, Saving, TypeOK, CurFits, LineFits,
       AdviceUpdate, Goto
  <2>12. IsApproved'
    BY DEF IsApproved, Booking, Forced, TypeOK, CurFits, InHand, LineFits, AdviceUpdate, Goto
  <2>13. UnusableFits'
    BY DEF UnusableFits, Armed, MayBeApproved, TypeOK, CurFits, NotAsked, LineFits, FilesFit,
       InHand, Before, Asking, AdviceUpdate, Goto
  <2>14. LineFits'
    BY DEF LineFits, Waiting, ReversalFile, TypeOK, CurFits, InHand, AdviceUpdate, Goto
  <2>15. FilesFit'
    BY DEF FilesFit, DbkSteps, Asking, Settling, Booking, Armed, Forced, TypeOK, CurFits,
       InHand, AdviceUpdate, Goto
  <2>16. KeptFits'
    BY DEF KeptFits, TypeOK, AdviceUpdate, Goto
  <2>17. Accounted'
    BY DEF Accounted, MayBeApproved, AtRisk, InHand, Armed, Booking, Saving, TypeOK,
       AdviceUpdate, Goto
  <2>18. Readable'
    BY DEF Readable, TypeOK, AdviceUpdate, Goto
  <2>19. QueueFits'
    BY DEF QueueFits, TypeOK, AdviceUpdate, Goto
  <2>20. OnceFits'
    <3>1. Once(queue)' /\ Once(rest)'
      BY <2>1, <2>4, <2>5 DEF OnceFits, Once
    <3> QED BY <2>5, <2>6, <3>1 DEF OnceFits
  <2>21. OwedFits'
    BY <2>1, <2>3, <2>4, <2>5, <2>6 DEF OwedFits, InFile
  <2>22. OnlyOwedIsUploaded'
    BY DEF OnlyOwedIsUploaded, AdviceUpdate, Goto
  <2> QED BY <2>1, <2>2, <2>3, <2>4, <2>5, <2>6, <2>7, <2>8, <2>9, <2>10, <2>11, <2>12,
     <2>13, <2>14, <2>15, <2>16, <2>17, <2>18, <2>19, <2>20, <2>21, <2>22 DEF IInv
<1>6. CASE AdvicesDone
  <2> USE <1>6 DEF AdvicesDone, Goto
  <2>1. TypeOK'
    <3>1. pc' \in PC
      BY DEF TypeOK, PC, Saving, Booking, Waiting
    <3> QED BY <3>1 DEF TypeOK
  <2>2. CurFits'
    BY DEF CurFits, InHand, InFile, Forced, Before, Asking, Saving, Booking, Settling,
       TypeOK, Untried, FilesFit
  <2>3. FateFits'
    BY DEF FateFits, InHand, Booking, Saving, TypeOK
  <2>4. NotAsked'
    BY DEF NotAsked, InHand, MayBeApproved, Before, Saving, TypeOK, CurFits, LineFits
  <2>5. IsApproved'
    BY DEF IsApproved, Booking, Forced, TypeOK, CurFits, InHand, LineFits
  <2>6. UnusableFits'
    BY DEF UnusableFits, Armed, MayBeApproved, TypeOK, CurFits, NotAsked, LineFits, FilesFit,
       InHand, Before, Asking
  <2>7. LineFits'
    BY DEF LineFits, Waiting, ReversalFile, TypeOK, CurFits, InHand
  <2>8. FilesFit'
    BY DEF FilesFit, DbkSteps, Asking, Settling, Booking, Armed, Forced, TypeOK, CurFits, InHand
  <2>9. KeptFits'
    BY DEF KeptFits, TypeOK
  <2>10. Accounted'
    BY DEF Accounted, MayBeApproved, AtRisk, InHand, Armed, Booking, Saving, TypeOK
  <2>11. Readable'
    BY DEF Readable, TypeOK
  <2>12. QueueFits'
    BY DEF QueueFits, TypeOK
  <2>13. OwedFits'
    BY DEF OwedFits, InFile, TypeOK
  <2>14. Untried' /\ OnceFits' /\ OnlyOwedIsUploaded'
    BY DEF Untried, InFile, OnceFits, Once, OnlyOwedIsUploaded
  <2> QED BY <2>1, <2>2, <2>3, <2>4, <2>5, <2>6, <2>7, <2>8, <2>9, <2>10, <2>11, <2>12,
     <2>13, <2>14 DEF IInv
<1>7. CASE CloseBatch
  <2> USE <1>7
  <2>1. pc = "close" /\ pc' = "idle" /\ ~sendReversalBit /\ ~sendReversalBit' /\ cur.kind =
     "SETTLE"
    BY DEF CloseBatch, Finish, FilesFit, Settling, CurFits
  <2>2. ToSet(queue) = {} /\ ToSet(rest) = {}
    BY <2>1, NoEntry DEF QueueFits
  <2>3. \A a \in Attempt : rows'[a] = IF rows[a] = "none" THEN "none" ELSE "closed"
    BY DEF CloseBatch
  <2>4. UNCHANGED <<cur, nAttempt, host, hostTC, fate, displaced, hit, queue, rest, net,
     sendReversalBit>>
    BY DEF CloseBatch, line, hist
  <2>5. TypeOK'
    <3>1. pc' \in PC
      BY DEF TypeOK, PC, Saving, Booking, Waiting, CloseBatch, Finish
    <3>2. commMode' \in {"ethernet", "modem"} /\ (commMode' = "modem" => DialBackup)
      BY DEF TypeOK, CloseBatch, Finish
    <3>3. rev' \in Attempt \cup {NoFile}
      BY DEF TypeOK, CloseBatch, Finish
    <3>4. dbk' \in Attempt \cup {NoFile}
      BY DEF TypeOK, CloseBatch, Finish
    <3>5. rows' \in [Attempt -> TCState]
      BY DEF TypeOK, TCState, CloseBatch, Finish
    <3> QED BY <3>1, <3>2, <3>3, <3>4, <3>5 DEF TypeOK, CloseBatch, Finish
  <2>6. CurFits'
    BY DEF CurFits, InHand, InFile, Forced, Before, Asking, Saving, Booking, Settling,
       TypeOK, Untried, FilesFit, CloseBatch, Finish
  <2>7. Untried'
    BY DEF Untried, InFile, TypeOK, CurFits, InHand, CloseBatch, Finish
  <2>8. FateFits'
    BY DEF FateFits, InHand, Booking, Saving, TypeOK, CloseBatch, Finish
  <2>9. NotAsked'
    BY DEF NotAsked, InHand, MayBeApproved, Before, Saving, TypeOK, CurFits, LineFits,
       CloseBatch, Finish
  <2>10. IsApproved'
    BY DEF IsApproved, Booking, Forced, TypeOK, CurFits, InHand, LineFits, CloseBatch, Finish
  <2>11. UnusableFits'
    BY DEF UnusableFits, Armed, MayBeApproved, TypeOK, CurFits, NotAsked, LineFits, FilesFit,
       InHand, Before, Asking, CloseBatch, Finish
  <2>12. LineFits'
    BY DEF LineFits, Waiting, ReversalFile, TypeOK, CurFits, InHand, CloseBatch, Finish
  <2>13. FilesFit'
    BY DEF FilesFit, DbkSteps, Asking, Settling, Booking, Armed, Forced, TypeOK, CurFits,
       InHand, CloseBatch, Finish
  <2>14. KeptFits'
    BY DEF KeptFits, TypeOK, CloseBatch, Finish
  <2>15. Accounted'
    BY <2>1, <2>3, <2>4 DEF Accounted, MayBeApproved, AtRisk, InHand, Armed, Booking, Saving
  <2>16. Readable'
    BY <2>1 DEF Readable
  <2>17. QueueFits'
    BY DEF QueueFits, TypeOK, CloseBatch, Finish
  <2>18. OwedFits'
    BY <2>2, <2>3, <2>4 DEF OwedFits, InFile
  <2>19. OnceFits' /\ OnlyOwedIsUploaded'
    BY DEF OnceFits, Once, OnlyOwedIsUploaded, CloseBatch, Finish
  <2> QED BY <2>1, <2>2, <2>3, <2>4, <2>5, <2>6, <2>7, <2>8, <2>9, <2>10, <2>11, <2>12,
     <2>13, <2>14, <2>15, <2>16, <2>17, <2>18, <2>19 DEF IInv
<1>8. CASE SettleFailed
  <2> USE <1>8 DEF SettleFailed, Finish
  <2>1. TypeOK'
    <3>1. pc' \in PC
      BY DEF TypeOK, PC, Saving, Booking, Waiting
    <3>2. commMode' \in {"ethernet", "modem"} /\ (commMode' = "modem" => DialBackup)
      BY DEF TypeOK
    <3> QED BY <3>1, <3>2 DEF TypeOK
  <2>2. CurFits'
    BY DEF CurFits, InHand, InFile, Forced, Before, Asking, Saving, Booking, Settling,
       TypeOK, Untried, FilesFit
  <2>3. FateFits'
    BY DEF FateFits, InHand, Booking, Saving, TypeOK
  <2>4. NotAsked'
    BY DEF NotAsked, InHand, MayBeApproved, Before, Saving, TypeOK, CurFits, LineFits
  <2>5. IsApproved'
    BY DEF IsApproved, Booking, Forced, TypeOK, CurFits, InHand, LineFits
  <2>6. UnusableFits'
    BY DEF UnusableFits, Armed, MayBeApproved, TypeOK, CurFits, NotAsked, LineFits, FilesFit,
       InHand, Before, Asking
  <2>7. LineFits'
    BY DEF LineFits, Waiting, ReversalFile, TypeOK, CurFits, InHand
  <2>8. FilesFit'
    BY DEF FilesFit, DbkSteps, Asking, Settling, Booking, Armed, Forced, TypeOK, CurFits, InHand
  <2>9. KeptFits'
    BY DEF KeptFits, TypeOK
  <2>10. Accounted'
    BY DEF Accounted, MayBeApproved, AtRisk, InHand, Armed, Booking, Saving, TypeOK
  <2>11. Readable'
    BY DEF Readable, TypeOK
  <2>12. QueueFits'
    BY DEF QueueFits, TypeOK
  <2>13. OwedFits'
    BY DEF OwedFits, InFile, TypeOK
  <2>14. Untried' /\ OnceFits' /\ OnlyOwedIsUploaded'
    BY DEF Untried, InFile, OnceFits, Once, OnlyOwedIsUploaded
  <2> QED BY <2>1, <2>2, <2>3, <2>4, <2>5, <2>6, <2>7, <2>8, <2>9, <2>10, <2>11, <2>12,
     <2>13, <2>14 DEF IInv
<1> QED BY <1>1, <1>2, <1>3, <1>4, <1>5, <1>6, <1>7, <1>8 DEF Settle

\* A power failure keeps the invariant.
LEMMA CrashStep ==
  ASSUME TypeOK, CurFits, Untried, FateFits, NotAsked, IsApproved, UnusableFits, LineFits,
         FilesFit, KeptFits, Accounted, Readable, QueueFits, OnceFits, OwedFits,
         OnlyOwedIsUploaded,
         Crash
  PROVE  IInv'
<1> USE EmvAssumption DEF EmvAssumption, Attempt, NoFile, None, files, books, line, hist
<1>1. CASE Crash
  <2> USE <1>1
  <2>1. UNCHANGED <<files, books, host, hostTC, net, nAttempt, fate, displaced>>
    BY DEF Crash
  <2>2. pc' = "idle" /\ rest' = <<>> /\ crashes' = crashes + 1 /\ hit' = hit \cup Exposed
    BY DEF Crash
  <2>3. crashes \in Nat /\ crashes' # 0 /\ reply' = "none"
    BY <2>2 DEF Crash, TypeOK
  <2>4. cur' = NoCur
    BY DEF Crash
  <2>5. cur'.kind = "SETTLE" /\ cur'.result = "none" /\ ~cur'.resave /\ cur'.calls = 0 /\
     cur'.id = 0
    BY <2>4 DEF NoCur
  <2>6. ToSet(rest') = {} /\ Once(rest')
    BY <2>2, NoEntry
  <2>7. pc = "drop" => Head(queue) \in Attempt /\ Head(queue) \in ToSet(queue)
    BY TailEntries DEF TypeOK, QueueFits
  <2>8. pc \in Booking \/ (cur.resave /\ pc \in Saving) \/ (pc = "gen2" /\ ~sendReversalBit)
     => InHand
    BY DEF CurFits, InHand, Forced, Booking, Saving
  <2>9. ToSet(rest) \subseteq Attempt
    BY Entries DEF TypeOK
  <2>10. \A a \in Exposed : a \in Attempt /\ a <= nAttempt
    BY <2>7, <2>8, <2>9 DEF Exposed, TypeOK, CurFits, Untried, InFile
  <2>11. \A a \in Attempt : AtRisk(a) \/ a \in ToSet(rest) => a \in Exposed
    BY DEF AtRisk, Exposed
  <2>12. (pc = "dbk" /\ dbk # NoFile => dbk \in Exposed) /\ (pc = "drop" => Head(queue) \in
     Exposed)
    BY DEF Exposed
  <2>13. pc \in {"topRest", "book"} => cur.id \in Exposed
    BY DEF Exposed, Booking
  <2>14. TypeOK'
    <3>1. cur' \in [id : Attempt \cup {0}, kind : Kinds \cup {"SETTLE"}, result : Result,
                     resave : BOOLEAN, calls : 0 .. MaxReferral]
      BY <2>4 DEF NoCur, Result
    <3>2. hit' \subseteq Attempt
      BY <2>2, <2>10 DEF TypeOK
    <3>3. crashes' \in 0 .. MaxCrash /\ commMode' = "ethernet"
      BY <2>2 DEF TypeOK, Crash
    <3> QED BY <2>1, <2>2, <2>3, <3>1, <3>2, <3>3 DEF TypeOK, PC
  <2>15. CurFits'
    BY <2>1, <2>2, <2>5 DEF CurFits, InHand, InFile, Forced, Before, Asking, Saving, Booking,
       Settling, TypeOK
  <2>16. Untried'
    BY <2>1, <2>2, <2>6, <2>10 DEF Untried, InFile, TypeOK
  <2>17. FateFits'
    BY <2>2 DEF FateFits, InHand, Booking, Saving
  <2>18. NotAsked'
    BY <2>2 DEF NotAsked, InHand, MayBeApproved, Before, Saving
  <2>19. IsApproved'
    BY <2>2 DEF IsApproved, Booking, Forced
  <2>20. UnusableFits'
    BY <2>2 DEF UnusableFits, Armed, MayBeApproved
  <2>21. LineFits'
    BY <2>2, <2>3 DEF LineFits, Waiting, ReversalFile
  <2>22. FilesFit'
    BY <2>1, <2>2, <2>5 DEF FilesFit, DbkSteps, Asking, Settling, Booking, Armed, Forced
  <2>23. KeptFits'
    BY <2>1, <2>2, <2>10, <2>12 DEF KeptFits, TypeOK
  <2>24. Accounted'
    <3>1. ASSUME NEW a \in Attempt \ hit', MayBeApproved(a)', rows'[a] = "none"
          PROVE  /\ MayBeApproved(a) /\ rows[a] = "none" /\ a \in Attempt \ hit /\ ~AtRisk(a)
                 /\ Armed(a)' = Armed(a)
      BY <2>1, <2>2, <2>11, <3>1 DEF MayBeApproved, Armed
    <3> QED BY <2>1, <3>1 DEF Accounted
  <2>25. Readable'
    BY <2>3 DEF Readable
  <2>26. QueueFits'
    BY <2>2 DEF QueueFits
  <2>27. OnceFits'
    <3>1. hit \subseteq hit' /\ queue' = queue
      BY <2>1, <2>2
    <3>2. Once(queue)'
      BY <3>1 DEF OnceFits, Once
    <3>3. Once(rest)'
      BY <2>2 DEF Once
    <3> QED BY <2>6, <3>1, <3>2, <3>3 DEF OnceFits
  <2>28. OwedFits'
    BY <2>1, <2>2, <2>6, <2>10, <2>11, <2>12, <2>13 DEF OwedFits, InFile
  <2>29. OnlyOwedIsUploaded'
    BY DEF OnlyOwedIsUploaded, TypeOK, Crash
  <2> QED BY <2>1, <2>2, <2>3, <2>4, <2>5, <2>6, <2>7, <2>8, <2>9, <2>10, <2>11, <2>12,
     <2>13, <2>14, <2>15, <2>16, <2>17, <2>18, <2>19, <2>20, <2>21, <2>22, <2>23, <2>24,
        <2>25, <2>26, <2>27, <2>28, <2>29 DEF IInv
<1> QED BY <1>1

\* The host and the line keep the invariant.
LEMMA HostStep ==
  ASSUME TypeOK, CurFits, Untried, FateFits, NotAsked, IsApproved, UnusableFits, LineFits,
         FilesFit, KeptFits, Accounted, Readable, QueueFits, OnceFits, OwedFits,
         OnlyOwedIsUploaded,
         Host
  PROVE  IInv'
<1> USE EmvAssumption DEF EmvAssumption, Attempt, NoFile, None, files, books, line, hist
<1>1. CASE HostAuthorize
  <2> USE <1>1 DEF HostAuthorize, Deliver
  <2>1. TypeOK'
    <3>1. host' \in [Attempt -> {"none", "approved", "declined", "reversed"}]
      BY DEF TypeOK
    <3>2. net' \in [type : {"auth", "reversal", "tc", "advice"}, id : Attempt] \cup {None}
      BY DEF TypeOK, CurFits, FilesFit, LineFits, Settling, InHand, Asking, ReversalFile
    <3>3. reply' \in {"none", "00", "other", "referral", "noAuthCode", "unparsed"}
      BY DEF TypeOK
    <3> QED BY <3>1, <3>2, <3>3 DEF TypeOK
  <2>2. CurFits'
    BY DEF CurFits, InHand, InFile, Forced, Before, Asking, Saving, Booking, Settling,
       TypeOK, Untried, FilesFit
  <2>3. Untried'
    BY DEF Untried, InFile, TypeOK, CurFits, InHand
  <2>4. NotAsked'
    BY DEF NotAsked, InHand, MayBeApproved, Before, Saving, TypeOK, CurFits, LineFits
  <2>5. IsApproved'
    BY DEF IsApproved, Booking, Forced, TypeOK, CurFits, InHand, LineFits
  <2>6. UnusableFits'
    BY DEF UnusableFits, Armed, MayBeApproved, TypeOK, CurFits, NotAsked, LineFits, FilesFit,
       InHand, Before, Asking
  <2>7. LineFits'
    BY DEF LineFits, Waiting, ReversalFile, TypeOK, CurFits, InHand
  <2>8. KeptFits'
    BY DEF KeptFits, TypeOK
  <2>9. Accounted'
    BY DEF Accounted, MayBeApproved, AtRisk, InHand, Armed, Booking, Saving, TypeOK
  <2>10. OnlyOwedIsUploaded'
    BY DEF OnlyOwedIsUploaded, TypeOK
  <2>11. FateFits' /\ FilesFit' /\ Readable' /\ QueueFits' /\ OnceFits' /\ OwedFits'
    BY DEF FateFits, InHand, Booking, Saving, FilesFit, DbkSteps, Asking, Settling, Armed,
       Forced, Readable, QueueFits, OnceFits, Once, OwedFits, InFile
  <2> QED BY <2>1, <2>2, <2>3, <2>4, <2>5, <2>6, <2>7, <2>8, <2>9, <2>10, <2>11 DEF IInv
<1>2. CASE HostDecline
  <2> USE <1>2 DEF HostDecline, Deliver
  <2>1. TypeOK'
    <3>1. host' \in [Attempt -> {"none", "approved", "declined", "reversed"}]
      BY DEF TypeOK
    <3>2. net' \in [type : {"auth", "reversal", "tc", "advice"}, id : Attempt] \cup {None}
      BY DEF TypeOK, CurFits, FilesFit, LineFits, Settling, InHand, Asking, ReversalFile
    <3>3. reply' \in {"none", "00", "other", "referral", "noAuthCode", "unparsed"}
      BY DEF TypeOK
    <3> QED BY <3>1, <3>2, <3>3 DEF TypeOK
  <2>2. CurFits'
    BY DEF CurFits, InHand, InFile, Forced, Before, Asking, Saving, Booking, Settling,
       TypeOK, Untried, FilesFit
  <2>3. Untried'
    BY DEF Untried, InFile, TypeOK, CurFits, InHand
  <2>4. NotAsked'
    BY DEF NotAsked, InHand, MayBeApproved, Before, Saving, TypeOK, CurFits, LineFits
  <2>5. IsApproved'
    BY DEF IsApproved, Booking, Forced, TypeOK, CurFits, InHand, LineFits
  <2>6. UnusableFits'
    BY DEF UnusableFits, Armed, MayBeApproved, TypeOK, CurFits, NotAsked, LineFits, FilesFit,
       InHand, Before, Asking
  <2>7. LineFits'
    BY DEF LineFits, Waiting, ReversalFile, TypeOK, CurFits, InHand
  <2>8. KeptFits'
    BY DEF KeptFits, TypeOK
  <2>9. Accounted'
    BY DEF Accounted, MayBeApproved, AtRisk, InHand, Armed, Booking, Saving, TypeOK
  <2>10. OnlyOwedIsUploaded'
    BY DEF OnlyOwedIsUploaded, TypeOK
  <2>11. FateFits' /\ FilesFit' /\ Readable' /\ QueueFits' /\ OnceFits' /\ OwedFits'
    BY DEF FateFits, InHand, Booking, Saving, FilesFit, DbkSteps, Asking, Settling, Armed,
       Forced, Readable, QueueFits, OnceFits, Once, OwedFits, InFile
  <2> QED BY <2>1, <2>2, <2>3, <2>4, <2>5, <2>6, <2>7, <2>8, <2>9, <2>10, <2>11 DEF IInv
<1>3. CASE HostReverse
  <2> USE <1>3 DEF HostReverse, Deliver
  <2>1. net.id \in Attempt
    BY DEF TypeOK
  <2>2. net = [type |-> "reversal", id |-> net.id]
    BY DEF TypeOK
  <2>3. pc \in {"analyse", "gen2"} \cup Booking => InHand
    BY DEF CurFits, InHand, Asking, Booking
  <2>4. InHand => net # [type |-> "reversal", id |-> cur.id]
    BY DEF CurFits
  <2>5. pc \in {"analyse", "gen2"} \cup Booking => net.id # cur.id
    BY <2>2, <2>3, <2>4
  <2>6. TypeOK'
    <3>1. host' \in [Attempt -> {"none", "approved", "declined", "reversed"}]
      BY DEF TypeOK
    <3>2. net' \in [type : {"auth", "reversal", "tc", "advice"}, id : Attempt] \cup {None}
      BY DEF TypeOK, CurFits, FilesFit, LineFits, Settling, InHand, Asking, ReversalFile
    <3>3. reply' \in {"none", "00", "other", "referral", "noAuthCode", "unparsed"}
      BY DEF TypeOK
    <3> QED BY <3>1, <3>2, <3>3 DEF TypeOK
  <2>7. CurFits'
    BY DEF CurFits, InHand, InFile, Forced, Before, Asking, Saving, Booking, Settling,
       TypeOK, Untried, FilesFit
  <2>8. Untried'
    BY DEF Untried, InFile, TypeOK, CurFits, InHand
  <2>9. NotAsked'
    BY DEF NotAsked, InHand, MayBeApproved, Before, Saving, TypeOK, CurFits, LineFits
  <2>10. IsApproved'
    BY <2>1, <2>5 DEF IsApproved, Booking, Forced, TypeOK
  <2>11. UnusableFits'
    BY DEF UnusableFits, Armed, MayBeApproved, TypeOK, CurFits, NotAsked, LineFits, FilesFit,
       InHand, Before, Asking
  <2>12. LineFits'
    BY DEF LineFits, Waiting, ReversalFile, TypeOK, CurFits, InHand
  <2>13. KeptFits'
    BY DEF KeptFits, TypeOK
  <2>14. Accounted'
    BY DEF Accounted, MayBeApproved, AtRisk, InHand, Armed, Booking, Saving, TypeOK
  <2>15. OnlyOwedIsUploaded'
    BY DEF OnlyOwedIsUploaded, TypeOK
  <2>16. FateFits' /\ FilesFit' /\ Readable' /\ QueueFits' /\ OnceFits' /\ OwedFits'
    BY DEF FateFits, InHand, Booking, Saving, FilesFit, DbkSteps, Asking, Settling, Armed,
       Forced, Readable, QueueFits, OnceFits, Once, OwedFits, InFile
  <2> QED BY <2>1, <2>2, <2>3, <2>4, <2>5, <2>6, <2>7, <2>8, <2>9, <2>10, <2>11, <2>12,
     <2>13, <2>14, <2>15, <2>16 DEF IInv
<1>4. CASE HostTakesTC
  <2> USE <1>4
  <2>1. net.type \in {"tc", "advice"} /\ net.id \in Attempt
    BY DEF HostTakesTC, TypeOK
  <2>2. hostTC \subseteq hostTC' /\ hostTC' \subseteq Attempt /\ (net.type = "tc" => net.id
     \in hostTC')
    BY <2>1 DEF HostTakesTC, TypeOK
  <2>3. UNCHANGED <<pc, cur, commMode, rest, files, books, hist, host>> /\ net' = None
    BY DEF HostTakesTC, Deliver
  <2>4. pc \notin Waiting => reply' = "none"
    BY DEF HostTakesTC, Deliver
  <2>5. pc \notin {"waitAuth", "waitReversal"}
    BY <2>1 DEF LineFits
  <2>6. (pc = "waitTC" => net.id = cur.id) /\ (pc = "waitAdvice" => net.id = Head(queue))
    BY <2>1 DEF LineFits, OnlyOwedIsUploaded
  <2>7. net.type = "advice" => net.id \in hit
    BY DEF OnlyOwedIsUploaded
  <2>8. TypeOK'
    <3>1. hostTC' \subseteq Attempt
      BY <2>2 DEF TypeOK, HostTakesTC, Deliver
    <3>2. net' \in [type : {"auth", "reversal", "tc", "advice"}, id : Attempt] \cup {None}
      BY DEF TypeOK, CurFits, FilesFit, LineFits, Settling, InHand, Asking, ReversalFile,
         HostTakesTC, Deliver
    <3>3. reply' \in {"none", "00", "other", "referral", "noAuthCode", "unparsed"}
      BY DEF TypeOK, HostTakesTC, Deliver
    <3> QED BY <3>1, <3>2, <3>3 DEF TypeOK, HostTakesTC, Deliver
  <2>9. CurFits'
    BY DEF CurFits, InHand, InFile, Forced, Before, Asking, Saving, Booking, Settling,
       TypeOK, Untried, FilesFit, HostTakesTC, Deliver
  <2>10. Untried'
    BY DEF Untried, InFile, TypeOK, CurFits, InHand, HostTakesTC, Deliver
  <2>11. NotAsked'
    BY DEF NotAsked, InHand, MayBeApproved, Before, Saving, TypeOK, CurFits, LineFits,
       HostTakesTC, Deliver
  <2>12. IsApproved'
    BY DEF IsApproved, Booking, Forced, TypeOK, CurFits, InHand, LineFits, HostTakesTC, Deliver
  <2>13. UnusableFits'
    BY DEF UnusableFits, Armed, MayBeApproved, TypeOK, CurFits, NotAsked, LineFits, FilesFit,
       InHand, Before, Asking, HostTakesTC, Deliver
  <2>14. LineFits'
    BY <2>1, <2>2, <2>3, <2>4, <2>5, <2>6, <2>7 DEF LineFits, Waiting, ReversalFile
  <2>15. KeptFits'
    BY DEF KeptFits, TypeOK, HostTakesTC, Deliver
  <2>16. Accounted'
    BY DEF Accounted, MayBeApproved, AtRisk, InHand, Armed, Booking, Saving, TypeOK,
       HostTakesTC, Deliver
  <2>17. OwedFits'
    BY DEF OwedFits, InFile, TypeOK, HostTakesTC, Deliver
  <2>18. OnlyOwedIsUploaded'
    BY DEF OnlyOwedIsUploaded, TypeOK, HostTakesTC, Deliver
  <2>19. FateFits' /\ FilesFit' /\ Readable' /\ QueueFits' /\ OnceFits'
    BY DEF FateFits, InHand, Booking, Saving, FilesFit, DbkSteps, Asking, Settling, Armed,
       Forced, Readable, QueueFits, OnceFits, Once, HostTakesTC, Deliver
  <2> QED BY <2>1, <2>2, <2>3, <2>4, <2>5, <2>6, <2>7, <2>8, <2>9, <2>10, <2>11, <2>12,
     <2>13, <2>14, <2>15, <2>16, <2>17, <2>18, <2>19 DEF IInv
<1>5. CASE HostRefuses
  <2> USE <1>5 DEF HostRefuses, Deliver
  <2>1. TypeOK'
    <3>1. net' \in [type : {"auth", "reversal", "tc", "advice"}, id : Attempt] \cup {None}
      BY DEF TypeOK, CurFits, FilesFit, LineFits, Settling, InHand, Asking, ReversalFile
    <3>2. reply' \in {"none", "00", "other", "referral", "noAuthCode", "unparsed"}
      BY DEF TypeOK
    <3> QED BY <3>1, <3>2 DEF TypeOK
  <2>2. CurFits'
    BY DEF CurFits, InHand, InFile, Forced, Before, Asking, Saving, Booking, Settling,
       TypeOK, Untried, FilesFit
  <2>3. Untried'
    BY DEF Untried, InFile, TypeOK, CurFits, InHand
  <2>4. NotAsked'
    BY DEF NotAsked, InHand, MayBeApproved, Before, Saving, TypeOK, CurFits, LineFits
  <2>5. IsApproved'
    BY DEF IsApproved, Booking, Forced, TypeOK, CurFits, InHand, LineFits
  <2>6. UnusableFits'
    BY DEF UnusableFits, Armed, MayBeApproved, TypeOK, CurFits, NotAsked, LineFits, FilesFit,
       InHand, Before, Asking
  <2>7. LineFits'
    BY DEF LineFits, Waiting, ReversalFile, TypeOK, CurFits, InHand
  <2>8. KeptFits'
    BY DEF KeptFits, TypeOK
  <2>9. Accounted'
    BY DEF Accounted, MayBeApproved, AtRisk, InHand, Armed, Booking, Saving, TypeOK
  <2>10. OnlyOwedIsUploaded'
    BY DEF OnlyOwedIsUploaded, TypeOK
  <2>11. FateFits' /\ FilesFit' /\ Readable' /\ QueueFits' /\ OnceFits' /\ OwedFits'
    BY DEF FateFits, InHand, Booking, Saving, FilesFit, DbkSteps, Asking, Settling, Armed,
       Forced, Readable, QueueFits, OnceFits, Once, OwedFits, InFile
  <2> QED BY <2>1, <2>2, <2>3, <2>4, <2>5, <2>6, <2>7, <2>8, <2>9, <2>10, <2>11 DEF IInv
<1>6. CASE LoseRequest
  <2> USE <1>6 DEF LoseRequest
  <2>1. TypeOK'
    <3>1. net' \in [type : {"auth", "reversal", "tc", "advice"}, id : Attempt] \cup {None}
      BY DEF TypeOK, CurFits, FilesFit, LineFits, Settling, InHand, Asking, ReversalFile
    <3> QED BY <3>1 DEF TypeOK
  <2>2. CurFits'
    BY DEF CurFits, InHand, InFile, Forced, Before, Asking, Saving, Booking, Settling,
       TypeOK, Untried, FilesFit
  <2>3. Untried'
    BY DEF Untried, InFile, TypeOK, CurFits, InHand
  <2>4. NotAsked'
    BY DEF NotAsked, InHand, MayBeApproved, Before, Saving, TypeOK, CurFits, LineFits
  <2>5. IsApproved'
    BY DEF IsApproved, Booking, Forced, TypeOK, CurFits, InHand, LineFits
  <2>6. UnusableFits'
    BY DEF UnusableFits, Armed, MayBeApproved, TypeOK, CurFits, NotAsked, LineFits, FilesFit,
       InHand, Before, Asking
  <2>7. LineFits'
    BY DEF LineFits, Waiting, ReversalFile, TypeOK, CurFits, InHand
  <2>8. KeptFits'
    BY DEF KeptFits, TypeOK
  <2>9. Accounted'
    BY DEF Accounted, MayBeApproved, AtRisk, InHand, Armed, Booking, Saving, TypeOK
  <2>10. OnlyOwedIsUploaded'
    BY DEF OnlyOwedIsUploaded, TypeOK
  <2>11. FateFits' /\ FilesFit' /\ Readable' /\ QueueFits' /\ OnceFits' /\ OwedFits'
    BY DEF FateFits, InHand, Booking, Saving, FilesFit, DbkSteps, Asking, Settling, Armed,
       Forced, Readable, QueueFits, OnceFits, Once, OwedFits, InFile
  <2> QED BY <2>1, <2>2, <2>3, <2>4, <2>5, <2>6, <2>7, <2>8, <2>9, <2>10, <2>11 DEF IInv
<1> QED BY <1>1, <1>2, <1>3, <1>4, <1>5, <1>6 DEF Host

-----------------------------------------------------------------------------
(* The theorems.                                                           *)

\* A step that changes nothing keeps the invariant.
LEMMA StutterStep ==
  ASSUME IInv, UNCHANGED vars
  PROVE  IInv'
<1> USE DEF vars, files, books, line, hist
<1>1. TypeOK' /\ CurFits' /\ Untried' /\ FateFits' /\ NotAsked'
  BY DEF IInv, TypeOK, CurFits, Untried, FateFits, NotAsked, InHand, InFile, MayBeApproved,
     Forced
<1>2. IsApproved' /\ UnusableFits' /\ LineFits' /\ FilesFit'
  BY DEF IInv, IsApproved, UnusableFits, LineFits, FilesFit, Armed, MayBeApproved, ReversalFile,
         Forced
<1>3. KeptFits' /\ Accounted' /\ Readable'
  BY DEF IInv, KeptFits, Accounted, Readable, MayBeApproved, AtRisk, InHand, Armed
<1>4. QueueFits' /\ OnceFits' /\ OwedFits' /\ OnlyOwedIsUploaded'
  BY DEF IInv, QueueFits, OnceFits, OwedFits, OnlyOwedIsUploaded, Once, InFile
<1> QED BY <1>1, <1>2, <1>3, <1>4 DEF IInv

\* The terminal starts in the invariant.
LEMMA InitInv == Init => IInv
<1> SUFFICES ASSUME Init PROVE IInv
  OBVIOUS
<1> USE EmvAssumption DEF EmvAssumption, Init, Attempt, NoFile, None
<1>1. cur.id = 0 /\ cur.kind = "SETTLE" /\ ~cur.resave /\ cur.calls = 0 /\ cur.result = "none"
  BY DEF NoCur
<1>2. TypeOK
  <2>1. cur \in [id : Attempt \cup {0}, kind : Kinds \cup {"SETTLE"}, result : Result,
                 resave : BOOLEAN, calls : 0 .. MaxReferral]
    BY DEF NoCur, Result
  <2>2. fate \in [Attempt -> [result : Result, chip : {"none", "TC", "AAC"}]]
    BY DEF NoFate, Result
  <2>3. rows \in [Attempt -> TCState]
        /\ host \in [Attempt -> {"none", "approved", "declined", "reversed"}]
    BY DEF TCState
  <2>4. pc \in PC /\ rest \in Seq(Attempt) /\ queue \in Seq(Attempt)
    BY DEF PC
  <2>5. net = None /\ hostTC \subseteq Attempt /\ displaced \subseteq Attempt /\ hit
     \subseteq Attempt
    OBVIOUS
  <2>6. nAttempt \in 0 .. MaxAttempt /\ crashes \in 0 .. MaxCrash
    OBVIOUS
  <2> HIDE DEF None
  <2> QED BY <2>1, <2>2, <2>3, <2>4, <2>5, <2>6 DEF TypeOK
<1>3. ToSet(queue) = {} /\ ToSet(rest) = {} /\ Once(queue) /\ Once(rest)
  BY NoEntry
<1>4. CurFits /\ FateFits /\ NotAsked /\ IsApproved /\ UnusableFits
  BY <1>1 DEF CurFits, FateFits, NotAsked, IsApproved, UnusableFits, InHand, Forced, Settling,
     Asking, Before, Saving, Booking
<1>5. Untried /\ OwedFits /\ OnceFits
  BY <1>3 DEF Untried, OwedFits, OnceFits, InFile
<1>6. LineFits /\ FilesFit /\ QueueFits
  BY DEF LineFits, FilesFit, QueueFits, DbkSteps, Asking, Settling, Booking
<1>7. KeptFits /\ Accounted /\ Readable /\ OnlyOwedIsUploaded
  BY DEF KeptFits, Accounted, Readable, OnlyOwedIsUploaded, MayBeApproved
<1> QED BY <1>2, <1>4, <1>5, <1>6, <1>7 DEF IInv

\* Every step keeps the invariant.
LEMMA NextStep ==
  ASSUME IInv, [Next]_vars
  PROVE  IInv'
<1>1. CASE UNCHANGED vars
  BY <1>1, StutterStep
<1>2. CASE StartChipSale \/ Connected \/ ConnectFail \/ SendReversal \/ ReversalUnreadable
           \/ ReversalConfirmed \/ ReversalRefused \/ DeleteReversal
  BY <1>2, ConnectStep DEF IInv
<1>3. CASE SendAuth \/ Answered \/ AnswerUnusable \/ Timeout \/ OnlineAnalyseEMV
           \/ AnalyseForced \/ Referral \/ ReferralDenied \/ ReferralApproved
  BY <1>3, AskStep DEF IInv
<1>4. CASE Save
  BY <1>4, SavingStep DEF IInv
<1>5. CASE Complete
  BY <1>5, CompleteStep DEF IInv
<1>6. CASE Book
  BY <1>6, BookStep DEF IInv
<1>7. CASE Settle \/ StartSettle
  BY <1>7, SettleStep DEF IInv
<1>8. CASE Crash
  BY <1>8, CrashStep DEF IInv
<1>9. CASE Host
  BY <1>9, HostStep DEF IInv
<1> QED BY <1>1, <1>2, <1>3, <1>4, <1>5, <1>6, <1>7, <1>8, <1>9 DEF Next, Dialogue

\* Every reachable state satisfies the inductive invariant.
THEOREM SpecIInv == Spec => []IInv
<1>1. IInv /\ [Next]_vars => IInv'
  BY NextStep
<1> QED BY <1>1, InitInv, PTL DEF Spec

\* The variables keep their types.
THEOREM SpecTypeOK == Spec => []TypeOK
<1>1. IInv => TypeOK
  BY DEF IInv
<1> QED BY <1>1, SpecIInv, PTL

\* Whatever the host approved and the terminal did not keep has its reversal stored
\* and armed for every line, but in the cases ApprovalAccounted names.
THEOREM SpecApprovalAccounted == Spec => []ApprovalAccounted
<1>1. IInv => ApprovalAccounted
  BY DEF IInv, Accounted, ApprovalAccounted, AtRest, AtRisk, InHand, MayBeApproved
<1> QED BY <1>1, SpecIInv, PTL

\* What the terminal kept on the host's word is never reversed.
THEOREM SpecKeptStaysBooked == Spec => []KeptStaysBooked
<1>1. IInv => KeptStaysBooked
  BY DEF IInv, KeptFits, KeptStaysBooked
<1> QED BY <1>1, SpecIInv, PTL

\* Without a power failure an armed bit has its files.
THEOREM SpecArmedIsReadable == Spec => []ArmedIsReadable
<1>1. IInv => ArmedIsReadable
  BY DEF IInv, Readable, ArmedIsReadable, AtRest
<1> QED BY <1>1, SpecIInv, PTL

\* At rest the advice file holds each certificate owed, once, and no other.
THEOREM SpecTCOwedIsQueued == Spec => []TCOwedIsQueued
<1>1. ASSUME IInv PROVE TCOwedIsQueued
  <2> SUFFICES ASSUME AtRest, NEW a \in Attempt \ hit
               PROVE  /\ rows[a] = "owed" <=> a \in ToSet(queue)
                      /\ Cardinality({k \in DOMAIN queue : queue[k] = a}) <= 1
                      /\ rows[a] = "sent" => a \in hostTC
    BY DEF TCOwedIsQueued
  <2>1. rest = <<>> /\ ToSet(rest) = {} /\ pc = "idle"
    BY <1>1, NoEntry DEF IInv, QueueFits, AtRest
  <2>2. (rows[a] = "owed" <=> a \in ToSet(queue)) /\ (rows[a] = "sent" => a \in hostTC)
    BY <1>1, <2>1 DEF IInv, OwedFits, InFile
  <2> DEFINE places == {k \in DOMAIN queue : queue[k] = a}
  <2>3. \A i, j \in places : i = j
    BY <1>1 DEF IInv, OnceFits, Once
  <2>4. Cardinality(places) <= 1
    <3>1. CASE places = {}
      BY <3>1, FS_EmptySet
    <3>2. CASE places # {}
      <4>1. PICK k \in places : TRUE
        BY <3>2
      <4>2. places = {k}
        BY <2>3, <4>1
      <4> QED BY <4>2, FS_Singleton
    <3> QED BY <3>1, <3>2
  <2> QED BY <2>2, <2>4
<1> QED BY <1>1, SpecIInv, PTL

\* No sale made online is sent as an offline sale, but when a power failure fell
\* between its row and its entry.
THEOREM SpecOnlyOwedIsUploaded == Spec => []OnlyOwedIsUploaded
<1>1. IInv => OnlyOwedIsUploaded
  BY DEF IInv
<1> QED BY <1>1, SpecIInv, PTL

\* Only the end of a settlement closes a row.
LEMMA ClosingChanges ==
  ASSUME [Next]_vars, NEW a \in Attempt, rows[a] # "closed", rows'[a] = "closed", TypeOK
  PROVE  CloseBatch
<1> USE DEF files, books, line, hist
<1>1. CASE Dialogue \/ StartSettle
  BY <1>1 DEF Dialogue, StartChipSale, Connected, ConnectFail, SendReversal, ReversalUnreadable,
     ReversalConfirmed, ReversalRefused, DeleteReversal, SendAuth, Answered, AnswerUnusable,
     Timeout, OnlineAnalyseEMV, AnalyseForced, Referral, ReferralDenied, ReferralApproved,
     StartSettle
<1>2. CASE Save \/ Complete
  BY <1>2 DEF Save, RevDelete, RevWrite, RevBit, DbkDelete, DbkWrite, DbkBit, SaveStep,
     Complete, ChipApproves, ChipApprovesInVain, ChipRefuses, Decided
<1>3. CASE Book
  <2>1. CASE UpdateBatch
    <3>1. rows' = [rows EXCEPT ![cur.id] = RowState] /\ RowState # "closed"
      BY <2>1 DEF UpdateBatch, RowState
    <3> QED BY <3>1 DEF TypeOK
  <2> QED BY <1>3, <2>1 DEF Book, SendTC, TCSent, TCFailed, SaveTopDelete, SaveTopFirst,
         SaveTopHead, SaveTopRest, SaveTop
<1>4. CASE Settle
  <2>1. CASE AdviceAccepted
    BY <2>1 DEF AdviceAccepted, TypeOK
  <2> QED BY <1>4, <2>1 DEF Settle, SendAdvice, AdviceFailed, AdviceUpdate, AdvicesDone,
         SettleFailed
<1>5. CASE Crash \/ Host \/ UNCHANGED vars
  BY <1>5 DEF Crash, Host, HostAuthorize, HostDecline, HostReverse, HostTakesTC, HostRefuses,
     LoseRequest, Deliver, vars
<1> QED BY <1>1, <1>2, <1>3, <1>4, <1>5 DEF Next

\* A batch is closed only with no reversal pending and no certificate owed.
THEOREM SpecClosedClean == Spec => ClosedClean
<1>1. ASSUME IInv, [Next]_vars, NEW a \in Attempt \ hit,
             rows[a] \notin {"none", "closed"}, rows'[a] = "closed"
      PROVE  ~sendReversalBit /\ rows[a] # "owed"
  <2>1. pc = "close"
    BY <1>1, ClosingChanges DEF IInv, CloseBatch, Finish
  <2>2. ~sendReversalBit
    BY <1>1, <2>1 DEF IInv, FilesFit, Settling
  <2>3. ToSet(queue) = {} /\ ToSet(rest) = {}
    BY <1>1, <2>1, NoEntry DEF IInv, QueueFits
  <2> QED BY <1>1, <2>2, <2>3 DEF IInv, OwedFits, InFile
<1>2. IInv /\ [Next]_vars =>
        \A a \in Attempt \ hit :
            rows[a] \notin {"none", "closed"} /\ rows'[a] = "closed" =>
                ~sendReversalBit /\ rows[a] # "owed"
  BY <1>1
<1> QED BY <1>2, SpecIInv, PTL DEF Spec, ClosedClean
=============================================================================
