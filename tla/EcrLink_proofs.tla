---------------------------- MODULE EcrLink_proofs ----------------------------
(***************************************************************************)
(* Proofs about EcrLink for every number of sales, damaged frames, power   *)
(* failures and retries, with and without the repeated-card check: the     *)
(* type invariant, that a request is given one answer, that the stored     *)
(* answer belongs to the stored request, that a frame the register repeats *)
(* is booked once, and that what the register concludes is so.             *)
(***************************************************************************)
EXTENDS EcrLink, FiniteSetTheorems, SequenceTheorems, TLAPS

(***************************************************************************)
(* The inductive invariant.                                                *)
(***************************************************************************)

Handling  == {"unpack", "keep", "flow", "booked"}
Answering == {"answer", "create", "write", "flush", "send", "await"}

\* What waits in a buffer.
Waiting(s) == {s[i] : i \in 1 .. Len(s)}

\* A frame in the receive buffer is the register's present request.
LineFits ==
  \A f \in Waiting(rx) :
    /\ f.t = "sale" => reg.at = "offer" /\ f.n = reg.sale
    /\ f.t = "ask"  => reg.at = "ask"   /\ f.n = reg.sale

\* The request being handled is the register's latest sale, and is on file
\* while the sale runs.
TranFits ==
  /\ step \in Handling => tran # NoTran /\ tran.n = reg.sale /\ reg.at # "idle"
  /\ step \in Handling \ {"unpack"} => tran.t = "sale"
  /\ step = "receive" => tran = NoTran
  /\ step \in {"flow", "booked"} => lastSend = tran.n
  /\ tran # NoTran => lastSend <= tran.n
  /\ step = "booked" => booked > 0
  /\ tran.n <= reg.sale /\ lastSend <= reg.sale /\ dupPAN <= reg.sale

\* Nothing was said before the first transmission, and only `reply' since.
SaidFits ==
  /\ step \in Handling \cup {"receive", "create", "write", "flush", "send", "await"} => ~ isResponse
  /\ step = "after" => isResponse
  /\ step \in {"send", "await"} => said \subseteq {reply}
  /\ step = "idle" \/ (~ isResponse /\ step \notin {"send", "await"}) => said = {}
  /\ \A a, b \in said : a = b

\* The tries are counted from the first transmission, and there is one left.
TriesFit ==
  /\ step \notin {"send", "await"} => tries = 0
  /\ step = "send" => tries <= RetryTimes

\* The register closes a sale only by an answer, and an answer to an earlier
\* sale can at most meet the frame of the next one.
RegFits ==
  /\ told # "open" => reg.at = "idle"
  /\ step \in Answering \cup {"after"} /\ tran # NoTran /\ tran.n # reg.sale => reg.at \in {"idle", "offer"}
  /\ reg.sale = 0 => reg.at = "idle" /\ booked = 0

\* Unless an ACK was lost, a sale whose frame is still offered is not booked.
Once ==
  \/ "ack" \in mishap
  \/ /\ reg.at = "offer" => booked = 0 /\ ~ (step \in Handling /\ tran.t = "sale")
     /\ step \in Handling \ {"booked"} /\ tran.t = "sale" => booked = 0
     /\ booked <= 1

\* With the repeated-card check, the card of a booked sale is in memory.
Remembered ==
  SplitCheck =>
    \/ "power" \in mishap
    \/ /\ booked > 0 => dupPAN = reg.sale \/ step = "booked"
       /\ booked <= 1

\* An answer says of the latest sale what is so.
True(answer) ==
  /\ answer.code = "approved" => booked > 0 \/ "power" \in mishap
  /\ answer.code = "failed" => booked = 0 \/ mishap # {}

\* The answer being given is true of the latest sale.
ReplyIsTrue ==
  step \in Answering /\ ~ isResponse =>
    /\ tran # NoTran /\ tran.n = reg.sale => True(reply)
    /\ tran = NoTran => reply.code = "failed"
    /\ tran = NoTran /\ step \in {"flush", "send", "await"} => True(reply)

\* A sale in the batch is on file.
BookedIsStored == booked > 0 /\ mishap = {} => lastSend = reg.sale

\* The stored answer is true of the stored request, once it is written.
Storing == tran.t = "sale" /\ ~ isResponse /\ step \in {"flow", "booked", "answer", "create", "write"}
StoredIsTrue == lastSend = reg.sale /\ lastSend # 0 /\ ~ Storing => True(lastRece)

\* A new answer is about the request it is given to, and so is the stored one,
\* but while it is rewritten.
ReplyIsForRequest ==
  /\ step \in {"answer", "create", "write"} /\ ~ isResponse /\ tran.t = "sale" => reply.of = tran.n
  /\ step \in {"create", "write"} => tran.t # "ask"
StoredIsForRequest ==
  lastSend = reg.sale /\ lastSend # 0 /\ ~ Storing /\ step \notin {"create", "write"} =>
    lastRece.of = lastSend \/ mishap \cap {"power", "noise"} # {}

IInv ==
  /\ TypeOK
  /\ LineFits
  /\ TranFits
  /\ SaidFits
  /\ TriesFit
  /\ RegFits
  /\ Once
  /\ Remembered
  /\ ReplyIsTrue
  /\ BookedIsStored
  /\ StoredIsTrue
  /\ ReplyIsForRequest
  /\ StoredIsForRequest
  /\ RegisterToldTheTruth
-----------------------------------------------------------------------------
(* The buffer.                                                             *)

Items == Frames \union Signals \union Noise

\* What operations on a sequence do to what waits in it.
LEMMA WaitingProperties ==
  ASSUME NEW S, NEW s \in Seq(S)
  PROVE  /\ Waiting(s) \subseteq S
         /\ Waiting(<<>>) = {}
         /\ \A e \in S : Append(s, e) \in Seq(S) /\ Waiting(Append(s, e)) \subseteq Waiting(s) \cup {e}
         /\ s # <<>> => /\ Head(s) \in Waiting(s)
                        /\ Tail(s) \in Seq(S) /\ Waiting(Tail(s)) \subseteq Waiting(s)
         /\ \A i \in 1 .. Len(s), e \in S :
              [s EXCEPT ![i] = e] \in Seq(S) /\ Waiting([s EXCEPT ![i] = e]) \subseteq Waiting(s) \cup {e}
<1>1. Waiting(s) \subseteq S
  BY DEF Waiting
<1>2. Waiting(<<>>) = {}
  BY DEF Waiting
<1>3. ASSUME NEW e \in S
      PROVE  Append(s, e) \in Seq(S) /\ Waiting(Append(s, e)) \subseteq Waiting(s) \cup {e}
  BY DEF Waiting
<1>4. ASSUME s # <<>>
      PROVE  Head(s) \in Waiting(s) /\ Tail(s) \in Seq(S) /\ Waiting(Tail(s)) \subseteq Waiting(s)
  BY <1>4 DEF Waiting
<1>5. ASSUME NEW i \in 1 .. Len(s), NEW e \in S
      PROVE  [s EXCEPT ![i] = e] \in Seq(S) /\ Waiting([s EXCEPT ![i] = e]) \subseteq Waiting(s) \cup {e}
  BY ExceptSeq DEF Waiting
<1> QED BY <1>1, <1>2, <1>3, <1>4, <1>5

\* The same for the concatenation with what answers a transmission.
LEMMA WaitingConcat ==
  ASSUME NEW S, NEW s \in Seq(S), NEW e \in S, NEW t \in Bytes(e)
  PROVE  s \o t \in Seq(S) /\ Waiting(s \o t) \subseteq Waiting(s) \cup {e}
<1>1. t \in Seq(S) /\ \A i \in 1 .. Len(t) : t[i] = e
  <2>1. CASE t = <<>>
    BY <2>1
  <2>2. CASE t = <<e>>
    BY <2>2
  <2>3. CASE t = <<e, e>>
    BY <2>3
  <2> QED BY <2>1, <2>2, <2>3 DEF Bytes
<1> QED BY <1>1, ConcatProperties DEF Waiting

\* What operations on the receive buffer do to what waits in it.
LEMMA Buffer ==
  ASSUME TypeOK
  PROVE  /\ rx \in Seq(Items) /\ <<>> \in Seq(Items)
         /\ Waiting(rx) \subseteq Items
         /\ Waiting(<<>>) = {}
         /\ \A e \in Items :
              Append(rx, e) \in Seq(Items) /\ Waiting(Append(rx, e)) \subseteq Waiting(rx) \cup {e}
         /\ rx # <<>> => /\ Head(rx) \in Waiting(rx)
                         /\ Tail(rx) \in Seq(Items) /\ Waiting(Tail(rx)) \subseteq Waiting(rx)
         /\ \A i \in 1 .. Len(rx), e \in Items :
              /\ [rx EXCEPT ![i] = e] \in Seq(Items)
              /\ Waiting([rx EXCEPT ![i] = e]) \subseteq Waiting(rx) \cup {e}
         /\ \A e \in Items : \A t \in Bytes(e) :
              rx \o t \in Seq(Items) /\ Waiting(rx \o t) \subseteq Waiting(rx) \cup {e}
<1>1. rx \in Seq(Items)
  BY DEF TypeOK, Items
<1>2. <<>> \in Seq(Items)
  OBVIOUS
<1>3. \A e \in Items : \A t \in Bytes(e) :
         rx \o t \in Seq(Items) /\ Waiting(rx \o t) \subseteq Waiting(rx) \cup {e}
  BY <1>1, WaitingConcat
<1>4. Waiting(rx) \subseteq Items /\ Waiting(<<>>) = {}
  BY <1>1, WaitingProperties
<1>5. \A e \in Items :
         Append(rx, e) \in Seq(Items) /\ Waiting(Append(rx, e)) \subseteq Waiting(rx) \cup {e}
  BY <1>1, WaitingProperties
<1>6. rx # <<>> => /\ Head(rx) \in Waiting(rx)
                   /\ Tail(rx) \in Seq(Items) /\ Waiting(Tail(rx)) \subseteq Waiting(rx)
  BY <1>1, WaitingProperties
<1>7. \A i \in 1 .. Len(rx), e \in Items :
         /\ [rx EXCEPT ![i] = e] \in Seq(Items)
         /\ Waiting([rx EXCEPT ![i] = e]) \subseteq Waiting(rx) \cup {e}
  BY <1>1, WaitingProperties
<1> QED BY <1>1, <1>2, <1>3, <1>4, <1>5, <1>6, <1>7

-----------------------------------------------------------------------------
(* The step, one lemma for each group of actions.  The leaves see the      *)
(* parts of the invariant and what the action does.                        *)

USE EcrAssumption DEF EcrAssumption, reader, files, host, count, Sales, NoTran, Frames, Sign,
    Signals, Broken, Junk, Noise, Answers, Blank, NoFile, Steps

\* What the register does keeps the invariant.
LEMMA RegisterStep ==
  ASSUME TypeOK, LineFits, TranFits, SaidFits, TriesFit, RegFits, Once, Remembered, ReplyIsTrue,
         BookedIsStored, StoredIsTrue, ReplyIsForRequest, StoredIsForRequest, RegisterToldTheTruth,
         Register
  PROVE  IInv'
<1>1. CASE RegisterOffers
  <2> USE <1>1
  <2>1. [t |-> "sale", n |-> reg.sale + 1] \in Items /\ reg'.sale = reg.sale + 1 /\ reg'.at =
     "offer"
    BY DEF TypeOK, RegisterOffers, Items
  <2>2. Waiting(rx') \subseteq Waiting(rx) \cup {[t |-> "sale", n |-> reg.sale + 1]}
    BY <2>1, Buffer, Zenon DEF RegisterOffers
  <2>3. TypeOK'
    BY Buffer DEF TypeOK, Items, TriesFit, RegisterOffers
  <2>4. LineFits'
    BY <2>1, <2>2 DEF LineFits, RegisterOffers
  <2>5. TranFits'
    BY DEF TranFits, Handling, TypeOK, RegisterOffers
  <2>6. RegFits'
    BY DEF RegFits, Answering, TypeOK, TranFits, RegisterOffers
  <2>7. Once'
    BY DEF Once, Handling, TranFits, RegisterOffers
  <2>8. Remembered'
    BY DEF Remembered, RegisterOffers
  <2>9. ReplyIsTrue'
    BY DEF ReplyIsTrue, Answering, True, TranFits, TypeOK, RegisterOffers
  <2>10. BookedIsStored'
    BY DEF BookedIsStored, RegisterOffers
  <2>11. StoredIsTrue'
    BY DEF StoredIsTrue, Storing, True, TranFits, TypeOK, RegisterOffers
  <2>12. StoredIsForRequest'
    BY DEF StoredIsForRequest, Storing, TranFits, TypeOK, RegisterOffers
  <2>13. RegisterToldTheTruth'
    BY DEF RegisterToldTheTruth, RegisterOffers
  <2>14. SaidFits' /\ TriesFit' /\ ReplyIsForRequest'
    BY DEF SaidFits, Handling, TriesFit, ReplyIsForRequest, RegisterOffers
  <2> QED BY <2>1, <2>2, <2>3, <2>4, <2>5, <2>6, <2>7, <2>8, <2>9, <2>10, <2>11, <2>12, <2>13,
     <2>14 DEF IInv
<1>2. CASE RegisterRepeats
  <2> USE <1>2
  <2>1. Request \in Frames /\ reg.sale # 0
    BY DEF TypeOK, RegFits, RegisterRepeats, Request
  <2>2. rx' \in Seq(Items) /\ Waiting(rx') \subseteq Waiting(rx) \cup {Request}
    BY <2>1, Buffer DEF RegisterRepeats, Items
  <2>3. TypeOK'
    BY <2>2 DEF TypeOK, Items, RegisterRepeats, Request
  <2>4. LineFits'
    BY <2>1, <2>2 DEF LineFits, RegisterRepeats, Request
  <2>5. TranFits' /\ SaidFits' /\ TriesFit' /\ RegFits' /\ Once' /\ Remembered' /\ ReplyIsTrue'
     /\ BookedIsStored' /\ StoredIsTrue' /\ ReplyIsForRequest' /\ StoredIsForRequest' /\ RegisterToldTheTruth'
    BY DEF TranFits, Handling, SaidFits, TriesFit, RegFits, Answering, Once, Remembered,
       ReplyIsTrue, True, BookedIsStored, StoredIsTrue, Storing, ReplyIsForRequest, StoredIsForRequest, RegisterToldTheTruth, RegisterRepeats, Request
  <2> QED BY <2>1, <2>2, <2>3, <2>4, <2>5 DEF IInv
<1>3. CASE RegisterAsks
  <2> USE <1>3
  <2>1. reg.sale # 0 /\ [t |-> "ask", n |-> reg.sale] \in Items
    BY DEF TypeOK, RegFits, RegisterAsks, Items
  <2>2. reg' \in [at : {"idle", "offer", "wait", "ask", "asked"}, sale : 0 .. MaxSale] /\
     reg'.sale = reg.sale /\ reg'.at = "ask"
    BY DEF TypeOK, RegisterAsks
  <2>3. rx' \in Seq(Items) /\ Waiting(rx') \subseteq Waiting(rx) \cup {[t |-> "ask", n |->
     reg.sale]}
    BY <2>1, Buffer DEF RegisterAsks
  <2>4. TypeOK'
    BY <2>1, <2>2, <2>3 DEF TypeOK, Items, RegisterAsks
  <2>5. LineFits'
    BY <2>1, <2>2, <2>3 DEF LineFits, RegisterAsks
  <2>6. TranFits'
    BY DEF TranFits, Handling, TypeOK, RegisterAsks
  <2>7. RegFits'
    BY DEF RegFits, Answering, TranFits, Handling, RegisterAsks
  <2>8. Once'
    BY DEF Once, Handling, RegisterAsks
  <2>9. Remembered'
    BY DEF Remembered, RegisterAsks
  <2>10. ReplyIsTrue'
    BY DEF ReplyIsTrue, Answering, True, TranFits, Handling, Once, RegisterAsks
  <2>11. BookedIsStored'
    BY DEF BookedIsStored, RegisterAsks
  <2>12. StoredIsTrue'
    BY DEF StoredIsTrue, Storing, True, RegisterAsks
  <2>13. StoredIsForRequest'
    BY DEF StoredIsForRequest, Storing, RegisterAsks
  <2>14. SaidFits' /\ TriesFit' /\ ReplyIsForRequest' /\ RegisterToldTheTruth'
    BY DEF SaidFits, Handling, TriesFit, ReplyIsForRequest, RegisterToldTheTruth, RegisterAsks
  <2> QED BY <2>1, <2>2, <2>3, <2>4, <2>5, <2>6, <2>7, <2>8, <2>9, <2>10, <2>11, <2>12, <2>13,
     <2>14 DEF IInv
<1> QED BY <1>1, <1>2, <1>3 DEF Register

\* What happens on the line keeps the invariant.
LEMMA LineStep ==
  ASSUME TypeOK, LineFits, TranFits, SaidFits, TriesFit, RegFits, Once, Remembered, ReplyIsTrue,
         BookedIsStored, StoredIsTrue, ReplyIsForRequest, StoredIsForRequest, RegisterToldTheTruth,
         Line
  PROVE  IInv'
<1>1. CASE FrameDamaged
  <2> USE <1>1
  <2>1. \E bad \in Noise : Waiting(rx') \subseteq Waiting(rx) \cup {bad}
    BY Buffer DEF FrameDamaged, Items
  <2>2. TypeOK'
    BY Buffer DEF TypeOK, Items, TriesFit, FrameDamaged
  <2>3. LineFits'
    BY <2>1 DEF LineFits, FrameDamaged
  <2>4. TranFits' /\ SaidFits' /\ TriesFit' /\ RegFits' /\ Once' /\ Remembered' /\ ReplyIsTrue'
     /\ BookedIsStored' /\ StoredIsTrue' /\ ReplyIsForRequest' /\ StoredIsForRequest' /\ RegisterToldTheTruth'
    BY DEF TranFits, Handling, SaidFits, TriesFit, RegFits, Answering, Once, Remembered,
       ReplyIsTrue, True, BookedIsStored, StoredIsTrue, Storing, ReplyIsForRequest, StoredIsForRequest, RegisterToldTheTruth, FrameDamaged
  <2> QED BY <2>1, <2>2, <2>3, <2>4 DEF IInv
<1>2. CASE StrayByte
  <2> USE <1>2
  <2>1. TypeOK'
    BY Buffer DEF TypeOK, Items, TriesFit, StrayByte
  <2>2. LineFits'
    BY Buffer DEF LineFits, TypeOK, Items, StrayByte
  <2>3. TranFits' /\ SaidFits' /\ TriesFit' /\ RegFits' /\ Once' /\ Remembered' /\ ReplyIsTrue'
     /\ BookedIsStored' /\ StoredIsTrue' /\ ReplyIsForRequest' /\ StoredIsForRequest' /\ RegisterToldTheTruth'
    BY DEF TranFits, Handling, SaidFits, TriesFit, RegFits, Answering, Once, Remembered,
       ReplyIsTrue, True, BookedIsStored, StoredIsTrue, Storing, ReplyIsForRequest, StoredIsForRequest, RegisterToldTheTruth, StrayByte
  <2> QED BY <2>1, <2>2, <2>3 DEF IInv
<1> QED BY <1>1, <1>2 DEF Line

\* Receiving a request keeps the invariant.
LEMMA ReceiveStep ==
  ASSUME TypeOK, LineFits, TranFits, SaidFits, TriesFit, RegFits, Once, Remembered, ReplyIsTrue,
         BookedIsStored, StoredIsTrue, ReplyIsForRequest, StoredIsForRequest, RegisterToldTheTruth,
         Receive
  PROVE  IInv'
<1>1. CASE Listen
  <2> USE <1>1
  <2>1. TypeOK'
    BY Buffer DEF TypeOK, Items, TriesFit, Listen
  <2>2. TranFits'
    BY DEF TranFits, Handling, TypeOK, Listen
  <2>3. SaidFits'
    BY DEF SaidFits, Handling, Listen
  <2>4. TriesFit'
    BY DEF TriesFit, TypeOK, Listen
  <2>5. RegFits'
    BY DEF RegFits, Answering, TranFits, Handling, Listen
  <2>6. Once'
    BY DEF Once, Handling, Listen
  <2>7. Remembered'
    BY DEF Remembered, Listen
  <2>8. ReplyIsTrue'
    BY DEF ReplyIsTrue, Answering, True, TranFits, Handling, Once, Listen
  <2>9. StoredIsTrue'
    BY DEF StoredIsTrue, Storing, True, Listen
  <2>10. ReplyIsForRequest'
    BY DEF ReplyIsForRequest, Listen
  <2>11. StoredIsForRequest'
    BY DEF StoredIsForRequest, Storing, Listen
  <2>12. LineFits' /\ BookedIsStored' /\ RegisterToldTheTruth'
    BY DEF LineFits, BookedIsStored, RegisterToldTheTruth, Listen
  <2> QED BY <2>1, <2>2, <2>3, <2>4, <2>5, <2>6, <2>7, <2>8, <2>9, <2>10, <2>11, <2>12 DEF IInv
<1>2. ASSUME NEW heard \in BOOLEAN, ReceiveFrame(heard) PROVE IInv'
  <2> USE <1>2
  <2>1. Head(rx) \in Frames /\ reg' \in [at : {"idle", "offer", "wait", "ask", "asked"}, sale :
     0 .. MaxSale]
    BY DEF TypeOK, ReceiveFrame, Receiving, AfterAck
  <2>2. mishap' \subseteq {"power", "ack", "noise"}
    BY DEF TypeOK, ReceiveFrame, Receiving
  <2>3. TypeOK'
    <3>1. tran' \in Frames /\ retry' = 0 /\ step' = "unpack" /\ rx' = <<>>
      BY <2>1 DEF ReceiveFrame, Receiving
    <3> QED BY <2>1, <2>2, <3>1, Buffer DEF TypeOK, Items, ReceiveFrame
  <2>4. LineFits'
    BY Buffer DEF LineFits, TypeOK, Items, ReceiveFrame, Receiving, AfterAck
  <2>5. TranFits'
    BY Buffer DEF TranFits, Handling, LineFits, TypeOK, Items, ReceiveFrame, Receiving, AfterAck
  <2>6. SaidFits'
    BY DEF SaidFits, Handling, ReceiveFrame, Receiving, AfterAck
  <2>7. TriesFit'
    BY DEF TriesFit, TypeOK, ReceiveFrame, Receiving, AfterAck
  <2>8. RegFits'
    BY DEF RegFits, Answering, TranFits, Handling, ReceiveFrame, Receiving, AfterAck
  <2>9. Once'
    BY Buffer DEF Once, Handling, LineFits, TypeOK, Items, ReceiveFrame, Receiving, AfterAck
  <2>10. Remembered'
    BY DEF Remembered, ReceiveFrame, Receiving, AfterAck
  <2>11. ReplyIsTrue'
    BY DEF ReplyIsTrue, Answering, True, TranFits, Handling, Once, ReceiveFrame, Receiving,
       AfterAck
  <2>12. BookedIsStored'
    BY DEF BookedIsStored, ReceiveFrame, Receiving, AfterAck
  <2>13. StoredIsTrue'
    BY DEF StoredIsTrue, Storing, True, ReceiveFrame, Receiving, AfterAck
  <2>14. ReplyIsForRequest'
    BY DEF ReplyIsForRequest, ReceiveFrame, Receiving, AfterAck
  <2>15. StoredIsForRequest'
    BY DEF StoredIsForRequest, Storing, ReceiveFrame, Receiving, AfterAck
  <2>16. RegisterToldTheTruth'
    BY DEF RegisterToldTheTruth, ReceiveFrame, Receiving, AfterAck
  <2> QED BY <2>1, <2>2, <2>3, <2>4, <2>5, <2>6, <2>7, <2>8, <2>9, <2>10, <2>11, <2>12, <2>13,
     <2>14, <2>15, <2>16 DEF IInv
<1>3. CASE ReceiveBroken
  <2> USE <1>3
  <2>1. TypeOK'
    BY Buffer DEF TypeOK, Items, TriesFit, ReceiveBroken, Receiving
  <2>2. LineFits'
    BY Buffer DEF LineFits, TypeOK, Items, ReceiveBroken, Receiving
  <2>3. TranFits' /\ SaidFits' /\ TriesFit' /\ RegFits' /\ Once' /\ Remembered' /\ ReplyIsTrue'
     /\ BookedIsStored' /\ StoredIsTrue' /\ ReplyIsForRequest' /\ StoredIsForRequest' /\ RegisterToldTheTruth'
    BY DEF TranFits, Handling, SaidFits, TriesFit, RegFits, Answering, Once, Remembered,
       ReplyIsTrue, True, BookedIsStored, StoredIsTrue, Storing, ReplyIsForRequest, StoredIsForRequest, RegisterToldTheTruth, ReceiveBroken, Receiving
  <2> QED BY <2>1, <2>2, <2>3 DEF IInv
<1>4. CASE ReceiveJunk
  <2> USE <1>4
  <2>1. TypeOK'
    BY Buffer DEF TypeOK, Items, TriesFit, ReceiveJunk, Receiving
  <2>2. LineFits'
    BY Buffer DEF LineFits, TypeOK, Items, ReceiveJunk, Receiving
  <2>3. TranFits' /\ SaidFits' /\ TriesFit' /\ RegFits' /\ Once' /\ Remembered' /\ ReplyIsTrue'
     /\ BookedIsStored' /\ StoredIsTrue' /\ ReplyIsForRequest' /\ StoredIsForRequest' /\ RegisterToldTheTruth'
    BY DEF TranFits, Handling, SaidFits, TriesFit, RegFits, Answering, Once, Remembered,
       ReplyIsTrue, True, BookedIsStored, StoredIsTrue, Storing, ReplyIsForRequest, StoredIsForRequest, RegisterToldTheTruth, ReceiveJunk, Receiving
  <2> QED BY <2>1, <2>2, <2>3 DEF IInv
<1>5. CASE ReceiveFails
  <2> USE <1>5
  <2>1. TypeOK'
    BY Buffer DEF TypeOK, Items, TriesFit, ReceiveFails
  <2>2. TranFits'
    BY DEF TranFits, Handling, TypeOK, ReceiveFails
  <2>3. SaidFits'
    BY DEF SaidFits, Handling, ReceiveFails
  <2>4. TriesFit'
    BY DEF TriesFit, TypeOK, ReceiveFails
  <2>5. RegFits'
    BY DEF RegFits, Answering, TranFits, Handling, ReceiveFails
  <2>6. Once'
    BY DEF Once, Handling, ReceiveFails
  <2>7. Remembered'
    BY DEF Remembered, ReceiveFails
  <2>8. ReplyIsTrue'
    BY DEF ReplyIsTrue, Answering, True, TranFits, Handling, Once, ReceiveFails
  <2>9. StoredIsTrue'
    BY DEF StoredIsTrue, Storing, True, ReceiveFails
  <2>10. ReplyIsForRequest'
    BY DEF ReplyIsForRequest, TranFits, ReceiveFails
  <2>11. StoredIsForRequest'
    BY DEF StoredIsForRequest, Storing, ReceiveFails
  <2>12. LineFits' /\ BookedIsStored' /\ RegisterToldTheTruth'
    BY DEF LineFits, BookedIsStored, RegisterToldTheTruth, ReceiveFails
  <2> QED BY <2>1, <2>2, <2>3, <2>4, <2>5, <2>6, <2>7, <2>8, <2>9, <2>10, <2>11, <2>12 DEF IInv
<1> QED BY <1>1, <1>2, <1>3, <1>4, <1>5 DEF Receive

\* Handling a request keeps the invariant.
LEMMA HandleStep ==
  ASSUME TypeOK, LineFits, TranFits, SaidFits, TriesFit, RegFits, Once, Remembered, ReplyIsTrue,
         BookedIsStored, StoredIsTrue, ReplyIsForRequest, StoredIsForRequest, RegisterToldTheTruth,
         Handle
  PROVE  IInv'
<1>1. CASE UnpackRefuses
  <2> USE <1>1
  <2>1. TypeOK'
    BY Buffer DEF TypeOK, Items, TriesFit, UnpackRefuses, Fails
  <2>2. TranFits'
    BY DEF TranFits, Handling, TypeOK, UnpackRefuses, Fails
  <2>3. SaidFits'
    BY DEF SaidFits, Handling, UnpackRefuses, Fails
  <2>4. TriesFit'
    BY DEF TriesFit, TypeOK, UnpackRefuses, Fails
  <2>5. RegFits'
    BY DEF RegFits, Answering, TranFits, Handling, UnpackRefuses, Fails
  <2>6. Once'
    BY DEF Once, Handling, UnpackRefuses, Fails
  <2>7. Remembered'
    BY DEF Remembered, UnpackRefuses, Fails
  <2>8. ReplyIsTrue'
    BY DEF ReplyIsTrue, Answering, True, TranFits, Handling, Once, UnpackRefuses, Fails
  <2>9. StoredIsTrue'
    BY DEF StoredIsTrue, Storing, True, UnpackRefuses, Fails
  <2>10. ReplyIsForRequest'
    BY DEF ReplyIsForRequest, UnpackRefuses, Fails
  <2>11. StoredIsForRequest'
    BY DEF StoredIsForRequest, Storing, UnpackRefuses, Fails
  <2>12. LineFits' /\ BookedIsStored' /\ RegisterToldTheTruth'
    BY DEF LineFits, BookedIsStored, RegisterToldTheTruth, UnpackRefuses, Fails
  <2> QED BY <2>1, <2>2, <2>3, <2>4, <2>5, <2>6, <2>7, <2>8, <2>9, <2>10, <2>11, <2>12 DEF IInv
<1>2. CASE DropRequest
  <2> USE <1>2
  <2>1. TypeOK'
    BY Buffer DEF TypeOK, Items, TriesFit, DropRequest
  <2>2. TranFits'
    BY DEF TranFits, Handling, TypeOK, DropRequest
  <2>3. SaidFits'
    BY DEF SaidFits, Handling, DropRequest
  <2>4. TriesFit'
    BY DEF TriesFit, TypeOK, DropRequest
  <2>5. RegFits'
    BY DEF RegFits, Answering, TranFits, Handling, DropRequest
  <2>6. Once'
    BY DEF Once, Handling, DropRequest
  <2>7. Remembered'
    BY DEF Remembered, DropRequest
  <2>8. ReplyIsTrue'
    BY DEF ReplyIsTrue, Answering, True, TranFits, Handling, Once, DropRequest
  <2>9. BookedIsStored'
    BY DEF BookedIsStored, Once, Handling, TypeOK, DropRequest
  <2>10. StoredIsTrue'
    BY DEF StoredIsTrue, Storing, True, DropRequest
  <2>11. ReplyIsForRequest'
    BY DEF ReplyIsForRequest, DropRequest
  <2>12. StoredIsForRequest'
    BY DEF StoredIsForRequest, Storing, DropRequest
  <2>13. LineFits' /\ RegisterToldTheTruth'
    BY DEF LineFits, RegisterToldTheTruth, DropRequest
  <2> QED BY <2>1, <2>2, <2>3, <2>4, <2>5, <2>6, <2>7, <2>8, <2>9, <2>10, <2>11, <2>12, <2>13
     DEF IInv
<1>3. CASE KeepRequest
  <2> USE <1>3
  <2>1. TypeOK'
    BY Buffer DEF TypeOK, Items, TriesFit, KeepRequest
  <2>2. TranFits'
    BY DEF TranFits, Handling, TypeOK, KeepRequest
  <2>3. SaidFits'
    BY DEF SaidFits, Handling, KeepRequest
  <2>4. TriesFit'
    BY DEF TriesFit, TypeOK, KeepRequest
  <2>5. RegFits'
    BY DEF RegFits, Answering, TranFits, Handling, KeepRequest
  <2>6. Once'
    BY DEF Once, Handling, KeepRequest
  <2>7. Remembered'
    BY DEF Remembered, KeepRequest
  <2>8. ReplyIsTrue'
    BY DEF ReplyIsTrue, Answering, True, TranFits, Handling, Once, KeepRequest
  <2>9. BookedIsStored'
    BY DEF BookedIsStored, TranFits, Handling, KeepRequest
  <2>10. StoredIsTrue'
    BY DEF StoredIsTrue, Storing, True, TranFits, Handling, SaidFits, KeepRequest
  <2>11. ReplyIsForRequest'
    BY DEF ReplyIsForRequest, KeepRequest
  <2>12. StoredIsForRequest'
    BY DEF StoredIsForRequest, Storing, TranFits, Handling, SaidFits, KeepRequest
  <2>13. LineFits' /\ RegisterToldTheTruth'
    BY DEF LineFits, RegisterToldTheTruth, KeepRequest
  <2> QED BY <2>1, <2>2, <2>3, <2>4, <2>5, <2>6, <2>7, <2>8, <2>9, <2>10, <2>11, <2>12, <2>13
     DEF IInv
<1>4. CASE Inquire
  <2> USE <1>4
  <2>1. TypeOK'
    BY Buffer DEF TypeOK, Items, TriesFit, Inquire, InquiryMatches, Fails
  <2>2. TranFits'
    BY DEF TranFits, Handling, TypeOK, Inquire, InquiryMatches, Fails
  <2>3. SaidFits'
    BY DEF SaidFits, Handling, Inquire, InquiryMatches, Fails
  <2>4. TriesFit'
    BY DEF TriesFit, TypeOK, Inquire, InquiryMatches, Fails
  <2>5. RegFits'
    BY DEF RegFits, Answering, TranFits, Handling, Inquire, InquiryMatches, Fails
  <2>6. Once'
    BY DEF Once, Handling, Inquire, InquiryMatches, Fails
  <2>7. Remembered'
    BY DEF Remembered, Inquire, InquiryMatches, Fails
  <2>8. ReplyIsTrue'
    BY DEF ReplyIsTrue, Answering, True, TranFits, Handling, StoredIsTrue, Storing, TypeOK,
       Inquire, InquiryMatches, Fails
  <2>9. StoredIsTrue'
    BY DEF StoredIsTrue, Storing, True, Inquire, InquiryMatches, Fails
  <2>10. ReplyIsForRequest'
    BY DEF ReplyIsForRequest, Inquire, InquiryMatches, Fails
  <2>11. StoredIsForRequest'
    BY DEF StoredIsForRequest, Storing, Inquire, InquiryMatches, Fails
  <2>12. LineFits' /\ BookedIsStored' /\ RegisterToldTheTruth'
    BY DEF LineFits, BookedIsStored, RegisterToldTheTruth, Inquire, InquiryMatches, Fails
  <2> QED BY <2>1, <2>2, <2>3, <2>4, <2>5, <2>6, <2>7, <2>8, <2>9, <2>10, <2>11, <2>12 DEF IInv
<1>5. CASE DuplicateCheck
  <2> USE <1>5
  <2>1. TypeOK'
    BY Buffer DEF TypeOK, Items, TriesFit, DuplicateCheck, Fails, IsDuplicate
  <2>2. TranFits'
    BY DEF TranFits, Handling, TypeOK, DuplicateCheck, Fails, IsDuplicate
  <2>3. SaidFits'
    BY DEF SaidFits, Handling, DuplicateCheck, Fails, IsDuplicate
  <2>4. TriesFit'
    BY DEF TriesFit, TypeOK, DuplicateCheck, Fails, IsDuplicate
  <2>5. RegFits'
    BY DEF RegFits, Answering, TranFits, Handling, DuplicateCheck, Fails, IsDuplicate
  <2>6. Once'
    BY DEF Once, Handling, DuplicateCheck, Fails, IsDuplicate
  <2>7. Remembered'
    BY DEF Remembered, DuplicateCheck, Fails, IsDuplicate
  <2>8. ReplyIsTrue'
    BY DEF ReplyIsTrue, Answering, True, TranFits, Handling, Once, DuplicateCheck, Fails,
       IsDuplicate
  <2>9. StoredIsTrue'
    BY DEF StoredIsTrue, Storing, True, DuplicateCheck, Fails, IsDuplicate
  <2>10. ReplyIsForRequest'
    BY DEF ReplyIsForRequest, DuplicateCheck, Fails, IsDuplicate
  <2>11. StoredIsForRequest'
    BY DEF StoredIsForRequest, Storing, DuplicateCheck, Fails, IsDuplicate
  <2>12. LineFits' /\ BookedIsStored' /\ RegisterToldTheTruth'
    BY DEF LineFits, BookedIsStored, RegisterToldTheTruth, DuplicateCheck, Fails, IsDuplicate
  <2> QED BY <2>1, <2>2, <2>3, <2>4, <2>5, <2>6, <2>7, <2>8, <2>9, <2>10, <2>11, <2>12 DEF IInv
<1>6. CASE SaleFails
  <2> USE <1>6
  <2>1. TypeOK'
    BY Buffer DEF TypeOK, Items, TriesFit, SaleFails, Fails
  <2>2. TranFits'
    BY DEF TranFits, Handling, TypeOK, SaleFails, Fails
  <2>3. SaidFits'
    BY DEF SaidFits, Handling, SaleFails, Fails
  <2>4. TriesFit'
    BY DEF TriesFit, TypeOK, SaleFails, Fails
  <2>5. RegFits'
    BY DEF RegFits, Answering, TranFits, Handling, SaleFails, Fails
  <2>6. Once'
    BY DEF Once, Handling, SaleFails, Fails
  <2>7. Remembered'
    BY DEF Remembered, SaleFails, Fails
  <2>8. ReplyIsTrue'
    BY DEF ReplyIsTrue, Answering, True, TranFits, Handling, Once, SaleFails, Fails
  <2>9. StoredIsTrue'
    BY DEF StoredIsTrue, Storing, True, SaleFails, Fails
  <2>10. ReplyIsForRequest'
    BY DEF ReplyIsForRequest, SaleFails, Fails
  <2>11. StoredIsForRequest'
    BY DEF StoredIsForRequest, Storing, SaleFails, Fails
  <2>12. LineFits' /\ BookedIsStored' /\ RegisterToldTheTruth'
    BY DEF LineFits, BookedIsStored, RegisterToldTheTruth, SaleFails, Fails
  <2> QED BY <2>1, <2>2, <2>3, <2>4, <2>5, <2>6, <2>7, <2>8, <2>9, <2>10, <2>11, <2>12 DEF IInv
<1>7. CASE SaleBooked
  <2> USE <1>7
  <2>1. TypeOK'
    BY Buffer DEF TypeOK, Items, TriesFit, SaleBooked, IsDuplicate
  <2>2. TranFits'
    BY DEF TranFits, Handling, TypeOK, SaleBooked, IsDuplicate
  <2>3. SaidFits'
    BY DEF SaidFits, Handling, SaleBooked, IsDuplicate
  <2>4. TriesFit'
    BY DEF TriesFit, TypeOK, SaleBooked, IsDuplicate
  <2>5. RegFits'
    BY DEF RegFits, Answering, TranFits, Handling, TypeOK, SaleBooked, IsDuplicate
  <2>6. Once'
    BY DEF Once, Handling, TranFits, TypeOK, SaleBooked, IsDuplicate
  <2>7. Remembered'
    BY DEF Remembered, TranFits, Handling, TypeOK, SaleBooked, IsDuplicate
  <2>8. ReplyIsTrue'
    BY DEF ReplyIsTrue, Answering, True, TranFits, Handling, Once, SaleBooked, IsDuplicate
  <2>9. BookedIsStored'
    BY DEF BookedIsStored, TranFits, Handling, TypeOK, SaleBooked, IsDuplicate
  <2>10. StoredIsTrue'
    BY DEF StoredIsTrue, Storing, True, TranFits, Handling, SaidFits, SaleBooked, IsDuplicate
  <2>11. ReplyIsForRequest'
    BY DEF ReplyIsForRequest, SaleBooked, IsDuplicate
  <2>12. StoredIsForRequest'
    BY DEF StoredIsForRequest, Storing, TranFits, Handling, SaidFits, SaleBooked, IsDuplicate
  <2>13. RegisterToldTheTruth'
    BY DEF RegisterToldTheTruth, RegFits, TranFits, Handling, TypeOK, SaleBooked, IsDuplicate
  <2>14. LineFits'
    BY DEF LineFits, SaleBooked, IsDuplicate
  <2> QED BY <2>1, <2>2, <2>3, <2>4, <2>5, <2>6, <2>7, <2>8, <2>9, <2>10, <2>11, <2>12, <2>13,
     <2>14 DEF IInv
<1>8. CASE DuplicateSave
  <2> USE <1>8
  <2>1. TypeOK'
    BY Buffer DEF TypeOK, Items, TriesFit, DuplicateSave, Fails
  <2>2. TranFits'
    BY DEF TranFits, Handling, TypeOK, DuplicateSave, Fails
  <2>3. SaidFits'
    BY DEF SaidFits, Handling, DuplicateSave, Fails
  <2>4. TriesFit'
    BY DEF TriesFit, TypeOK, DuplicateSave, Fails
  <2>5. RegFits'
    BY DEF RegFits, Answering, TranFits, Handling, DuplicateSave, Fails
  <2>6. Once'
    BY DEF Once, Handling, DuplicateSave, Fails
  <2>7. Remembered'
    BY DEF Remembered, TranFits, Handling, DuplicateSave, Fails
  <2>8. ReplyIsTrue'
    BY DEF ReplyIsTrue, Answering, True, TranFits, Handling, DuplicateSave, Fails
  <2>9. StoredIsTrue'
    BY DEF StoredIsTrue, Storing, True, DuplicateSave, Fails
  <2>10. ReplyIsForRequest'
    BY DEF ReplyIsForRequest, DuplicateSave, Fails
  <2>11. StoredIsForRequest'
    BY DEF StoredIsForRequest, Storing, DuplicateSave, Fails
  <2>12. LineFits' /\ BookedIsStored' /\ RegisterToldTheTruth'
    BY DEF LineFits, BookedIsStored, RegisterToldTheTruth, DuplicateSave, Fails
  <2> QED BY <2>1, <2>2, <2>3, <2>4, <2>5, <2>6, <2>7, <2>8, <2>9, <2>10, <2>11, <2>12 DEF IInv
<1> QED BY <1>1, <1>2, <1>3, <1>4, <1>5, <1>6, <1>7, <1>8 DEF Handle

\* Answering keeps the invariant.
LEMMA SendStep ==
  ASSUME TypeOK, LineFits, TranFits, SaidFits, TriesFit, RegFits, Once, Remembered, ReplyIsTrue,
         BookedIsStored, StoredIsTrue, ReplyIsForRequest, StoredIsForRequest, RegisterToldTheTruth,
         Send
  PROVE  IInv'
<1>1. CASE AlreadyAnswered
  <2> USE <1>1
  <2>1. TypeOK'
    BY Buffer DEF TypeOK, Items, TriesFit, AlreadyAnswered
  <2>2. TranFits'
    BY DEF TranFits, Handling, TypeOK, AlreadyAnswered
  <2>3. SaidFits'
    BY DEF SaidFits, Handling, AlreadyAnswered
  <2>4. TriesFit'
    BY DEF TriesFit, TypeOK, AlreadyAnswered
  <2>5. RegFits'
    BY DEF RegFits, Answering, TranFits, Handling, AlreadyAnswered
  <2>6. Once'
    BY DEF Once, Handling, AlreadyAnswered
  <2>7. Remembered'
    BY DEF Remembered, AlreadyAnswered
  <2>8. ReplyIsTrue'
    BY DEF ReplyIsTrue, Answering, True, TranFits, Handling, Once, AlreadyAnswered
  <2>9. StoredIsTrue'
    BY DEF StoredIsTrue, Storing, True, AlreadyAnswered
  <2>10. ReplyIsForRequest'
    BY DEF ReplyIsForRequest, AlreadyAnswered
  <2>11. StoredIsForRequest'
    BY DEF StoredIsForRequest, Storing, AlreadyAnswered
  <2>12. LineFits' /\ BookedIsStored' /\ RegisterToldTheTruth'
    BY DEF LineFits, BookedIsStored, RegisterToldTheTruth, AlreadyAnswered
  <2> QED BY <2>1, <2>2, <2>3, <2>4, <2>5, <2>6, <2>7, <2>8, <2>9, <2>10, <2>11, <2>12 DEF IInv
<1>2. CASE RepeatStored
  <2> USE <1>2
  <2>1. TypeOK'
    BY Buffer DEF TypeOK, Items, TriesFit, RepeatStored
  <2>2. TranFits'
    BY DEF TranFits, Handling, TypeOK, RepeatStored
  <2>3. SaidFits'
    BY DEF SaidFits, Handling, RepeatStored
  <2>4. TriesFit'
    BY DEF TriesFit, TypeOK, RepeatStored
  <2>5. RegFits'
    BY DEF RegFits, Answering, TranFits, Handling, RepeatStored
  <2>6. Once'
    BY DEF Once, Handling, RepeatStored
  <2>7. Remembered'
    BY DEF Remembered, RepeatStored
  <2>8. ReplyIsTrue'
    BY DEF ReplyIsTrue, Answering, True, TranFits, Handling, Once, RepeatStored
  <2>9. StoredIsTrue'
    BY DEF StoredIsTrue, Storing, True, RepeatStored
  <2>10. ReplyIsForRequest'
    BY DEF ReplyIsForRequest, RepeatStored
  <2>11. StoredIsForRequest'
    BY DEF StoredIsForRequest, Storing, RepeatStored
  <2>12. LineFits' /\ BookedIsStored' /\ RegisterToldTheTruth'
    BY DEF LineFits, BookedIsStored, RegisterToldTheTruth, RepeatStored
  <2> QED BY <2>1, <2>2, <2>3, <2>4, <2>5, <2>6, <2>7, <2>8, <2>9, <2>10, <2>11, <2>12 DEF IInv
<1>3. CASE DropResponse
  <2> USE <1>3
  <2>1. TypeOK'
    BY Buffer DEF TypeOK, Items, TriesFit, DropResponse
  <2>2. TranFits'
    BY DEF TranFits, Handling, TypeOK, DropResponse
  <2>3. SaidFits'
    BY DEF SaidFits, Handling, DropResponse
  <2>4. TriesFit'
    BY DEF TriesFit, TypeOK, DropResponse
  <2>5. RegFits'
    BY DEF RegFits, Answering, TranFits, Handling, DropResponse
  <2>6. Once'
    BY DEF Once, Handling, DropResponse
  <2>7. Remembered'
    BY DEF Remembered, DropResponse
  <2>8. ReplyIsTrue'
    BY DEF ReplyIsTrue, Answering, True, TranFits, Handling, Once, DropResponse
  <2>9. StoredIsTrue'
    BY DEF StoredIsTrue, Storing, True, DropResponse
  <2>10. ReplyIsForRequest'
    BY DEF ReplyIsForRequest, DropResponse
  <2>11. StoredIsForRequest'
    BY DEF StoredIsForRequest, Storing, DropResponse
  <2>12. LineFits' /\ BookedIsStored' /\ RegisterToldTheTruth'
    BY DEF LineFits, BookedIsStored, RegisterToldTheTruth, DropResponse
  <2> QED BY <2>1, <2>2, <2>3, <2>4, <2>5, <2>6, <2>7, <2>8, <2>9, <2>10, <2>11, <2>12 DEF IInv
<1>4. CASE CreateResponse
  <2> USE <1>4
  <2>1. TypeOK'
    BY Buffer DEF TypeOK, Items, TriesFit, CreateResponse
  <2>2. TranFits'
    BY DEF TranFits, Handling, TypeOK, CreateResponse
  <2>3. SaidFits'
    BY DEF SaidFits, Handling, CreateResponse
  <2>4. TriesFit'
    BY DEF TriesFit, TypeOK, CreateResponse
  <2>5. RegFits'
    BY DEF RegFits, Answering, TranFits, Handling, CreateResponse
  <2>6. Once'
    BY DEF Once, Handling, CreateResponse
  <2>7. Remembered'
    BY DEF Remembered, CreateResponse
  <2>8. ReplyIsTrue'
    BY DEF ReplyIsTrue, Answering, True, TranFits, Handling, Once, CreateResponse
  <2>9. StoredIsTrue'
    BY DEF StoredIsTrue, Storing, True, CreateResponse
  <2>10. ReplyIsForRequest'
    BY DEF ReplyIsForRequest, CreateResponse
  <2>11. StoredIsForRequest'
    BY DEF StoredIsForRequest, Storing, CreateResponse
  <2>12. LineFits' /\ BookedIsStored' /\ RegisterToldTheTruth'
    BY DEF LineFits, BookedIsStored, RegisterToldTheTruth, CreateResponse
  <2> QED BY <2>1, <2>2, <2>3, <2>4, <2>5, <2>6, <2>7, <2>8, <2>9, <2>10, <2>11, <2>12 DEF IInv
<1>5. CASE WriteResponse
  <2> USE <1>5
  <2>1. tran = NoTran => mishap' # {} \/ booked = 0
    BY DEF WriteResponse, BookedIsStored, TypeOK
  <2>2. tran # NoTran => mishap' = mishap
    BY DEF WriteResponse
  <2>3. mishap \subseteq mishap'
    BY DEF WriteResponse
  <2>4. TypeOK'
    BY Buffer DEF TypeOK, Items, TriesFit, WriteResponse
  <2>5. TranFits'
    BY DEF TranFits, Handling, TypeOK, WriteResponse
  <2>6. SaidFits'
    BY DEF SaidFits, Handling, WriteResponse
  <2>7. TriesFit'
    BY DEF TriesFit, TypeOK, WriteResponse
  <2>8. RegFits'
    BY DEF RegFits, Answering, TranFits, Handling, WriteResponse
  <2>9. Once'
    BY DEF Once, Handling, WriteResponse
  <2>10. Remembered'
    BY DEF Remembered, WriteResponse
  <2>11. ReplyIsTrue'
    <3>1. tran # NoTran /\ tran.n = reg.sale => True(reply)
      BY DEF ReplyIsTrue, Answering, SaidFits, WriteResponse
    <3>2. tran = NoTran => reply.code = "failed"
      BY DEF ReplyIsTrue, Answering, SaidFits, WriteResponse
    <3> QED BY <3>1, <3>2, <2>1, <2>2, <2>3 DEF ReplyIsTrue, True, WriteResponse
  <2>12. BookedIsStored'
    BY DEF BookedIsStored, WriteResponse
  <2>13. StoredIsTrue'
    <3>1. CASE tran = NoTran
      BY <3>1, <2>1, <2>3 DEF WriteResponse, StoredIsTrue, True, SaidFits, ReplyIsTrue, Answering
    <3>2. CASE tran # NoTran
      BY <3>2, <2>2 DEF WriteResponse, StoredIsTrue, True, SaidFits, ReplyIsTrue, Answering,
                        TranFits, TypeOK
    <3> QED BY <3>1, <3>2
  <2>14. ReplyIsForRequest'
    BY DEF ReplyIsForRequest, WriteResponse
  <2>15. StoredIsForRequest'
    <3>1. CASE tran = NoTran
      BY <3>1 DEF WriteResponse, StoredIsForRequest
    <3>2. CASE tran.t = "sale"
      BY <3>2, <2>2 DEF WriteResponse, StoredIsForRequest, SaidFits, ReplyIsForRequest, TranFits,
                        TypeOK
    <3> QED BY <3>1, <3>2 DEF TypeOK, ReplyIsForRequest, WriteResponse
  <2>16. RegisterToldTheTruth'
    BY DEF RegisterToldTheTruth, WriteResponse
  <2>17. LineFits'
    BY DEF LineFits, WriteResponse
  <2> QED BY <2>1, <2>2, <2>3, <2>4, <2>5, <2>6, <2>7, <2>8, <2>9, <2>10, <2>11, <2>12, <2>13,
     <2>14, <2>15, <2>16, <2>17 DEF IInv
<1>6. CASE SendStart
  <2> USE <1>6
  <2>1. TypeOK'
    BY Buffer DEF TypeOK, Items, TriesFit, SendStart
  <2>2. LineFits'
    BY Buffer DEF LineFits, TypeOK, Items, SendStart
  <2>3. TranFits'
    BY DEF TranFits, Handling, TypeOK, SendStart
  <2>4. SaidFits'
    BY DEF SaidFits, Handling, SendStart
  <2>5. TriesFit'
    BY DEF TriesFit, TypeOK, SendStart
  <2>6. RegFits'
    BY DEF RegFits, Answering, TranFits, Handling, SendStart
  <2>7. Once'
    BY DEF Once, Handling, SendStart
  <2>8. Remembered'
    BY DEF Remembered, SendStart
  <2>9. ReplyIsTrue'
    BY DEF ReplyIsTrue, Answering, True, TranFits, Handling, Once, SendStart
  <2>10. StoredIsTrue'
    BY DEF StoredIsTrue, Storing, True, SendStart
  <2>11. ReplyIsForRequest'
    BY DEF ReplyIsForRequest, SendStart
  <2>12. StoredIsForRequest'
    BY DEF StoredIsForRequest, Storing, SendStart
  <2>13. BookedIsStored' /\ RegisterToldTheTruth'
    BY DEF BookedIsStored, RegisterToldTheTruth, SendStart
  <2> QED BY <2>1, <2>2, <2>3, <2>4, <2>5, <2>6, <2>7, <2>8, <2>9, <2>10, <2>11, <2>12, <2>13
     DEF IInv
<1>7. ASSUME NEW signals \in Bytes(Sign("ack")), SendHeard(signals) PROVE IInv'
  <2> USE <1>7
  <2>1. reg.at \in {"wait", "asked"} => True(reply)
    BY DEF ReplyIsTrue, RegFits, Answering, SaidFits, SendHeard, Transmit
  <2>2. reg'.sale = reg.sale /\ reg'.at \in {reg.at, "idle"}
    BY DEF TypeOK, SendHeard, RegisterHears
  <2>3. rx' \in Seq(Items) /\ Waiting(rx') \subseteq Waiting(rx) \cup {Sign("ack")}
    BY Buffer DEF SendHeard, Items
  <2>4. reg' \in [at : {"idle", "offer", "wait", "ask", "asked"}, sale : 0 .. MaxSale] /\ told'
     \in {"open", "paid", "failed", "manual"}
    BY DEF TypeOK, SendHeard, RegisterHears, Conclusion
  <2>5. TypeOK'
    BY <2>3, <2>4 DEF TypeOK, Items, TriesFit, SendHeard, Transmit
  <2>6. LineFits'
    <3>1. reg.at \notin {"wait", "asked"} => reg' = reg
      BY DEF SendHeard, RegisterHears
    <3> QED BY <2>3, <3>1 DEF LineFits
  <2>7. TranFits'
    BY <2>2 DEF TranFits, Handling, TypeOK, SendHeard, Transmit, RegisterHears, Conclusion
  <2>8. SaidFits'
    BY DEF SaidFits, Handling, SendHeard, Transmit, RegisterHears, Conclusion
  <2>9. TriesFit'
    BY DEF TriesFit, TypeOK, SendHeard, Transmit, RegisterHears, Conclusion
  <2>10. RegFits'
    BY <2>2 DEF RegFits, Answering, TypeOK, SendHeard, Transmit, RegisterHears, Conclusion
  <2>11. Once'
    BY <2>2 DEF Once, Handling, SendHeard, Transmit, RegisterHears, Conclusion
  <2>12. Remembered'
    BY <2>2 DEF Remembered, SendHeard, Transmit, RegisterHears, Conclusion
  <2>13. ReplyIsTrue'
    BY <2>2 DEF ReplyIsTrue, Answering, True, TranFits, Handling, Once, SendHeard, Transmit,
       RegisterHears, Conclusion
  <2>14. BookedIsStored'
    BY <2>2 DEF BookedIsStored, SendHeard, Transmit, RegisterHears, Conclusion
  <2>15. StoredIsTrue'
    BY <2>2 DEF StoredIsTrue, Storing, True, SendHeard, Transmit, RegisterHears, Conclusion
  <2>16. ReplyIsForRequest'
    BY DEF ReplyIsForRequest, SendHeard, Transmit, RegisterHears, Conclusion
  <2>17. StoredIsForRequest'
    BY <2>2 DEF StoredIsForRequest, Storing, SendHeard, Transmit, RegisterHears, Conclusion
  <2>18. RegisterToldTheTruth'
    BY <2>1 DEF RegisterToldTheTruth, True, SendHeard, Transmit, RegisterHears, Conclusion
  <2> QED BY <2>1, <2>2, <2>3, <2>4, <2>5, <2>6, <2>7, <2>8, <2>9, <2>10, <2>11, <2>12, <2>13,
     <2>14, <2>15, <2>16, <2>17, <2>18 DEF IInv
<1>8. ASSUME NEW signals \in Bytes(Sign("nak")), SendUnheard(signals) PROVE IInv'
  <2> USE <1>8
  <2>1. TypeOK'
    BY Buffer DEF TypeOK, Items, TriesFit, SendUnheard, Transmit
  <2>2. LineFits'
    BY Buffer DEF LineFits, TypeOK, Items, SendUnheard, Transmit
  <2>3. TranFits'
    BY DEF TranFits, Handling, TypeOK, SendUnheard, Transmit
  <2>4. SaidFits'
    BY DEF SaidFits, Handling, SendUnheard, Transmit
  <2>5. TriesFit'
    BY DEF TriesFit, TypeOK, SendUnheard, Transmit
  <2>6. RegFits'
    BY DEF RegFits, Answering, TranFits, Handling, SendUnheard, Transmit
  <2>7. Once'
    BY DEF Once, Handling, SendUnheard, Transmit
  <2>8. Remembered'
    BY DEF Remembered, SendUnheard, Transmit
  <2>9. ReplyIsTrue'
    BY DEF ReplyIsTrue, Answering, True, TranFits, Handling, Once, SendUnheard, Transmit
  <2>10. StoredIsTrue'
    BY DEF StoredIsTrue, Storing, True, SendUnheard, Transmit
  <2>11. ReplyIsForRequest'
    BY DEF ReplyIsForRequest, SendUnheard, Transmit
  <2>12. StoredIsForRequest'
    BY DEF StoredIsForRequest, Storing, SendUnheard, Transmit
  <2>13. BookedIsStored' /\ RegisterToldTheTruth'
    BY DEF BookedIsStored, RegisterToldTheTruth, SendUnheard, Transmit
  <2> QED BY <2>1, <2>2, <2>3, <2>4, <2>5, <2>6, <2>7, <2>8, <2>9, <2>10, <2>11, <2>12, <2>13
     DEF IInv
<1>9. CASE AckReceived
  <2> USE <1>9
  <2>1. TypeOK'
    BY Buffer DEF TypeOK, Items, TriesFit, AckReceived, SendDone
  <2>2. LineFits'
    BY Buffer DEF LineFits, TypeOK, Items, AckReceived, SendDone
  <2>3. TranFits'
    BY DEF TranFits, Handling, TypeOK, AckReceived, SendDone
  <2>4. SaidFits'
    BY DEF SaidFits, Handling, AckReceived, SendDone
  <2>5. TriesFit'
    BY DEF TriesFit, TypeOK, AckReceived, SendDone
  <2>6. RegFits'
    BY DEF RegFits, Answering, TranFits, Handling, AckReceived, SendDone
  <2>7. Once'
    BY DEF Once, Handling, AckReceived, SendDone
  <2>8. Remembered'
    BY DEF Remembered, AckReceived, SendDone
  <2>9. ReplyIsTrue'
    BY DEF ReplyIsTrue, Answering, True, TranFits, Handling, Once, AckReceived, SendDone
  <2>10. StoredIsTrue'
    BY DEF StoredIsTrue, Storing, True, AckReceived, SendDone
  <2>11. ReplyIsForRequest'
    BY DEF ReplyIsForRequest, AckReceived, SendDone
  <2>12. StoredIsForRequest'
    BY DEF StoredIsForRequest, Storing, AckReceived, SendDone
  <2>13. BookedIsStored' /\ RegisterToldTheTruth'
    BY DEF BookedIsStored, RegisterToldTheTruth, AckReceived, SendDone
  <2> QED BY <2>1, <2>2, <2>3, <2>4, <2>5, <2>6, <2>7, <2>8, <2>9, <2>10, <2>11, <2>12, <2>13
     DEF IInv
<1>10. CASE NakReceived
  <2> USE <1>10
  <2>1. tries' \in 0 .. RetryTimes + 1
    BY DEF TypeOK, NakReceived, SendAgain, SendDone
  <2>2. step' \in {"send", "after"}
    BY DEF NakReceived, SendAgain, SendDone
  <2>3. isResponse' \in BOOLEAN
    BY Zenon DEF TypeOK, NakReceived, SendAgain, SendDone
  <2>4. TypeOK'
    BY <2>1, <2>2, <2>3, Buffer DEF TypeOK, Items, NakReceived
  <2>5. LineFits'
    BY Buffer DEF LineFits, TypeOK, Items, NakReceived, SendAgain, SendDone
  <2>6. TranFits'
    BY DEF TranFits, Handling, TypeOK, NakReceived, SendAgain, SendDone
  <2>7. SaidFits'
    BY DEF SaidFits, Handling, NakReceived, SendAgain, SendDone
  <2>8. TriesFit'
    BY DEF TriesFit, TypeOK, NakReceived, SendAgain, SendDone
  <2>9. RegFits'
    BY DEF RegFits, Answering, TranFits, Handling, NakReceived, SendAgain, SendDone
  <2>10. Once'
    BY DEF Once, Handling, NakReceived, SendAgain, SendDone
  <2>11. Remembered'
    BY DEF Remembered, NakReceived, SendAgain, SendDone
  <2>12. ReplyIsTrue'
    BY DEF ReplyIsTrue, Answering, True, TranFits, Handling, Once, NakReceived, SendAgain,
       SendDone
  <2>13. StoredIsTrue'
    BY DEF StoredIsTrue, Storing, True, NakReceived, SendAgain, SendDone
  <2>14. ReplyIsForRequest'
    BY DEF ReplyIsForRequest, NakReceived, SendAgain, SendDone
  <2>15. StoredIsForRequest'
    BY DEF StoredIsForRequest, Storing, NakReceived, SendAgain, SendDone
  <2>16. BookedIsStored' /\ RegisterToldTheTruth'
    BY DEF BookedIsStored, RegisterToldTheTruth, NakReceived, SendAgain, SendDone
  <2> QED BY <2>1, <2>2, <2>3, <2>4, <2>5, <2>6, <2>7, <2>8, <2>9, <2>10, <2>11, <2>12, <2>13,
     <2>14, <2>15, <2>16 DEF IInv
<1>11. CASE SkipInput
  <2> USE <1>11
  <2>1. TypeOK'
    BY Buffer DEF TypeOK, Items, TriesFit, SkipInput
  <2>2. LineFits'
    BY Buffer DEF LineFits, TypeOK, Items, SkipInput
  <2>3. TranFits' /\ SaidFits' /\ TriesFit' /\ RegFits' /\ Once' /\ Remembered' /\ ReplyIsTrue'
     /\ BookedIsStored' /\ StoredIsTrue' /\ ReplyIsForRequest' /\ StoredIsForRequest' /\ RegisterToldTheTruth'
    BY DEF TranFits, Handling, SaidFits, TriesFit, RegFits, Answering, Once, Remembered,
       ReplyIsTrue, True, BookedIsStored, StoredIsTrue, Storing, ReplyIsForRequest, StoredIsForRequest, RegisterToldTheTruth, SkipInput
  <2> QED BY <2>1, <2>2, <2>3 DEF IInv
<1>12. CASE AckTimeout
  <2> USE <1>12
  <2>1. tries' \in 0 .. RetryTimes + 1
    BY DEF TypeOK, AckTimeout, SendAgain, SendDone
  <2>2. step' \in {"send", "after"}
    BY DEF AckTimeout, SendAgain, SendDone
  <2>3. isResponse' \in BOOLEAN
    BY Zenon DEF TypeOK, AckTimeout, SendAgain, SendDone
  <2>4. TypeOK'
    BY <2>1, <2>2, <2>3 DEF TypeOK, Items, AckTimeout
  <2>5. TranFits'
    BY DEF TranFits, Handling, TypeOK, AckTimeout, SendAgain, SendDone
  <2>6. SaidFits'
    BY DEF SaidFits, Handling, AckTimeout, SendAgain, SendDone
  <2>7. TriesFit'
    BY DEF TriesFit, TypeOK, AckTimeout, SendAgain, SendDone
  <2>8. RegFits'
    BY DEF RegFits, Answering, TranFits, Handling, AckTimeout, SendAgain, SendDone
  <2>9. Once'
    BY DEF Once, Handling, AckTimeout, SendAgain, SendDone
  <2>10. Remembered'
    BY DEF Remembered, AckTimeout, SendAgain, SendDone
  <2>11. ReplyIsTrue'
    BY DEF ReplyIsTrue, Answering, True, TranFits, Handling, Once, AckTimeout, SendAgain, SendDone
  <2>12. StoredIsTrue'
    BY DEF StoredIsTrue, Storing, True, AckTimeout, SendAgain, SendDone
  <2>13. ReplyIsForRequest'
    BY DEF ReplyIsForRequest, AckTimeout, SendAgain, SendDone
  <2>14. StoredIsForRequest'
    BY DEF StoredIsForRequest, Storing, AckTimeout, SendAgain, SendDone
  <2>15. LineFits' /\ BookedIsStored' /\ RegisterToldTheTruth'
    BY DEF LineFits, BookedIsStored, RegisterToldTheTruth, AckTimeout, SendAgain, SendDone
  <2> QED BY <2>1, <2>2, <2>3, <2>4, <2>5, <2>6, <2>7, <2>8, <2>9, <2>10, <2>11, <2>12, <2>13,
     <2>14, <2>15 DEF IInv
<1>13. CASE FlowEnds
  <2> USE <1>13
  <2>1. TypeOK'
    BY Buffer DEF TypeOK, Items, TriesFit, FlowEnds
  <2>2. TranFits'
    BY DEF TranFits, Handling, TypeOK, FlowEnds
  <2>3. SaidFits'
    BY DEF SaidFits, Handling, FlowEnds
  <2>4. TriesFit'
    BY DEF TriesFit, TypeOK, FlowEnds
  <2>5. RegFits'
    BY DEF RegFits, Answering, TranFits, Handling, FlowEnds
  <2>6. Once'
    BY DEF Once, Handling, FlowEnds
  <2>7. Remembered'
    BY DEF Remembered, FlowEnds
  <2>8. ReplyIsTrue'
    BY DEF ReplyIsTrue, Answering, True, TranFits, Handling, Once, FlowEnds
  <2>9. StoredIsTrue'
    BY DEF StoredIsTrue, Storing, True, FlowEnds
  <2>10. ReplyIsForRequest'
    BY DEF ReplyIsForRequest, FlowEnds
  <2>11. StoredIsForRequest'
    BY DEF StoredIsForRequest, Storing, FlowEnds
  <2>12. LineFits' /\ BookedIsStored' /\ RegisterToldTheTruth'
    BY DEF LineFits, BookedIsStored, RegisterToldTheTruth, FlowEnds
  <2> QED BY <2>1, <2>2, <2>3, <2>4, <2>5, <2>6, <2>7, <2>8, <2>9, <2>10, <2>11, <2>12 DEF IInv
<1>14. CASE FlowFailsLater
  <2> USE <1>14
  <2>1. TypeOK'
    BY Buffer DEF TypeOK, Items, TriesFit, FlowFailsLater, Fails
  <2>2. TranFits'
    BY DEF TranFits, Handling, TypeOK, FlowFailsLater, Fails
  <2>3. SaidFits'
    BY DEF SaidFits, Handling, FlowFailsLater, Fails
  <2>4. TriesFit'
    BY DEF TriesFit, TypeOK, FlowFailsLater, Fails
  <2>5. RegFits'
    BY DEF RegFits, Answering, FlowFailsLater, Fails
  <2>6. Once'
    BY DEF Once, Handling, FlowFailsLater, Fails
  <2>7. Remembered'
    BY DEF Remembered, FlowFailsLater, Fails
  <2>8. ReplyIsTrue'
    BY DEF ReplyIsTrue, Answering, True, SaidFits, FlowFailsLater, Fails
  <2>9. StoredIsTrue'
    BY DEF StoredIsTrue, Storing, True, FlowFailsLater, Fails
  <2>10. ReplyIsForRequest'
    BY DEF ReplyIsForRequest, SaidFits, FlowFailsLater, Fails
  <2>11. StoredIsForRequest'
    BY DEF StoredIsForRequest, Storing, FlowFailsLater, Fails
  <2>12. LineFits' /\ BookedIsStored' /\ RegisterToldTheTruth'
    BY DEF LineFits, BookedIsStored, RegisterToldTheTruth, FlowFailsLater, Fails
  <2> QED BY <2>1, <2>2, <2>3, <2>4, <2>5, <2>6, <2>7, <2>8, <2>9, <2>10, <2>11, <2>12 DEF IInv
<1>15. CASE EventEnds
  <2> USE <1>15
  <2>1. TypeOK'
    BY Buffer DEF TypeOK, Items, TriesFit, EventEnds
  <2>2. LineFits'
    BY Buffer DEF LineFits, TypeOK, Items, EventEnds
  <2>3. TranFits'
    BY DEF TranFits, Handling, TypeOK, EventEnds
  <2>4. SaidFits'
    BY DEF SaidFits, Handling, EventEnds
  <2>5. TriesFit'
    BY DEF TriesFit, TypeOK, EventEnds
  <2>6. RegFits'
    BY DEF RegFits, Answering, TranFits, Handling, EventEnds
  <2>7. Once'
    BY DEF Once, Handling, EventEnds
  <2>8. Remembered'
    BY DEF Remembered, EventEnds
  <2>9. ReplyIsTrue'
    BY DEF ReplyIsTrue, Answering, True, TranFits, Handling, Once, EventEnds
  <2>10. StoredIsTrue'
    BY DEF StoredIsTrue, Storing, True, EventEnds
  <2>11. ReplyIsForRequest'
    BY DEF ReplyIsForRequest, EventEnds
  <2>12. StoredIsForRequest'
    BY DEF StoredIsForRequest, Storing, EventEnds
  <2>13. BookedIsStored' /\ RegisterToldTheTruth'
    BY DEF BookedIsStored, RegisterToldTheTruth, EventEnds
  <2> QED BY <2>1, <2>2, <2>3, <2>4, <2>5, <2>6, <2>7, <2>8, <2>9, <2>10, <2>11, <2>12, <2>13
     DEF IInv
<1> QED BY <1>1, <1>2, <1>3, <1>4, <1>5, <1>6, <1>7, <1>8, <1>9, <1>10, <1>11, <1>12, <1>13,
   <1>14, <1>15 DEF Send

\* A power failure keeps the invariant.
LEMMA PowerStep ==
  ASSUME TypeOK, LineFits, TranFits, SaidFits, TriesFit, RegFits, Once, Remembered, ReplyIsTrue,
         BookedIsStored, StoredIsTrue, ReplyIsForRequest, StoredIsForRequest, RegisterToldTheTruth,
         PowerFailure
  PROVE  IInv'
<1>1. crashes' \in 0 .. MaxCrash /\ mishap' \subseteq {"power", "ack", "noise"}
  BY DEF TypeOK, PowerFailure
<1>2. tran' = NoTran /\ reply' = Blank /\ retry' = 0 /\ tries' = 0 /\ step' = "idle" /\ rx' = <<>>
  BY DEF PowerFailure
<1>3. TypeOK'
  <2>1. rx' \in Seq(Frames \union Signals \union Noise) /\ step' \in Steps
    BY <1>2 
  <2>2. tran' \in Frames \union {NoTran} /\ reply' \in Answers \union {Blank}
    BY <1>2
  <2>3. retry' \in 0 .. RetryTimes + 1 /\ tries' \in 0 .. RetryTimes + 1
    BY <1>2
  <2>4. isResponse' \in BOOLEAN
    BY Zenon DEF PowerFailure
  <2>5. dupPAN' \in 0 .. MaxSale /\ said' \subseteq Answers \union {Blank}
    BY DEF PowerFailure
  <2> QED BY <1>1, <2>1, <2>2, <2>3, <2>4, <2>5 DEF TypeOK, PowerFailure
<1>4. LineFits'
  BY Buffer DEF LineFits, TypeOK, Items, PowerFailure
<1>5. TranFits'
  BY DEF TranFits, Handling, TypeOK, PowerFailure
<1>6. SaidFits'
  BY DEF SaidFits, Handling, PowerFailure
<1>7. TriesFit'
  BY DEF TriesFit, TypeOK, PowerFailure
<1>8. RegFits'
  BY DEF RegFits, Answering, TranFits, Handling, PowerFailure
<1>9. Once'
  BY DEF Once, Handling, PowerFailure
<1>10. Remembered'
  BY DEF Remembered, PowerFailure
<1>11. ReplyIsTrue'
  BY DEF ReplyIsTrue, Answering, True, TranFits, Handling, Once, PowerFailure
<1>12. BookedIsStored'
  BY DEF BookedIsStored, PowerFailure
<1>13. StoredIsTrue'
  BY DEF StoredIsTrue, Storing, True, PowerFailure
<1>14. ReplyIsForRequest'
  BY DEF ReplyIsForRequest, PowerFailure
<1>15. StoredIsForRequest'
  BY DEF StoredIsForRequest, Storing, PowerFailure
<1>16. RegisterToldTheTruth'
  BY DEF RegisterToldTheTruth, PowerFailure
<1> QED BY <1>1, <1>2, <1>3, <1>4, <1>5, <1>6, <1>7, <1>8, <1>9, <1>10, <1>11, <1>12, <1>13,
   <1>14, <1>15, <1>16 DEF IInv

-----------------------------------------------------------------------------
(* The theorems.                                                           *)

\* Every reachable state satisfies the inductive invariant.
THEOREM SpecIInv == Spec => []IInv
<1>1. Init => IInv
  <2> SUFFICES ASSUME Init PROVE IInv
    OBVIOUS
  <2>1. TypeOK
    <3>1. rx \in Seq(Frames \union Signals \union Noise) /\ step \in Steps
      BY DEF Init
    <3>2. tran \in Frames \union {NoTran} /\ reply \in Answers \union {Blank}
      BY DEF Init
    <3>3. retry \in 0 .. RetryTimes + 1 /\ tries \in 0 .. RetryTimes + 1
      BY DEF Init
    <3>4. lastRece \in Answers \union {Blank, NoFile} /\ said \subseteq Answers \union {Blank}
      BY DEF Init
    <3>5. reg \in [at : {"idle", "offer", "wait", "ask", "asked"}, sale : 0 .. MaxSale]
      BY DEF Init
    <3>6. isResponse \in BOOLEAN
      BY Zenon DEF Init
    <3> QED BY <3>1, <3>2, <3>3, <3>4, <3>5, <3>6 DEF Init, TypeOK
  <2>2. LineFits
    BY WaitingProperties DEF Init, LineFits, Waiting
  <2>3. TranFits /\ SaidFits /\ TriesFit /\ RegFits
    BY DEF Init, TranFits, SaidFits, TriesFit, RegFits, Handling, Answering
  <2>4. Once /\ Remembered /\ ReplyIsTrue /\ BookedIsStored
    BY DEF Init, Once, Remembered, ReplyIsTrue, BookedIsStored, Handling, Answering
  <2>5. StoredIsTrue /\ ReplyIsForRequest /\ StoredIsForRequest /\ RegisterToldTheTruth
    BY DEF Init, StoredIsTrue, ReplyIsForRequest, StoredIsForRequest, RegisterToldTheTruth
  <2> QED BY <2>1, <2>2, <2>3, <2>4, <2>5 DEF IInv
<1>2. IInv /\ [Next]_vars => IInv'
  <2> SUFFICES ASSUME IInv, [Next]_vars PROVE IInv'
    OBVIOUS
  <2>1. CASE UNCHANGED vars
    <3> USE <2>1
    <3>1. TypeOK' /\ LineFits'
      BY DEF IInv, vars, TypeOK, LineFits
    <3>2. TranFits' /\ SaidFits' /\ TriesFit' /\ RegFits'
      BY DEF IInv, vars, TranFits, SaidFits, TriesFit, RegFits
    <3>3. Once' /\ Remembered' /\ ReplyIsTrue' /\ BookedIsStored'
      BY DEF IInv, vars, Once, Remembered, ReplyIsTrue, True, BookedIsStored
    <3>4. StoredIsTrue' /\ ReplyIsForRequest' /\ StoredIsForRequest' /\ RegisterToldTheTruth'
      BY DEF IInv, vars, StoredIsTrue, Storing, True, ReplyIsForRequest, StoredIsForRequest,
             RegisterToldTheTruth
    <3> QED BY <3>1, <3>2, <3>3, <3>4 DEF IInv
  <2>2. CASE Register
    BY <2>2, RegisterStep DEF IInv
  <2>3. CASE Line
    BY <2>3, LineStep DEF IInv
  <2>4. CASE Receive
    BY <2>4, ReceiveStep DEF IInv
  <2>5. CASE Handle
    BY <2>5, HandleStep DEF IInv
  <2>6. CASE Send
    BY <2>6, SendStep DEF IInv
  <2>7. CASE PowerFailure
    BY <2>7, PowerStep DEF IInv
  <2> QED BY <2>1, <2>2, <2>3, <2>4, <2>5, <2>6, <2>7 DEF Next, Terminal
<1> QED BY <1>1, <1>2, PTL DEF Spec

\* The variables keep their types: an answer is transmitted a bounded number of
\* times and no more frames are refused than the code allows.
THEOREM SpecTypeOK == Spec => []TypeOK
<1>1. IInv => TypeOK
  BY DEF IInv
<1> QED BY <1>1, SpecIInv, PTL

\* A request is given one answer, transmitted again at most (uszIsResponse).
THEOREM SpecOneAnswer == Spec => []OneAnswer
<1>1. IInv => OneAnswer
  <2> SUFFICES ASSUME IInv PROVE Cardinality(said) <= 1
    BY DEF OneAnswer
  <2>1. \A a, b \in said : a = b
    BY DEF IInv, SaidFits
  <2>2. CASE said = {}
    BY <2>2, FS_EmptySet
  <2>3. CASE said # {}
    <3>1. PICK a \in said : said = {a}
      BY <2>1, <2>3
    <3>2. Cardinality({a}) = 1
      BY FS_Singleton
    <3> QED BY <3>1, <3>2
  <2> QED BY <2>2, <2>3
<1> QED BY <1>1, SpecIInv, PTL

\* At rest the answer on file is that of the request on file, unless power
\* failed during the sale or an unreadable frame followed it.
THEOREM SpecStoredAnswerMatches == Spec => []StoredAnswerMatches
<1>1. IInv => StoredAnswerMatches
  BY DEF IInv, StoredIsForRequest, Storing, StoredAnswerMatches
<1> QED BY <1>1, SpecIInv, PTL

\* What the register concludes of its latest sale is so, but for the mishaps
\* the property names.
THEOREM SpecRegisterToldTheTruth == Spec => []RegisterToldTheTruth
<1>1. IInv => RegisterToldTheTruth
  BY DEF IInv
<1> QED BY <1>1, SpecIInv, PTL

\* A sale is booked twice only if the ACK of its frame was lost, and with the
\* repeated-card check only if power failed as well.
THEOREM SpecBookedOnce == Spec => []BookedOnce
<1>1. IInv => BookedOnce
  <2> SUFFICES ASSUME IInv, booked > 1
               PROVE  "ack" \in mishap /\ (SplitCheck => "power" \in mishap)
    BY DEF BookedOnce
  <2>1. ~ (booked <= 1)
    BY DEF IInv, TypeOK
  <2> QED BY <2>1 DEF IInv, Once, Remembered
<1> QED BY <1>1, SpecIInv, PTL

=============================================================================
