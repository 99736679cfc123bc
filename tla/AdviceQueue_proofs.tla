-------------------------- MODULE AdviceQueue_proofs --------------------------
(***************************************************************************)
(* Proofs about AdviceQueue for every highest invoice number and every     *)
(* number of power failures: file and rows stay in step, nothing due is    *)
(* forgotten when the batch closes, a tip follows its sale, and the host   *)
(* takes an advice twice, or one of a voided sale, only when it was cut    *)
(* off; and AdviceQueue implements Outbox.                                 *)
(***************************************************************************)
EXTENDS AdviceQueue, FiniteSetTheorems, SequenceTheorems, WellFoundedInduction, TLAPS

(***************************************************************************)
(* The inductive invariant.                                                *)
(***************************************************************************)

Entry       == Invoice \cup {Garbage}
Sending     == {"head", "wait", "update", "drop", "rewrite"}
Offline     == {"append", "delete", "rename"}
IsSale(c)   == c \in {"SALE", "SALE_OFFLINE"}
InHand      == cur # Settling

\* The transaction in hand is still to be booked.
Pending     == InHand /\ pc \in Sending \cup Offline \cup {"insert"}

\* How often an invoice number stands in a sequence.
Count(s, i) == Cardinality({k \in DOMAIN s : s[k] = i})
Held(i)     == Count(queue, i) + Count(rest, i)

\* The entries a row calls for.
Owing(code, up) == IF code = "VOID" THEN 0 ELSE Cardinality(up)

\* The transaction in hand fits the row it is made from.
CurFits ==
    /\ pc \in Offline \cup {"insert", "saveInv"} => InHand
    /\ pc = "close" => ~InHand
    /\ Pending =>
         /\ cur.inv \in Invoice
         /\ cur.org = rows[cur.inv].code
         /\ IsSale(cur.code) => cur.inv = invoiceNum /\ rows[cur.inv] = NoRow
         /\ ~IsSale(cur.code) => IsSale(cur.org)
         /\ cur.code = "SALE" => cur.up = {}
         /\ cur.code = "SALE_OFFLINE" => cur.up = {1}
         /\ cur.code = "TIP" => cur.up = TipBits(cur.inv)
         /\ cur.code = "VOID" /\ cur.up = {} => ~VoidIsOffline(cur.inv)
         /\ cur.code = "VOID" /\ cur.up # {} => cur.up = {1, 2} /\ VoidIsOffline(cur.inv)
         /\ pc = "append" => cur.code \in {"SALE_OFFLINE", "TIP"}
         /\ pc \in {"delete", "rename"} => cur.code = "VOID" /\ cur.up = {1, 2}
         /\ pc \in Sending => cur.up = {}
    /\ pc = "saveInv" => cur.inv = invoiceNum

\* The rows there can be.
RowFits ==
    \A i \in Invoice :
        /\ rows[i].code = "SALE" => rows[i].up = {}
        /\ rows[i].code = "SALE_OFFLINE" => rows[i].up \subseteq {1}
        /\ rows[i].code = "TIP" => rows[i].up \in {{}, {2}, {1, 2}}
        /\ rows[i].code = "TIP" /\ 1 \in rows[i].up => rows[i].org = "SALE_OFFLINE"
        /\ IsSale(rows[i].code) => rows[i].org = "none"
        /\ rows[i].code \in {"TIP", "VOID"} => IsSale(rows[i].org)

\* The invoice number is past every row, but before it is saved.
Covers ==
    \A i \in Invoice : HasRow(i) =>
        i < invoiceNum \/ (i = invoiceNum /\ (pc \in {"saveInv", "boot"} \/ mustSettle))

\* What is read from the file, and how much of it is to be sent.
FileFits ==
    /\ rest # <<>> => pc \in {"rename", "rewrite"}
    /\ pc \in {"rename", "rewrite"} => queue = <<>>
    /\ pc \in {"wait", "update", "drop"} => queue # <<>> /\ HasRow(Head(queue))
    /\ pc \in {"wait", "update", "drop", "rewrite"} => left > 0
    /\ ~InHand /\ pc \in {"head", "wait", "update", "drop"} => left = Len(queue)
    /\ ~InHand /\ pc = "rewrite" => left = Len(rest) + 1
    /\ pc = "close" => queue = <<>>

\* The message of the first entry.
FirstMessage == [inv |-> Head(queue), iso |-> IsoCode(rows[Head(queue)])]

\* What is on the line comes from the first entry.
LineFits ==
    /\ net # None => pc = "wait" /\ reply = "none" /\ net = FirstMessage
    /\ reply # "none" => pc = "wait"
    /\ reply = "00" \/ pc = "update" => FirstMessage \in booked

\* QueueMatchesRows at every step: the row follows the file in a booking, and the
\* entry follows the row after an answer.
Matches ==
    \A i \in Invoice \ harmed :
        Held(i) = IF pc \in {"rename", "insert"} /\ i = cur.inv
                  THEN Owing(cur.code, cur.up)
                  ELSE IF pc = "drop" /\ i = Head(queue)
                  THEN Owing(rows[i].code, rows[i].up) + 1
                  ELSE Owing(rows[i].code, rows[i].up)

\* The host knows nothing of an invoice without a row; a tip or a void it was told of
\* is in the row.
BookedFits ==
    \A m \in booked :
        /\ HasRow(m.inv)
        /\ m.iso \in {"TIP", "VOID"} => rows[m.inv].code = m.iso
        /\ m.iso = "TIP" => 1 \notin rows[m.inv].up

\* What a row no longer owes has been taken.
Heard ==
    \A i \in Invoice : HasRow(i) /\ rows[i].code # "VOID" =>
        /\ MadeOffline(i) /\ 1 \notin rows[i].up => [inv |-> i, iso |-> "ADVICE"] \in booked
        /\ rows[i].code = "TIP" /\ 2 \notin rows[i].up => [inv |-> i, iso |-> "TIP"] \in booked

\* The host has taken the first entry, and its row does not say so yet.
Answered(i) == (reply = "00" \/ pc = "update") /\ i = Head(queue)

\* What a row owes has not been taken, but for the answer being worked on.
Unsent ==
    \A i \in Invoice \ (unheard \cup harmed) : rows[i].code # "VOID" =>
        /\ 1 \in rows[i].up /\ ~Answered(i) => [inv |-> i, iso |-> "ADVICE"] \notin booked
        /\ rows[i].code = "TIP" /\ 2 \in rows[i].up /\ ~(Answered(i) /\ rows[i].up = {2}) =>
               [inv |-> i, iso |-> "TIP"] \notin booked

IInv ==
    /\ TypeOK
    /\ CurFits
    /\ RowFits
    /\ Covers
    /\ FileFits
    /\ LineFits
    /\ Matches
    /\ BookedFits
    /\ Heard
    /\ Unsent
    /\ TakenTwiceOnlyIfCutOff
    /\ WastedOnlyIfUnheard

-----------------------------------------------------------------------------
(* Sequences: how often an entry stands in the file as it is rewritten.    *)

\* The places of an entry are finitely many.
LEMMA CountType ==
  ASSUME NEW S, NEW s \in Seq(S), NEW i
  PROVE  IsFiniteSet({k \in DOMAIN s : s[k] = i}) /\ Count(s, i) \in Nat
<1>1. IsFiniteSet(1 .. Len(s)) /\ DOMAIN s = 1 .. Len(s)
  BY FS_Interval
<1>2. {k \in DOMAIN s : s[k] = i} \in SUBSET (1 .. Len(s))
  BY <1>1
<1>3. IsFiniteSet({k \in DOMAIN s : s[k] = i})
  BY <1>1, <1>2, FS_Subset
<1> QED BY <1>3, FS_CardinalityType DEF Count

\* An empty or deleted file has no entry.
LEMMA CountEmpty == \A i : Count(<<>>, i) = 0
<1> SUFFICES ASSUME NEW i PROVE Count(<<>>, i) = 0
  OBVIOUS
<1>1. {k \in DOMAIN <<>> : <<>>[k] = i} = {}
  OBVIOUS
<1> QED BY <1>1, FS_EmptySet DEF Count

\* A new entry at the end.
LEMMA CountAppend ==
  ASSUME NEW S, NEW s \in Seq(S), NEW x \in S, NEW i
  PROVE  Count(Append(s, x), i) = IF x = i THEN Count(s, i) + 1 ELSE Count(s, i)
<1> DEFINE n == Len(s)
           t == Append(s, x)
           A == {k \in DOMAIN s : s[k] = i}
           B == {k \in DOMAIN t : t[k] = i}
<1>1. /\ n \in Nat /\ DOMAIN s = 1 .. n /\ DOMAIN t = 1 .. n + 1
      /\ t[n + 1] = x /\ \A k \in 1 .. n : t[k] = s[k]
  BY AppendProperties
<1>2. IsFiniteSet(A) /\ n + 1 \notin A
  <2>1. IsFiniteSet(A)
    BY CountType
  <2> QED BY <1>1, <2>1
<1> HIDE DEF t
<1>3. CASE x = i
  <2>1. B = A \cup {n + 1}
    BY <1>1, <1>3
  <2>2. Cardinality(B) = Cardinality(A) + 1
    BY <1>2, <2>1, FS_AddElement
  <2> QED BY <1>3, <2>2 DEF Count, t
<1>4. CASE x # i
  <2>1. B = A
    BY <1>1, <1>4
  <2>2. Count(Append(s, x), i) = Count(s, i)
    BY <2>1 DEF Count, t
  <2>3. Count(s, i) \in Nat
    BY CountType
  <2> QED BY <1>4, <2>2, <2>3
<1> QED BY <1>3, <1>4

\* An entry taken out.
LEMMA CountWithout ==
  ASSUME NEW S, NEW s \in Seq(S), NEW p \in 1 .. Len(s), NEW i
  PROVE  /\ Without(s, p) \in Seq(S) /\ Len(Without(s, p)) = Len(s) - 1
         /\ Count(Without(s, p), i) \in Nat
         /\ Count(s, i) = IF s[p] = i THEN Count(Without(s, p), i) + 1
                          ELSE Count(Without(s, p), i)
<1> DEFINE n == Len(s)
           t == Without(s, p)
           A == {k \in DOMAIN s : s[k] = i}
           B == {k \in DOMAIN t : t[k] = i}
<1>1. n \in Nat /\ DOMAIN s = 1 .. n /\ \A k \in 1 .. n : s[k] \in S
  OBVIOUS
<1>2. /\ SubSeq(s, 1, p - 1) \in Seq(S) /\ Len(SubSeq(s, 1, p - 1)) = p - 1
      /\ \A k \in 1 .. p - 1 : SubSeq(s, 1, p - 1)[k] = s[k]
  <2>1. \A k \in 1 .. p - 1 : s[k] \in S
    BY <1>1
  <2> QED BY <2>1, SubSeqProperties
<1>3. /\ SubSeq(s, p + 1, n) \in Seq(S) /\ Len(SubSeq(s, p + 1, n)) = n - p
      /\ \A k \in 1 .. n - p : SubSeq(s, p + 1, n)[k] = s[p + k]
  <2>1. PICK q \in Int : q = p + 1
    OBVIOUS
  <2>2. \A k \in q .. n : s[k] \in S
    BY <1>1, <2>1
  <2>3. /\ SubSeq(s, q, n) \in Seq(S) /\ Len(SubSeq(s, q, n)) = IF q <= n THEN n - q + 1 ELSE 0
        /\ \A k \in 1 .. n - q + 1 : SubSeq(s, q, n)[k] = s[q + k - 1]
    BY <1>1, <2>2, SubSeqProperties
  <2>4. p \in Int /\ p <= n
    BY <1>1
  <2>5. n - q + 1 = n - p
    BY <1>1, <2>1, <2>4
  <2>6. p = n \/ q <= n
    <3>1. \A a, b \in Int : a <= b => a = b \/ a + 1 <= b
      OBVIOUS
    <3>2. n \in Int
      BY <1>1
    <3> HIDE DEF n
    <3> QED BY <2>1, <2>4, <3>1, <3>2
  <2>7. \A k \in 1 .. n - p : q + k - 1 = p + k
    BY <1>1, <2>1, <2>4
  <2>8. Len(SubSeq(s, q, n)) = n - p
    <3>1. CASE p = n
      BY <1>1, <2>1, <2>3, <2>4, <3>1
    <3>2. CASE q <= n
      BY <2>3, <2>5, <3>2
    <3> QED BY <2>6, <3>1, <3>2
  <2> QED BY <2>1, <2>3, <2>5, <2>7, <2>8
<1>4. /\ t \in Seq(S) /\ Len(t) = n - 1
      /\ \A k \in 1 .. n - 1 : t[k] = IF k < p THEN s[k] ELSE s[k + 1]
  <2>1. /\ t \in Seq(S) /\ Len(t) = (p - 1) + (n - p)
        /\ \A k \in 1 .. (p - 1) + (n - p) :
             t[k] = IF k <= p - 1 THEN SubSeq(s, 1, p - 1)[k]
                    ELSE SubSeq(s, p + 1, n)[k - (p - 1)]
    BY <1>2, <1>3, ConcatProperties DEF Without
  <2>2. ASSUME NEW k \in 1 .. n - 1 PROVE t[k] = IF k < p THEN s[k] ELSE s[k + 1]
    <3>1. CASE k < p
      BY <1>1, <1>2, <2>1, <3>1
    <3>2. CASE k >= p
      <4>1. k - (p - 1) \in 1 .. n - p /\ p + (k - (p - 1)) = k + 1
        BY <1>1, <3>2
      <4>2. SubSeq(s, p + 1, n)[k - (p - 1)] = s[k + 1]
        BY <1>3, <4>1
      <4>3. k \in 1 .. (p - 1) + (n - p) /\ ~(k <= p - 1) /\ ~(k < p)
        BY <1>1, <3>2
      <4> QED BY <2>1, <4>2, <4>3
    <3> QED BY <3>1, <3>2
  <2> QED BY <1>1, <2>1, <2>2
<1> HIDE DEF t
<1>5. DOMAIN t = 1 .. n - 1 /\ n \in Nat /\ p \in 1 .. n
  BY <1>1, <1>4
<1>6. IsFiniteSet(A \ {p}) /\ Cardinality(A \ {p}) = Cardinality(B)
  <2> DEFINE f == [k \in B |-> IF k < p THEN k ELSE k + 1]
  <2>1. IsFiniteSet(B)
    BY <1>4, CountType
  <2>2. f \in [B -> A \ {p}]
    BY <1>1, <1>4, <1>5
  <2>3. \A j, k \in B : f[j] = f[k] => j = k
    BY <1>5
  <2>4. ASSUME NEW m \in A \ {p} PROVE \E k \in B : f[k] = m
    <3>1. CASE m < p
      <4>1. m \in B /\ f[m] = m
        BY <1>1, <1>4, <1>5, <3>1
      <4> QED BY <4>1
    <3>2. CASE m > p
      <4>1. m - 1 \in 1 .. n - 1 /\ ~(m - 1 < p) /\ (m - 1) + 1 = m /\ s[m] = i
        BY <1>1, <1>5, <3>2
      <4>2. m - 1 \in B
        BY <1>4, <1>5, <4>1
      <4>3. f[m - 1] = m
        BY <4>1, <4>2
      <4> QED BY <4>2, <4>3
    <3> QED BY <1>1, <1>5, <3>1, <3>2
  <2> HIDE DEF f, A, B
  <2>5. f \in Bijection(B, A \ {p})
    BY <2>2, <2>3, <2>4 DEF Bijection, Injection, Surjection, IsInjective
  <2>6. ExistsBijection(B, A \ {p})
    BY <2>5 DEF ExistsBijection
  <2> QED BY <2>1, <2>6, FS_Bijection
<1>7. IsFiniteSet(A) /\ Cardinality(A) \in Nat /\ Cardinality(B) \in Nat
  BY <1>4, CountType DEF Count
<1>8. Cardinality(A) = IF p \in A THEN Cardinality(B) + 1 ELSE Cardinality(B)
  <2> HIDE DEF A, B
  <2>1. Cardinality(A \ {p}) = IF p \in A THEN Cardinality(A) - 1 ELSE Cardinality(A)
    BY <1>7, FS_RemoveElement
  <2> QED BY <1>6, <1>7, <2>1
<1> QED BY <1>1, <1>4, <1>5, <1>7, <1>8 DEF Count, t

\* The first entry taken out.
LEMMA CountTail ==
  ASSUME NEW S, NEW s \in Seq(S), s # <<>>, NEW i
  PROVE  /\ Head(s) \in S /\ Tail(s) \in Seq(S) /\ Len(Tail(s)) = Len(s) - 1
         /\ Count(Tail(s), i) \in Nat
         /\ Count(s, i) = IF Head(s) = i THEN Count(Tail(s), i) + 1
                          ELSE Count(Tail(s), i)
<1>1. /\ Head(s) = s[1] /\ Head(s) \in S /\ Tail(s) \in Seq(S) /\ Len(s) > 0 /\ Len(s) \in Nat
      /\ Len(Tail(s)) = Len(s) - 1
  OBVIOUS
<1>2. Without(s, 1) = Tail(s)
  <2>1. Tail(s) = SubSeq(s, 2, Len(s)) /\ SubSeq(s, 1, 0) = <<>>
    BY TailIsSubSeq, SubSeqEmpty
  <2> QED BY <1>1, <2>1, ConcatEmptySeq DEF Without
<1>3. 1 \in 1 .. Len(s)
  BY <1>1
<1> QED BY <1>1, <1>2, <1>3, CountWithout

\* An entry is counted when it is there.
LEMMA CountElements ==
  ASSUME NEW S, NEW s \in Seq(S), NEW i
  PROVE  i \in Elements(s) <=> Count(s, i) # 0
<1>1. IsFiniteSet({k \in DOMAIN s : s[k] = i})
  BY CountType
<1>2. Count(s, i) = 0 <=> {k \in DOMAIN s : s[k] = i} = {}
  BY <1>1, FS_EmptySet DEF Count
<1> QED BY <1>2 DEF Elements

\* A nonempty set of numbers has a smallest member.
LEMMA SmallestExists ==
  ASSUME NEW S \in SUBSET Nat, S # {}
  PROVE  \E m \in S : \A i \in S : m <= i
<1> DEFINE Less == OpToRel(<, Nat)
<1>1. \A i, j \in Nat : i < j => <<i, j>> \in Less
  BY DEF OpToRel
<1>2. IsWellFoundedOn(Less, Nat)
  BY NatLessThanWellFounded
<1> HIDE DEF Less
<1>3. PICK m \in S : \A i \in S : ~ (<<i, m>> \in Less)
  BY <1>2, WFMin
<1>4. ASSUME NEW i \in S PROVE m <= i
  <2>1. ~ (i < m)
    BY <1>1, <1>3, Zenon
  <2> QED BY <2>1
<1> QED BY <1>3, <1>4

\* The search finds an entry of its invoice number, or ends behind the file.
LEMMA IndexFound ==
  ASSUME queue \in Seq(Entry)
  PROVE  /\ Index \in 1 .. Len(queue) + 1
         /\ Index <= Len(queue) => queue[Index] = cur.inv
         /\ Index > Len(queue) => Count(queue, cur.inv) = 0
<1> DEFINE found == {k \in DOMAIN queue : queue[k] = cur.inv}
<1>1. DOMAIN queue = 1 .. Len(queue) /\ Len(queue) \in Nat
  OBVIOUS
<1>2. CASE found = {}
  <2>1. Index = Len(queue) + 1
    BY <1>2 DEF Index
  <2>2. Count(queue, cur.inv) = 0
    BY <1>2, FS_EmptySet DEF Count
  <2> QED BY <1>1, <2>1, <2>2
<1>3. CASE found # {}
  <2>1. found \in SUBSET Nat
    BY <1>1
  <2>2. \E k \in found : \A j \in found : k <= j
    BY <1>3, <2>1, SmallestExists
  <2>3. Index = CHOOSE k \in found : \A j \in found : k <= j
    BY <1>3 DEF Index
  <2>4. Index \in found
    BY <2>2, <2>3
  <2> QED BY <1>1, <2>4
<1> QED BY <1>2, <1>3

\* Start-up finds the largest invoice number with a row.
LEMMA MaxInvoiceFound ==
  /\ MaxInvoice \in Nat
  /\ \A i \in Invoice : HasRow(i) => i <= MaxInvoice
<1> USE AdviceAssumption DEF AdviceAssumption, Invoice
<1> DEFINE Free == {d \in Nat : d <= MaxSale /\ (d = MaxSale \/ HasRow(MaxSale - d))}
<1>1. Free \in SUBSET Nat /\ MaxSale \in Free
  OBVIOUS
<1>2. PICK d \in Free : \A e \in Free : d <= e
  BY <1>1, SmallestExists
<1>3. MaxSale - d \in 0 .. MaxSale /\ (MaxSale - d = 0 \/ HasRow(MaxSale - d))
  BY <1>2
<1>4. ASSUME NEW j \in Invoice, HasRow(j) PROVE j <= MaxSale - d
  <2>1. MaxSale - j \in Nat /\ MaxSale - j <= MaxSale /\ MaxSale - (MaxSale - j) = j
    OBVIOUS
  <2>2. MaxSale - j \in Free
    BY <1>4, <2>1
  <2> QED BY <1>2, <2>2
<1>5. \E i \in 0 .. MaxSale : (i = 0 \/ HasRow(i)) /\ \A j \in Invoice : HasRow(j) => j <= i
  BY <1>3, <1>4
<1>6. MaxInvoice \in 0 .. MaxSale /\ \A j \in Invoice : HasRow(j) => j <= MaxInvoice
  BY <1>5 DEF MaxInvoice
<1> QED BY <1>6

\* The upload bits are counted.
LEMMA BitsCounted ==
  /\ Cardinality({}) = 0 /\ Cardinality({1}) = 1 /\ Cardinality({2}) = 1
  /\ Cardinality({1, 2}) = 2
<1>1. Cardinality({}) = 0 /\ Cardinality({1}) = 1 /\ Cardinality({2}) = 1 /\ IsFiniteSet({1})
  BY FS_EmptySet, FS_Singleton
<1>2. {1, 2} = {1} \cup {2} /\ 2 \notin {1}
  OBVIOUS
<1>3. Cardinality({1} \cup {2}) = 2
  BY <1>1, <1>2, FS_AddElement
<1> QED BY <1>1, <1>2, <1>3

\* The entries a row calls for, by its bits.
LEMMA OwingValues ==
  /\ \A up : Owing("VOID", up) = 0
  /\ \A c : c # "VOID" => Owing(c, {}) = 0 /\ Owing(c, {1}) = 1 /\ Owing(c, {2}) = 1
                          /\ Owing(c, {1, 2}) = 2
BY BitsCounted DEF Owing

\* The number of entries a row calls for is one.
LEMMA OwingType ==
  ASSUME NEW c, NEW up \in SUBSET {1, 2}
  PROVE  Owing(c, up) \in Nat
<1>1. up = {} \/ up = {1} \/ up = {2} \/ up = {1, 2}
  OBVIOUS
<1>2. CASE c = "VOID"
  BY <1>2, OwingValues
<1>3. CASE c # "VOID"
  <2>1. Owing(c, {}) = 0 /\ Owing(c, {1}) = 1 /\ Owing(c, {2}) = 1 /\ Owing(c, {1, 2}) = 2
    BY <1>3, OwingValues
  <2>2. CASE up = {}
    BY <2>1, <2>2
  <2>3. CASE up = {1}
    BY <2>1, <2>3
  <2>4. CASE up = {2}
    BY <2>1, <2>4
  <2>5. CASE up = {1, 2}
    BY <2>1, <2>5
  <2> QED BY <1>1, <2>2, <2>3, <2>4, <2>5
<1> QED BY <1>2, <1>3

\* An online transaction replaces a row that owes nothing.
LEMMA OnlineOwesNothing ==
  ASSUME TypeOK, CurFits, RowFits, Pending, cur.up = {}
  PROVE  Owing(rows[cur.inv].code, rows[cur.inv].up) = 0 /\ Owing(cur.code, cur.up) = 0
<1>1. cur.inv \in Invoice /\ cur.code \in Code
  BY DEF TypeOK, CurFits, Trans, Pending, InHand
<1>2. Owing(cur.code, cur.up) = 0
  BY <1>1, OwingValues
<1>3. CASE rows[cur.inv] = NoRow
  BY <1>3, OwingValues DEF NoRow
<1>4. CASE rows[cur.inv] # NoRow
  <2>1. cur.code = "VOID" /\ IsSale(cur.org) /\ ~VoidIsOffline(cur.inv)
        /\ cur.org = rows[cur.inv].code
    BY <1>1, <1>4 DEF CurFits, IsSale, Code, TipBits
  <2>2. rows[cur.inv].up = {}
    BY <1>1, <2>1 DEF RowFits, IsSale, VoidIsOffline
  <2> QED BY <2>1, <2>2, OwingValues DEF IsSale
<1> QED BY <1>2, <1>3, <1>4

\* An entry is there exactly while it is owed, so the row says what to send.
LEMMA FirstIsOwed ==
  ASSUME TypeOK, RowFits, FileFits, Matches, pc \in {"wait", "update"}, Head(queue) \notin
     harmed
  PROVE  \/ rows[Head(queue)].code = "SALE_OFFLINE" /\ rows[Head(queue)].up = {1}
         \/ rows[Head(queue)].code = "TIP" /\ rows[Head(queue)].up \in {{2}, {1, 2}}
<1> DEFINE h == Head(queue)
<1>1. queue # <<>> /\ queue \in Seq(Entry) /\ rest \in Seq(Entry) /\ HasRow(h)
  BY DEF FileFits, TypeOK, Entry
<1>2. h \in Invoice /\ rows[h].code \in Code /\ rows[h].up \subseteq {1, 2}
  BY <1>1 DEF HasRow, TypeOK
<1>3. Count(queue, h) = Count(Tail(queue), h) + 1 /\ Tail(queue) \in Seq(Entry)
  BY <1>1, CountTail
<1>4. Count(Tail(queue), h) \in Nat /\ Count(rest, h) \in Nat
  BY <1>1, <1>3, CountType
<1>5. Held(h) = Owing(rows[h].code, rows[h].up)
  BY <1>2 DEF Matches
<1> HIDE DEF h
<1>6. Owing(rows[h].code, rows[h].up) # 0
  BY <1>3, <1>4, <1>5 DEF Held
<1>7. rows[h].code # "VOID" /\ rows[h].up # {}
  BY <1>6, OwingValues
<1> QED BY <1>2, <1>7 DEF RowFits, Code, h


\* A transaction that begins keeps the invariant.
LEMMA BeginStep ==
  ASSUME TypeOK, CurFits, RowFits, Covers, FileFits, LineFits,
         Matches, BookedFits, Heard, Unsent, TakenTwiceOnlyIfCutOff, WastedOnlyIfUnheard,
         Begin \/ StartSettle
  PROVE  IInv'
<1> USE AdviceAssumption DEF AdviceAssumption, Invoice, Garbage, disk, ram, line, hist
<1>1. CASE StartOfflineSale
  <2> USE <1>1
  <2>1. UNCHANGED <<rest, rows, queue, invoiceNum, mustSettle, booked, net, reply, pastEnd,
     again, unheard, harmed, wasted, crashes>>
    BY DEF StartOfflineSale, Start
  <2>2. cur' = [inv |-> invoiceNum, code |-> "SALE_OFFLINE", org |-> rows[invoiceNum].code,
     up |-> {1}]
    BY DEF StartOfflineSale, Start, Transaction
  <2>3. pc = "idle" /\ pc' = "append" /\ left' = 0 /\ ~mustSettle /\ invoiceNum \in Invoice
    BY DEF StartOfflineSale, Start
  <2>4. rows[invoiceNum] = NoRow /\ rows[invoiceNum].code = "none"
    BY <2>3 DEF Covers, HasRow, TypeOK, NoRow
  <2>5. cur'.inv = invoiceNum /\ cur'.code = "SALE_OFFLINE" /\ cur'.org = "none" /\ cur'.up =
     {1} /\ cur' # Settling
    BY <2>2, <2>3, <2>4 DEF Settling
  <2>6. \A i : Held(i)' = Held(i)
    BY <2>1 DEF Held
  <2>7. TypeOK'
    <3>1. pc' \in PC
      BY <2>3 DEF TypeOK, PC
    <3>2. cur' \in Trans \cup {Settling}
      BY <2>2, <2>3, <2>4 DEF TypeOK, Trans, Code
    <3>3. left' \in Nat
      BY <2>3 DEF TypeOK
    <3> QED BY <3>1, <3>2, <3>3, <2>1 DEF TypeOK
  <2>8. CurFits'
    BY <2>1, <2>3, <2>4, <2>5 DEF CurFits, Pending, InHand, IsSale, Sending, Offline,
       TipBits, VoidIsOffline
  <2>9. Covers'
    BY <2>1, <2>3 DEF Covers, HasRow, FileFits, LineFits
  <2>10. FileFits'
    BY <2>1, <2>3, <2>5 DEF FileFits, HasRow, InHand
  <2>11. LineFits'
    BY <2>1, <2>3 DEF LineFits, FirstMessage, IsoCode, FileFits
  <2>12. Matches'
    BY <2>1, <2>3, <2>6 DEF Matches
  <2>13. Unsent'
    BY <2>1, <2>3 DEF Unsent, Answered, FileFits, LineFits
  <2>14. RowFits' /\ BookedFits' /\ Heard' /\ TakenTwiceOnlyIfCutOff' /\ WastedOnlyIfUnheard'
    BY <2>1 DEF RowFits, IsSale, BookedFits, HasRow, Heard, MadeOffline,
       TakenTwiceOnlyIfCutOff, WastedOnlyIfUnheard
  <2> QED BY <2>1, <2>2, <2>3, <2>4, <2>5, <2>6, <2>7, <2>8, <2>9, <2>10, <2>11, <2>12,
     <2>13, <2>14 DEF IInv
<1>2. CASE OnlineSale
  <2> USE <1>2
  <2>1. UNCHANGED <<rest, rows, queue, invoiceNum, mustSettle, booked, net, reply, pastEnd,
     again, unheard, harmed, wasted, crashes>>
    BY DEF OnlineSale, Start
  <2>2. cur' = [inv |-> invoiceNum, code |-> "SALE", org |-> rows[invoiceNum].code, up |-> {}]
    BY DEF OnlineSale, Start, Transaction
  <2>3. pc = "idle" /\ pc' = "head" /\ left' = 1 /\ ~mustSettle /\ invoiceNum \in Invoice
    BY DEF OnlineSale, Start
  <2>4. rows[invoiceNum] = NoRow /\ rows[invoiceNum].code = "none"
    BY <2>3 DEF Covers, HasRow, TypeOK, NoRow
  <2>5. cur'.inv = invoiceNum /\ cur'.code = "SALE" /\ cur'.org = "none" /\ cur'.up = {} /\
     cur' # Settling
    BY <2>2, <2>3, <2>4 DEF Settling
  <2>6. \A i : Held(i)' = Held(i)
    BY <2>1 DEF Held
  <2>7. TypeOK'
    <3>1. pc' \in PC
      BY <2>3 DEF TypeOK, PC
    <3>2. cur' \in Trans \cup {Settling}
      BY <2>2, <2>3, <2>4 DEF TypeOK, Trans, Code
    <3>3. left' \in Nat
      BY <2>3 DEF TypeOK
    <3> QED BY <3>1, <3>2, <3>3, <2>1 DEF TypeOK
  <2>8. CurFits'
    BY <2>1, <2>3, <2>4, <2>5 DEF CurFits, Pending, InHand, IsSale, Sending, Offline,
       TipBits, VoidIsOffline
  <2>9. Covers'
    BY <2>1, <2>3 DEF Covers, HasRow, FileFits, LineFits
  <2>10. FileFits'
    BY <2>1, <2>3, <2>5 DEF FileFits, HasRow, InHand
  <2>11. LineFits'
    BY <2>1, <2>3 DEF LineFits, FirstMessage, IsoCode, FileFits
  <2>12. Matches'
    BY <2>1, <2>3, <2>6 DEF Matches
  <2>13. Unsent'
    BY <2>1, <2>3 DEF Unsent, Answered, FileFits, LineFits
  <2>14. RowFits' /\ BookedFits' /\ Heard' /\ TakenTwiceOnlyIfCutOff' /\ WastedOnlyIfUnheard'
    BY <2>1 DEF RowFits, IsSale, BookedFits, HasRow, Heard, MadeOffline,
       TakenTwiceOnlyIfCutOff, WastedOnlyIfUnheard
  <2> QED BY <2>1, <2>2, <2>3, <2>4, <2>5, <2>6, <2>7, <2>8, <2>9, <2>10, <2>11, <2>12,
     <2>13, <2>14 DEF IInv
<1>3. CASE StartTip
  <2> USE <1>3
  <2>1. UNCHANGED <<rest, rows, queue, invoiceNum, mustSettle, booked, net, reply, pastEnd,
     again, unheard, harmed, wasted, crashes>>
    BY DEF StartTip, Start
  <2>2. \E i \in Invoice : Amendable(i) /\ cur' = [inv |-> i, code |-> "TIP", org |->
     rows[i].code, up |-> TipBits(i)]
    BY DEF StartTip, Start, Transaction
  <2>3. pc = "idle" /\ pc' = "append" /\ left' = 0
    BY DEF StartTip, Start
  <2>4. PICK i \in Invoice : Amendable(i) /\ cur' = [inv |-> i, code |-> "TIP", org |->
     rows[i].code, up |-> TipBits(i)]
    BY <2>2
  <2>5. cur'.inv = i /\ cur'.code = "TIP" /\ cur'.org = rows[i].code /\ cur'.up = TipBits(i)
     /\ cur' # Settling
    BY <2>4 DEF Settling
  <2>6. rows[i].code \in {"SALE", "SALE_OFFLINE"} /\ rows[i] # NoRow
    BY <2>4 DEF Amendable, NoRow
  <2>7. \A j : Held(j)' = Held(j)
    BY <2>1 DEF Held
  <2>8. TypeOK'
    <3>1. pc' \in PC
      BY <2>3 DEF TypeOK, PC
    <3>2. cur' \in Trans \cup {Settling}
      BY <2>4, <2>6 DEF TypeOK, Trans, Code, TipBits
    <3>3. left' \in Nat
      BY <2>3 DEF TypeOK
    <3> QED BY <3>1, <3>2, <3>3, <2>1 DEF TypeOK
  <2>9. CurFits'
    BY <2>1, <2>3, <2>4, <2>5, <2>6 DEF CurFits, Pending, InHand, IsSale, Sending, Offline,
       TipBits, VoidIsOffline
  <2>10. Covers'
    BY <2>1, <2>3 DEF Covers, HasRow, FileFits, LineFits
  <2>11. FileFits'
    BY <2>1, <2>3, <2>5 DEF FileFits, HasRow, InHand
  <2>12. LineFits'
    BY <2>1, <2>3 DEF LineFits, FirstMessage, IsoCode, FileFits
  <2>13. Matches'
    BY <2>1, <2>3, <2>7 DEF Matches
  <2>14. Unsent'
    BY <2>1, <2>3 DEF Unsent, Answered, FileFits, LineFits
  <2>15. RowFits' /\ BookedFits' /\ Heard' /\ TakenTwiceOnlyIfCutOff' /\ WastedOnlyIfUnheard'
    BY <2>1 DEF RowFits, IsSale, BookedFits, HasRow, Heard, MadeOffline,
       TakenTwiceOnlyIfCutOff, WastedOnlyIfUnheard
  <2> QED BY <2>1, <2>2, <2>3, <2>4, <2>5, <2>6, <2>7, <2>8, <2>9, <2>10, <2>11, <2>12,
     <2>13, <2>14, <2>15 DEF IInv
<1>4. CASE StartOfflineVoid
  <2> USE <1>4
  <2>1. UNCHANGED <<rest, rows, queue, invoiceNum, mustSettle, booked, net, reply, pastEnd,
     again, unheard, harmed, wasted, crashes>>
    BY DEF StartOfflineVoid, Start
  <2>2. \E i \in Invoice : Amendable(i) /\ VoidIsOffline(i) /\ cur' = [inv |-> i, code |->
     "VOID", org |-> rows[i].code, up |-> {1, 2}]
    BY DEF StartOfflineVoid, Start, Transaction
  <2>3. pc = "idle" /\ pc' = "delete" /\ left' = 0
    BY DEF StartOfflineVoid, Start
  <2>4. PICK i \in Invoice : Amendable(i) /\ VoidIsOffline(i) /\ cur' = [inv |-> i, code |->
     "VOID", org |-> rows[i].code, up |-> {1, 2}]
    BY <2>2
  <2>5. cur'.inv = i /\ cur'.code = "VOID" /\ cur'.org = rows[i].code /\ cur'.up = {1, 2} /\
     cur' # Settling
    BY <2>4 DEF Settling
  <2>6. rows[i].code \in {"SALE", "SALE_OFFLINE"} /\ rows[i] # NoRow
    BY <2>4 DEF Amendable, NoRow
  <2>7. \A j : Held(j)' = Held(j)
    BY <2>1 DEF Held
  <2>8. TypeOK'
    <3>1. pc' \in PC
      BY <2>3 DEF TypeOK, PC
    <3>2. cur' \in Trans \cup {Settling}
      BY <2>4, <2>6 DEF TypeOK, Trans, Code, TipBits
    <3>3. left' \in Nat
      BY <2>3 DEF TypeOK
    <3> QED BY <3>1, <3>2, <3>3, <2>1 DEF TypeOK
  <2>9. CurFits'
    BY <2>1, <2>3, <2>4, <2>5, <2>6 DEF CurFits, Pending, InHand, IsSale, Sending, Offline,
       TipBits, VoidIsOffline
  <2>10. Covers'
    BY <2>1, <2>3 DEF Covers, HasRow, FileFits, LineFits
  <2>11. FileFits'
    BY <2>1, <2>3, <2>5 DEF FileFits, HasRow, InHand
  <2>12. LineFits'
    BY <2>1, <2>3 DEF LineFits, FirstMessage, IsoCode, FileFits
  <2>13. Matches'
    BY <2>1, <2>3, <2>7 DEF Matches
  <2>14. Unsent'
    BY <2>1, <2>3 DEF Unsent, Answered, FileFits, LineFits
  <2>15. RowFits' /\ BookedFits' /\ Heard' /\ TakenTwiceOnlyIfCutOff' /\ WastedOnlyIfUnheard'
    BY <2>1 DEF RowFits, IsSale, BookedFits, HasRow, Heard, MadeOffline,
       TakenTwiceOnlyIfCutOff, WastedOnlyIfUnheard
  <2> QED BY <2>1, <2>2, <2>3, <2>4, <2>5, <2>6, <2>7, <2>8, <2>9, <2>10, <2>11, <2>12,
     <2>13, <2>14, <2>15 DEF IInv
<1>5. CASE OnlineVoid
  <2> USE <1>5
  <2>1. UNCHANGED <<rest, rows, queue, invoiceNum, mustSettle, booked, net, reply, pastEnd,
     again, unheard, harmed, wasted, crashes>>
    BY DEF OnlineVoid, Start
  <2>2. \E i \in Invoice : Amendable(i) /\ ~VoidIsOffline(i) /\ cur' = [inv |-> i, code |->
     "VOID", org |-> rows[i].code, up |-> {}]
    BY DEF OnlineVoid, Start, Transaction
  <2>3. pc = "idle" /\ pc' = "head" /\ left' = 1
    BY DEF OnlineVoid, Start
  <2>4. PICK i \in Invoice : Amendable(i) /\ ~VoidIsOffline(i) /\ cur' = [inv |-> i, code |->
     "VOID", org |-> rows[i].code, up |-> {}]
    BY <2>2
  <2>5. cur'.inv = i /\ cur'.code = "VOID" /\ cur'.org = rows[i].code /\ cur'.up = {} /\ cur'
     # Settling
    BY <2>4 DEF Settling
  <2>6. rows[i].code \in {"SALE", "SALE_OFFLINE"} /\ rows[i] # NoRow
    BY <2>4 DEF Amendable, NoRow
  <2>7. \A j : Held(j)' = Held(j)
    BY <2>1 DEF Held
  <2>8. TypeOK'
    <3>1. pc' \in PC
      BY <2>3 DEF TypeOK, PC
    <3>2. cur' \in Trans \cup {Settling}
      BY <2>4, <2>6 DEF TypeOK, Trans, Code, TipBits
    <3>3. left' \in Nat
      BY <2>3 DEF TypeOK
    <3> QED BY <3>1, <3>2, <3>3, <2>1 DEF TypeOK
  <2>9. CurFits'
    BY <2>1, <2>3, <2>4, <2>5, <2>6 DEF CurFits, Pending, InHand, IsSale, Sending, Offline,
       TipBits, VoidIsOffline
  <2>10. Covers'
    BY <2>1, <2>3 DEF Covers, HasRow, FileFits, LineFits
  <2>11. FileFits'
    BY <2>1, <2>3, <2>5 DEF FileFits, HasRow, InHand
  <2>12. LineFits'
    BY <2>1, <2>3 DEF LineFits, FirstMessage, IsoCode, FileFits
  <2>13. Matches'
    BY <2>1, <2>3, <2>7 DEF Matches
  <2>14. Unsent'
    BY <2>1, <2>3 DEF Unsent, Answered, FileFits, LineFits
  <2>15. RowFits' /\ BookedFits' /\ Heard' /\ TakenTwiceOnlyIfCutOff' /\ WastedOnlyIfUnheard'
    BY <2>1 DEF RowFits, IsSale, BookedFits, HasRow, Heard, MadeOffline,
       TakenTwiceOnlyIfCutOff, WastedOnlyIfUnheard
  <2> QED BY <2>1, <2>2, <2>3, <2>4, <2>5, <2>6, <2>7, <2>8, <2>9, <2>10, <2>11, <2>12,
     <2>13, <2>14, <2>15 DEF IInv
<1>6. CASE StartSettle
  <2> USE <1>6
  <2>1. UNCHANGED <<rest, rows, queue, invoiceNum, booked, net, reply, pastEnd, again,
     unheard, harmed, wasted, crashes>>
    BY DEF StartSettle
  <2>2. pc = "idle" /\ pc' = "head" /\ mustSettle' /\ cur' = Settling /\ left' = Len(queue)
    BY DEF StartSettle
  <2>3. \A i : Held(i)' = Held(i)
    BY <2>1 DEF Held
  <2>4. TypeOK'
    <3>1. pc' \in PC
      BY DEF TypeOK, PC, StartSettle
    <3>2. cur' \in Trans \cup {Settling}
      BY DEF TypeOK, StartSettle
    <3>3. left' \in Nat
      BY <2>2 DEF TypeOK
    <3>4. mustSettle' \in BOOLEAN
      BY DEF TypeOK, StartSettle
    <3> QED BY <3>1, <3>2, <3>3, <3>4, <2>1 DEF TypeOK
  <2>5. CurFits'
    BY <2>2 DEF CurFits, Pending, InHand, IsSale, Sending, Offline, TipBits, VoidIsOffline
  <2>6. Covers'
    BY <2>1, <2>2 DEF Covers, HasRow, LineFits, FileFits
  <2>7. FileFits'
    BY <2>1, <2>2 DEF FileFits, HasRow, InHand, LineFits, Covers
  <2>8. LineFits'
    BY <2>1, <2>2 DEF LineFits, FirstMessage, IsoCode, FileFits, Covers
  <2>9. Matches'
    BY <2>1, <2>2, <2>3 DEF Matches
  <2>10. Unsent'
    BY <2>1, <2>2 DEF Unsent, Answered, LineFits, FileFits, Covers
  <2>11. RowFits' /\ BookedFits' /\ Heard' /\ TakenTwiceOnlyIfCutOff' /\ WastedOnlyIfUnheard'
    BY <2>1 DEF RowFits, IsSale, BookedFits, HasRow, Heard, MadeOffline,
       TakenTwiceOnlyIfCutOff, WastedOnlyIfUnheard
  <2> QED BY <2>1, <2>2, <2>3, <2>4, <2>5, <2>6, <2>7, <2>8, <2>9, <2>10, <2>11 DEF IInv
<1> QED BY <1>1, <1>2, <1>3, <1>4, <1>5, <1>6 DEF Begin

\* Changing the advice file for a transaction keeps the invariant.
LEMMA FileStep ==
  ASSUME TypeOK, CurFits, RowFits, Covers, FileFits, LineFits,
         Matches, BookedFits, Heard, Unsent, TakenTwiceOnlyIfCutOff, WastedOnlyIfUnheard,
         File
  PROVE  IInv'
<1> USE AdviceAssumption DEF AdviceAssumption, Invoice, Garbage, disk, ram, line, hist
<1>1. CASE SaveAppend
  <2> USE <1>1
  <2>1. UNCHANGED <<cur, left, rest, rows, invoiceNum, mustSettle, booked, net, reply,
     pastEnd, again, unheard, harmed, wasted, crashes>>
    BY DEF SaveAppend, Goto
  <2>2. cur \in Trans /\ cur.inv \in Invoice /\ Pending
    BY DEF SaveAppend, Goto, CurFits, TypeOK, Pending, InHand, Offline
  <2>3. net = None /\ reply = "none"
    BY DEF SaveAppend, Goto, LineFits, TypeOK
  <2>4. pc = "append" /\ pc' = "insert" /\ queue' = Append(queue, cur.inv) /\ queue \in
     Seq(Entry) /\ cur.inv \in Entry
    BY <2>2 DEF SaveAppend, Goto, TypeOK, Entry
  <2>5. \A i : Held(i)' = IF i = cur.inv THEN Held(i) + 1 ELSE Held(i)
    <3> TAKE i
    <3>1. Count(queue', i) = IF i = cur.inv THEN Count(queue, i) + 1 ELSE Count(queue, i)
      BY <2>4, CountAppend
    <3>2. Count(queue, i) \in Nat /\ Count(rest, i) \in Nat
      BY <2>4, CountType DEF TypeOK, Entry
    <3> QED BY <2>1, <3>1, <3>2 DEF Held
  <2>6. queue' \in Seq(Entry) /\ rest = <<>>
    BY <2>4, AppendProperties DEF FileFits
  <2>7. Owing(cur.code, cur.up) = Owing(rows[cur.inv].code, rows[cur.inv].up) + 1
    <3>1. CASE cur.code = "SALE_OFFLINE"
      <4>1. rows[cur.inv] = NoRow /\ cur.up = {1}
        BY <2>2, <3>1 DEF CurFits, IsSale
      <4> QED BY <3>1, <4>1, OwingValues DEF NoRow
    <3>2. CASE cur.code = "TIP"
      <4>1. cur.up = TipBits(cur.inv) /\ IsSale(rows[cur.inv].code)
        BY <2>2, <3>2 DEF CurFits, IsSale
      <4>2. rows[cur.inv].up = {} \/ rows[cur.inv].up = {1}
        BY <2>2, <4>1 DEF RowFits, IsSale
      <4>3. CASE rows[cur.inv].up = {}
        <5>1. cur.up = {2}
          BY <4>1, <4>3 DEF TipBits
        <5> QED BY <3>2, <4>1, <4>3, <5>1, OwingValues DEF IsSale
      <4>4. CASE rows[cur.inv].up = {1}
        <5>1. cur.up = {1, 2}
          BY <4>1, <4>4 DEF TipBits
        <5> QED BY <3>2, <4>1, <4>4, <5>1, OwingValues DEF IsSale
      <4> QED BY <4>2, <4>3, <4>4
    <3> QED BY <2>2, <2>4, <3>1, <3>2 DEF CurFits
  <2>8. TypeOK'
    <3>1. pc' \in PC
      BY <2>4 DEF TypeOK, PC
    <3>2. queue' \in Seq(Invoice \cup {Garbage})
      BY <2>6 DEF TypeOK, Entry
    <3> QED BY <3>1, <3>2, <2>1 DEF TypeOK
  <2>9. CurFits'
    BY <2>1, <2>4 DEF CurFits, Pending, InHand, IsSale, Sending, Offline, TipBits, VoidIsOffline
  <2>10. Covers'
    BY <2>1, <2>4 DEF Covers, HasRow
  <2>11. FileFits'
    BY <2>1, <2>4, <2>6 DEF FileFits, HasRow, InHand
  <2>12. LineFits'
    BY <2>1, <2>3, <2>4 DEF LineFits, FirstMessage, IsoCode
  <2>13. Matches'
    BY <2>1, <2>4, <2>5, <2>7 DEF Matches
  <2>14. Unsent'
    BY <2>1, <2>3, <2>4 DEF Unsent, Answered
  <2>15. RowFits' /\ BookedFits' /\ Heard' /\ TakenTwiceOnlyIfCutOff' /\ WastedOnlyIfUnheard'
    BY <2>1 DEF RowFits, IsSale, BookedFits, HasRow, Heard, MadeOffline,
       TakenTwiceOnlyIfCutOff, WastedOnlyIfUnheard
  <2> QED BY <2>1, <2>2, <2>3, <2>4, <2>5, <2>6, <2>7, <2>8, <2>9, <2>10, <2>11, <2>12,
     <2>13, <2>14, <2>15 DEF IInv
<1>2. CASE DeleteOnly
  <2> USE <1>2
  <2>1. UNCHANGED <<cur, left, rest, rows, invoiceNum, mustSettle, booked, net, reply,
     pastEnd, again, unheard, crashes>>
    BY DEF DeleteOnly, Goto
  <2>2. cur \in Trans /\ cur.inv \in Invoice /\ Pending
    BY DEF DeleteOnly, Goto, CurFits, TypeOK, Pending, InHand, Offline
  <2>3. net = None /\ reply = "none"
    BY DEF DeleteOnly, Goto, LineFits, TypeOK
  <2>4. pc = "delete" /\ cur.code = "VOID" /\ cur.up = {1, 2} /\ rows[cur.inv].code =
     "SALE_OFFLINE" /\ rows[cur.inv].up = {1}
    BY <2>2 DEF DeleteOnly, Goto, CurFits, RowFits, VoidIsOffline, Offline
  <2>5. cur.inv \notin unheard \cup harmed => \A m \in booked : m.inv # cur.inv
    <3> SUFFICES ASSUME cur.inv \notin unheard \cup harmed, NEW m \in booked, m.inv = cur.inv
                 PROVE  FALSE
      OBVIOUS
    <3>1. m = [inv |-> cur.inv, iso |-> m.iso] /\ m.iso \in {"ADVICE", "TIP", "VOID"}
      BY DEF TypeOK, Message
    <3>2. m.iso = "ADVICE"
      BY <2>4, <3>1 DEF BookedFits
    <3> QED BY <2>2, <2>3, <2>4, <3>1, <3>2 DEF Unsent, Answered
  <2>6. queue' = <<>> /\ rest = <<>> /\ queue \in Seq(Entry) /\ Len(queue) = 1 /\ pc' = "insert"
    BY <2>4 DEF DeleteOnly, Goto, FileFits, TypeOK, Entry
  <2>7. harmed' = harmed \cup ((Elements(queue) \ {cur.inv}) \cap Invoice)
    BY DEF DeleteOnly
  <2>8. wasted' = IF \E m \in booked : m.inv = cur.inv THEN wasted \cup {cur.inv} ELSE wasted
    BY DEF DeleteOnly
  <2>9. \A i : Held(i)' = 0
    BY <2>1, <2>6, CountEmpty DEF Held
  <2>10. \A i \in Invoice \ harmed' : i # cur.inv => Held(i) = 0
    <3> SUFFICES ASSUME NEW i \in Invoice \ harmed', i # cur.inv PROVE Held(i) = 0
      OBVIOUS
    <3>1. i \notin Elements(queue)
      BY <2>7
    <3>2. Count(queue, i) = 0
      BY <2>6, <3>1, CountElements, CountType
    <3> QED BY <2>6, <3>2, CountEmpty DEF Held
  <2>11. Owing(rows[cur.inv].code, rows[cur.inv].up) = 1 /\ Owing(cur.code, cur.up) = 0
    BY <2>4, OwingValues
  <2>12. TypeOK'
    <3>1. pc' \in PC
      BY <2>6 DEF TypeOK, PC
    <3>2. queue' \in Seq(Invoice \cup {Garbage})
      BY <2>6 DEF TypeOK
    <3>3. harmed' \subseteq Invoice
      BY <2>7 DEF TypeOK
    <3>4. wasted' \subseteq Invoice
      BY <2>2, <2>8 DEF TypeOK
    <3> QED BY <3>1, <3>2, <3>3, <3>4, <2>1 DEF TypeOK
  <2>13. CurFits'
    BY <2>1, <2>4, <2>6 DEF CurFits, Pending, InHand, IsSale, Sending, Offline, TipBits,
       VoidIsOffline
  <2>14. Covers'
    BY <2>1, <2>4, <2>6 DEF Covers, HasRow
  <2>15. FileFits'
    BY <2>1, <2>4, <2>6 DEF FileFits, HasRow, InHand
  <2>16. LineFits'
    BY <2>1, <2>3, <2>6 DEF LineFits, FirstMessage, IsoCode
  <2>17. Matches'
    BY <2>1, <2>2, <2>4, <2>6, <2>7, <2>9, <2>10, <2>11 DEF Matches
  <2>18. Unsent'
    BY <2>1, <2>3, <2>4, <2>6, <2>7 DEF Unsent, Answered
  <2>19. TakenTwiceOnlyIfCutOff'
    BY <2>1, <2>7 DEF TakenTwiceOnlyIfCutOff
  <2>20. WastedOnlyIfUnheard'
    BY <2>1, <2>5, <2>7, <2>8 DEF WastedOnlyIfUnheard
  <2>21. RowFits' /\ BookedFits' /\ Heard'
    BY <2>1 DEF RowFits, IsSale, BookedFits, HasRow, Heard, MadeOffline
  <2> QED BY <2>1, <2>2, <2>3, <2>4, <2>5, <2>6, <2>7, <2>8, <2>9, <2>10, <2>11, <2>12,
     <2>13, <2>14, <2>15, <2>16, <2>17, <2>18, <2>19, <2>20, <2>21 DEF IInv
<1>3. CASE DeleteOne
  <2> USE <1>3
  <2>1. UNCHANGED <<cur, left, rows, invoiceNum, mustSettle, booked, net, reply, pastEnd,
     again, unheard, harmed, crashes>>
    BY DEF DeleteOne, Goto
  <2>2. cur \in Trans /\ cur.inv \in Invoice /\ Pending
    BY DEF DeleteOne, Goto, CurFits, TypeOK, Pending, InHand, Offline
  <2>3. net = None /\ reply = "none"
    BY DEF DeleteOne, Goto, LineFits, TypeOK
  <2>4. pc = "delete" /\ cur.code = "VOID" /\ cur.up = {1, 2} /\ rows[cur.inv].code =
     "SALE_OFFLINE" /\ rows[cur.inv].up = {1}
    BY <2>2 DEF DeleteOne, Goto, CurFits, RowFits, VoidIsOffline, Offline
  <2>5. cur.inv \notin unheard \cup harmed => \A m \in booked : m.inv # cur.inv
    <3> SUFFICES ASSUME cur.inv \notin unheard \cup harmed, NEW m \in booked, m.inv = cur.inv
                 PROVE  FALSE
      OBVIOUS
    <3>1. m = [inv |-> cur.inv, iso |-> m.iso] /\ m.iso \in {"ADVICE", "TIP", "VOID"}
      BY DEF TypeOK, Message
    <3>2. m.iso = "ADVICE"
      BY <2>4, <3>1 DEF BookedFits
    <3> QED BY <2>2, <2>3, <2>4, <3>1, <3>2 DEF Unsent, Answered
  <2>6. queue' = <<>> /\ rest = <<>> /\ queue \in Seq(Entry) /\ pc' = "rename"
    BY <2>4 DEF DeleteOne, Goto, FileFits, TypeOK, Entry
  <2>7. rest' = IF Index > Len(queue) THEN Append(queue, Garbage) ELSE Without(queue, Index)
    BY DEF DeleteOne
  <2>8. wasted' = IF \E m \in booked : m.inv = cur.inv THEN wasted \cup {cur.inv} ELSE wasted
    BY DEF DeleteOne
  <2>9. rest' \in Seq(Entry)
    <3>1. CASE Index > Len(queue)
      BY <2>6, <2>7, <3>1, AppendProperties DEF Entry
    <3>2. CASE ~(Index > Len(queue))
      <4>1. Index \in 1 .. Len(queue)
        BY <2>6, <3>2, IndexFound
      <4> QED BY <2>6, <2>7, <3>2, <4>1, CountWithout
    <3> QED BY <3>1, <3>2
  <2>10. \A i : Held(i) = Count(queue, i) /\ Held(i)' = Count(rest', i) /\ Count(queue, i)
     \in Nat
    <3> TAKE i
    <3>1. Count(queue, i) \in Nat
      BY <2>6, CountType
    <3>2. Count(rest', i) \in Nat
      BY <2>9, CountType
    <3> QED BY <2>6, <3>1, <3>2, CountEmpty DEF Held
  <2>11. \A i \in Invoice : i # cur.inv => Count(rest', i) = Count(queue, i)
    <3> SUFFICES ASSUME NEW i \in Invoice, i # cur.inv PROVE Count(rest', i) = Count(queue, i)
      OBVIOUS
    <3>1. CASE Index > Len(queue)
      <4>1. Garbage \in Entry /\ Garbage # i
        BY DEF Entry
      <4> QED BY <2>6, <2>7, <3>1, <4>1, CountAppend
    <3>2. CASE ~(Index > Len(queue))
      <4>1. Index \in 1 .. Len(queue) /\ queue[Index] # i
        BY <2>6, <3>2, IndexFound
      <4> QED BY <2>6, <2>7, <3>2, <4>1, CountWithout
    <3> QED BY <3>1, <3>2
  <2>12. Owing(rows[cur.inv].code, rows[cur.inv].up) = 1 /\ Owing(cur.code, cur.up) = 0
    BY <2>4, OwingValues
  <2>13. cur.inv \notin harmed => Count(rest', cur.inv) = 0
    <3> SUFFICES ASSUME cur.inv \notin harmed PROVE Count(rest', cur.inv) = 0
      OBVIOUS
    <3>1. Count(queue, cur.inv) = 1
      BY <2>2, <2>4, <2>10, <2>12 DEF Matches
    <3>2. Index \in 1 .. Len(queue) /\ queue[Index] = cur.inv /\ ~(Index > Len(queue))
      BY <2>6, <3>1, IndexFound
    <3>3. Count(queue, cur.inv) = Count(Without(queue, Index), cur.inv) + 1
          /\ Count(Without(queue, Index), cur.inv) \in Nat
      BY <2>6, <3>2, CountWithout
    <3> QED BY <2>7, <3>1, <3>2, <3>3
  <2>14. TypeOK'
    <3>1. pc' \in PC
      BY <2>6 DEF TypeOK, PC
    <3>2. rest' \in Seq(Invoice \cup {Garbage})
      BY <2>9 DEF TypeOK, Entry
    <3>3. queue' \in Seq(Invoice \cup {Garbage})
      BY <2>6 DEF TypeOK
    <3>4. wasted' \subseteq Invoice
      BY <2>2, <2>8 DEF TypeOK
    <3> QED BY <3>1, <3>2, <3>3, <3>4, <2>1 DEF TypeOK
  <2>15. CurFits'
    BY <2>1, <2>4, <2>6 DEF CurFits, Pending, InHand, IsSale, Sending, Offline, TipBits,
       VoidIsOffline
  <2>16. Covers'
    BY <2>1, <2>4, <2>6 DEF Covers, HasRow
  <2>17. FileFits'
    BY <2>1, <2>4, <2>6 DEF FileFits, HasRow, InHand
  <2>18. LineFits'
    BY <2>1, <2>3, <2>6 DEF LineFits, FirstMessage, IsoCode
  <2>19. Matches'
    BY <2>1, <2>2, <2>4, <2>6, <2>10, <2>11, <2>12, <2>13 DEF Matches
  <2>20. Unsent'
    BY <2>1, <2>3, <2>4, <2>6 DEF Unsent, Answered
  <2>21. WastedOnlyIfUnheard'
    BY <2>1, <2>5, <2>8 DEF WastedOnlyIfUnheard
  <2>22. RowFits' /\ BookedFits' /\ Heard' /\ TakenTwiceOnlyIfCutOff'
    BY <2>1 DEF RowFits, IsSale, BookedFits, HasRow, Heard, MadeOffline, TakenTwiceOnlyIfCutOff
  <2> QED BY <2>1, <2>2, <2>3, <2>4, <2>5, <2>6, <2>7, <2>8, <2>9, <2>10, <2>11, <2>12,
     <2>13, <2>14, <2>15, <2>16, <2>17, <2>18, <2>19, <2>20, <2>21, <2>22 DEF IInv
<1>4. CASE RenameBackup
  <2> USE <1>4
  <2>1. UNCHANGED <<cur, left, rows, invoiceNum, mustSettle, booked, net, reply, pastEnd,
     again, unheard, harmed, wasted, crashes>>
    BY DEF RenameBackup, Goto
  <2>2. cur \in Trans /\ cur.inv \in Invoice /\ Pending
    BY DEF RenameBackup, Goto, CurFits, TypeOK, Pending, InHand, Offline
  <2>3. net = None /\ reply = "none"
    BY DEF RenameBackup, Goto, LineFits, TypeOK
  <2>4. pc = "rename" /\ pc' = "insert" /\ queue = <<>> /\ queue' = rest /\ rest' = <<>>
    BY DEF RenameBackup, Goto, FileFits
  <2>5. \A i : Held(i)' = Held(i)
    <3> TAKE i
    <3>1. Count(rest, i) \in Nat
      BY CountType DEF TypeOK
    <3> QED BY <2>4, <3>1, CountEmpty DEF Held
  <2>6. TypeOK'
    <3>1. pc' \in PC
      BY <2>4 DEF TypeOK, PC
    <3>2. rest' \in Seq(Invoice \cup {Garbage})
      BY <2>4 DEF TypeOK
    <3>3. queue' \in Seq(Invoice \cup {Garbage})
      BY <2>4 DEF TypeOK
    <3> QED BY <3>1, <3>2, <3>3, <2>1 DEF TypeOK
  <2>7. CurFits'
    BY <2>1, <2>4 DEF CurFits, Pending, InHand, IsSale, Sending, Offline, TipBits, VoidIsOffline
  <2>8. Covers'
    BY <2>1, <2>4 DEF Covers, HasRow
  <2>9. FileFits'
    BY <2>1, <2>4 DEF FileFits, HasRow, InHand
  <2>10. LineFits'
    BY <2>1, <2>3, <2>4 DEF LineFits, FirstMessage, IsoCode
  <2>11. Matches'
    BY <2>1, <2>4, <2>5 DEF Matches
  <2>12. Unsent'
    BY <2>1, <2>3, <2>4 DEF Unsent, Answered
  <2>13. RowFits' /\ BookedFits' /\ Heard' /\ TakenTwiceOnlyIfCutOff' /\ WastedOnlyIfUnheard'
    BY <2>1 DEF RowFits, IsSale, BookedFits, HasRow, Heard, MadeOffline,
       TakenTwiceOnlyIfCutOff, WastedOnlyIfUnheard
  <2> QED BY <2>1, <2>2, <2>3, <2>4, <2>5, <2>6, <2>7, <2>8, <2>9, <2>10, <2>11, <2>12, <2>13
     DEF IInv
<1>5. CASE DeleteFails
  <2> USE <1>5
  <2>1. UNCHANGED <<cur, left, rest, rows, queue, invoiceNum, mustSettle, booked, net, reply,
     pastEnd, again, unheard, harmed, wasted, crashes>>
    BY DEF DeleteFails, Goto
  <2>2. pc = "delete" /\ pc' = "locked"
    BY DEF DeleteFails, Goto
  <2>3. \A i : Held(i)' = Held(i)
    BY <2>1 DEF Held
  <2>4. TypeOK'
    <3>1. pc' \in PC
      BY DEF TypeOK, PC, DeleteFails, Goto
    <3> QED BY <3>1, <2>1 DEF TypeOK
  <2>5. CurFits'
    BY <2>1, <2>2 DEF CurFits, Pending, InHand, IsSale, Sending, Offline, TipBits,
       VoidIsOffline, Covers, FileFits, LineFits, Unsent
  <2>6. Covers'
    BY <2>1, <2>2 DEF Covers, HasRow, CurFits, FileFits, LineFits, Unsent
  <2>7. FileFits'
    BY <2>1, <2>2 DEF FileFits, HasRow, InHand, CurFits, Covers, LineFits, Unsent
  <2>8. LineFits'
    BY <2>1, <2>2 DEF LineFits, FirstMessage, IsoCode, CurFits, Covers, FileFits, Unsent
  <2>9. Matches'
    BY <2>1, <2>2, <2>3 DEF Matches
  <2>10. Unsent'
    BY <2>1, <2>2 DEF Unsent, Answered, CurFits, Covers, FileFits, LineFits
  <2>11. RowFits' /\ BookedFits' /\ Heard' /\ TakenTwiceOnlyIfCutOff' /\ WastedOnlyIfUnheard'
    BY <2>1 DEF RowFits, IsSale, BookedFits, HasRow, Heard, MadeOffline,
       TakenTwiceOnlyIfCutOff, WastedOnlyIfUnheard
  <2> QED BY <2>1, <2>2, <2>3, <2>4, <2>5, <2>6, <2>7, <2>8, <2>9, <2>10, <2>11 DEF IInv
<1> QED BY <1>1, <1>2, <1>3, <1>4, <1>5 DEF File

\* Booking keeps the invariant.
LEMMA BookStep ==
  ASSUME TypeOK, CurFits, RowFits, Covers, FileFits, LineFits,
         Matches, BookedFits, Heard, Unsent, TakenTwiceOnlyIfCutOff, WastedOnlyIfUnheard,
         Book
  PROVE  IInv'
<1> USE AdviceAssumption DEF AdviceAssumption, Invoice, Garbage, disk, ram, line, hist
<1>1. CASE InsertRow
  <2> USE <1>1
  <2>1. UNCHANGED <<cur, left, rest, queue, invoiceNum, mustSettle, booked, net, reply,
     pastEnd, again, unheard, harmed, wasted, crashes>>
    BY DEF InsertRow
  <2>2. cur \in Trans /\ cur.inv \in Invoice /\ Pending
    BY DEF InsertRow, CurFits, TypeOK, Pending, InHand, Offline
  <2>3. net = None /\ reply = "none"
    BY DEF InsertRow, LineFits, TypeOK
  <2>4. rows' = [rows EXCEPT ![cur.inv] = [code |-> cur.code, org |-> cur.org, up |-> cur.up]]
    BY DEF InsertRow
  <2>5. pc = "insert" /\ pc' = IF IsSale(cur.code) THEN "saveInv" ELSE "idle"
    BY DEF InsertRow, IsSale
  <2>6. \A i \in Invoice : i # cur.inv => rows'[i] = rows[i]
    BY <2>4 DEF TypeOK
  <2>7. rows'[cur.inv].code = cur.code /\ rows'[cur.inv].org = cur.org /\ rows'[cur.inv].up =
     cur.up
    BY <2>2, <2>4 DEF TypeOK
  <2>8. cur.code \in Code /\ cur.up \subseteq {1, 2} /\ rows'[cur.inv] # NoRow
    BY <2>2, <2>7 DEF Trans, Code, NoRow
  <2>9. rows[cur.inv] = NoRow \/ IsSale(rows[cur.inv].code)
    BY <2>2 DEF CurFits
  <2>10. cur.code = "TIP" => IsSale(rows[cur.inv].code) /\ cur.org = rows[cur.inv].code /\
     cur.up = (rows[cur.inv].up \cap {1}) \cup {2}
    BY <2>2 DEF CurFits, IsSale, TipBits
  <2>11. IsSale(cur.code) => cur.org = "none" /\ rows[cur.inv] = NoRow
    BY <2>2 DEF CurFits, NoRow, IsSale
  <2>12. \A m \in booked : m.inv = cur.inv => m.iso = "ADVICE" /\ ~IsSale(cur.code)
    BY <2>2, <2>9, <2>11 DEF BookedFits, HasRow, IsSale, TypeOK, Message
  <2>13. \A i : Held(i)' = Held(i)
    BY <2>1 DEF Held
  <2>14. TypeOK'
    <3>1. pc' \in PC
      BY <2>5 DEF TypeOK, PC
    <3>2. rows' \in [Invoice -> [code : Code, org : Code \cup {"none"}, up : SUBSET {1, 2}]
       \cup {NoRow}]
      BY <2>2, <2>4 DEF TypeOK, Trans
    <3> QED BY <3>1, <3>2, <2>1 DEF TypeOK
  <2>15. CurFits'
    BY <2>1, <2>2, <2>5 DEF CurFits, Pending, InHand, IsSale, Sending, Offline, TipBits,
       VoidIsOffline
  <2>16. RowFits'
    BY <2>2, <2>6, <2>7, <2>10, <2>11 DEF RowFits, IsSale, CurFits, Code
  <2>17. Covers'
    <3>1. IsSale(cur.code) => cur.inv = invoiceNum /\ pc' = "saveInv"
      BY <2>2, <2>5 DEF CurFits
    <3>2. ~IsSale(cur.code) => HasRow(cur.inv)
      BY <2>2 DEF CurFits, IsSale, HasRow, NoRow
    <3>3. \A i \in Invoice : i # cur.inv => (HasRow(i)' <=> HasRow(i))
      BY <2>6 DEF HasRow
    <3> QED BY <2>1, <2>2, <2>5, <3>1, <3>2, <3>3 DEF Covers, IsSale
  <2>18. FileFits'
    BY <2>1, <2>3, <2>5 DEF FileFits, HasRow, InHand
  <2>19. LineFits'
    BY <2>1, <2>3, <2>5 DEF LineFits, FirstMessage, IsoCode
  <2>20. Matches'
    BY <2>1, <2>2, <2>5, <2>6, <2>7, <2>13 DEF Matches
  <2>21. BookedFits'
    BY <2>1, <2>2, <2>6, <2>7, <2>8, <2>12 DEF BookedFits, HasRow, TypeOK, Message
  <2>22. Heard'
    <3> SUFFICES ASSUME NEW i \in Invoice, HasRow(i)', rows'[i].code # "VOID"
                 PROVE  /\ MadeOffline(i)' /\ 1 \notin rows'[i].up =>
                             [inv |-> i, iso |-> "ADVICE"] \in booked
                        /\ rows'[i].code = "TIP" /\ 2 \notin rows'[i].up =>
                             [inv |-> i, iso |-> "TIP"] \in booked
      BY <2>1 DEF Heard
    <3>1. CASE i # cur.inv
      BY <2>6, <3>1 DEF Heard, HasRow, MadeOffline
    <3>2. CASE i = cur.inv /\ cur.code = "TIP"
      <4>1. MadeOffline(i)' => MadeOffline(i)
        BY <2>7, <2>10, <3>2 DEF MadeOffline
      <4>2. HasRow(i) /\ rows[i].code # "VOID" /\ (1 \notin rows'[i].up => 1 \notin rows[i].up)
        BY <2>2, <2>7, <2>10, <3>2 DEF HasRow, IsSale, NoRow
      <4> QED BY <2>7, <2>10, <3>2, <4>1, <4>2 DEF Heard
    <3>3. CASE i = cur.inv /\ cur.code # "TIP"
      <4>1. cur.code \in {"SALE", "SALE_OFFLINE"} /\ cur.org = "none"
        BY <2>7, <2>8, <2>11, <3>3 DEF Code, IsSale
      <4>2. cur.code = "SALE_OFFLINE" => cur.up = {1}
        BY <2>2 DEF CurFits
      <4> QED BY <2>7, <3>3, <4>1, <4>2 DEF MadeOffline
    <3> QED BY <3>1, <3>2, <3>3
  <2>23. Unsent'
    <3> SUFFICES ASSUME NEW i \in Invoice \ (unheard \cup harmed), rows'[i].code # "VOID"
                 PROVE  /\ 1 \in rows'[i].up => [inv |-> i, iso |-> "ADVICE"] \notin booked
                        /\ rows'[i].code = "TIP" /\ 2 \in rows'[i].up =>
                             [inv |-> i, iso |-> "TIP"] \notin booked
      BY <2>1 DEF Unsent
    <3>1. ~Answered(i)
      BY <2>3, <2>5 DEF Answered
    <3>2. CASE i # cur.inv
      BY <2>6, <3>1, <3>2 DEF Unsent
    <3>3. CASE i = cur.inv
      <4>1. [inv |-> i, iso |-> "TIP"] \notin booked
        BY <2>12, <3>3
      <4>2. IsSale(cur.code) => [inv |-> i, iso |-> "ADVICE"] \notin booked
        BY <2>12, <3>3
      <4>3. cur.code = "TIP" /\ 1 \in cur.up => [inv |-> i, iso |-> "ADVICE"] \notin booked
        <5>1. cur.code = "TIP" /\ 1 \in cur.up => rows[i].code # "VOID" /\ 1 \in rows[i].up
          BY <2>10, <3>3 DEF IsSale
        <5> QED BY <3>1, <5>1 DEF Unsent
      <4> QED BY <2>7, <2>8, <3>3, <4>1, <4>2, <4>3 DEF Code, IsSale
    <3> QED BY <3>2, <3>3
  <2>24. TakenTwiceOnlyIfCutOff' /\ WastedOnlyIfUnheard'
    BY <2>1 DEF TakenTwiceOnlyIfCutOff, WastedOnlyIfUnheard
  <2> QED BY <2>1, <2>2, <2>3, <2>4, <2>5, <2>6, <2>7, <2>8, <2>9, <2>10, <2>11, <2>12,
     <2>13, <2>14, <2>15, <2>16, <2>17, <2>18, <2>19, <2>20, <2>21, <2>22, <2>23, <2>24 DEF IInv
<1>2. CASE SaveInvoice
  <2> USE <1>2
  <2>1. UNCHANGED <<cur, left, rest, rows, queue, mustSettle, booked, net, reply, pastEnd,
     again, unheard, harmed, wasted, crashes>>
    BY DEF SaveInvoice, Goto
  <2>2. pc = "saveInv" /\ pc' = "idle" /\ invoiceNum' = invoiceNum + 1 /\ invoiceNum \in Nat
    BY DEF SaveInvoice, Goto, TypeOK
  <2>3. \A i : Held(i)' = Held(i)
    BY <2>1 DEF Held
  <2>4. TypeOK'
    <3>1. pc' \in PC
      BY DEF TypeOK, PC, SaveInvoice, Goto
    <3>2. invoiceNum' \in Nat
      BY DEF TypeOK, SaveInvoice, Goto
    <3> QED BY <3>1, <3>2, <2>1 DEF TypeOK
  <2>5. CurFits'
    BY <2>1, <2>2 DEF CurFits, Pending, InHand, IsSale, Sending, Offline, TipBits,
       VoidIsOffline, FileFits, LineFits
  <2>6. Covers'
    BY <2>1, <2>2 DEF Covers, HasRow
  <2>7. FileFits'
    BY <2>1, <2>2 DEF FileFits, HasRow, InHand, LineFits
  <2>8. LineFits'
    BY <2>1, <2>2 DEF LineFits, FirstMessage, IsoCode, FileFits
  <2>9. Matches'
    BY <2>1, <2>2, <2>3 DEF Matches
  <2>10. Unsent'
    BY <2>1, <2>2 DEF Unsent, Answered, FileFits, LineFits
  <2>11. RowFits' /\ BookedFits' /\ Heard' /\ TakenTwiceOnlyIfCutOff' /\ WastedOnlyIfUnheard'
    BY <2>1 DEF RowFits, IsSale, BookedFits, HasRow, Heard, MadeOffline,
       TakenTwiceOnlyIfCutOff, WastedOnlyIfUnheard
  <2> QED BY <2>1, <2>2, <2>3, <2>4, <2>5, <2>6, <2>7, <2>8, <2>9, <2>10, <2>11 DEF IInv
<1> QED BY <1>1, <1>2 DEF Book

\* Sending an advice keeps the invariant.
LEMMA SendStep ==
  ASSUME TypeOK, CurFits, RowFits, Covers, FileFits, LineFits,
         Matches, BookedFits, Heard, Unsent, TakenTwiceOnlyIfCutOff, WastedOnlyIfUnheard,
         Send
  PROVE  IInv'
<1> USE AdviceAssumption DEF AdviceAssumption, Invoice, Garbage, disk, ram, line, hist
<1>1. CASE SendHead
  <2> USE <1>1
  <2>1. UNCHANGED <<cur, left, rest, rows, queue, invoiceNum, mustSettle, booked, reply,
     pastEnd, again, unheard, harmed, wasted, crashes>>
    BY DEF SendHead
  <2>2. queue # <<>> /\ queue \in Seq(Entry) /\ Head(queue) \in Invoice /\ HasRow(Head(queue))
    BY DEF SendHead, HasRow, TypeOK, Entry
  <2>3. pc = "head" /\ pc' = "wait" /\ left > 0
    BY DEF SendHead
  <2>4. net' = FirstMessage /\ net = None /\ reply = "none"
    BY <2>3 DEF SendHead, FirstMessage, LineFits, TypeOK
  <2>5. \A i : Held(i)' = Held(i)
    BY <2>1 DEF Held
  <2>6. TypeOK'
    <3>1. pc' \in PC
      BY DEF TypeOK, PC, SendHead
    <3>2. net' \in Message \cup {None}
      BY <2>2, <2>4 DEF TypeOK, FirstMessage, IsoCode, Message
    <3> QED BY <3>1, <3>2, <2>1 DEF TypeOK
  <2>7. CurFits'
    BY <2>1, <2>2, <2>3, <2>4 DEF CurFits, Pending, InHand, IsSale, Sending, Offline,
       TipBits, VoidIsOffline, FileFits
  <2>8. Covers'
    BY <2>1, <2>2, <2>3, <2>4 DEF Covers, HasRow, FileFits
  <2>9. FileFits'
    BY <2>1, <2>2, <2>3, <2>4 DEF FileFits, HasRow, InHand
  <2>10. LineFits'
    BY <2>1, <2>2, <2>3, <2>4 DEF LineFits, FirstMessage, IsoCode
  <2>11. Matches'
    BY <2>1, <2>3, <2>5 DEF Matches
  <2>12. Unsent'
    BY <2>1, <2>2, <2>3, <2>4 DEF Unsent, Answered, FileFits
  <2>13. RowFits' /\ BookedFits' /\ Heard' /\ TakenTwiceOnlyIfCutOff' /\ WastedOnlyIfUnheard'
    BY <2>1 DEF RowFits, IsSale, BookedFits, HasRow, Heard, MadeOffline,
       TakenTwiceOnlyIfCutOff, WastedOnlyIfUnheard
  <2> QED BY <2>1, <2>2, <2>3, <2>4, <2>5, <2>6, <2>7, <2>8, <2>9, <2>10, <2>11, <2>12, <2>13
     DEF IInv
<1>2. CASE NoMoreAdvices
  <2> USE <1>2
  <2>1. UNCHANGED <<cur, left, rest, rows, queue, invoiceNum, mustSettle, booked, net, reply,
     pastEnd, again, unheard, harmed, wasted, crashes>>
    BY DEF NoMoreAdvices, AfterAdvices
  <2>2. pc = "head" /\ (InHand => pc' = "insert") /\ (~InHand => pc' \in {"idle", "close"})
    BY DEF NoMoreAdvices, AfterAdvices, AfterAdvices, InHand
  <2>3. InHand => Pending /\ cur.up = {}
    BY <2>2 DEF CurFits, Pending, Sending
  <2>4. rest = <<>> /\ \A i : Held(i)' = Held(i)
    BY <2>1, <2>2 DEF FileFits, Held
  <2>5. ~InHand => queue = <<>>
    BY <2>2 DEF NoMoreAdvices, FileFits, TypeOK
  <2>6. TypeOK'
    <3>1. pc' \in PC
      BY <2>2 DEF TypeOK, PC
    <3> QED BY <3>1, <2>1 DEF TypeOK
  <2>7. CurFits'
    BY <2>1, <2>2, <2>3 DEF CurFits, Pending, InHand, IsSale, Sending, Offline, TipBits,
       VoidIsOffline
  <2>8. Covers'
    BY <2>1, <2>2 DEF Covers, HasRow
  <2>9. FileFits'
    BY <2>1, <2>2, <2>4, <2>5 DEF FileFits, HasRow, InHand
  <2>10. LineFits'
    BY <2>1, <2>2 DEF LineFits, FirstMessage, IsoCode
  <2>11. Matches'
    <3>1. InHand => cur.inv \in Invoice /\ Owing(rows[cur.inv].code, rows[cur.inv].up) =
       Owing(cur.code, cur.up)
      BY <2>3, OnlineOwesNothing DEF CurFits
    <3> QED BY <2>1, <2>2, <2>4, <3>1 DEF Matches
  <2>12. Unsent'
    BY <2>1, <2>2 DEF Unsent, Answered, LineFits
  <2>13. RowFits' /\ BookedFits' /\ Heard' /\ TakenTwiceOnlyIfCutOff' /\ WastedOnlyIfUnheard'
    BY <2>1 DEF RowFits, IsSale, BookedFits, HasRow, Heard, MadeOffline,
       TakenTwiceOnlyIfCutOff, WastedOnlyIfUnheard
  <2> QED BY <2>1, <2>2, <2>3, <2>4, <2>5, <2>6, <2>7, <2>8, <2>9, <2>10, <2>11, <2>12, <2>13
     DEF IInv
<1>3. CASE HeadHasNoRow
  <2> USE <1>3
  <2>1. UNCHANGED <<cur, left, rest, rows, queue, invoiceNum, mustSettle, booked, net, reply,
     pastEnd, again, unheard, harmed, wasted, crashes>>
    BY DEF HeadHasNoRow, AfterAdvices
  <2>2. pc = "head" /\ (InHand => pc' = "insert") /\ (~InHand => pc' \in {"idle", "close"})
    BY DEF HeadHasNoRow, AfterAdvices, AfterAdvices, InHand
  <2>3. InHand => Pending /\ cur.up = {}
    BY <2>2 DEF CurFits, Pending, Sending
  <2>4. rest = <<>> /\ \A i : Held(i)' = Held(i)
    BY <2>1, <2>2 DEF FileFits, Held
  <2>5. pc' # "close"
    BY <2>2 DEF HeadHasNoRow, AfterAdvices
  <2>6. TypeOK'
    <3>1. pc' \in PC
      BY <2>2 DEF TypeOK, PC
    <3> QED BY <3>1, <2>1 DEF TypeOK
  <2>7. CurFits'
    BY <2>1, <2>2, <2>3 DEF CurFits, Pending, InHand, IsSale, Sending, Offline, TipBits,
       VoidIsOffline
  <2>8. Covers'
    BY <2>1, <2>2 DEF Covers, HasRow
  <2>9. FileFits'
    BY <2>1, <2>2, <2>4, <2>5 DEF FileFits, HasRow, InHand
  <2>10. LineFits'
    BY <2>1, <2>2 DEF LineFits, FirstMessage, IsoCode
  <2>11. Matches'
    <3>1. InHand => cur.inv \in Invoice /\ Owing(rows[cur.inv].code, rows[cur.inv].up) =
       Owing(cur.code, cur.up)
      BY <2>3, OnlineOwesNothing DEF CurFits
    <3> QED BY <2>1, <2>2, <2>4, <3>1 DEF Matches
  <2>12. Unsent'
    BY <2>1, <2>2 DEF Unsent, Answered, LineFits
  <2>13. RowFits' /\ BookedFits' /\ Heard' /\ TakenTwiceOnlyIfCutOff' /\ WastedOnlyIfUnheard'
    BY <2>1 DEF RowFits, IsSale, BookedFits, HasRow, Heard, MadeOffline,
       TakenTwiceOnlyIfCutOff, WastedOnlyIfUnheard
  <2> QED BY <2>1, <2>2, <2>3, <2>4, <2>5, <2>6, <2>7, <2>8, <2>9, <2>10, <2>11, <2>12, <2>13
     DEF IInv
<1>4. CASE Timeout
  <2> USE <1>4
  <2>1. UNCHANGED <<cur, left, rest, rows, queue, invoiceNum, mustSettle, booked, pastEnd,
     again, harmed, wasted, crashes>>
    BY DEF Timeout, AfterAdvices, Taken
  <2>2. pc = "wait" /\ (InHand => pc' = "insert") /\ (~InHand => pc' \in {"idle", "close"})
    BY DEF Timeout, AfterAdvices, Taken, AfterAdvices, InHand
  <2>3. InHand => Pending /\ cur.up = {}
    BY <2>2 DEF CurFits, Pending, Sending
  <2>4. rest = <<>> /\ \A i : Held(i)' = Held(i)
    BY <2>1, <2>2 DEF FileFits, Held
  <2>5. pc' # "close"
    BY <2>2 DEF Timeout, AfterAdvices
  <2>6. queue # <<>> /\ queue \in Seq(Entry) /\ Head(queue) \in Invoice /\ HasRow(Head(queue))
    BY DEF Timeout, AfterAdvices, Taken, FileFits, HasRow, TypeOK, Entry
  <2>7. net' = None /\ reply' = "none" /\ unheard' = unheard \cup (IF reply = "00" THEN
     {Head(queue)} ELSE {})
    BY DEF Timeout, Taken
  <2>8. TypeOK'
    <3>1. pc' \in PC
      BY <2>2 DEF TypeOK, PC
    <3>2. net' \in Message \cup {None}
      BY <2>7 DEF TypeOK
    <3>3. reply' \in {"none", "00", "other"}
      BY <2>7 DEF TypeOK
    <3>4. unheard' \subseteq Invoice
      BY <2>6, <2>7 DEF TypeOK
    <3> QED BY <3>1, <3>2, <3>3, <3>4, <2>1 DEF TypeOK
  <2>9. CurFits'
    BY <2>1, <2>2, <2>3 DEF CurFits, Pending, InHand, IsSale, Sending, Offline, TipBits,
       VoidIsOffline
  <2>10. Covers'
    BY <2>1, <2>2 DEF Covers, HasRow
  <2>11. FileFits'
    BY <2>1, <2>2, <2>4, <2>5 DEF FileFits, HasRow, InHand
  <2>12. LineFits'
    BY <2>2, <2>7 DEF LineFits, FirstMessage, IsoCode
  <2>13. Matches'
    <3>1. InHand => cur.inv \in Invoice /\ Owing(rows[cur.inv].code, rows[cur.inv].up) =
       Owing(cur.code, cur.up)
      BY <2>3, OnlineOwesNothing DEF CurFits
    <3> QED BY <2>1, <2>2, <2>4, <3>1 DEF Matches
  <2>14. Unsent'
    BY <2>1, <2>2, <2>7 DEF Unsent, Answered
  <2>15. TakenTwiceOnlyIfCutOff'
    BY <2>1, <2>7 DEF TakenTwiceOnlyIfCutOff
  <2>16. WastedOnlyIfUnheard'
    BY <2>1, <2>7 DEF WastedOnlyIfUnheard
  <2>17. RowFits' /\ BookedFits' /\ Heard'
    BY <2>1 DEF RowFits, IsSale, BookedFits, HasRow, Heard, MadeOffline
  <2> QED BY <2>1, <2>2, <2>3, <2>4, <2>5, <2>6, <2>7, <2>8, <2>9, <2>10, <2>11, <2>12,
     <2>13, <2>14, <2>15, <2>16, <2>17 DEF IInv
<1>5. CASE Accepted
  <2> USE <1>5
  <2>1. UNCHANGED <<cur, left, rest, rows, queue, invoiceNum, mustSettle, booked, net,
     pastEnd, again, unheard, harmed, wasted, crashes>>
    BY DEF Accepted, Goto
  <2>2. pc = "wait" /\ pc' = "update" /\ reply = "00" /\ reply' = "none" /\ net = None
    BY DEF Accepted, Goto, LineFits
  <2>3. \A i : Held(i)' = Held(i)
    BY <2>1 DEF Held
  <2>4. TypeOK'
    <3>1. pc' \in PC
      BY DEF TypeOK, PC, Accepted, Goto
    <3>2. reply' \in {"none", "00", "other"}
      BY DEF TypeOK, Accepted, Goto
    <3> QED BY <3>1, <3>2, <2>1 DEF TypeOK
  <2>5. CurFits'
    BY <2>1, <2>2 DEF CurFits, Pending, InHand, IsSale, Sending, Offline, TipBits, VoidIsOffline
  <2>6. Covers'
    BY <2>1, <2>2 DEF Covers, HasRow
  <2>7. FileFits'
    BY <2>1, <2>2 DEF FileFits, HasRow, InHand
  <2>8. LineFits'
    BY <2>1, <2>2 DEF LineFits, FirstMessage, IsoCode
  <2>9. Matches'
    BY <2>1, <2>2, <2>3 DEF Matches
  <2>10. Unsent'
    BY <2>1, <2>2 DEF Unsent, Answered
  <2>11. RowFits' /\ BookedFits' /\ Heard' /\ TakenTwiceOnlyIfCutOff' /\ WastedOnlyIfUnheard'
    BY <2>1 DEF RowFits, IsSale, BookedFits, HasRow, Heard, MadeOffline,
       TakenTwiceOnlyIfCutOff, WastedOnlyIfUnheard
  <2> QED BY <2>1, <2>2, <2>3, <2>4, <2>5, <2>6, <2>7, <2>8, <2>9, <2>10, <2>11 DEF IInv
<1>6. CASE Refused
  <2> USE <1>6
  <2>1. UNCHANGED <<cur, left, rest, rows, queue, invoiceNum, mustSettle, booked, net,
     pastEnd, again, unheard, harmed, wasted, crashes>>
    BY DEF Refused, AfterAdvices
  <2>2. pc = "wait" /\ (InHand => pc' = "insert") /\ (~InHand => pc' \in {"idle", "close"})
    BY DEF Refused, AfterAdvices, AfterAdvices, InHand
  <2>3. InHand => Pending /\ cur.up = {}
    BY <2>2 DEF CurFits, Pending, Sending
  <2>4. rest = <<>> /\ \A i : Held(i)' = Held(i)
    BY <2>1, <2>2 DEF FileFits, Held
  <2>5. pc' # "close"
    BY <2>2 DEF Refused, AfterAdvices
  <2>6. queue # <<>> /\ queue \in Seq(Entry) /\ Head(queue) \in Invoice /\ HasRow(Head(queue))
    BY DEF Refused, AfterAdvices, FileFits, HasRow, TypeOK, Entry
  <2>7. reply = "other" /\ reply' = "none" /\ net = None
    BY DEF Refused, LineFits
  <2>8. TypeOK'
    <3>1. pc' \in PC
      BY <2>2 DEF TypeOK, PC
    <3>2. reply' \in {"none", "00", "other"}
      BY DEF TypeOK, Refused, AfterAdvices
    <3> QED BY <3>1, <3>2, <2>1 DEF TypeOK
  <2>9. CurFits'
    BY <2>1, <2>2, <2>3 DEF CurFits, Pending, InHand, IsSale, Sending, Offline, TipBits,
       VoidIsOffline
  <2>10. Covers'
    BY <2>1, <2>2 DEF Covers, HasRow
  <2>11. FileFits'
    BY <2>1, <2>2, <2>4, <2>5 DEF FileFits, HasRow, InHand
  <2>12. LineFits'
    BY <2>1, <2>2, <2>7 DEF LineFits, FirstMessage, IsoCode
  <2>13. Matches'
    <3>1. InHand => cur.inv \in Invoice /\ Owing(rows[cur.inv].code, rows[cur.inv].up) =
       Owing(cur.code, cur.up)
      BY <2>3, OnlineOwesNothing DEF CurFits
    <3> QED BY <2>1, <2>2, <2>4, <3>1 DEF Matches
  <2>14. Unsent'
    BY <2>1, <2>2, <2>7 DEF Unsent, Answered
  <2>15. RowFits' /\ BookedFits' /\ Heard' /\ TakenTwiceOnlyIfCutOff' /\ WastedOnlyIfUnheard'
    BY <2>1 DEF RowFits, IsSale, BookedFits, HasRow, Heard, MadeOffline,
       TakenTwiceOnlyIfCutOff, WastedOnlyIfUnheard
  <2> QED BY <2>1, <2>2, <2>3, <2>4, <2>5, <2>6, <2>7, <2>8, <2>9, <2>10, <2>11, <2>12,
     <2>13, <2>14, <2>15 DEF IInv
<1> QED BY <1>1, <1>2, <1>3, <1>4, <1>5, <1>6 DEF Send

\* Removing an advice that was sent keeps the invariant.
LEMMA RemoveStep ==
  ASSUME TypeOK, CurFits, RowFits, Covers, FileFits, LineFits,
         Matches, BookedFits, Heard, Unsent, TakenTwiceOnlyIfCutOff, WastedOnlyIfUnheard,
         Remove
  PROVE  IInv'
<1> USE AdviceAssumption DEF AdviceAssumption, Invoice, Garbage, disk, ram, line, hist
<1>1. CASE UpdateRow
  <2> USE <1>1
  <2>1. UNCHANGED <<cur, left, rest, queue, invoiceNum, mustSettle, booked, net, reply,
     pastEnd, again, unheard, harmed, wasted, crashes>>
    BY DEF UpdateRow, Goto
  <2>2. queue # <<>> /\ queue \in Seq(Entry) /\ Head(queue) \in Invoice /\ HasRow(Head(queue))
    BY DEF UpdateRow, Goto, FileFits, HasRow, TypeOK, Entry
  <2>3. pc = "update" /\ pc' = "drop" /\ net = None /\ reply = "none" /\ FirstMessage \in booked
    BY DEF UpdateRow, Goto, LineFits
  <2>4. \A i \in Invoice : i # Head(queue) => rows'[i] = rows[i]
    BY DEF UpdateRow, TypeOK
  <2>5. rows'[Head(queue)] = [rows[Head(queue)] EXCEPT !.up = BitsAfter(rows[Head(queue)])]
    BY <2>2 DEF UpdateRow, TypeOK
  <2>6. rows[Head(queue)] \in [code : Code, org : Code \cup {"none"}, up : SUBSET {1, 2}]
    BY <2>2 DEF TypeOK, HasRow
  <2>7. rows'[Head(queue)].code = rows[Head(queue)].code /\ rows'[Head(queue)].org =
     rows[Head(queue)].org /\ rows'[Head(queue)].up = BitsAfter(rows[Head(queue)])
    BY <2>5, <2>6
  <2>8. \A i \in Invoice : HasRow(i)' <=> HasRow(i)
    BY <2>2, <2>4, <2>6, <2>7 DEF HasRow, NoRow, Code
  <2>9. \A i \in Invoice : rows'[i].code = rows[i].code /\ rows'[i].org = rows[i].org
    BY <2>4, <2>7
  <2>10. \A i : Held(i)' = Held(i)
    BY <2>1 DEF Held
  <2>11. TypeOK'
    <3>1. pc' \in PC
      BY <2>3 DEF TypeOK, PC
    <3>2. rows' \in [Invoice -> [code : Code, org : Code \cup {"none"}, up : SUBSET {1, 2}]
       \cup {NoRow}]
      BY <2>2, <2>5, <2>6 DEF TypeOK, UpdateRow, BitsAfter
    <3> QED BY <3>1, <3>2, <2>1 DEF TypeOK
  <2>12. CurFits'
    <3>1. InHand => Pending /\ cur.up = {} /\ cur.inv \in Invoice
      BY <2>3 DEF CurFits, Pending, Sending
    <3>2. InHand /\ rows[cur.inv] = NoRow => rows'[cur.inv] = NoRow
      BY <2>2, <2>4, <3>1 DEF HasRow
    <3>3. InHand /\ ~VoidIsOffline(cur.inv) => ~VoidIsOffline(cur.inv)'
      <4>1. 1 \notin rows'[Head(queue)].up
        BY <2>7 DEF BitsAfter
      <4>2. cur' = cur
        BY <2>1
      <4> QED BY <2>2, <2>4, <3>1, <4>1, <4>2 DEF VoidIsOffline
    <3>4. InHand => cur.code \notin {"TIP", "SALE_OFFLINE"}
      BY <3>1 DEF CurFits, TipBits
    <3> QED BY <2>1, <2>3, <2>9, <3>1, <3>2, <3>3, <3>4 DEF CurFits, Pending, InHand,
       Sending, Offline
  <2>13. RowFits'
    <3>1. \A i \in Invoice : rows'[i].up = rows[i].up \/ (i = Head(queue) /\ rows'[i].up =
       BitsAfter(rows[i]))
      BY <2>4, <2>7
    <3> QED BY <2>9, <3>1 DEF RowFits, IsSale, BitsAfter
  <2>14. Covers'
    BY <2>1, <2>3, <2>8 DEF Covers, HasRow
  <2>15. FileFits'
    BY <2>1, <2>2, <2>3, <2>8 DEF FileFits, HasRow, InHand
  <2>16. LineFits'
    BY <2>1, <2>3 DEF LineFits, FirstMessage, IsoCode
  <2>17. Matches'
    <3>1. ASSUME Head(queue) \notin harmed
          PROVE  Owing(rows[Head(queue)].code, rows[Head(queue)].up)
                   = Owing(rows'[Head(queue)].code, rows'[Head(queue)].up) + 1
      <4>1. \/ rows[Head(queue)].code = "SALE_OFFLINE" /\ rows[Head(queue)].up = {1}
            \/ rows[Head(queue)].code = "TIP" /\ rows[Head(queue)].up = {2}
            \/ rows[Head(queue)].code = "TIP" /\ rows[Head(queue)].up = {1, 2}
        BY <2>3, <3>1, FirstIsOwed
      <4>2. rows[Head(queue)].up = {1, 2} /\ rows[Head(queue)].code = "TIP" =>
         rows'[Head(queue)].up = {2}
        BY <2>7 DEF BitsAfter
      <4>3. rows[Head(queue)].up # {1, 2} => rows'[Head(queue)].up = {}
        BY <2>7 DEF BitsAfter
      <4>4. {1} # {1, 2} /\ {2} # {1, 2}
        OBVIOUS
      <4>5. CASE rows[Head(queue)].up = {1, 2} /\ rows[Head(queue)].code = "TIP"
        BY <2>7, <4>2, <4>5, OwingValues
      <4>6. CASE rows[Head(queue)].up = {1} /\ rows[Head(queue)].code = "SALE_OFFLINE"
        BY <2>7, <4>3, <4>4, <4>6, OwingValues
      <4>7. CASE rows[Head(queue)].up = {2} /\ rows[Head(queue)].code = "TIP"
        BY <2>7, <4>3, <4>4, <4>7, OwingValues
      <4> QED BY <4>1, <4>5, <4>6, <4>7
    <3> QED BY <2>1, <2>2, <2>3, <2>4, <2>10, <3>1 DEF Matches
  <2>18. BookedFits'
    BY <2>1, <2>4, <2>7, <2>8, <2>9 DEF BookedFits, HasRow, BitsAfter, TypeOK, Message
  <2>19. Heard'
    <3> SUFFICES ASSUME NEW i \in Invoice, HasRow(i), rows[i].code # "VOID"
                 PROVE  /\ MadeOffline(i) /\ 1 \notin rows'[i].up =>
                             [inv |-> i, iso |-> "ADVICE"] \in booked
                        /\ rows[i].code = "TIP" /\ 2 \notin rows'[i].up =>
                             [inv |-> i, iso |-> "TIP"] \in booked
      BY <2>1, <2>8, <2>9 DEF Heard, MadeOffline
    <3>1. CASE i # Head(queue)
      BY <2>4, <3>1 DEF Heard
    <3>2. CASE i = Head(queue)
      <4>1. 1 \in rows[i].up => IsoCode(rows[i]) = "ADVICE"
        BY <2>6, <3>2 DEF RowFits, IsoCode, Code
      <4>2. rows[i].code = "TIP" /\ 2 \in rows[i].up /\ rows[i].up # {1, 2} =>
         IsoCode(rows[i]) = "TIP"
        BY <3>2 DEF IsoCode
      <4>3. rows[i].code = "TIP" /\ rows[i].up = {1, 2} => 2 \in rows'[i].up
        BY <2>7, <3>2 DEF BitsAfter
      <4>4. [inv |-> i, iso |-> IsoCode(rows[i])] \in booked
        BY <2>3, <3>2 DEF FirstMessage
      <4> QED BY <4>1, <4>2, <4>3, <4>4 DEF Heard
    <3> QED BY <3>1, <3>2
  <2>20. Unsent'
    <3> SUFFICES ASSUME NEW i \in Invoice \ (unheard \cup harmed), rows[i].code # "VOID"
                 PROVE  /\ 1 \in rows'[i].up => [inv |-> i, iso |-> "ADVICE"] \notin booked
                        /\ rows[i].code = "TIP" /\ 2 \in rows'[i].up =>
                             [inv |-> i, iso |-> "TIP"] \notin booked
      BY <2>1, <2>9 DEF Unsent
    <3>1. CASE i # Head(queue)
      BY <2>4, <3>1 DEF Unsent, Answered
    <3>2. CASE i = Head(queue)
      <4>1. 1 \notin rows'[i].up /\ (2 \in rows'[i].up => rows[i].up = {1, 2})
        BY <2>7, <3>2 DEF BitsAfter
      <4>2. {1, 2} # {2}
        OBVIOUS
      <4> QED BY <4>1, <4>2 DEF Unsent
    <3> QED BY <3>1, <3>2
  <2>21. TakenTwiceOnlyIfCutOff' /\ WastedOnlyIfUnheard'
    BY <2>1 DEF TakenTwiceOnlyIfCutOff, WastedOnlyIfUnheard
  <2> QED BY <2>1, <2>2, <2>3, <2>4, <2>5, <2>6, <2>7, <2>8, <2>9, <2>10, <2>11, <2>12,
     <2>13, <2>14, <2>15, <2>16, <2>17, <2>18, <2>19, <2>20, <2>21 DEF IInv
<1>2. CASE DropOnly
  <2> USE <1>2
  <2>1. UNCHANGED <<cur, rest, rows, invoiceNum, mustSettle, booked, net, reply, pastEnd,
     again, unheard, harmed, wasted, crashes>>
    BY DEF DropOnly, Goto
  <2>2. queue # <<>> /\ queue \in Seq(Entry) /\ Head(queue) \in Invoice /\ HasRow(Head(queue))
    BY DEF DropOnly, Goto, FileFits, HasRow, TypeOK, Entry
  <2>3. pc = "drop" /\ queue' = <<>> /\ rest = <<>> /\ net = None /\ reply = "none"
    BY DEF DropOnly, Goto, FileFits, LineFits
  <2>4. Tail(queue) \in Seq(Entry) /\ Len(queue) = Len(Tail(queue)) + 1 /\ left \in Nat /\
     left > 0
    BY <2>2, <2>3, CountTail DEF FileFits, TypeOK
  <2>5. \A i : Count(Tail(queue), i) \in Nat /\ Count(queue, i) = IF i = Head(queue) THEN
     Count(Tail(queue), i) + 1 ELSE Count(Tail(queue), i)
    BY <2>2, CountTail
  <2>6. pc' = "head" /\ left' = left - 1 /\ Len(queue) = 1 /\ Tail(queue) = <<>>
    <3>1. pc' = "head" /\ left' = left - 1 /\ Len(queue) = 1
      BY DEF DropOnly, Goto
    <3>2. Len(Tail(queue)) = 0
      <4>1. Len(Tail(queue)) \in Nat
        BY <2>4, LenProperties
      <4>2. \A b \in Nat : b + 1 = 1 => b = 0
        OBVIOUS
      <4>3. Len(Tail(queue)) + 1 = 1
        BY <2>4, <3>1, Zenon
      <4> QED BY <4>1, <4>2, <4>3, Zenon
    <3>3. Tail(queue) = <<>>
      BY <2>4, <3>2, EmptySeq
    <3> QED BY <3>1, <3>3
  <2>7. \A i : Held(i) = (IF i = Head(queue) THEN Held(i)' + 1 ELSE Held(i)') /\ Held(i)' \in
     Nat
    <3> TAKE i
    <3>1. Count(Tail(queue), i) = 0 /\ Count(rest, i) = 0 /\ Count(queue', i) = 0
      BY <2>3, <2>6, CountEmpty
    <3>2. Count(rest', i) = Count(rest, i)
      BY <2>1
    <3> QED BY <2>5, <3>1, <3>2 DEF Held
  <2>8. ~InHand => left' = Len(queue')
    <3>1. ~InHand => left = Len(queue)
      BY <2>3 DEF FileFits
    <3>2. Len(queue') = 0
      BY <2>3
    <3> QED BY <2>4, <2>6, <3>1, <3>2
  <2>9. TypeOK'
    <3>1. pc' \in PC
      BY <2>6 DEF TypeOK, PC
    <3>2. left' \in Nat
      BY <2>4, <2>6 DEF TypeOK
    <3>3. queue' \in Seq(Invoice \cup {Garbage})
      BY <2>3 DEF TypeOK
    <3> QED BY <3>1, <3>2, <3>3, <2>1 DEF TypeOK
  <2>10. CurFits'
    BY <2>1, <2>3, <2>6 DEF CurFits, Pending, InHand, IsSale, Sending, Offline, TipBits,
       VoidIsOffline
  <2>11. Covers'
    BY <2>1, <2>3, <2>6 DEF Covers, HasRow
  <2>12. FileFits'
    BY <2>1, <2>3, <2>6, <2>8 DEF FileFits, HasRow, InHand
  <2>13. LineFits'
    BY <2>1, <2>3, <2>6 DEF LineFits, FirstMessage, IsoCode
  <2>14. Matches'
    <3>1. \A i \in Invoice : Owing(rows[i].code, rows[i].up) \in Nat
      BY OwingType DEF TypeOK, NoRow
    <3> QED BY <2>1, <2>3, <2>6, <2>7, <3>1 DEF Matches
  <2>15. Unsent'
    BY <2>1, <2>3, <2>6 DEF Unsent, Answered
  <2>16. RowFits' /\ BookedFits' /\ Heard' /\ TakenTwiceOnlyIfCutOff' /\ WastedOnlyIfUnheard'
    BY <2>1 DEF RowFits, IsSale, BookedFits, HasRow, Heard, MadeOffline,
       TakenTwiceOnlyIfCutOff, WastedOnlyIfUnheard
  <2> QED BY <2>1, <2>2, <2>3, <2>4, <2>5, <2>6, <2>7, <2>8, <2>9, <2>10, <2>11, <2>12,
     <2>13, <2>14, <2>15, <2>16 DEF IInv
<1>3. CASE DropFirst
  <2> USE <1>3
  <2>1. UNCHANGED <<cur, left, rows, invoiceNum, mustSettle, booked, net, reply, pastEnd,
     again, unheard, harmed, wasted, crashes>>
    BY DEF DropFirst, Goto
  <2>2. queue # <<>> /\ queue \in Seq(Entry) /\ Head(queue) \in Invoice /\ HasRow(Head(queue))
    BY DEF DropFirst, Goto, FileFits, HasRow, TypeOK, Entry
  <2>3. pc = "drop" /\ queue' = <<>> /\ rest = <<>> /\ net = None /\ reply = "none"
    BY DEF DropFirst, Goto, FileFits, LineFits
  <2>4. Tail(queue) \in Seq(Entry) /\ Len(queue) = Len(Tail(queue)) + 1 /\ left \in Nat /\
     left > 0
    BY <2>2, <2>3, CountTail DEF FileFits, TypeOK
  <2>5. \A i : Count(Tail(queue), i) \in Nat /\ Count(queue, i) = IF i = Head(queue) THEN
     Count(Tail(queue), i) + 1 ELSE Count(Tail(queue), i)
    BY <2>2, CountTail
  <2>6. pc' = "rewrite" /\ rest' = Tail(queue) /\ left' = left
    BY DEF DropFirst, Goto
  <2>7. \A i : Held(i) = (IF i = Head(queue) THEN Held(i)' + 1 ELSE Held(i)') /\ Held(i)' \in
     Nat
    BY <2>3, <2>5, <2>6, CountEmpty DEF Held
  <2>8. TypeOK'
    <3>1. pc' \in PC
      BY <2>6 DEF TypeOK, PC
    <3>2. rest' \in Seq(Invoice \cup {Garbage})
      BY <2>4, <2>6 DEF TypeOK, Entry
    <3>3. queue' \in Seq(Invoice \cup {Garbage})
      BY <2>3 DEF TypeOK
    <3> QED BY <3>1, <3>2, <3>3, <2>1 DEF TypeOK
  <2>9. CurFits'
    BY <2>1, <2>3, <2>6 DEF CurFits, Pending, InHand, IsSale, Sending, Offline, TipBits,
       VoidIsOffline
  <2>10. Covers'
    BY <2>1, <2>3, <2>6 DEF Covers, HasRow
  <2>11. FileFits'
    BY <2>1, <2>3, <2>4, <2>6 DEF FileFits, HasRow, InHand
  <2>12. LineFits'
    BY <2>1, <2>3, <2>6 DEF LineFits, FirstMessage, IsoCode
  <2>13. Matches'
    <3>1. \A i \in Invoice : Owing(rows[i].code, rows[i].up) \in Nat
      BY OwingType DEF TypeOK, NoRow
    <3> QED BY <2>1, <2>3, <2>6, <2>7, <3>1 DEF Matches
  <2>14. Unsent'
    BY <2>1, <2>3, <2>6 DEF Unsent, Answered
  <2>15. RowFits' /\ BookedFits' /\ Heard' /\ TakenTwiceOnlyIfCutOff' /\ WastedOnlyIfUnheard'
    BY <2>1 DEF RowFits, IsSale, BookedFits, HasRow, Heard, MadeOffline,
       TakenTwiceOnlyIfCutOff, WastedOnlyIfUnheard
  <2> QED BY <2>1, <2>2, <2>3, <2>4, <2>5, <2>6, <2>7, <2>8, <2>9, <2>10, <2>11, <2>12,
     <2>13, <2>14, <2>15 DEF IInv
<1>4. CASE RewriteRest
  <2> USE <1>4
  <2>1. UNCHANGED <<cur, rows, invoiceNum, mustSettle, booked, net, reply, pastEnd, again,
     unheard, harmed, wasted, crashes>>
    BY DEF RewriteRest, Goto
  <2>2. pc = "rewrite" /\ pc' = "head" /\ queue = <<>> /\ queue' = rest /\ rest' = <<>> /\
     left' = left - 1
    BY DEF RewriteRest, Goto, FileFits
  <2>3. net = None /\ reply = "none" /\ left \in Nat /\ left > 0
    BY <2>2 DEF LineFits, TypeOK, FileFits
  <2>4. \A i : Held(i)' = Held(i)
    <3> TAKE i
    <3>1. Count(rest, i) \in Nat
      BY CountType DEF TypeOK
    <3> QED BY <2>2, <3>1, CountEmpty DEF Held
  <2>5. TypeOK'
    <3>1. pc' \in PC
      BY <2>2, <2>3 DEF TypeOK, PC
    <3>2. left' \in Nat
      BY <2>2, <2>3 DEF TypeOK, PC
    <3>3. rest' \in Seq(Invoice \cup {Garbage})
      BY <2>2, <2>3 DEF TypeOK, PC
    <3>4. queue' \in Seq(Invoice \cup {Garbage})
      BY <2>2, <2>3 DEF TypeOK, PC
    <3> QED BY <3>1, <3>2, <3>3, <3>4, <2>1 DEF TypeOK
  <2>6. CurFits'
    BY <2>1, <2>2 DEF CurFits, Pending, InHand, IsSale, Sending, Offline, TipBits, VoidIsOffline
  <2>7. Covers'
    BY <2>1, <2>2 DEF Covers, HasRow
  <2>8. FileFits'
    BY <2>1, <2>2, <2>3 DEF FileFits, HasRow, InHand, TypeOK
  <2>9. LineFits'
    BY <2>1, <2>2, <2>3 DEF LineFits, FirstMessage, IsoCode
  <2>10. Matches'
    BY <2>1, <2>2, <2>4 DEF Matches
  <2>11. Unsent'
    BY <2>1, <2>2, <2>3 DEF Unsent, Answered
  <2>12. RowFits' /\ BookedFits' /\ Heard' /\ TakenTwiceOnlyIfCutOff' /\ WastedOnlyIfUnheard'
    BY <2>1 DEF RowFits, IsSale, BookedFits, HasRow, Heard, MadeOffline,
       TakenTwiceOnlyIfCutOff, WastedOnlyIfUnheard
  <2> QED BY <2>1, <2>2, <2>3, <2>4, <2>5, <2>6, <2>7, <2>8, <2>9, <2>10, <2>11, <2>12 DEF IInv
<1> QED BY <1>1, <1>2, <1>3, <1>4 DEF Remove

\* The host keeps the invariant.
LEMMA HostStep ==
  ASSUME TypeOK, CurFits, RowFits, Covers, FileFits, LineFits,
         Matches, BookedFits, Heard, Unsent, TakenTwiceOnlyIfCutOff, WastedOnlyIfUnheard,
         Host
  PROVE  IInv'
<1> USE AdviceAssumption DEF AdviceAssumption, Invoice, Garbage, disk, ram, line, hist
<1>1. CASE HostTakes
  <2> USE <1>1
  <2>1. UNCHANGED <<pc, cur, left, rest, rows, queue, invoiceNum, mustSettle, pastEnd,
     unheard, harmed, wasted, crashes>>
    BY DEF HostTakes
  <2>2. pc = "wait" /\ reply = "none" /\ net = FirstMessage /\ net # None /\ net' = None /\
     reply' = "00"
    BY DEF HostTakes, LineFits
  <2>3. queue # <<>> /\ queue \in Seq(Entry) /\ Head(queue) \in Invoice /\ HasRow(Head(queue))
    BY <2>2 DEF FileFits, HasRow, TypeOK, Entry
  <2>4. booked' = booked \cup {net} /\ again' = IF net \in booked THEN again \cup {net} ELSE
     again
    BY DEF HostTakes
  <2>5. net.inv = Head(queue) /\ net.iso = IsoCode(rows[Head(queue)]) /\ net \in Message
    BY <2>2 DEF FirstMessage, TypeOK
  <2>6. rows[Head(queue)].code \in Code /\ rows[Head(queue)].up \subseteq {1, 2}
    BY <2>3 DEF TypeOK, HasRow
  <2>7. net.iso = "ADVICE" \/ (net.iso = "TIP" /\ rows[Head(queue)].code = "TIP" /\
     rows[Head(queue)].up # {1, 2}) \/ (net.iso = "VOID" /\ rows[Head(queue)].code = "VOID")
    BY <2>5 DEF IsoCode
  <2>8. Head(queue) \notin unheard \cup harmed => net \notin booked
    <3> SUFFICES ASSUME Head(queue) \notin unheard \cup harmed PROVE net \notin booked
      OBVIOUS
    <3>1. ~Answered(Head(queue))
      BY <2>2 DEF Answered
    <3>2. net = [inv |-> Head(queue), iso |-> IsoCode(rows[Head(queue)])]
      BY <2>2 DEF FirstMessage
    <3>3. CASE rows[Head(queue)].code = "SALE_OFFLINE" /\ rows[Head(queue)].up = {1}
      <4>1. net.iso = "ADVICE"
        BY <2>7, <3>3
      <4> QED BY <2>3, <2>5, <3>1, <3>2, <3>3, <4>1 DEF Unsent
    <3>4. CASE rows[Head(queue)].code = "TIP" /\ rows[Head(queue)].up = {2}
      <4>1. {2} # {1, 2}
        OBVIOUS
      <4>2. net.iso = "TIP"
        BY <2>5, <3>4, <4>1 DEF IsoCode
      <4> QED BY <2>3, <2>5, <3>1, <3>2, <3>4, <4>2 DEF Unsent
    <3>5. CASE rows[Head(queue)].code = "TIP" /\ rows[Head(queue)].up = {1, 2}
      <4>1. net.iso = "ADVICE"
        BY <2>5, <3>5 DEF IsoCode
      <4> QED BY <2>3, <2>5, <3>1, <3>2, <3>5, <4>1 DEF Unsent
    <3> QED BY <2>2, <3>3, <3>4, <3>5, FirstIsOwed
  <2>9. \A i : Held(i)' = Held(i)
    BY <2>1 DEF Held
  <2>10. TypeOK'
    <3>1. booked' \subseteq Message
      BY <2>4, <2>5 DEF TypeOK
    <3>2. net' \in Message \cup {None}
      BY <2>2 DEF TypeOK, Message, None
    <3>3. reply' \in {"none", "00", "other"}
      BY <2>2 DEF TypeOK, Message, None
    <3>4. again' \subseteq booked'
      BY <2>4 DEF TypeOK
    <3> QED BY <3>1, <3>2, <3>3, <3>4, <2>1 DEF TypeOK
  <2>11. LineFits'
    <3>1. FirstMessage' = FirstMessage
      BY <2>1 DEF FirstMessage
    <3> QED BY <2>1, <2>2, <2>4, <3>1 DEF LineFits
  <2>12. BookedFits'
    <3>1. net.iso = "TIP" => 1 \notin rows[Head(queue)].up
      BY <2>3, <2>7 DEF RowFits
    <3>2. HasRow(net.inv) /\ (net.iso \in {"TIP", "VOID"} => rows[net.inv].code = net.iso)
          /\ (net.iso = "TIP" => 1 \notin rows[net.inv].up)
      BY <2>3, <2>5, <2>7, <3>1
    <3>3. ASSUME NEW m \in booked'
          PROVE  HasRow(m.inv) /\ (m.iso \in {"TIP", "VOID"} => rows[m.inv].code = m.iso)
                 /\ (m.iso = "TIP" => 1 \notin rows[m.inv].up)
      <4>1. CASE m = net
        BY <3>2, <4>1
      <4>2. CASE m \in booked
        BY <4>2 DEF BookedFits
      <4> QED BY <2>4, <4>1, <4>2
    <3> QED BY <2>1, <3>3 DEF BookedFits, HasRow
  <2>13. Heard'
    <3>1. booked \subseteq booked'
      BY <2>4
    <3> QED BY <2>1, <3>1 DEF Heard, HasRow, MadeOffline
  <2>14. Unsent'
    <3> SUFFICES ASSUME NEW i \in Invoice \ (unheard \cup harmed), rows[i].code # "VOID"
                 PROVE  /\ 1 \in rows[i].up /\ ~Answered(i)' =>
                             [inv |-> i, iso |-> "ADVICE"] \notin booked'
                        /\ /\ rows[i].code = "TIP" /\ 2 \in rows[i].up
                           /\ ~(Answered(i)' /\ rows[i].up = {2})
                           => [inv |-> i, iso |-> "TIP"] \notin booked'
      BY <2>1 DEF Unsent
    <3>1. ~Answered(i)
      BY <2>2 DEF Answered
    <3>2. CASE i # Head(queue)
      <4>1. \A iso : [inv |-> i, iso |-> iso] # net
        BY <2>5, <3>2
      <4> QED BY <2>4, <3>1, <4>1 DEF Unsent
    <3>3. CASE i = Head(queue)
      <4>1. Answered(i)'
        BY <2>1, <2>2, <3>3 DEF Answered
      <4>2. ASSUME rows[i].code = "TIP", 2 \in rows[i].up, rows[i].up # {2}
            PROVE  [inv |-> i, iso |-> "TIP"] \notin booked'
        <5>1. rows[i].up = {1, 2}
          BY <2>6, <3>3, <4>2
        <5>2. net.iso = "ADVICE"
          BY <2>5, <3>3, <4>2, <5>1 DEF IsoCode
        <5>3. [inv |-> i, iso |-> "TIP"] # net
          BY <5>2
        <5> QED BY <2>4, <3>1, <4>2, <5>3 DEF Unsent
      <4> QED BY <4>1, <4>2
    <3> QED BY <3>2, <3>3
  <2>15. TakenTwiceOnlyIfCutOff'
    <3>1. ASSUME NEW m \in again' PROVE m.inv \in unheard \cup harmed
      <4>1. CASE m \in again
        BY <4>1 DEF TakenTwiceOnlyIfCutOff
      <4>2. CASE m = net /\ net \in booked
        BY <2>5, <2>8, <4>2
      <4> QED BY <2>4, <4>1, <4>2
    <3> QED BY <2>1, <3>1 DEF TakenTwiceOnlyIfCutOff
  <2>16. CurFits' /\ RowFits' /\ Covers' /\ FileFits' /\ Matches' /\ WastedOnlyIfUnheard'
    BY <2>1 DEF CurFits, Pending, InHand, IsSale, Sending, Offline, TipBits, VoidIsOffline,
       RowFits, Covers, HasRow, FileFits, Matches, Held, Count, WastedOnlyIfUnheard
  <2> QED BY <2>1, <2>2, <2>3, <2>4, <2>5, <2>6, <2>7, <2>8, <2>9, <2>10, <2>11, <2>12,
     <2>13, <2>14, <2>15, <2>16 DEF IInv
<1>2. CASE HostRefuses
  <2> USE <1>2
  <2>1. UNCHANGED <<pc, cur, left, rest, rows, queue, invoiceNum, mustSettle, booked,
     pastEnd, again, unheard, harmed, wasted, crashes>>
    BY DEF HostRefuses
  <2>2. pc = "wait" /\ reply = "none" /\ net' = None /\ reply' = "other"
    BY DEF HostRefuses, LineFits
  <2>3. \A i : Held(i)' = Held(i)
    BY <2>1 DEF Held
  <2>4. TypeOK'
    <3>1. net' \in Message \cup {None}
      BY DEF TypeOK, Message, None, HostRefuses
    <3>2. reply' \in {"none", "00", "other"}
      BY DEF TypeOK, HostRefuses
    <3> QED BY <3>1, <3>2, <2>1 DEF TypeOK
  <2>5. LineFits'
    <3> QED BY <2>1, <2>2 DEF LineFits
  <2>6. Unsent'
    <3>1. \A i : Answered(i)' <=> Answered(i)
      BY <2>1, <2>2 DEF Answered
    <3> QED BY <2>1, <3>1 DEF Unsent
  <2>7. CurFits' /\ RowFits' /\ Covers' /\ FileFits' /\ Matches' /\ BookedFits' /\ Heard' /\
     TakenTwiceOnlyIfCutOff' /\ WastedOnlyIfUnheard'
    BY <2>1 DEF CurFits, Pending, InHand, IsSale, Sending, Offline, TipBits, VoidIsOffline,
       RowFits, Covers, HasRow, FileFits, Matches, Held, Count, BookedFits, Heard,
       MadeOffline, TakenTwiceOnlyIfCutOff, WastedOnlyIfUnheard
  <2> QED BY <2>1, <2>2, <2>3, <2>4, <2>5, <2>6, <2>7 DEF IInv
<1> QED BY <1>1, <1>2 DEF Host

\* Closing the batch, or a technician, keeps the invariant.
LEMMA CloseStep ==
  ASSUME TypeOK, CurFits, RowFits, Covers, FileFits, LineFits,
         Matches, BookedFits, Heard, Unsent, TakenTwiceOnlyIfCutOff, WastedOnlyIfUnheard,
         Close \/ Service
  PROVE  IInv'
<1> USE AdviceAssumption DEF AdviceAssumption, Invoice, Garbage, disk, ram, line, hist
<1>1. CASE CloseBatch
  <2> USE <1>1
  <2>1. UNCHANGED <<cur, left, rest, pastEnd>>
    BY DEF CloseBatch, Goto, FreshBatch
  <2>2. pc = "close" /\ pc' = "idle" /\ rows' = [i \in Invoice |-> NoRow] /\ queue' = <<>> /\
     rest' = <<>> /\ invoiceNum' = 1 /\ mustSettle' = FALSE
    BY DEF CloseBatch, Goto, FreshBatch, FileFits
  <2>3. booked' = {} /\ again' = {} /\ net' = None /\ reply' = "none" /\ wasted' = {} /\
     harmed' = {} /\ unheard' = {}
    BY DEF CloseBatch, Goto, FreshBatch
  <2>4. \A i \in Invoice : rows'[i] = NoRow /\ rows'[i].code = "none" /\ rows'[i].up = {} /\
     rows'[i].org = "none"
    BY <2>2 DEF NoRow
  <2>5. \A i : Held(i)' = 0 /\ Owing("none", {}) = 0
    BY <2>2, CountEmpty, OwingValues DEF Held
  <2>6. TypeOK'
    <3>1. pc' \in PC
      BY <2>2, <2>3 DEF TypeOK, PC, Message, None, NoRow
    <3>2. rows' \in [Invoice -> [code : Code, org : Code \cup {"none"}, up : SUBSET {1, 2}]
       \cup {NoRow}]
      BY <2>2, <2>3 DEF TypeOK, PC, Message, None, NoRow
    <3>3. queue' \in Seq(Invoice \cup {Garbage})
      BY <2>2, <2>3 DEF TypeOK, PC, Message, None, NoRow
    <3>4. invoiceNum' \in Nat
      BY <2>2, <2>3 DEF TypeOK, PC, Message, None, NoRow
    <3>5. mustSettle' \in BOOLEAN
      BY <2>2, <2>3 DEF TypeOK, PC, Message, None, NoRow
    <3>6. booked' \subseteq Message
      BY <2>2, <2>3 DEF TypeOK, PC, Message, None, NoRow
    <3>7. net' \in Message \cup {None}
      BY <2>2, <2>3 DEF TypeOK, PC, Message, None, NoRow
    <3>8. reply' \in {"none", "00", "other"}
      BY <2>2, <2>3 DEF TypeOK, PC, Message, None, NoRow
    <3>9. again' \subseteq booked'
      BY <2>2, <2>3 DEF TypeOK, PC, Message, None, NoRow
    <3>10. unheard' \subseteq Invoice
      BY <2>2, <2>3 DEF TypeOK, PC, Message, None, NoRow
    <3>11. harmed' \subseteq Invoice
      BY <2>2, <2>3 DEF TypeOK, PC, Message, None, NoRow
    <3>12. wasted' \subseteq Invoice
      BY <2>2, <2>3 DEF TypeOK, PC, Message, None, NoRow
    <3>13. crashes' \in 0 .. MaxCrash
      BY DEF TypeOK, CloseBatch, Goto, FreshBatch
    <3> QED BY <3>1, <3>2, <3>3, <3>4, <3>5, <3>6, <3>7, <3>8, <3>9, <3>10, <3>11, <3>12,
       <3>13, <2>1 DEF TypeOK
  <2>7. CurFits'
    BY <2>1, <2>2 DEF CurFits, Pending, InHand, IsSale, Sending, Offline, TipBits, VoidIsOffline
  <2>8. RowFits'
    BY <2>4 DEF RowFits, IsSale
  <2>9. Covers'
    BY <2>2, <2>4 DEF Covers, HasRow
  <2>10. FileFits'
    BY <2>1, <2>2 DEF FileFits, HasRow, InHand
  <2>11. LineFits'
    BY <2>2, <2>3 DEF LineFits, FirstMessage, IsoCode
  <2>12. Matches'
    BY <2>2, <2>4, <2>5 DEF Matches
  <2>13. BookedFits'
    BY <2>3 DEF BookedFits, HasRow
  <2>14. Heard'
    BY <2>4 DEF Heard, HasRow, MadeOffline
  <2>15. Unsent'
    BY <2>3, <2>4 DEF Unsent, Answered
  <2>16. TakenTwiceOnlyIfCutOff'
    BY <2>3 DEF TakenTwiceOnlyIfCutOff
  <2>17. WastedOnlyIfUnheard'
    BY <2>3 DEF WastedOnlyIfUnheard
  <2> QED BY <2>1, <2>2, <2>3, <2>4, <2>5, <2>6, <2>7, <2>8, <2>9, <2>10, <2>11, <2>12,
     <2>13, <2>14, <2>15, <2>16, <2>17 DEF IInv
<1>2. CASE SettleFailed
  <2> USE <1>2
  <2>1. UNCHANGED <<cur, left, rest, rows, queue, invoiceNum, mustSettle, booked, net, reply,
     pastEnd, again, unheard, harmed, wasted, crashes>>
    BY DEF SettleFailed, Goto
  <2>2. pc = "close" /\ pc' = "idle"
    BY DEF SettleFailed, Goto
  <2>3. \A i : Held(i)' = Held(i)
    BY <2>1 DEF Held
  <2>4. TypeOK'
    <3>1. pc' \in PC
      BY DEF TypeOK, PC, SettleFailed, Goto
    <3> QED BY <3>1, <2>1 DEF TypeOK
  <2>5. CurFits'
    BY <2>1, <2>2 DEF CurFits, Pending, InHand, IsSale, Sending, Offline, TipBits, VoidIsOffline
  <2>6. Covers'
    BY <2>1, <2>2 DEF Covers, HasRow
  <2>7. FileFits'
    BY <2>1, <2>2 DEF FileFits, HasRow, InHand
  <2>8. LineFits'
    BY <2>1, <2>2 DEF LineFits, FirstMessage, IsoCode
  <2>9. Matches'
    BY <2>1, <2>2, <2>3 DEF Matches
  <2>10. Unsent'
    BY <2>1, <2>2 DEF Unsent, Answered
  <2>11. RowFits' /\ BookedFits' /\ Heard' /\ TakenTwiceOnlyIfCutOff' /\ WastedOnlyIfUnheard'
    BY <2>1 DEF RowFits, IsSale, BookedFits, HasRow, Heard, MadeOffline,
       TakenTwiceOnlyIfCutOff, WastedOnlyIfUnheard
  <2> QED BY <2>1, <2>2, <2>3, <2>4, <2>5, <2>6, <2>7, <2>8, <2>9, <2>10, <2>11 DEF IInv
<1>3. CASE Unlock
  <2> USE <1>3
  <2>1. UNCHANGED <<cur, left, rest, rows, queue, invoiceNum, booked, net, reply, pastEnd,
     again, unheard, harmed, wasted, crashes>>
    BY DEF Unlock, Goto
  <2>2. pc = "locked" /\ pc' = "idle" /\ mustSettle' = TRUE
    BY DEF Unlock, Goto
  <2>3. \A i : Held(i)' = Held(i)
    BY <2>1 DEF Held
  <2>4. TypeOK'
    <3>1. pc' \in PC
      BY DEF TypeOK, PC, Unlock, Goto
    <3>2. mustSettle' \in BOOLEAN
      BY <2>2 DEF TypeOK
    <3> QED BY <3>1, <3>2, <2>1 DEF TypeOK
  <2>5. CurFits'
    BY <2>1, <2>2 DEF CurFits, Pending, InHand, IsSale, Sending, Offline, TipBits, VoidIsOffline
  <2>6. Covers'
    BY <2>1, <2>2 DEF Covers, HasRow
  <2>7. FileFits'
    BY <2>1, <2>2 DEF FileFits, HasRow, InHand
  <2>8. LineFits'
    BY <2>1, <2>2 DEF LineFits, FirstMessage, IsoCode
  <2>9. Matches'
    BY <2>1, <2>2, <2>3 DEF Matches
  <2>10. Unsent'
    BY <2>1, <2>2 DEF Unsent, Answered
  <2>11. RowFits' /\ BookedFits' /\ Heard' /\ TakenTwiceOnlyIfCutOff' /\ WastedOnlyIfUnheard'
    BY <2>1 DEF RowFits, IsSale, BookedFits, HasRow, Heard, MadeOffline,
       TakenTwiceOnlyIfCutOff, WastedOnlyIfUnheard
  <2> QED BY <2>1, <2>2, <2>3, <2>4, <2>5, <2>6, <2>7, <2>8, <2>9, <2>10, <2>11 DEF IInv
<1>4. CASE UnlockAndDelete
  <2> USE <1>4
  <2>1. UNCHANGED <<cur, left, rest, pastEnd>>
    BY DEF UnlockAndDelete, Goto, FreshBatch
  <2>2. pc = "locked" /\ pc' = "idle" /\ rows' = [i \in Invoice |-> NoRow] /\ queue' = <<>>
     /\ rest' = <<>> /\ invoiceNum' = 1 /\ mustSettle' = FALSE
    BY DEF UnlockAndDelete, Goto, FreshBatch, FileFits
  <2>3. booked' = {} /\ again' = {} /\ net' = None /\ reply' = "none" /\ wasted' = {} /\
     harmed' = {} /\ unheard' = {}
    BY DEF UnlockAndDelete, Goto, FreshBatch
  <2>4. \A i \in Invoice : rows'[i] = NoRow /\ rows'[i].code = "none" /\ rows'[i].up = {} /\
     rows'[i].org = "none"
    BY <2>2 DEF NoRow
  <2>5. \A i : Held(i)' = 0 /\ Owing("none", {}) = 0
    BY <2>2, CountEmpty, OwingValues DEF Held
  <2>6. TypeOK'
    <3>1. pc' \in PC
      BY <2>2, <2>3 DEF TypeOK, PC, Message, None, NoRow
    <3>2. rows' \in [Invoice -> [code : Code, org : Code \cup {"none"}, up : SUBSET {1, 2}]
       \cup {NoRow}]
      BY <2>2, <2>3 DEF TypeOK, PC, Message, None, NoRow
    <3>3. queue' \in Seq(Invoice \cup {Garbage})
      BY <2>2, <2>3 DEF TypeOK, PC, Message, None, NoRow
    <3>4. invoiceNum' \in Nat
      BY <2>2, <2>3 DEF TypeOK, PC, Message, None, NoRow
    <3>5. mustSettle' \in BOOLEAN
      BY <2>2, <2>3 DEF TypeOK, PC, Message, None, NoRow
    <3>6. booked' \subseteq Message
      BY <2>2, <2>3 DEF TypeOK, PC, Message, None, NoRow
    <3>7. net' \in Message \cup {None}
      BY <2>2, <2>3 DEF TypeOK, PC, Message, None, NoRow
    <3>8. reply' \in {"none", "00", "other"}
      BY <2>2, <2>3 DEF TypeOK, PC, Message, None, NoRow
    <3>9. again' \subseteq booked'
      BY <2>2, <2>3 DEF TypeOK, PC, Message, None, NoRow
    <3>10. unheard' \subseteq Invoice
      BY <2>2, <2>3 DEF TypeOK, PC, Message, None, NoRow
    <3>11. harmed' \subseteq Invoice
      BY <2>2, <2>3 DEF TypeOK, PC, Message, None, NoRow
    <3>12. wasted' \subseteq Invoice
      BY <2>2, <2>3 DEF TypeOK, PC, Message, None, NoRow
    <3>13. crashes' \in 0 .. MaxCrash
      BY DEF TypeOK, UnlockAndDelete, Goto, FreshBatch
    <3> QED BY <3>1, <3>2, <3>3, <3>4, <3>5, <3>6, <3>7, <3>8, <3>9, <3>10, <3>11, <3>12,
       <3>13, <2>1 DEF TypeOK
  <2>7. CurFits'
    BY <2>1, <2>2 DEF CurFits, Pending, InHand, IsSale, Sending, Offline, TipBits, VoidIsOffline
  <2>8. RowFits'
    BY <2>4 DEF RowFits, IsSale
  <2>9. Covers'
    BY <2>2, <2>4 DEF Covers, HasRow
  <2>10. FileFits'
    BY <2>1, <2>2 DEF FileFits, HasRow, InHand
  <2>11. LineFits'
    BY <2>2, <2>3 DEF LineFits, FirstMessage, IsoCode
  <2>12. Matches'
    BY <2>2, <2>4, <2>5 DEF Matches
  <2>13. BookedFits'
    BY <2>3 DEF BookedFits, HasRow
  <2>14. Heard'
    BY <2>4 DEF Heard, HasRow, MadeOffline
  <2>15. Unsent'
    BY <2>3, <2>4 DEF Unsent, Answered
  <2>16. TakenTwiceOnlyIfCutOff'
    BY <2>3 DEF TakenTwiceOnlyIfCutOff
  <2>17. WastedOnlyIfUnheard'
    BY <2>3 DEF WastedOnlyIfUnheard
  <2> QED BY <2>1, <2>2, <2>3, <2>4, <2>5, <2>6, <2>7, <2>8, <2>9, <2>10, <2>11, <2>12,
     <2>13, <2>14, <2>15, <2>16, <2>17 DEF IInv
<1> QED BY <1>1, <1>2, <1>3, <1>4 DEF Close, Service

\* A power failure and the start-up keep the invariant.
LEMMA RestartStep ==
  ASSUME TypeOK, CurFits, RowFits, Covers, FileFits, LineFits,
         Matches, BookedFits, Heard, Unsent, TakenTwiceOnlyIfCutOff, WastedOnlyIfUnheard,
         Crash \/ Boot
  PROVE  IInv'
<1> USE AdviceAssumption DEF AdviceAssumption, Invoice, Garbage, disk, ram, line, hist
<1>1. CASE Crash
  <2> USE <1>1
  <2>1. UNCHANGED <<rows, queue, invoiceNum, mustSettle, booked, pastEnd, again, wasted>>
    BY DEF Crash, Taken
  <2>2. pc # "boot" /\ pc # "locked" /\ pc' = "boot" /\ crashes' \in 0 .. MaxCrash
    BY DEF Crash, TypeOK
  <2>3. harmed' = harmed \cup (Spoilt \cap Invoice)
    BY DEF Crash
  <2>4. unheard' = unheard \cup (IF pc = "update" \/ reply = "00" THEN {Head(queue)} ELSE {})
    BY DEF Crash, Taken, LineFits
  <2>5. cur' = Settling /\ left' = 0 /\ rest' = <<>> /\ net' = None /\ reply' = "none"
    BY DEF Crash
  <2>6. reply = "00" \/ pc \in {"update", "drop"} => Head(queue) \in Invoice
    BY DEF LineFits, FileFits, HasRow
  <2>7. \A i \in Invoice \ harmed' : Held(i)' = Owing(rows[i].code, rows[i].up)
    <3> SUFFICES ASSUME NEW i \in Invoice \ harmed' PROVE Held(i)' = Owing(rows[i].code,
       rows[i].up)
      OBVIOUS
    <3>1. i \notin harmed /\ i \notin Spoilt
      BY <2>3
    <3>2. Count(queue, i) \in Nat /\ Count(rest', i) = 0 /\ queue' = queue
      BY <2>1, <2>5, CountEmpty, CountType DEF TypeOK
    <3>3. Count(rest, i) = 0
      <4>1. CASE pc \in {"rename", "rewrite"}
        <5>1. i \notin Elements(rest)
          BY <3>1, <4>1 DEF Spoilt
        <5> QED BY <5>1, CountElements DEF TypeOK
      <4>2. CASE pc \notin {"rename", "rewrite"}
        BY <4>2, CountEmpty DEF FileFits
      <4> QED BY <4>1, <4>2
    <3>4. Held(i)' = Held(i)
      BY <3>2, <3>3 DEF Held
    <3>5. pc = "rename" => i # cur.inv
      BY <3>1 DEF Spoilt
    <3>6. pc = "insert" /\ i = cur.inv => Owing(cur.code, cur.up) = Owing(rows[i].code,
       rows[i].up)
      <4> SUFFICES ASSUME pc = "insert", i = cur.inv
                   PROVE  Owing(cur.code, cur.up) = Owing(rows[i].code, rows[i].up)
        OBVIOUS
      <4>1. cur.up = {}
        BY <3>1 DEF Spoilt
      <4>2. Pending
        BY DEF CurFits, Pending
      <4> QED BY <4>1, <4>2, OnlineOwesNothing
    <3>7. pc = "drop" => i # Head(queue)
      BY <3>1 DEF Spoilt
    <3> QED BY <3>1, <3>4, <3>5, <3>6, <3>7 DEF Matches
  <2>8. TypeOK'
    <3>1. pc' \in PC
      BY <2>2, <2>5 DEF TypeOK, PC, None, Settling
    <3>2. cur' \in Trans \cup {Settling}
      BY <2>2, <2>5 DEF TypeOK, PC, None, Settling
    <3>3. left' \in Nat
      BY <2>2, <2>5 DEF TypeOK, PC, None, Settling
    <3>4. rest' \in Seq(Invoice \cup {Garbage})
      BY <2>2, <2>5 DEF TypeOK, PC, None, Settling
    <3>5. net' \in Message \cup {None}
      BY <2>2, <2>5 DEF TypeOK, PC, None, Settling
    <3>6. reply' \in {"none", "00", "other"}
      BY <2>2, <2>5 DEF TypeOK, PC, None, Settling
    <3>7. unheard' \subseteq Invoice
      BY <2>4, <2>6 DEF TypeOK
    <3>8. harmed' \subseteq Invoice
      BY <2>3 DEF TypeOK
    <3>9. crashes' \in 0 .. MaxCrash
      BY <2>2, <2>5 DEF TypeOK, PC, None, Settling
    <3> QED BY <3>1, <3>2, <3>3, <3>4, <3>5, <3>6, <3>7, <3>8, <3>9, <2>1 DEF TypeOK
  <2>9. CurFits'
    BY <2>1, <2>2, <2>5 DEF CurFits, Pending, InHand, IsSale, Sending, Offline, TipBits,
       VoidIsOffline
  <2>10. Covers'
    BY <2>1, <2>2 DEF Covers, HasRow
  <2>11. FileFits'
    BY <2>1, <2>2, <2>5 DEF FileFits, HasRow, InHand
  <2>12. LineFits'
    BY <2>2, <2>5 DEF LineFits, FirstMessage, IsoCode
  <2>13. Matches'
    BY <2>1, <2>2, <2>7 DEF Matches
  <2>14. Unsent'
    <3> SUFFICES ASSUME NEW i \in Invoice \ (unheard' \cup harmed'), rows[i].code # "VOID"
                 PROVE  /\ 1 \in rows[i].up => [inv |-> i, iso |-> "ADVICE"] \notin booked
                        /\ rows[i].code = "TIP" /\ 2 \in rows[i].up =>
                             [inv |-> i, iso |-> "TIP"] \notin booked
      BY <2>1 DEF Unsent
    <3>1. i \notin unheard \cup harmed
      BY <2>3, <2>4
    <3>2. ~Answered(i)
      BY <2>4 DEF Answered
    <3> QED BY <3>1, <3>2 DEF Unsent
  <2>15. TakenTwiceOnlyIfCutOff'
    <3> QED BY <2>1, <2>3, <2>4 DEF TakenTwiceOnlyIfCutOff
  <2>16. WastedOnlyIfUnheard'
    <3> QED BY <2>1, <2>3, <2>4 DEF WastedOnlyIfUnheard
  <2>17. RowFits' /\ BookedFits' /\ Heard'
    BY <2>1 DEF RowFits, IsSale, BookedFits, HasRow, Heard, MadeOffline
  <2> QED BY <2>1, <2>2, <2>3, <2>4, <2>5, <2>6, <2>7, <2>8, <2>9, <2>10, <2>11, <2>12,
     <2>13, <2>14, <2>15, <2>16, <2>17 DEF IInv
<1>2. CASE Boot
  <2> USE <1>2
  <2>1. UNCHANGED <<cur, left, rest, rows, queue, mustSettle, booked, net, reply, pastEnd,
     again, unheard, harmed, wasted, crashes>>
    BY DEF Boot, Goto
  <2>2. pc = "boot" /\ pc' = "idle"
    BY DEF Boot, Goto
  <2>3. invoiceNum' = IF mustSettle THEN invoiceNum ELSE (IF invoiceNum <= MaxInvoice THEN
     MaxInvoice + 1 ELSE invoiceNum) + 2
    BY DEF Boot
  <2>4. invoiceNum \in Nat /\ MaxInvoice \in Nat
    BY MaxInvoiceFound DEF TypeOK
  <2>5. \A i : Held(i)' = Held(i)
    BY <2>1 DEF Held
  <2>6. TypeOK'
    <3>1. pc' \in PC
      BY <2>2 DEF TypeOK, PC
    <3>2. invoiceNum' \in Nat
      BY <2>3, <2>4 DEF TypeOK
    <3> QED BY <3>1, <3>2, <2>1 DEF TypeOK
  <2>7. CurFits'
    BY <2>1, <2>2 DEF CurFits, Pending, InHand, IsSale, Sending, Offline, TipBits, VoidIsOffline
  <2>8. Covers'
    <3>1. ASSUME NEW i \in Invoice, HasRow(i), ~mustSettle PROVE i < invoiceNum'
      <4>1. i <= MaxInvoice
        BY <3>1, MaxInvoiceFound
      <4> HIDE DEF MaxInvoice
      <4> QED BY <2>3, <2>4, <3>1, <4>1
    <3> QED BY <2>1, <2>2, <2>3, <3>1 DEF Covers, HasRow
  <2>9. FileFits'
    BY <2>1, <2>2 DEF FileFits, HasRow, InHand
  <2>10. LineFits'
    BY <2>1, <2>2 DEF LineFits, FirstMessage, IsoCode
  <2>11. Matches'
    BY <2>1, <2>2, <2>5 DEF Matches
  <2>12. Unsent'
    BY <2>1, <2>2 DEF Unsent, Answered
  <2>13. RowFits' /\ BookedFits' /\ Heard' /\ TakenTwiceOnlyIfCutOff' /\ WastedOnlyIfUnheard'
    BY <2>1 DEF RowFits, IsSale, BookedFits, HasRow, Heard, MadeOffline,
       TakenTwiceOnlyIfCutOff, WastedOnlyIfUnheard
  <2> QED BY <2>1, <2>2, <2>3, <2>4, <2>5, <2>6, <2>7, <2>8, <2>9, <2>10, <2>11, <2>12, <2>13
     DEF IInv
<1> QED BY <1>1, <1>2

-----------------------------------------------------------------------------
(* The theorems.                                                           *)

\* A step that changes nothing keeps the invariant.
LEMMA StutterStep ==
  ASSUME IInv, UNCHANGED vars
  PROVE  IInv'
<1> USE DEF vars, disk, ram, line, hist
<1>1. TypeOK' /\ RowFits' /\ Covers' /\ BookedFits' /\ Heard'
  BY DEF IInv, TypeOK, RowFits, Covers, BookedFits, Heard, IsSale, HasRow, MadeOffline
<1>2. CurFits' /\ FileFits' /\ LineFits'
  BY DEF IInv, CurFits, FileFits, LineFits, Pending, InHand, IsSale, Sending, Offline, TipBits,
         VoidIsOffline, HasRow, FirstMessage, IsoCode
<1>3. Matches' /\ Unsent' /\ TakenTwiceOnlyIfCutOff' /\ WastedOnlyIfUnheard'
  <2>1. \A i : Held(i)' = Held(i)
    BY DEF Held
  <2> QED BY <2>1 DEF IInv, Matches, Unsent, Answered, TakenTwiceOnlyIfCutOff,
     WastedOnlyIfUnheard
<1> QED BY <1>1, <1>2, <1>3 DEF IInv

\* The terminal starts in the invariant.
LEMMA InitInv == Init => IInv
<1> SUFFICES ASSUME Init PROVE IInv
  OBVIOUS
<1> USE AdviceAssumption DEF AdviceAssumption, Init, Invoice, Garbage
<1>1. \A i \in Invoice : rows[i].code = "none" /\ rows[i].org = "none" /\ rows[i].up = {}
  BY DEF NoRow
<1>2. TypeOK
  <2>1. rows \in [Invoice -> [code : Code, org : Code \cup {"none"}, up : SUBSET {1, 2}] \cup
     {NoRow}]
    OBVIOUS
  <2>2. pc \in PC /\ cur \in Trans \cup {Settling} /\ net \in Message \cup {None}
    BY DEF PC
  <2>3. rest \in Seq(Invoice \cup {Garbage}) /\ queue \in Seq(Invoice \cup {Garbage})
    OBVIOUS
  <2>4. booked \subseteq Message /\ again \subseteq booked /\ unheard \subseteq Invoice
        /\ harmed \subseteq Invoice /\ wasted \subseteq Invoice
    OBVIOUS
  <2>5. left \in Nat /\ invoiceNum \in Nat /\ crashes \in 0 .. MaxCrash
    OBVIOUS
  <2>6. mustSettle \in BOOLEAN /\ reply \in {"none", "00", "other"} /\ pastEnd \in {"error",
     "empty"}
    OBVIOUS
  <2> QED BY <2>1, <2>2, <2>3, <2>4, <2>5, <2>6 DEF TypeOK
<1>3. \A i : Held(i) = 0 /\ Owing("none", {}) = 0
  BY CountEmpty, OwingValues DEF Held
<1>4. Matches
  BY <1>1, <1>3 DEF Matches
<1>5. CurFits /\ RowFits /\ Covers
  BY <1>1 DEF CurFits, RowFits, Covers, Pending, InHand, Sending, Offline, IsSale, HasRow
<1>6. FileFits /\ LineFits
  BY DEF FileFits, LineFits
<1>7. BookedFits /\ Heard /\ Unsent /\ TakenTwiceOnlyIfCutOff /\ WastedOnlyIfUnheard
  BY <1>1 DEF BookedFits, Heard, Unsent, TakenTwiceOnlyIfCutOff, WastedOnlyIfUnheard, HasRow
<1> QED BY <1>2, <1>4, <1>5, <1>6, <1>7 DEF IInv

\* Every step keeps the invariant.
LEMMA NextStep ==
  ASSUME IInv, [Next]_vars
  PROVE  IInv'
<1>1. CASE UNCHANGED vars
  BY <1>1, StutterStep
<1>2. CASE Begin \/ StartSettle
  BY <1>2, BeginStep DEF IInv
<1>3. CASE File
  BY <1>3, FileStep DEF IInv
<1>4. CASE Book
  BY <1>4, BookStep DEF IInv
<1>5. CASE Send
  BY <1>5, SendStep DEF IInv
<1>6. CASE Remove
  BY <1>6, RemoveStep DEF IInv
<1>7. CASE Host
  BY <1>7, HostStep DEF IInv
<1>8. CASE Close \/ Service
  BY <1>8, CloseStep DEF IInv
<1>9. CASE Crash \/ Boot
  BY <1>9, RestartStep DEF IInv
<1> QED BY <1>1, <1>2, <1>3, <1>4, <1>5, <1>6, <1>7, <1>8, <1>9 DEF Next

\* The invariant holds in every reachable state.
THEOREM SpecIInv == Spec => []IInv
<1>1. Init => IInv
  BY InitInv
<1>2. IInv /\ [Next]_vars => IInv'
  BY NextStep
<1> QED BY <1>1, <1>2, PTL DEF Spec

\* Every variable keeps its type.
THEOREM SpecTypeOK == Spec => []TypeOK
<1>1. IInv => TypeOK
  BY DEF IInv
<1> QED BY <1>1, SpecIInv, PTL

\* Between transactions the file holds one entry for each upload bit of a row, none for
\* a voided one, but for the invoices a power failure hit inside a booking or a rewrite.
THEOREM SpecQueueMatchesRows == Spec => []QueueMatchesRows
<1>1. IInv => QueueMatchesRows
  <2> SUFFICES ASSUME IInv, pc = "idle", NEW i \in Invoice \ harmed
               PROVE  Entries(i) = IF rows[i].code = "VOID" THEN 0 ELSE Cardinality(rows[i].up)
    BY DEF QueueMatchesRows
  <2>1. Held(i) = Owing(rows[i].code, rows[i].up)
    BY DEF IInv, Matches
  <2>2. Count(rest, i) = 0 /\ Count(queue, i) \in Nat
    BY CountEmpty, CountType DEF IInv, FileFits, TypeOK
  <2>3. Entries(i) = Count(queue, i)
    BY DEF Entries, Count
  <2>4. Entries(i) = Owing(rows[i].code, rows[i].up)
    BY <2>1, <2>2, <2>3 DEF Held
  <2> QED BY <2>4 DEF Owing
<1> QED BY <1>1, SpecIInv, PTL

\* When the closing of the batch is asked for, the host has taken every offline sale and
\* every tip that still stands: nothing is held, so no row owes anything, and what a row
\* does not owe has been taken.
THEOREM SpecNothingDueIsForgotten == Spec => []NothingDueIsForgotten
<1>1. IInv => NothingDueIsForgotten
  <2> SUFFICES ASSUME IInv, pc = "close", NEW i \in Invoice \ harmed, HasRow(i),
                      rows[i].code # "VOID", NEW m \in Due(i)
               PROVE  m \in booked
    BY DEF NothingDueIsForgotten
  <2>1. Held(i) = 0
    BY CountEmpty DEF IInv, FileFits, Held
  <2>2. Owing(rows[i].code, rows[i].up) = 0
    BY <2>1 DEF IInv, Matches
  <2>3. rows[i].up \in SUBSET {1, 2}
    BY DEF IInv, TypeOK, HasRow
  <2>4. rows[i].up = {} \/ rows[i].up = {1} \/ rows[i].up = {2} \/ rows[i].up = {1, 2}
    BY <2>3
  <2>5. rows[i].up = {}
    BY <2>2, <2>4, OwingValues
  <2>6. m = [inv |-> i, iso |-> m.iso]
    BY DEF Due, Message
  <2> QED BY <2>5, <2>6 DEF IInv, Heard, Due
<1> QED BY <1>1, SpecIInv, PTL

\* The host never hears of the tip of an offline sale before the sale: a tip it has taken
\* is in its row, and the row no longer owes the sale.
THEOREM SpecTipAfterItsSale == Spec => []TipAfterItsSale
<1>1. IInv => TipAfterItsSale
  <2> SUFFICES ASSUME IInv, NEW i \in Invoice, [inv |-> i, iso |-> "TIP"] \in booked,
                      MadeOffline(i)
               PROVE  [inv |-> i, iso |-> "ADVICE"] \in booked
    BY DEF TipAfterItsSale
  <2>1. HasRow(i) /\ rows[i].code = "TIP" /\ 1 \notin rows[i].up
    BY DEF IInv, BookedFits
  <2> QED BY <2>1 DEF IInv, Heard
<1> QED BY <1>1, SpecIInv, PTL

\* The host takes an advice twice only when its first answer never came to the row, or a
\* power failure left two entries for one row.
THEOREM SpecTakenTwiceOnlyIfCutOff == Spec => []TakenTwiceOnlyIfCutOff
<1>1. IInv => TakenTwiceOnlyIfCutOff
  BY DEF IInv
<1> QED BY <1>1, SpecIInv, PTL

\* A sale voided as unsent has been booked by the host only when its answer was lost, or a
\* power failure hit it.
THEOREM SpecWastedOnlyIfUnheard == Spec => []WastedOnlyIfUnheard
<1>1. IInv => WastedOnlyIfUnheard
  BY DEF IInv
<1> QED BY <1>1, SpecIInv, PTL
-----------------------------------------------------------------------------
(***************************************************************************)
(* The refinement of Outbox: what is owed is read off the rows, so that    *)
(* only the booking of a row and the answer 00 that comes to it move the   *)
(* outbox; the file's rewriting in place is invisible but for its mishaps. *)
(***************************************************************************)

\* What is owed, message by message.
Owed(m) == /\ m.inv \notin harmed /\ rows[m.inv].code # "VOID"
           /\ \/ m.iso = "ADVICE" /\ 1 \in rows[m.inv].up
              \/ m.iso = "TIP" /\ 2 \in rows[m.inv].up

\* A step that leaves rows, host and history alone leaves the outbox alone.
LEMMA OutboxStutters ==
  ASSUME UNCHANGED <<rows, booked, unheard, harmed>>, pc' = "locked" <=> pc = "locked"
  PROVE  UNCHANGED Out!outboxVars
BY DEF Out!outboxVars, owedBar

\* An answer lost or a power failure is a mishap, whatever it spoils.
LEMMA OutboxMishap ==
  ASSUME UNCHANGED <<rows, booked>>, pc # "locked", pc' # "locked",
         unheard \subseteq unheard', harmed \subseteq harmed',
         \A i \in unheard' \ unheard : \E m \in booked : m.inv = i
  PROVE  Out!Next
<1>1. owedBar' = {m \in owedBar : m.inv \notin harmed'}
  BY DEF owedBar
<1> QED BY <1>1 DEF Out!Next, Out!Mishap

\* A row that comes to call for one message more, or one less, moves it into the outbox
\* or out of it.
LEMMA RowMoves ==
  ASSUME UNCHANGED harmed, NEW i \in Invoice,
         rows \in [Invoice -> [code : Code, org : Code \cup {"none"}, up : SUBSET {1, 2}] \cup {NoRow}],
         NEW row, rows' = [rows EXCEPT ![i] = row],
         NEW m \in Message, m.inv = i,
         \A n \in Message : n.inv = i /\ n.iso # m.iso => (Owed(n)' <=> Owed(n))
  PROVE  /\ ~Owed(m) /\ Owed(m)' => owedBar' = owedBar \cup {m} /\ m \notin owedBar
         /\ Owed(m) /\ ~Owed(m)' => owedBar' = owedBar \ {m} /\ m \in owedBar
<1>1. \A n \in Message : n.inv # i => (Owed(n)' <=> Owed(n))
  BY DEF Owed, Message
<1>2. owedBar = {n \in Message : Owed(n)}
  BY DEF owedBar, Owed
<1>3. owedBar' = {n \in Message : Owed(n)'}
  BY DEF owedBar, Owed
<1>4. \A n \in Message : n.inv = i /\ n.iso = m.iso => n = m
  BY DEF Message
<1> HIDE DEF Owed
<1>5. \A n \in Message : n # m => (Owed(n)' <=> Owed(n))
  BY <1>1, <1>4
<1> QED BY <1>2, <1>3, <1>5

\* A row that calls for the same messages as before leaves the outbox alone.
LEMMA RowStutters ==
  ASSUME UNCHANGED <<harmed, booked, unheard>>, pc' # "locked", pc # "locked", NEW i \in Invoice,
         rows \in [Invoice -> [code : Code, org : Code \cup {"none"}, up : SUBSET {1, 2}] \cup {NoRow}],
         NEW row, rows' = [rows EXCEPT ![i] = row],
         \A n \in Message : n.inv = i => (Owed(n)' <=> Owed(n))
  PROVE  UNCHANGED Out!outboxVars
<1>1. \A n \in Message : n.inv # i => (Owed(n)' <=> Owed(n))
  BY DEF Owed, Message
<1>2. owedBar = {n \in Message : Owed(n)}
  BY DEF owedBar, Owed
<1>3. owedBar' = {n \in Message : Owed(n)'}
  BY DEF owedBar, Owed
<1> HIDE DEF Owed
<1>4. owedBar' = owedBar
  BY <1>1, <1>2, <1>3
<1> QED BY <1>4 DEF Out!outboxVars

\* The row of a booking: a sale or a tip made offline is owed from here on, a void takes
\* what is owed back, an online transaction owes nothing.
LEMMA InsertRefines ==
  ASSUME IInv, InsertRow
  PROVE  [Out!Next]_(Out!outboxVars)
<1> PICK i : i = cur.inv
  OBVIOUS
<1> DEFINE row == [code |-> cur.code, org |-> cur.org, up |-> cur.up]
           adv == [inv |-> i, iso |-> "ADVICE"]
           tip == [inv |-> i, iso |-> "TIP"]
<1>1. /\ i \in Invoice /\ cur.code \in Code /\ cur.org = rows[i].code
      /\ IsSale(cur.code) => rows[i] = NoRow
      /\ ~IsSale(cur.code) => IsSale(rows[i].code)
      /\ cur.code = "SALE" => cur.up = {}
      /\ cur.code = "SALE_OFFLINE" => cur.up = {1}
      /\ cur.code = "TIP" => cur.up = TipBits(i)
      /\ cur.code = "VOID" /\ cur.up = {} => ~VoidIsOffline(i)
      /\ cur.code = "VOID" /\ cur.up # {} => cur.up = {1, 2} /\ VoidIsOffline(i)
  BY DEF IInv, CurFits, Pending, InHand, InsertRow, TypeOK, Trans, IsSale
<1>2. /\ rows' = [rows EXCEPT ![i] = row] /\ UNCHANGED <<booked, unheard, harmed>>
      /\ pc = "insert" /\ pc' # "locked" /\ pc # "locked"
  BY DEF InsertRow, line, hist
<1>3. rows \in [Invoice -> [code : Code, org : Code \cup {"none"}, up : SUBSET {1, 2}] \cup {NoRow}]
  BY DEF IInv, TypeOK
<1>4. rows'[i] = row /\ row.code = cur.code /\ row.up = cur.up
  BY <1>1, <1>2, <1>3
<1>5. adv \in Message /\ tip \in Message /\ adv.inv = i /\ tip.inv = i
      /\ adv.iso = "ADVICE" /\ tip.iso = "TIP" /\ adv # tip
  BY <1>1 DEF Message
<1>6. \A n \in Message : n.inv = i =>
        /\ Owed(n) <=> /\ i \notin harmed /\ rows[i].code # "VOID"
                       /\ \/ n.iso = "ADVICE" /\ 1 \in rows[i].up
                          \/ n.iso = "TIP" /\ 2 \in rows[i].up
        /\ Owed(n)' <=> /\ i \notin harmed /\ cur.code # "VOID"
                        /\ \/ n.iso = "ADVICE" /\ 1 \in cur.up
                           \/ n.iso = "TIP" /\ 2 \in cur.up
  BY <1>2, <1>4 DEF Owed
<1>7. CASE \A n \in Message : n.inv = i => (Owed(n)' <=> Owed(n))
  BY <1>1, <1>2, <1>3, <1>7, RowStutters
<1>8. CASE i \notin harmed /\ cur.code = "SALE_OFFLINE"
  <2>1. rows[i] = NoRow /\ rows[i].code # "VOID" /\ rows[i].up = {} /\ cur.up = {1}
    BY <1>1, <1>8 DEF IsSale, NoRow
  <2>2. ~Owed(adv) /\ Owed(adv)' /\ \A n \in Message : n.inv = i /\ n.iso # adv.iso => (Owed(n)' <=> Owed(n))
    BY <1>5, <1>6, <1>8, <2>1
  <2>3. owedBar' = owedBar \cup {adv} /\ adv \notin owedBar
    BY <1>1, <1>2, <1>3, <1>5, <1>8, <2>2, RowMoves
  <2>4. adv \notin booked
    BY <1>5, <2>1 DEF IInv, BookedFits, HasRow
  <2> QED BY <1>2, <1>5, <1>8, <2>3, <2>4 DEF Out!Next, Out!Owe
<1>9. CASE i \notin harmed /\ cur.code = "TIP"
  <2>1. IsSale(rows[i].code) /\ rows[i].code # "VOID" /\ rows[i].code # "TIP" /\ 2 \notin rows[i].up
        /\ cur.up = (rows[i].up \cap {1}) \cup {2}
    BY <1>1, <1>9 DEF IsSale, TipBits, IInv, RowFits
  <2>2. ~Owed(tip) /\ Owed(tip)' /\ \A n \in Message : n.inv = i /\ n.iso # tip.iso => (Owed(n)' <=> Owed(n))
    BY <1>5, <1>6, <1>9, <2>1
  <2>3. owedBar' = owedBar \cup {tip} /\ tip \notin owedBar
    BY <1>1, <1>2, <1>3, <1>5, <1>9, <2>2, RowMoves
  <2>4. tip \notin booked
    BY <1>5, <2>1 DEF IInv, BookedFits
  <2> QED BY <1>2, <1>5, <1>9, <2>3, <2>4 DEF Out!Next, Out!Owe
<1>10. CASE i \notin harmed /\ cur.code = "VOID" /\ cur.up # {}
  <2>1. rows[i].code = "SALE_OFFLINE" /\ rows[i].up = {1} /\ cur.up = {1, 2}
    BY <1>1, <1>10 DEF VoidIsOffline, IInv, RowFits
  <2>2. Owed(adv) /\ ~Owed(adv)' /\ \A n \in Message : n.inv = i /\ n.iso # adv.iso => (Owed(n)' <=> Owed(n))
    BY <1>5, <1>6, <1>10, <2>1
  <2>3. owedBar' = owedBar \ {adv} /\ adv \in owedBar
    BY <1>1, <1>2, <1>3, <1>5, <1>10, <2>2, RowMoves
  <2>4. adv \in booked => i \in unheard
    BY <1>1, <1>2, <1>10, <2>1 DEF IInv, Unsent, Answered, LineFits
  <2> QED BY <1>2, <1>5, <1>10, <2>3, <2>4 DEF Out!Next, Out!Withdraw, Out!MayBeTaken
<1>11. CASE i \in harmed \/ cur.code = "SALE" \/ (cur.code = "VOID" /\ cur.up = {})
  <2>1. rows[i].code \in {"none", "SALE", "SALE_OFFLINE"} /\ cur.code \in {"SALE", "VOID"} /\ i \notin harmed
          => rows[i].up = {} \/ cur.up # {}
    BY <1>1, <1>3 DEF IInv, RowFits, IsSale, NoRow, VoidIsOffline
  <2>2. i \notin harmed => rows[i].code \in {"none", "SALE", "SALE_OFFLINE"} /\ cur.up = {}
    BY <1>1, <1>11 DEF IsSale, NoRow
  <2>3. i \notin harmed => rows[i].up = {} /\ cur.up = {}
    BY <1>11, <2>1, <2>2
  <2> QED BY <1>6, <1>7, <2>3
<1> QED BY <1>1, <1>8, <1>9, <1>10, <1>11 DEF Code

\* An answer 00 that comes to the row takes one message out of the outbox.
LEMMA UpdateRefines ==
  ASSUME IInv, UpdateRow
  PROVE  [Out!Next]_(Out!outboxVars)
<1> PICK i, m : i = Head(queue) /\ m = [inv |-> i, iso |-> IsoCode(rows[i])]
  OBVIOUS
<1> DEFINE row == [rows[i] EXCEPT !.up = BitsAfter(rows[i])]
<1>1. i \in Invoice /\ rows[i] # NoRow /\ m \in booked
  BY DEF IInv, FileFits, LineFits, UpdateRow, Goto, HasRow, FirstMessage
<1>2. rows' = [rows EXCEPT ![i] = row] /\ UNCHANGED <<booked, unheard, harmed>>
      /\ pc = "update" /\ pc' # "locked" /\ pc # "locked"
  BY DEF UpdateRow, Goto, line, hist
<1>3. rows \in [Invoice -> [code : Code, org : Code \cup {"none"}, up : SUBSET {1, 2}] \cup {NoRow}]
  BY DEF IInv, TypeOK
<1>4. rows'[i] = row /\ row.code = rows[i].code /\ row.up = BitsAfter(rows[i])
  BY <1>1, <1>2, <1>3
<1>5. \A n \in Message : n.inv = i =>
        /\ Owed(n) <=> /\ i \notin harmed /\ rows[i].code # "VOID"
                       /\ \/ n.iso = "ADVICE" /\ 1 \in rows[i].up
                          \/ n.iso = "TIP" /\ 2 \in rows[i].up
        /\ Owed(n)' <=> /\ i \notin harmed /\ rows[i].code # "VOID"
                        /\ \/ n.iso = "ADVICE" /\ 1 \in BitsAfter(rows[i])
                           \/ n.iso = "TIP" /\ 2 \in BitsAfter(rows[i])
  BY <1>2, <1>4 DEF Owed
<1>6. CASE i \in harmed
  BY <1>1, <1>2, <1>3, <1>5, <1>6, RowStutters
<1>7. CASE i \notin harmed
  <2>1. \/ rows[i].code = "SALE_OFFLINE" /\ rows[i].up = {1}
        \/ rows[i].code = "TIP" /\ rows[i].up \in {{2}, {1, 2}}
    BY <1>2, <1>7, FirstIsOwed DEF IInv
  <2>2. /\ rows[i].up = {1} => m.iso = "ADVICE" /\ BitsAfter(rows[i]) = {}
        /\ rows[i].up = {2} => m.iso = "TIP" /\ BitsAfter(rows[i]) = {}
        /\ rows[i].up = {1, 2} => m.iso = "ADVICE" /\ BitsAfter(rows[i]) = {2}
    BY <2>1 DEF IsoCode, BitsAfter
  <2>3. m \in Message /\ m.inv = i
    BY <1>1, <2>1, <2>2 DEF Message
  <2>4. Owed(m) /\ ~Owed(m)' /\ \A n \in Message : n.inv = i /\ n.iso # m.iso => (Owed(n)' <=> Owed(n))
    BY <1>5, <1>7, <2>1, <2>2, <2>3
  <2>5. owedBar' = owedBar \ {m} /\ m \in owedBar
    BY <1>1, <1>2, <1>3, <1>7, <2>3, <2>4, RowMoves
  <2> QED BY <1>1, <1>2, <2>3, <2>5 DEF Out!Next, Out!Done
<1> QED BY <1>6, <1>7

\* What the host takes is due: it is owed, not known to be taken, and no tip whose sale
\* is still to come.
LEMMA HostTakesRefines ==
  ASSUME IInv, HostTakes
  PROVE  Out!Next
<1> DEFINE i == Head(queue)
<1>1. pc = "wait" /\ reply = "none" /\ net = FirstMessage /\ net \in Message
  BY DEF IInv, LineFits, HostTakes, TypeOK
<1>2. i \in Invoice /\ net.inv = i /\ net.iso = IsoCode(rows[i])
  BY <1>1 DEF FirstMessage, Message
<1>3. booked' = booked \cup {net} /\ UNCHANGED <<owedBar, unheard, harmed, pc>>
  BY DEF HostTakes, disk, ram, hist, owedBar
<1>4. ASSUME i \notin harmed
      PROVE  /\ net \in owedBar /\ (net \in booked => i \in unheard)
             /\ net.iso = "TIP" => \A n \in owedBar : n.inv = i => n.iso = "TIP"
  <2>1. \/ rows[i].code = "SALE_OFFLINE" /\ rows[i].up = {1}
        \/ rows[i].code = "TIP" /\ rows[i].up \in {{2}, {1, 2}}
    BY <1>1, <1>4, FirstIsOwed DEF IInv
  <2>2. /\ rows[i].up = {1} => net.iso = "ADVICE"
        /\ rows[i].up = {2} => net.iso = "TIP"
        /\ rows[i].up = {1, 2} => net.iso = "ADVICE"
    BY <1>2, <2>1 DEF IsoCode
  <2>3. net \in owedBar
    BY <1>1, <1>2, <1>4, <2>1, <2>2 DEF owedBar
  <2>4. net = [inv |-> i, iso |-> net.iso]
    BY <1>1, <1>2 DEF Message
  <2>5. net \in booked => i \in unheard
    BY <1>1, <1>2, <1>4, <2>1, <2>2, <2>4 DEF IInv, Unsent, Answered
  <2>6. net.iso = "TIP" => rows[i].up = {2}
    BY <2>1, <2>2
  <2> QED BY <2>3, <2>5, <2>6 DEF owedBar
<1> QED BY <1>1, <1>2, <1>3, <1>4 DEF Out!Next, Out!Take, Out!MayBeTaken

\* At the closing request nothing is owed.
LEMMA NothingOwedAtClose ==
  ASSUME IInv, pc = "close"
  PROVE  owedBar = {}
<1> SUFFICES ASSUME NEW m \in Message, m \in owedBar PROVE FALSE
  BY DEF owedBar
<1> DEFINE i == m.inv
<1>1. i \in Invoice /\ i \notin harmed /\ rows[i].code # "VOID" /\ rows[i].up # {}
  BY DEF owedBar, Message
<1>2. Held(i) = 0
  BY CountEmpty DEF IInv, FileFits, Held
<1>3. Owing(rows[i].code, rows[i].up) = 0
  BY <1>1, <1>2 DEF IInv, Matches
<1>4. rows[i].up \in SUBSET {1, 2}
  BY <1>1 DEF IInv, TypeOK, NoRow
<1>5. rows[i].up = {} \/ rows[i].up = {1} \/ rows[i].up = {2} \/ rows[i].up = {1, 2}
  BY <1>4
<1> QED BY <1>1, <1>3, <1>5, OwingValues

\* A fresh batch is an empty outbox.
LEMMA FreshIsEmpty == FreshBatch => Out!Empty'
<1> SUFFICES ASSUME FreshBatch PROVE Out!Empty'
  OBVIOUS
<1>1. \A m \in Message : rows'[m.inv].up = {}
  BY DEF FreshBatch, NoRow, Message
<1>2. owedBar' = {}
  BY <1>1 DEF owedBar
<1> QED BY <1>2 DEF Out!Empty, FreshBatch

\* Every step of the flow is a step of the outbox or leaves it alone.
LEMMA StepRefines ==
  ASSUME IInv, [Next]_vars
  PROVE  [Out!Next]_(Out!outboxVars)
<1> USE DEF disk, ram, line, hist
<1>1. CASE UNCHANGED vars
  BY <1>1, OutboxStutters DEF vars
<1>2. CASE Begin \/ StartSettle
  BY <1>2, OutboxStutters DEF Begin, StartOfflineSale, OnlineSale, StartTip, StartOfflineVoid,
     OnlineVoid, Start, StartSettle
<1>3. CASE File
  <2>1. CASE SaveAppend \/ DeleteOne \/ RenameBackup
    BY <2>1, OutboxStutters DEF SaveAppend, DeleteOne, RenameBackup, Goto
  <2>2. CASE DeleteOnly
    BY <2>2, OutboxMishap DEF DeleteOnly, Goto
  <2>3. CASE DeleteFails
    <3>1. UNCHANGED <<owedBar, booked, unheard, harmed>> /\ pc # "locked" /\ pc' = "locked"
      BY <2>3 DEF DeleteFails, Goto, owedBar
    <3> QED BY <3>1 DEF Out!Next, Out!Lock
  <2> QED BY <1>3, <2>1, <2>2, <2>3 DEF File
<1>4. CASE Book
  <2>1. CASE SaveInvoice
    BY <2>1, OutboxStutters DEF SaveInvoice, Goto
  <2> QED BY <1>4, <2>1, InsertRefines DEF Book
<1>5. CASE Send
  <2>1. CASE Timeout
    <3>1. \A i \in unheard' \ unheard : \E m \in booked : m.inv = i
      BY <2>1 DEF Timeout, Taken, IInv, LineFits, FirstMessage
    <3> QED BY <2>1, <3>1, OutboxMishap DEF Timeout, AfterAdvices
  <2>2. CASE SendHead \/ NoMoreAdvices \/ HeadHasNoRow \/ Accepted \/ Refused
    BY <2>2, OutboxStutters DEF SendHead, NoMoreAdvices, HeadHasNoRow, Accepted, Refused,
       AfterAdvices, Goto
  <2> QED BY <1>5, <2>1, <2>2 DEF Send
<1>6. CASE Remove
  <2>1. CASE DropOnly \/ DropFirst \/ RewriteRest
    BY <2>1, OutboxStutters DEF DropOnly, DropFirst, RewriteRest, Goto
  <2> QED BY <1>6, <2>1, UpdateRefines DEF Remove
<1>7. CASE Host
  <2>1. CASE HostRefuses
    BY <2>1, OutboxStutters DEF HostRefuses
  <2> QED BY <1>7, <2>1, HostTakesRefines DEF Host
<1>8. CASE Close
  <2>1. CASE CloseBatch
    BY <2>1, NothingOwedAtClose, FreshIsEmpty DEF CloseBatch, Goto, Out!Next, Out!Close
  <2>2. CASE SettleFailed
    BY <2>2, OutboxStutters DEF SettleFailed, Goto
  <2> QED BY <1>8, <2>1, <2>2 DEF Close
<1>9. CASE Crash
  <2>1. \A i \in unheard' \ unheard : \E m \in booked : m.inv = i
    BY <1>9 DEF Crash, Taken, IInv, LineFits, FirstMessage
  <2> QED BY <1>9, <2>1, OutboxMishap DEF Crash
<1>10. CASE Boot
  BY <1>10, OutboxStutters DEF Boot, Goto
<1>11. CASE Service
  <2>1. CASE Unlock
    <3>1. UNCHANGED <<owedBar, booked, unheard, harmed>> /\ pc = "locked" /\ pc' # "locked"
      BY <2>1 DEF Unlock, Goto, owedBar
    <3> QED BY <3>1 DEF Out!Next, Out!Unlock
  <2>2. CASE UnlockAndDelete
    BY <2>2, FreshIsEmpty DEF UnlockAndDelete, Goto, Out!Next, Out!Delete
  <2> QED BY <1>11, <2>1, <2>2 DEF Service
<1> QED BY <1>1, <1>2, <1>3, <1>4, <1>5, <1>6, <1>7, <1>8, <1>9, <1>10, <1>11 DEF Next

\* File, rows, line and host together are an Outbox, for every number of invoices and of
\* power failures: what an offline transaction owes the host is taken in order before the
\* batch closes, once but for unheard answers, and what is voided unsent is never taken.
THEOREM SpecImplementsOutbox == Spec => ImplementsOutbox
<1>1. Init => Out!Init
  <2> SUFFICES ASSUME Init PROVE Out!Init
    OBVIOUS
  <2>1. \A m \in Message : rows[m.inv].up = {}
    BY DEF Init, NoRow, Message
  <2>2. owedBar = {}
    BY <2>1 DEF owedBar
  <2> QED BY <2>2 DEF Init, Out!Init, Out!Empty
<1>2. IInv /\ [Next]_vars => [Out!Next]_(Out!outboxVars)
  BY StepRefines
<1> QED BY <1>1, <1>2, SpecIInv, PTL DEF Spec, ImplementsOutbox, Out!Spec
=============================================================================
