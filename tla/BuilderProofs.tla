---------------------------- MODULE BuilderProofs ----------------------------
(***************************************************************************)
(* Proofs about TxBuilder: what a run sends and pays, what the conversion of*)
(* any transaction keeps, and that what is sent converts to what was asked. *)
(***************************************************************************)
EXTENDS TxBuilder, EgtxProofs

Answers == {"short", "dry", "sent", "refused", "lost"}

Stages == {"idle", "main", "list", "send", "done"}

\* Where the program is and what its variables then are.
BuilderInv ==
  /\ stage \in Stages
  /\ stage = "idle" => answers = <<>> /\ sent = <<>> /\ sender.mode = "none"
  /\ stage # "idle" => sender \in Senders
  /\ stage \in {"main", "list"} => answers = <<>> /\ sent = <<>>
  /\ unspent = <<>> \/ unspent \in Listings
  /\ answers \in Seq(Answers)
  /\ stage \in {"list", "send"} => sender.payToType # "bad"
  /\ stage = "send" => sender.mode # "listUtxo" /\ Len(answers) < Len(unspent)
  /\ stage = "send" => Attempts({"sent", "dry"}) = {}

SentInv ==
  /\ sent \in Seq(Transactions)
  /\ SendsOnce
  /\ FeeIsPaid

-----------------------------------------------------------------------------
LEMMA ListType ==
  ASSUME NEW list \in Listings \cup {<<>>}
  PROVE  list \in Seq(Nat)
<1>1. \A l \in Listings : l \in Seq(Nat)
  BY BuilderAssumption, Zenon
<1>2. <<>> \in Seq(Nat)
  OBVIOUS
<1> QED
  BY <1>1, <1>2, Zenon

LEMMA AttemptsAppend ==
  ASSUME NEW S, NEW T, answers \in Seq(T), NEW answer \in T, answers' = Append(answers, answer)
  PROVE  /\ Attempts(S)' = Attempts(S) \cup (IF answer \in S THEN {Len(answers) + 1} ELSE {})
         /\ IsFiniteSet(Attempts(S)) /\ Len(answers) + 1 \notin Attempts(S)
         /\ Cardinality(Attempts(S))' = Cardinality(Attempts(S)) + (IF answer \in S THEN 1 ELSE 0)
<1>1. Attempts(S)' = Attempts(S) \cup (IF answer \in S THEN {Len(answers) + 1} ELSE {})
  BY DEF Attempts
<1>2. Len(answers) + 1 \notin Attempts(S) /\ Attempts(S) \subseteq 1..Len(answers) /\ Len(answers) \in Nat
  BY DEF Attempts
<1>3. IsFiniteSet(Attempts(S)) /\ Cardinality(Attempts(S)) \in Nat
  <2>1. IsFiniteSet(1..Len(answers))
    BY <1>2, FS_Interval
  <2> QED
    BY <1>2, <2>1, FS_Subset, FS_CardinalityType
<1> HIDE DEF Attempts
<1>4. Cardinality(Attempts(S))' = Cardinality(Attempts(S)) + (IF answer \in S THEN 1 ELSE 0)
  <2>1. CASE answer \in S
    <3>1. Attempts(S)' = Attempts(S) \cup {Len(answers) + 1}
      BY <1>1, <2>1
    <3>2. Cardinality(Attempts(S) \cup {Len(answers) + 1}) = Cardinality(Attempts(S)) + 1
      BY <1>2, <1>3, FS_AddElement, Zenon
    <3> QED
      BY <2>1, <3>1, <3>2
  <2>2. CASE answer \notin S
    <3>1. Attempts(S)' = Attempts(S)
      BY <1>1, <2>2
    <3> QED
      BY <1>3, <2>2, <3>1
  <2> QED
    BY <2>1, <2>2
<1> QED
  BY <1>1, <1>2, <1>3, <1>4

LEMMA BuilderInit == BInit => BuilderInv
<1> SUFFICES ASSUME BInit PROVE BuilderInv
  OBVIOUS
<1>1. Attempts({"sent", "dry"}) = {}
  BY DEF BInit, Attempts
<1> QED
  BY <1>1 DEF BInit, BuilderInv, Stages

LEMMA BuilderStep == BuilderInv /\ [BNext]_vars => BuilderInv'
<1> SUFFICES ASSUME BuilderInv, [BNext]_vars PROVE BuilderInv'
  OBVIOUS
<1>0. unspent \in Seq(Nat) /\ Len(unspent) \in Nat /\ Len(answers) \in Nat
  BY ListType DEF BuilderInv
<1>1. CASE UNCHANGED <<sender, stage, unspent, answers, sent>>
  BY <1>1 DEF BuilderInv, Attempts
<1>2. CASE main
  BY <1>2 DEF main, BuilderInv, Attempts, Stages
<1>3. CASE listUnspentUtxo
  <2>1. unspent' \in Seq(Nat)
    BY <1>3, BuilderAssumption DEF listUnspentUtxo
  <2>2. answers = <<>> /\ sent = <<>> /\ Len(answers) = 0
    BY <1>3 DEF listUnspentUtxo, BuilderInv
  <2>3. Attempts({"sent", "dry"})' = {}
    BY <1>3, <2>2 DEF listUnspentUtxo, Attempts
  <2>4. stage' \in {"send", "done"} /\ (stage' = "send" => sender.mode # "listUtxo" /\ unspent' # <<>>)
    BY <1>3 DEF listUnspentUtxo
  <2>5. stage' = "send" => Len(answers') < Len(unspent')
    BY <1>3, <2>1, <2>2, <2>4 DEF listUnspentUtxo
  <2> QED
    BY <1>3, <2>2, <2>3, <2>4, <2>5 DEF listUnspentUtxo, BuilderInv, Stages
<1>4. CASE buildAndSendEGTX
  <2>1. PICK answer \in Answers :
          /\ answers' = Append(answers, answer)
          /\ stage' = IF Stops(answer) \/ Len(answers') = Len(unspent) THEN "done" ELSE "send"
    BY <1>4 DEF buildAndSendEGTX, Answers
  <2>2. stage = "send" /\ UNCHANGED <<sender, unspent>> /\ sender \in Senders
    BY <1>4 DEF buildAndSendEGTX, BuilderInv
  <2>3. answers' \in Seq(Answers) /\ Len(answers') = Len(answers) + 1
    BY <2>1 DEF BuilderInv
  <2>4. stage' = "send" => Len(answers') < Len(unspent')
    BY <1>0, <2>1, <2>2, <2>3 DEF BuilderInv
  <2>5. stage' = "send" => Attempts({"sent", "dry"})' = {}
    <3>1. Attempts({"sent", "dry"})' = Attempts({"sent", "dry"}) \cup (IF answer \in {"sent", "dry"} THEN {Len(answers) + 1} ELSE {})
      BY <2>1, AttemptsAppend, Zenon DEF BuilderInv
    <3>2. stage' = "send" => answer \notin {"sent", "dry"}
      BY <2>1 DEF Stops
    <3> QED
      BY <2>2, <3>1, <3>2 DEF BuilderInv
  <2> QED
    BY <2>1, <2>2, <2>3, <2>4, <2>5 DEF BuilderInv, Stages
<1>5. CASE Scan
  BY <1>5 DEF Scan, BuilderInv, Attempts
<1> QED
  BY <1>1, <1>2, <1>3, <1>4, <1>5 DEF BNext, vars

-----------------------------------------------------------------------------
(* The transaction that is built *)

\* Total, as its loop.
IsTotal(f, outs, n) == f = [k \in 0..n |-> IF k = 0 THEN 0 ELSE f[k - 1] + outs[k].value]

LEMMA TotalExists ==
  ASSUME NEW outs, NEW n \in Nat
  PROVE  \E f : IsTotal(f, outs, n)
<1> DEFINE Body(f, k) == IF k = 0 THEN 0 ELSE f[k - 1] + outs[k].value
           T == {m \in Nat : \E f : IsTotal(f, outs, m)}
<1>1. 0 \in T
  <2> DEFINE f == [k \in 0..0 |-> 0]
  <2>1. \A k \in 0..0 : k = 0
    OBVIOUS
  <2>2. f = [k \in 0..0 |-> Body(f, k)]
    BY <2>1, Zenon
  <2>3. IsTotal(f, outs, 0)
    BY <2>2, Zenon DEF IsTotal
  <2> QED
    BY <2>3
<1>2. ASSUME NEW m \in Nat, m \in T PROVE m + 1 \in T
  <2>1. PICK f : IsTotal(f, outs, m)
    BY <1>2
  <2> DEFINE g == [k \in 0..(m + 1) |-> Body(f, k)]
  <2>2. \A k \in 0..m : f[k] = Body(f, k)
    BY <2>1, Zenon DEF IsTotal
  <2>3. \A k \in 0..m : k \in 0..(m + 1)
    OBVIOUS
  <2>4. \A k \in 0..m : g[k] = f[k]
    BY <2>2, <2>3, Zenon
  <2>5. \A k \in 0..(m + 1) : k # 0 => k - 1 \in 0..m
    OBVIOUS
  <2>6. g = [k \in 0..(m + 1) |-> Body(g, k)]
    BY <2>4, <2>5, Zenon
  <2>7. IsTotal(g, outs, m + 1)
    BY <2>6, Zenon DEF IsTotal
  <2> QED
    BY <2>7
<1> HIDE DEF T
<1>3. n \in T
  BY <1>1, <1>2, Induction
<1> QED
  BY <1>3 DEF T

LEMMA TotalDef ==
  ASSUME NEW outs, NEW n \in Nat, Len(outs) = n
  PROVE  \E f : Total(outs) = f[n] /\ f[0] = 0 /\ \A k \in 1..n : f[k] = f[k - 1] + outs[k].value
<1> DEFINE f == CHOOSE g : IsTotal(g, outs, n)
<1>1. Total(outs) = f[n]
  BY DEF Total, IsTotal
<1>2. IsTotal(f, outs, n)
  BY TotalExists, Zenon
<1> HIDE DEF f
<1>3. \A k \in 0..n : f[k] = IF k = 0 THEN 0 ELSE f[k - 1] + outs[k].value
  BY <1>2, Zenon DEF IsTotal
<1>4. 0 \in 0..n /\ \A k \in 1..n : k \in 0..n /\ k # 0
  OBVIOUS
<1>5. f[0] = 0 /\ \A k \in 1..n : f[k] = f[k - 1] + outs[k].value
  BY <1>3, <1>4, Zenon
<1> QED
  BY <1>1, <1>5, Zenon

LEMMA PaddedType ==
  ASSUME NEW bytes \in Seq(Byte), NEW n \in Nat
  PROVE  PadRight(bytes, n) \in Seq(Byte)
<1>1. 0 \in Byte
  BY DEF Byte
<1> QED
  BY <1>1, PaddedFacts

LEMMA OutType ==
  ASSUME NEW type \in ScriptTypes
  PROVE  /\ Out(type) \in Outputs /\ Out(type).value = 0 /\ Out(type).cut = 0
<1>1. <<>> \in Seq(Byte) /\ <<>> \in Seq(Seq(Byte))
  OBVIOUS
<1>2. NoToken \in TokenData
  BY <1>1 DEF NoToken, TokenData, Unparsable
<1>3. NoAddress \in Nat
  BY CandidatesAssumption
<1> QED
  BY <1>1, <1>2, <1>3 DEF Out, Outputs

PaidTo(out, type, address) == out.type = type /\ out.address = address

LEMMA PaymentType ==
  ASSUME NEW type \in ScriptTypes, NEW address \in Nat, NEW value \in Nat
  PROVE  /\ PayToAddr(type, address, value) \in Outputs
         /\ PayToAddr(type, address, value).value = value
         /\ PayToAddr(type, address, value).cut = 0
         /\ PaidTo(PayToAddr(type, address, value), type, address)
<1> DEFINE out == Out(type)
<1>1. out \in Outputs /\ out.cut = 0 /\ out.type = type
  BY OutType DEF Out
<1>2. PayToAddr(type, address, value) = [out EXCEPT !.address = address, !.value = value]
  BY DEF PayToAddr
<1> HIDE DEF out
<1> QED
  BY <1>1, <1>2, Zenon DEF Outputs, PaidTo

LEMMA NullDataType ==
  ASSUME sender \in Senders
  PROVE  /\ buildNullDataScript \in Outputs
         /\ buildNullDataScript.value = 0
         /\ buildNullDataScript.cut = 0
<1> DEFINE es == <<PadRight(sender.contract, AddressBytes), PadRight(sender.payer, AddressBytes),
                   PadRight(sender.payee, AddressBytes), PadRight(sender.fileID, TopicBytes), <<>>>>
<1>1. /\ sender.contract \in Seq(Byte) /\ sender.payer \in Seq(Byte)
      /\ sender.payee \in Seq(Byte) /\ sender.fileID \in Seq(Byte)
      /\ AddressBytes \in Nat /\ TopicBytes \in Nat
  BY BuilderAssumption, CandidatesAssumption
<1>2. /\ PadRight(sender.contract, AddressBytes) \in Seq(Byte)
      /\ PadRight(sender.payer, AddressBytes) \in Seq(Byte)
      /\ PadRight(sender.payee, AddressBytes) \in Seq(Byte)
      /\ PadRight(sender.fileID, TopicBytes) \in Seq(Byte)
  BY <1>1, PaddedType, Zenon
<1>3. es \in Seq(Seq(Byte))
  BY <1>2
<1> HIDE DEF es
<1>4. buildNullDataScript = [Out("nulldata") EXCEPT !.egtx = TRUE, !.pushes = es]
  BY DEF buildNullDataScript, es
<1> QED
  BY <1>3, <1>4, OutType, Zenon DEF Outputs, ScriptTypes

\* The facts about a call of buildEGTX that is not short of money.
Funded(value, inAmt, payAmt) ==
  /\ sender \in Senders /\ sender.payToType # "bad"
  /\ value \in Nat /\ value * WeiPerSatoshi < Uint96
  /\ inAmt \in Satoshis(value)
  /\ payAmt \in Satoshis(PayAmt)
  /\ ~NotEnough(inAmt, payAmt)

LEMMA FundedFacts ==
  ASSUME NEW value, NEW inAmt, NEW payAmt, Funded(value, inAmt, payAmt)
  PROVE  /\ inAmt \in Nat /\ payAmt \in Nat /\ sender.fee \in Nat /\ PayAmt \in Nat
         /\ value - inAmt \in {0, 1} /\ PayAmt - payAmt \in {0, 1}
         /\ inAmt > payAmt + sender.fee
         /\ PayAmt > 0 <=> payAmt > 0
         /\ payAmt > 0 => sender.payToType \in ScriptTypes
         /\ sender.from \in Nat /\ sender.payTo \in Nat
<1>1. /\ sender.fee \in Nat /\ sender.payAmt \in Nat /\ sender.from \in Nat /\ sender.payTo \in Nat
      /\ sender.payToType \in {"none", "bad"} \cup ScriptTypes
  BY BuilderAssumption DEF Funded, ScriptTypes
<1>2. PayAmt \in Nat
  BY <1>1 DEF PayAmt
<1>3. inAmt \in Nat /\ value - inAmt \in {0, 1}
  BY DEF Funded, Satoshis
<1>4. payAmt \in Nat /\ PayAmt - payAmt \in {0, 1} /\ (PayAmt > 0 <=> payAmt > 0)
  BY <1>2 DEF Funded, Satoshis
<1>5. payAmt > 0 => sender.payToType \in ScriptTypes
  BY <1>1, <1>2, <1>4 DEF Funded, PayAmt
<1> QED
  BY <1>1, <1>2, <1>3, <1>4, <1>5 DEF Funded, NotEnough

\* Its outputs and its input: the data, the payment if there is one, the change.
BuiltAs(value, inAmt, payAmt, outs, ins) ==
  /\ buildEGTX(value, inAmt, payAmt) = [vout |-> outs, vin |-> ins]
  /\ outs \in Seq(Outputs) /\ ins \in Seq(Outputs)
  /\ Len(outs) = (IF payAmt > 0 THEN 3 ELSE 2) /\ Len(ins) = 1
  /\ outs[1].value = 0
  /\ payAmt > 0 => outs[2].value = payAmt
  /\ outs[Len(outs)].value = inAmt - payAmt - sender.fee
  /\ ins[1].value = value
  /\ \A i \in 1..Len(outs) : outs[i].cut = 0
  /\ ins[1].cut = 0
  /\ outs[1] = buildNullDataScript
  /\ payAmt > 0 => PaidTo(outs[2], sender.payToType, sender.payTo)
  /\ PaidTo(outs[Len(outs)], "pubkeyhash", sender.from)
  /\ PaidTo(ins[1], "pubkeyhash", sender.from)

IsTriple(s, V, x, y, z) == s \in Seq(V) /\ Len(s) = 3 /\ s[1] = x /\ s[2] = y /\ s[3] = z

IsPair(s, V, x, z) == s \in Seq(V) /\ Len(s) = 2 /\ s[1] = x /\ s[2] = z

LEMMA Triple ==
  ASSUME NEW V, NEW x \in V, NEW y \in V, NEW z \in V
  PROVE  IsTriple(<<x>> \o <<y>> \o <<z>>, V, x, y, z)
<1> DEFINE p == <<x>>
           q == <<y>>
           r == <<z>>
           pq == p \o q
<1>1. /\ p \in Seq(V) /\ q \in Seq(V) /\ r \in Seq(V)
      /\ Len(p) = 1 /\ Len(q) = 1 /\ Len(r) = 1
      /\ p[1] = x /\ q[1] = y /\ r[1] = z
  OBVIOUS
<1> HIDE DEF p, q, r
<1>2. pq \in Seq(V) /\ Len(pq) = 2 /\ pq[1] = x /\ pq[2] = y
  BY <1>1, ConcatProperties
<1> HIDE DEF pq
<1>3. /\ pq \o r \in Seq(V) /\ Len(pq \o r) = 3
      /\ \A i \in 1..3 : (pq \o r)[i] = IF i <= 2 THEN pq[i] ELSE r[i - 2]
  <2>1. /\ pq \o r \in Seq(V) /\ Len(pq \o r) = Len(pq) + Len(r)
        /\ \A i \in 1..(Len(pq) + Len(r)) : (pq \o r)[i] = IF i <= Len(pq) THEN pq[i] ELSE r[i - Len(pq)]
    BY <1>1, <1>2, ConcatProperties, Zenon
  <2>2. Len(pq) = 2 /\ Len(pq) + Len(r) = 3
    BY <1>1, <1>2
  <2> QED
    BY <2>1, <2>2
<1> DEFINE s == pq \o r
<1> HIDE DEF s
<1>4. s[1] = x /\ s[2] = y /\ s[3] = z
  BY <1>1, <1>2, <1>3 DEF s
<1>5. IsTriple(s, V, x, y, z)
  BY <1>3, <1>4 DEF IsTriple, s
<1> QED
  BY <1>5, Zenon DEF p, q, r, pq, s

LEMMA Pair ==
  ASSUME NEW V, NEW x \in V, NEW z \in V
  PROVE  IsPair(<<x>> \o <<>> \o <<z>>, V, x, z)
<1> DEFINE p == <<x>>
           q == <<>>
           r == <<z>>
           pq == p \o q
<1>1. /\ p \in Seq(V) /\ q \in Seq(V) /\ r \in Seq(V)
      /\ Len(p) = 1 /\ Len(q) = 0 /\ Len(r) = 1
      /\ p[1] = x /\ r[1] = z
  OBVIOUS
<1> HIDE DEF p, q, r
<1>2. pq \in Seq(V) /\ Len(pq) = 1 /\ pq[1] = x
  BY <1>1, ConcatProperties
<1> HIDE DEF pq
<1>3. pq \o r \in Seq(V) /\ Len(pq \o r) = 2 /\ (pq \o r)[1] = x /\ (pq \o r)[2] = z
  BY <1>1, <1>2, ConcatProperties
<1> QED
  BY <1>3, Zenon DEF p, q, r, pq, IsPair

LEMMA BuiltShape ==
  ASSUME NEW value, NEW inAmt, NEW payAmt, Funded(value, inAmt, payAmt)
  PROVE  \E outs, ins : BuiltAs(value, inAmt, payAmt, outs, ins)
<1> DEFINE change == inAmt - payAmt - sender.fee
           null == buildNullDataScript
           pay == PayToAddr(IF payAmt > 0 THEN sender.payToType ELSE "other", sender.payTo, payAmt)
           rest == PayToAddr("pubkeyhash", sender.from, change)
           from == PayToAddr("pubkeyhash", sender.from, value)
<1>1. change \in Nat /\ change > 0 /\ payAmt \in Nat /\ value \in Nat
  <2>1. inAmt \in Nat /\ payAmt \in Nat /\ sender.fee \in Nat /\ inAmt > payAmt + sender.fee
    BY FundedFacts
  <2> QED
    BY <2>1 DEF Funded
<1>2. null \in Outputs /\ null.value = 0 /\ null.cut = 0
  BY NullDataType DEF Funded
<1>3. (IF payAmt > 0 THEN sender.payToType ELSE "other") \in ScriptTypes
  BY FundedFacts DEF ScriptTypes
<1>4. pay \in Outputs /\ pay.value = payAmt /\ pay.cut = 0 /\ (payAmt > 0 => PaidTo(pay, sender.payToType, sender.payTo))
  <2> DEFINE type == IF payAmt > 0 THEN sender.payToType ELSE "other"
  <2>1. type \in ScriptTypes /\ sender.payTo \in Nat
    BY <1>3, FundedFacts
  <2>2. payAmt > 0 => type = sender.payToType
    OBVIOUS
  <2> HIDE DEF type
  <2>3. LET p == PayToAddr(type, sender.payTo, payAmt)
        IN  p \in Outputs /\ p.value = payAmt /\ p.cut = 0 /\ PaidTo(p, type, sender.payTo)
    BY <1>1, <2>1, PaymentType
  <2> QED
    BY <2>2, <2>3, Zenon DEF type
<1>5. "pubkeyhash" \in ScriptTypes /\ sender.from \in Nat
  BY FundedFacts DEF ScriptTypes
<1>6. rest \in Outputs /\ rest.value = change /\ rest.cut = 0 /\ PaidTo(rest, "pubkeyhash", sender.from)
  BY <1>1, <1>5, PaymentType
<1>7. from \in Outputs /\ from.value = value /\ from.cut = 0 /\ PaidTo(from, "pubkeyhash", sender.from)
  BY <1>1, <1>5, PaymentType
<1>8. payAmt > 0 => buildEGTX(value, inAmt, payAmt) = [vout |-> <<null>> \o <<pay>> \o <<rest>>, vin |-> <<from>>]
  BY <1>1, Zenon DEF buildEGTX
<1>9. ~(payAmt > 0) => buildEGTX(value, inAmt, payAmt) = [vout |-> <<null>> \o <<>> \o <<rest>>, vin |-> <<from>>]
  BY <1>1, Zenon DEF buildEGTX
<1> HIDE DEF null, pay, rest, from
<1> DEFINE ins == <<from>>
<1>10. ins \in Seq(Outputs) /\ Len(ins) = 1 /\ ins[1] = from
  BY <1>7
<1> HIDE DEF ins
<1>11. CASE payAmt > 0
  <2> DEFINE outs == <<null>> \o <<pay>> \o <<rest>>
  <2>1. buildEGTX(value, inAmt, payAmt) = [vout |-> outs, vin |-> ins]
    BY <1>8, <1>11, Zenon DEF ins
  <2>2. outs \in Seq(Outputs) /\ Len(outs) = 3 /\ outs[1] = null /\ outs[2] = pay /\ outs[3] = rest
    <3>1. IsTriple(outs, Outputs, null, pay, rest)
      BY <1>2, <1>4, <1>6, Triple
    <3> QED
      BY <3>1, Zenon DEF IsTriple
  <2> HIDE DEF outs
  <2>3. \A i \in 1..Len(outs) : outs[i].cut = 0
    BY <1>2, <1>4, <1>6, <2>2
  <2>4. BuiltAs(value, inAmt, payAmt, outs, ins)
    BY <1>2, <1>4, <1>6, <1>7, <1>10, <1>11, <2>1, <2>2, <2>3 DEF BuiltAs, null
  <2> QED
    BY <2>4, Zenon
<1>12. CASE ~(payAmt > 0)
  <2> DEFINE outs == <<null>> \o <<>> \o <<rest>>
  <2>1. buildEGTX(value, inAmt, payAmt) = [vout |-> outs, vin |-> ins]
    BY <1>9, <1>12, Zenon DEF ins
  <2>2. outs \in Seq(Outputs) /\ Len(outs) = 2 /\ outs[1] = null /\ outs[2] = rest
    <3>1. IsPair(outs, Outputs, null, rest)
      BY <1>2, <1>6, Pair
    <3> QED
      BY <3>1, Zenon DEF IsPair
  <2> HIDE DEF outs
  <2>3. \A i \in 1..Len(outs) : outs[i].cut = 0
    BY <1>2, <1>6, <2>2
  <2>4. BuiltAs(value, inAmt, payAmt, outs, ins)
    BY <1>2, <1>6, <1>7, <1>10, <1>12, <2>1, <2>2, <2>3 DEF BuiltAs, null
  <2> QED
    BY <2>4, Zenon
<1> QED
  BY <1>11, <1>12

LEMMA BuiltPays ==
  ASSUME NEW value, NEW inAmt, NEW payAmt, Funded(value, inAmt, payAmt)
  PROVE  /\ buildEGTX(value, inAmt, payAmt) \in Transactions
         /\ PaysFee(buildEGTX(value, inAmt, payAmt))
<1>1. PICK outs, ins : BuiltAs(value, inAmt, payAmt, outs, ins)
  BY BuiltShape
<1> DEFINE t == [vout |-> outs, vin |-> ins]
           n == IF payAmt > 0 THEN 3 ELSE 2
<1>2. /\ inAmt \in Nat /\ payAmt \in Nat /\ sender.fee \in Nat /\ PayAmt \in Nat /\ value \in Nat
      /\ value - inAmt \in {0, 1} /\ PayAmt - payAmt \in {0, 1}
      /\ inAmt > payAmt + sender.fee
      /\ PayAmt > 0 <=> payAmt > 0
  BY FundedFacts DEF Funded
<1>3. buildEGTX(value, inAmt, payAmt) = t
  BY <1>1, Zenon DEF BuiltAs
<1>4. /\ outs \in Seq(Outputs) /\ ins \in Seq(Outputs)
      /\ Len(outs) = n /\ n \in {2, 3} /\ Len(ins) = 1
      /\ outs[1].value = 0
      /\ payAmt > 0 => outs[2].value = payAmt
      /\ outs[n].value = inAmt - payAmt - sender.fee
      /\ ins[1].value = value
      /\ \A i \in 1..n : outs[i].cut = 0
      /\ ins[1].cut = 0
  BY <1>1 DEF BuiltAs
<1>5. t.vout = outs /\ t.vin = ins
  OBVIOUS
<1>6. t \in Transactions
  <2>1. ASSUME NEW i \in 1..n PROVE outs[i].value \in Nat /\ outs[i].value <= value
    <3>0. (n = 3 /\ payAmt > 0) \/ n = 2
      BY <1>2
    <3> HIDE DEF n
    <3>1. i = 1 \/ i = n \/ (payAmt > 0 /\ i = 2)
      BY <3>0
    <3>2. outs[n].value \in Nat /\ outs[n].value <= value
      BY <1>2, <1>4
    <3>3. payAmt <= value
      BY <1>2
    <3> QED
      BY <1>2, <1>4, <3>1, <3>2, <3>3
  <2>2. \A v \in Nat : v <= value => v * WeiPerSatoshi < Uint96
    <3>1. WeiPerSatoshi \in Nat /\ Uint96 \in Nat /\ value * WeiPerSatoshi < Uint96
      BY CandidatesAssumption, WordAssumption DEF Funded
    <3>2. \A v \in Nat : v <= value => v * WeiPerSatoshi <= value * WeiPerSatoshi
      BY <1>2, <3>1, ProductMonotoneLeft
    <3>3. value * WeiPerSatoshi \in Nat /\ \A v \in Nat : v * WeiPerSatoshi \in Nat
      BY <1>2, <3>1
    <3> QED
      BY <3>1, <3>2, <3>3
  <2>3. \A i \in 1..n : Fits(outs[i])
    BY <1>4, <2>1, <2>2 DEF Fits
  <2>4. Fits(ins[1])
    BY <1>2, <1>4, <2>2 DEF Fits
  <2>5. DOMAIN outs = 1..n /\ DOMAIN ins = {1}
    <3>1. DOMAIN outs = 1..Len(outs) /\ DOMAIN ins = 1..Len(ins)
      BY <1>4, LenProperties, Zenon
    <3>2. 1..1 = {1}
      OBVIOUS
    <3> QED
      BY <1>4, <3>1, <3>2, Zenon
  <2> HIDE DEF n
  <2> QED
    BY <1>4, <1>5, <2>3, <2>4, <2>5 DEF Transactions
<1>7. PaysFee(t)
  <2>1. PICK f : /\ Total(outs) = f[n] /\ f[0] = 0
                 /\ \A k \in 1..n : f[k] = f[k - 1] + outs[k].value
    <3>1. n \in Nat /\ Len(outs) = n
      BY <1>4
    <3> HIDE DEF n
    <3> QED
      BY <3>1, TotalDef
  <2>2. Total(outs) = inAmt - sender.fee
    <3>1. CASE payAmt > 0
      <4>1. f[1] = f[0] + outs[1].value /\ f[2] = f[1] + outs[2].value /\ f[3] = f[2] + outs[3].value
        BY <2>1, <3>1
      <4> QED
        BY <1>2, <1>4, <2>1, <3>1, <4>1
    <3>2. CASE ~(payAmt > 0)
      <4>1. f[1] = f[0] + outs[1].value /\ f[2] = f[1] + outs[2].value
        BY <2>1, <3>2
      <4> QED
        BY <1>2, <1>4, <2>1, <3>2, <4>1
    <3> QED
      BY <3>1, <3>2
  <2>3. \A i \in 2..Len(outs) : outs[i].value > 0
    BY <1>2, <1>4
  <2>4. PayAmt > 0 => PayAmt - outs[2].value \in {0, 1}
    BY <1>2, <1>4
  <2>5. ins[1].value - Total(outs) - sender.fee \in {0, 1}
    BY <1>2, <1>4, <2>2
  <2> QED
    BY <1>5, <2>3, <2>4, <2>5, Zenon DEF PaysFee
<1> QED
  BY <1>3, <1>6, <1>7, Zenon

-----------------------------------------------------------------------------
(* What was sent *)

LEMMA SentInit == BInit => SentInv
<1> SUFFICES ASSUME BInit PROVE SentInv
  OBVIOUS
<1>1. answers = <<>> /\ sent = <<>> /\ Len(sent) = 0
  BY DEF BInit
<1>2. Attempts({"sent", "lost"}) = {} /\ Attempts({"sent", "dry"}) = {}
  BY <1>1 DEF Attempts
<1>3. Cardinality({}) = 0
  BY FS_EmptySet
<1>4. Len(sent) = Cardinality(Attempts({"sent", "lost"})) /\ Cardinality(Attempts({"sent", "dry"})) <= 1
  <2>1. Cardinality(Attempts({"sent", "lost"})) = 0 /\ Cardinality(Attempts({"sent", "dry"})) = 0
    BY <1>2, <1>3, Zenon
  <2> QED
    BY <1>1, <2>1
<1>5. SendsOnce
  BY <1>1, <1>4, Zenon DEF SendsOnce
<1> QED
  BY <1>1, <1>5 DEF SentInv, FeeIsPaid

\* A step that neither sends nor tries anything.
LEMMA SentFrame ==
  ASSUME SentInv, UNCHANGED <<sender, answers, sent>>,
         UNCHANGED <<stage, unspent>> \/ answers = <<>>
  PROVE  SentInv'
<1>1. Attempts({"sent", "lost"})' = Attempts({"sent", "lost"}) /\ Attempts({"sent", "dry"})' = Attempts({"sent", "dry"})
  BY DEF Attempts
<1>2. SendsOnce'
  BY <1>1 DEF SentInv, SendsOnce
<1>3. PayAmt' = PayAmt
  BY DEF PayAmt
<1>4. FeeIsPaid'
  BY <1>3 DEF SentInv, FeeIsPaid, PaysFee
<1> QED
  BY <1>2, <1>4 DEF SentInv

\* The output that is tried next.
LEMMA NextOutput ==
  ASSUME BuilderInv, stage = "send"
  PROVE  unspent[Len(answers) + 1] \in Nat /\ unspent[Len(answers) + 1] * WeiPerSatoshi < Uint96
<1>1. Len(answers) < Len(unspent) /\ answers \in Seq(Answers)
  BY DEF BuilderInv
<1>2. unspent \in Listings
  <2>1. Len(<<>>) = 0 /\ Len(answers) \in Nat
    BY <1>1
  <2> QED
    BY <1>1, <2>1 DEF BuilderInv
<1>3. unspent \in Seq(Nat) /\ \A i \in DOMAIN unspent : unspent[i] * WeiPerSatoshi < Uint96
  BY <1>2, BuilderAssumption, Zenon
<1>4. Len(answers) + 1 \in DOMAIN unspent
  BY <1>1, <1>3
<1> QED
  BY <1>3, <1>4

LEMMA SentStep == BuilderInv /\ SentInv /\ [BNext]_vars => SentInv'
<1> SUFFICES ASSUME BuilderInv, SentInv, [BNext]_vars PROVE SentInv'
  OBVIOUS
<1>1. CASE UNCHANGED <<sender, stage, unspent, answers, sent>>
  BY <1>1, SentFrame
<1>2. CASE main
  BY <1>2, SentFrame DEF main, BuilderInv
<1>3. CASE listUnspentUtxo
  BY <1>3, SentFrame DEF listUnspentUtxo, BuilderInv
<1>4. CASE buildAndSendEGTX
  <2> DEFINE value == unspent[Len(answers) + 1]
  <2>1. PICK inAmt \in Satoshis(value), payAmt \in Satoshis(PayAmt), answer \in Answers :
          /\ IF NotEnough(inAmt, payAmt)
             THEN answer = "short" /\ UNCHANGED sent
             ELSE IF sender.mode = "dryRun"
             THEN answer = "dry" /\ UNCHANGED sent
             ELSE SendRawTransaction(buildEGTX(value, inAmt, payAmt), answer)
          /\ answers' = Append(answers, answer)
          /\ stage' = IF Stops(answer) \/ Len(answers') = Len(unspent) THEN "done" ELSE "send"
    BY <1>4 DEF buildAndSendEGTX, Answers
  <2> DEFINE t == buildEGTX(value, inAmt, payAmt)
  <2>2. /\ stage = "send" /\ UNCHANGED <<sender, unspent>> /\ sender \in Senders
        /\ sender.payToType # "bad" /\ sender.mode # "listUtxo"
        /\ Len(answers) < Len(unspent) /\ answers \in Seq(Answers)
        /\ Attempts({"sent", "dry"}) = {}
    BY <1>4 DEF buildAndSendEGTX, BuilderInv
  <2>3. value \in Nat /\ value * WeiPerSatoshi < Uint96
    BY <2>2, NextOutput
  <2> HIDE DEF value
  <2>4. \/ answer \in {"short", "dry", "refused"} /\ sent' = sent
        \/ /\ answer \in {"sent", "lost"} /\ sent' = Append(sent, t)
           /\ Funded(value, inAmt, payAmt) /\ sender.mode # "dryRun"
    BY <2>1, <2>2, <2>3, Zenon DEF SendRawTransaction, Funded
  <2> HIDE DEF t
  <2>5. sent' \in Seq(Transactions) /\ FeeIsPaid'
    <3>1. PayAmt' = PayAmt
      BY <2>2 DEF PayAmt
    <3>2. \A x : PaysFee(x) => PaysFee(x)'
      BY <2>2, <3>1 DEF PaysFee
    <3>3. CASE sent' = sent
      BY <3>2, <3>3 DEF SentInv, FeeIsPaid
    <3>4. CASE sent' = Append(sent, t) /\ Funded(value, inAmt, payAmt)
      <4>1. t \in Transactions /\ PaysFee(t)
        BY <3>4, BuiltPays DEF t
      <4>2. sent \in Seq(Transactions) /\ \A k \in DOMAIN sent : PaysFee(sent[k])
        BY DEF SentInv, FeeIsPaid
      <4>3. \A k \in DOMAIN sent' : PaysFee(sent'[k])
        BY <3>4, <4>1, <4>2
      <4> QED
        BY <3>2, <3>4, <4>1, <4>2, <4>3 DEF FeeIsPaid
    <3> QED
      BY <2>4, <3>3, <3>4
  <2>6. SendsOnce'
    <3>1. \A S : /\ Cardinality(Attempts(S))' = Cardinality(Attempts(S)) + (IF answer \in S THEN 1 ELSE 0)
                 /\ IsFiniteSet(Attempts(S))
      BY <2>1, <2>2, AttemptsAppend
    <3>2. Cardinality(Attempts({"sent", "lost"})) \in Nat /\ Cardinality(Attempts({"sent", "dry"})) = 0
      BY <2>2, <3>1, FS_CardinalityType, FS_EmptySet
    <3>3. Len(sent') = Cardinality(Attempts({"sent", "lost"}))'
      BY <2>4, <3>1, <3>2 DEF SentInv, SendsOnce
    <3>4. Cardinality(Attempts({"sent", "dry"}))' <= 1
      BY <3>1, <3>2
    <3>5. sender'.mode # "send" => sent' = <<>>
      <4>1. sender.mode \in {"send", "dryRun", "listUtxo"}
        BY <2>2, BuilderAssumption
      <4> QED
        BY <2>2, <2>4, <4>1 DEF SentInv, SendsOnce
    <3>6. stage' = "done" => Len(answers') = Len(unspent') \/ answers'[Len(answers')] \in {"sent", "dry"}
      <4>1. answers'[Len(answers')] = answer
        BY <2>1, <2>2
      <4> QED
        BY <2>1, <2>2, <4>1 DEF Stops
    <3> QED
      BY <3>3, <3>4, <3>5, <3>6 DEF SendsOnce
  <2> QED
    BY <2>5, <2>6 DEF SentInv
<1>5. CASE Scan
  BY <1>5, SentFrame DEF Scan
<1> QED
  BY <1>1, <1>2, <1>3, <1>4, <1>5 DEF BNext, vars

\* A run of the builder sends one transaction, whatever the node answers.
THEOREM BuilderSendsOnce == BSpec => []SendsOnce
<1>1. BInit => BuilderInv /\ SentInv
  BY BuilderInit, SentInit
<1>2. BuilderInv /\ SentInv /\ [BNext]_vars => (BuilderInv /\ SentInv)'
  BY BuilderStep, SentStep
<1>3. SentInv => SendsOnce
  BY DEF SentInv
<1> QED
  BY <1>1, <1>2, <1>3, PTL DEF BSpec

\* It pays the fee and the amount, to a satoshi, from any list of outputs.
THEOREM BuilderPaysTheFee == BSpec => []FeeIsPaid
<1>1. BInit => BuilderInv /\ SentInv
  BY BuilderInit, SentInit
<1>2. BuilderInv /\ SentInv /\ [BNext]_vars => (BuilderInv /\ SentInv)'
  BY BuilderStep, SentStep
<1>3. SentInv => FeeIsPaid
  BY DEF SentInv
<1> QED
  BY <1>1, <1>2, <1>3, PTL DEF BSpec

-----------------------------------------------------------------------------
(* The conversion *)

LEMMA ConvertInit == BInit => ConvertInv
<1>1. Candidates \subseteq Transactions
  BY CandidatesAssumption
<1> QED
  BY <1>1 DEF BInit, Init, ConvertInv

LEMMA ConvertStep == SentInv /\ ConvertInv /\ [BNext]_vars => ConvertInv'
<1> SUFFICES ASSUME SentInv, ConvertInv, [BNext]_vars PROVE ConvertInv'
  OBVIOUS
<1>1. CASE convertUtxoInfoToTx
  BY <1>1, ConvertsOnce
<1>2. CASE Scan
  <2>1. PICK k \in DOMAIN sent : tx' = sent[k]
    BY <1>2 DEF Scan
  <2>2. tx' \in Transactions /\ outcome' = "none"
    BY <1>2, <2>1 DEF Scan, SentInv
  <2> QED
    BY <2>2 DEF ConvertInv
<1>3. CASE UNCHANGED <<tx, outcome, log>>
  BY <1>3 DEF ConvertInv
<1> QED
  BY <1>1, <1>2, <1>3 DEF BNext, vars, main, listUnspentUtxo, buildAndSendEGTX

\* All that is known of the builder and of the transaction it comes to.
EgtxInv == BuilderInv /\ SentInv /\ ConvertInv

LEMMA EgtxInvariant == BSpec => []EgtxInv
<1>1. BInit => EgtxInv
  BY BuilderInit, SentInit, ConvertInit DEF EgtxInv
<1>2. EgtxInv /\ [BNext]_vars => EgtxInv'
  BY BuilderStep, SentStep, ConvertStep DEF EgtxInv
<1> QED
  BY <1>1, <1>2, PTL DEF BSpec

\* A transaction that is not an EGTX transaction never makes the scanner panic,
\* for any number of inputs and outputs: Rejects comes first.
THEOREM PanicsOnlyOnEgtx == BSpec => []OnlyEgtxCanPanic
<1>1. EgtxInv => OnlyEgtxCanPanic
  BY OnlyEgtxPanics, Zenon DEF EgtxInv
<1> QED
  BY <1>1, EgtxInvariant, PTL

\* The data of a derived log can be read back, with any confirmation count
\* written over its first word, for any number of inputs, outputs, tokens and
\* elements and elements of any length.
THEOREM DerivedDataUnpacks == BSpec => []DataUnpacks
<1>1. EgtxInv => DataUnpacks
  BY DataIsUnpacked, Zenon DEF EgtxInv
<1> QED
  BY <1>1, EgtxInvariant, PTL

\* Every input and every P2PKH/P2SH output has its entry, and the second output
\* is the recipient, for any number of them and any value that fits.
THEOREM PartiesAreConserved == BSpec => []PartiesConserved
<1>1. EgtxInv => PartiesConserved
  BY PartiesAreKept, Zenon DEF EgtxInv
<1> QED
  BY <1>1, EgtxInvariant, PTL

\* A token can be read back from its four words, whatever the sizes of a word
\* and of the head are.
THEOREM TokensReadBack == BSpec => []TokensCanBeRead
<1>1. EgtxInv => TokensCanBeRead
  BY TokensAreRead, Zenon DEF EgtxInv
<1> QED
  BY <1>1, EgtxInvariant, PTL

\* Addresses and topics keep their value, whatever their sizes are.
THEOREM ConversionIsFaithful == BSpec => []ConversionKeepsValue
<1>1. EgtxInv => ConversionKeepsValue
  BY ValuesAreKept, Zenon DEF EgtxInv
<1> QED
  BY <1>1, EgtxInvariant, PTL

\* No element of an OP_RETURN output is lost or repeated, whatever the outputs
\* are.
THEOREM ElementsAreConserved == BSpec => []ElementsConserved
<1>1. EgtxInv => ElementsConserved
  BY ElementsAreKept, Zenon DEF EgtxInv
<1> QED
  BY <1>1, EgtxInvariant, PTL

-----------------------------------------------------------------------------
(* What the builder writes, the scanner reads *)

\* A transaction of the sender's making.
Written(t) ==
  /\ sender \in Senders /\ t \in Transactions
  /\ t.vout[1] = buildNullDataScript
  /\ Len(t.vout) = (IF PayAmt > 0 THEN 3 ELSE 2) /\ Len(t.vin) = 1
  /\ PayAmt > 0 => sender.payToType \in {"pubkeyhash", "scripthash", "pubkey"} /\ PaidTo(t.vout[2], sender.payToType, sender.payTo)
  /\ PaidTo(t.vout[Len(t.vout)], "pubkeyhash", sender.from)
  /\ PaidTo(t.vin[1], "pubkeyhash", sender.from)

WrittenInv ==
  /\ stage \in {"main", "list", "send"} => outcome = "building"
  /\ \A k \in DOMAIN sent : Written(sent[k])
  /\ stage = "done" /\ outcome # "building" => Written(tx)

LEMMA BuiltIsWritten ==
  ASSUME NEW value, NEW inAmt, NEW payAmt, Funded(value, inAmt, payAmt)
  PROVE  Written(buildEGTX(value, inAmt, payAmt))
<1> DEFINE t == buildEGTX(value, inAmt, payAmt)
<1>1. t \in Transactions
  BY BuiltPays
<1>2. PICK outs, ins : BuiltAs(value, inAmt, payAmt, outs, ins)
  BY BuiltShape
<1>3. t = [vout |-> outs, vin |-> ins]
  BY <1>2, Zenon DEF BuiltAs
<1> HIDE DEF t
<1>4. t.vout = outs /\ t.vin = ins
  BY <1>3
<1>5. PayAmt > 0 <=> payAmt > 0
  BY FundedFacts
<1>6. sender \in Senders
  BY DEF Funded
<1>7. PayAmt > 0 => sender.payToType \in {"pubkeyhash", "scripthash", "pubkey"}
  <2>1. sender.payToType \in {"none", "bad", "pubkeyhash", "scripthash", "pubkey"}
    BY <1>6, BuilderAssumption
  <2>2. sender.payToType # "bad"
    BY DEF Funded
  <2>3. sender.payToType = "none" => PayAmt = 0
    BY DEF PayAmt
  <2> QED
    BY <2>1, <2>2, <2>3
<1>8. /\ Len(outs) = (IF payAmt > 0 THEN 3 ELSE 2) /\ Len(ins) = 1
      /\ outs[1] = buildNullDataScript
      /\ payAmt > 0 => PaidTo(outs[2], sender.payToType, sender.payTo)
      /\ PaidTo(outs[Len(outs)], "pubkeyhash", sender.from)
      /\ PaidTo(ins[1], "pubkeyhash", sender.from)
  BY <1>2, Zenon DEF BuiltAs
<1>9. Written(t)
  BY <1>1, <1>4, <1>5, <1>6, <1>7, <1>8, Zenon DEF Written
<1> QED
  BY <1>9 DEF t

LEMMA WrittenFrame ==
  ASSUME NEW t, sender' = sender, Written(t)
  PROVE  Written(t)'
<1>1. PayAmt' = PayAmt /\ buildNullDataScript' = buildNullDataScript
  BY DEF PayAmt, buildNullDataScript
<1> QED
  BY <1>1, Zenon DEF Written

LEMMA AppendedEntries ==
  ASSUME NEW V, NEW s \in Seq(V), NEW e \in V
  PROVE  \A k \in DOMAIN Append(s, e) : Append(s, e)[k] = e \/ (k \in DOMAIN s /\ Append(s, e)[k] = s[k])
OBVIOUS

LEMMA WrittenInit == BInit => WrittenInv
BY DEF BInit, Init, WrittenInv

LEMMA WrittenStep == BuilderInv /\ SentInv /\ WrittenInv /\ [BNext]_vars => WrittenInv'
<1> SUFFICES ASSUME BuilderInv, SentInv, WrittenInv, [BNext]_vars PROVE WrittenInv'
  OBVIOUS
<1>0. \A t : Written(t) => Written(t)'
  <2>1. sender' = sender
    BY DEF BNext, vars, main, listUnspentUtxo, buildAndSendEGTX, Scan
  <2> QED
    BY <2>1, WrittenFrame, SMTT(30)
<1>1. ASSUME sent' = sent PROVE (\A k \in DOMAIN sent : Written(sent[k]))'
  BY <1>0, <1>1, SMTT(30) DEF WrittenInv
<1>2. CASE convertUtxoInfoToTx /\ UNCHANGED <<sender, stage, unspent, answers, sent>>
  <2>1. outcome = "none" /\ UNCHANGED <<tx, stage, sent>>
    BY <1>2 DEF convertUtxoInfoToTx
  <2>2. stage \notin {"main", "list", "send"} /\ (stage = "done" => Written(tx))
    BY <2>1 DEF WrittenInv
  <2>3. stage' = "done" => Written(tx)'
    BY <1>0, <2>1, <2>2
  <2> QED
    BY <1>1, <2>1, <2>2, <2>3 DEF WrittenInv
<1>3. CASE main
  <2>1. outcome = "building" /\ UNCHANGED <<outcome, sent>>
    BY <1>3 DEF main, WrittenInv
  <2> QED
    BY <1>1, <2>1, SMTT(30) DEF WrittenInv
<1>4. CASE listUnspentUtxo
  <2>1. outcome = "building" /\ UNCHANGED <<outcome, sent>>
    BY <1>4 DEF listUnspentUtxo, WrittenInv
  <2> QED
    BY <1>1, <2>1 DEF WrittenInv
<1>5. CASE buildAndSendEGTX
  <2>1. /\ stage = "send" /\ outcome = "building" /\ UNCHANGED outcome
        /\ sender \in Senders /\ sender.payToType # "bad" /\ Len(answers) < Len(unspent) /\ answers \in Seq(Answers)
    BY <1>5 DEF buildAndSendEGTX, WrittenInv, BuilderInv
  <2> DEFINE value == unspent[Len(answers) + 1]
  <2>2. PICK inAmt \in Satoshis(value), payAmt \in Satoshis(PayAmt), answer \in Answers :
          IF NotEnough(inAmt, payAmt)
          THEN answer = "short" /\ UNCHANGED sent
          ELSE IF sender.mode = "dryRun"
          THEN answer = "dry" /\ UNCHANGED sent
          ELSE SendRawTransaction(buildEGTX(value, inAmt, payAmt), answer)
    BY <1>5 DEF buildAndSendEGTX, Answers
  <2>3. value \in Nat /\ value * WeiPerSatoshi < Uint96
    BY <2>1, NextOutput
  <2> HIDE DEF value
  <2> DEFINE t == buildEGTX(value, inAmt, payAmt)
  <2>4. sent' = sent \/ (sent' = Append(sent, t) /\ Funded(value, inAmt, payAmt))
    BY <2>1, <2>2, <2>3, Zenon DEF SendRawTransaction, Funded
  <2> HIDE DEF t
  <2>5. (\A k \in DOMAIN sent : Written(sent[k]))'
    <3>1. CASE sent' = sent
      BY <1>1, <3>1
    <3>2. CASE sent' = Append(sent, t) /\ Funded(value, inAmt, payAmt)
      <4>1. Written(t)
        BY <3>2, BuiltIsWritten, SMTT(30) DEF t
      <4>2. sent \in Seq(Transactions) /\ t \in Transactions
        BY <4>1 DEF SentInv, Written
      <4>3. \A k \in DOMAIN Append(sent, t) : Append(sent, t)[k] = t \/ (k \in DOMAIN sent /\ Append(sent, t)[k] = sent[k])
        BY <4>2, AppendedEntries
      <4>4. \A k \in DOMAIN sent' : Written(sent'[k])
        BY <3>2, <4>1, <4>3, Zenon DEF WrittenInv
      <4> QED
        BY <1>0, <4>4
    <3> QED
      BY <2>4, <3>1, <3>2
  <2> QED
    BY <2>1, <2>5, SMTT(30) DEF WrittenInv
<1>6. CASE Scan
  <2>1. PICK k \in DOMAIN sent : tx' = sent[k]
    BY <1>6 DEF Scan
  <2>2. UNCHANGED <<stage, sent>> /\ stage = "done" /\ outcome' = "none"
    BY <1>6 DEF Scan
  <2>3. Written(sent[k])
    BY DEF WrittenInv
  <2>4. Written(tx)'
    BY <1>0, <2>1, <2>3
  <2> QED
    BY <1>1, <2>2, <2>4, SMTT(30) DEF WrittenInv
<1>7. CASE UNCHANGED vars
  BY <1>0, <1>1, <1>7 DEF vars, WrittenInv
<1> QED
  BY <1>2, <1>3, <1>4, <1>5, <1>6, <1>7 DEF BNext

LEMMA WrittenInvariant == BSpec => [](EgtxInv /\ WrittenInv)
<1>1. BInit => EgtxInv /\ WrittenInv
  BY BuilderInit, SentInit, ConvertInit, WrittenInit DEF EgtxInv
<1>2. EgtxInv /\ WrittenInv /\ [BNext]_vars => (EgtxInv /\ WrittenInv)'
  BY BuilderStep, SentStep, ConvertStep, WrittenStep DEF EgtxInv
<1> QED
  BY <1>1, <1>2, PTL DEF BSpec

\* The address of the first payment.
LEMMA FirstPayment ==
  ASSUME NEW list \in Seq(Outputs), \A i \in DOMAIN list : Fits(list[i]),
         NEW k \in 1..Len(list), IsPayment(list[k]), \A j \in 1..(k - 1) : ~IsPayment(list[j])
  PROVE  FirstAddress(Payments(list)) = list[k].address
<1> DEFINE keep == {i \in DOMAIN list : IsPayment(list[i])}
           sel == PaymentOutputs(list)
<1>1. DOMAIN list = 1..Len(list)
  OBVIOUS
<1>2. k \in keep /\ \A j \in 1..(k - 1) : j \notin keep
  BY <1>1
<1>3. sel = Selected(list, keep)
  BY DEF PaymentOutputs
<1> HIDE DEF keep, sel
<1>4. Len(sel) \in Nat \ {0} /\ sel[1] = list[k]
  BY <1>2, <1>3, FirstSelected
<1>5. /\ Payments(list) \in Seq(Nat) /\ Len(Payments(list)) = Len(sel)
      /\ \A i \in 1..Len(sel) : TellsOf(Payments(list)[i], sel[i])
  BY PaymentsFacts DEF sel
<1>6. Payments(list) # <<>> /\ TellsOf(Payments(list)[1], sel[1])
  BY <1>4, <1>5
<1>7. Payments(list)[1] \div Uint96 = list[k].address
  BY <1>4, <1>6, Zenon DEF TellsOf
<1> QED
  BY <1>6, <1>7, Zenon DEF FirstAddress

LEMMA ConvertSame ==
  ASSUME NEW o \in Seq(Byte), NEW n \in Nat, Len(o) = n
  PROVE  convertToByte(o, n) = o
<1>1. n <= n /\ n - n = 0
  OBVIOUS
<1>2. convertToByte(o, n) = Zeros(0) \o o
  BY <1>1, Zenon DEF convertToByte
<1>3. Zeros(0) = <<>>
  BY DEF Zeros
<1>4. <<>> \o o = o
  BY ConcatEmptySeq
<1> QED
  BY <1>2, <1>3, <1>4, Zenon

\* Three topics out of the five elements of a builder's script.
IsScript(es, p, q, r, s) ==
  /\ es \in Seq(Seq(Byte)) /\ Len(es) = 5
  /\ es[1] = p /\ es[2] = q /\ es[3] = r /\ es[4] = s /\ es[5] = <<>>

LEMMA ScriptTopics ==
  ASSUME NEW es, NEW p, NEW q, NEW r, NEW s, IsScript(es, p, q, r, s), q # <<>>, r # <<>>, s # <<>>
  PROVE  LET topics == Selected(TopicElements(es), NonEmpty(TopicElements(es)))
         IN  Len(topics) = 3 /\ topics[1] = q /\ topics[2] = r /\ topics[3] = s
<1> DEFINE elements == TopicElements(es)
           keep == NonEmpty(elements)
           topics == Selected(elements, keep)
<1>1. /\ es \in Seq(Seq(Byte)) /\ Len(es) = 5
      /\ es[2] = q /\ es[3] = r /\ es[4] = s /\ es[5] = <<>>
  BY DEF IsScript
<1>2. /\ elements \in Seq(Seq(Byte)) /\ Len(elements) = IF Len(es) = 0 THEN 0 ELSE Min({5, Len(es)}) - 1
      /\ \A i \in 1..Len(elements) : elements[i] = es[i + 1]
  BY <1>1, TopicElementsFacts, Zenon
<1>3. Min({5, Len(es)}) = 5
  <2>1. Min({5, Len(es)}) = IF Len(es) < 5 THEN Len(es) ELSE 5
    BY <1>1, MinOfFive
  <2> QED
    BY <1>1, <2>1
<1> HIDE DEF elements
<1>4. Len(elements) = 4 /\ DOMAIN elements = 1..4
  <2>1. Len(es) # 0 /\ 5 - 1 = 4
    BY <1>1
  <2>2. Len(elements) = 4
    BY <1>2, <1>3, <2>1, Zenon
  <2>3. DOMAIN elements = 1..Len(elements)
    BY <1>2, LenProperties
  <2> QED
    BY <2>2, <2>3, Zenon
<1>5. elements[1] = q /\ elements[2] = r /\ elements[3] = s /\ elements[4] = <<>>
  <2>1. /\ 1 \in 1..4 /\ 2 \in 1..4 /\ 3 \in 1..4 /\ 4 \in 1..4
        /\ 1 + 1 = 2 /\ 2 + 1 = 3 /\ 3 + 1 = 4 /\ 4 + 1 = 5
    OBVIOUS
  <2>2. elements[1] = es[1 + 1] /\ elements[2] = es[2 + 1] /\ elements[3] = es[3 + 1] /\ elements[4] = es[4 + 1]
    BY <1>2, <1>4, <2>1, Zenon
  <2> QED
    BY <1>1, <2>1, <2>2, Zenon
<1>6. 1 \in keep /\ 2 \in keep /\ 3 \in keep /\ 4 \notin keep
  BY <1>4, <1>5 DEF NonEmpty
<1> HIDE DEF keep
<1>7. PICK f : topics = f[4] /\ SelectionLoop(f, elements, keep, 4)
  BY <1>4, SelectedDef, Zenon
<1>8. /\ f[0] = <<>> /\ f[1] = Append(f[0], elements[1]) /\ f[2] = Append(f[1], elements[2])
      /\ f[3] = Append(f[2], elements[3]) /\ f[4] = f[3]
  <2>1. /\ 1 \in 1..4 /\ 2 \in 1..4 /\ 3 \in 1..4 /\ 4 \in 1..4
        /\ 1 - 1 = 0 /\ 2 - 1 = 1 /\ 3 - 1 = 2 /\ 4 - 1 = 3
    OBVIOUS
  <2> QED
    BY <1>6, <1>7, <2>1 DEF SelectionLoop
<1>9. topics = Append(Append(Append(<<>>, q), r), s)
  BY <1>5, <1>7, <1>8, Zenon
<1> QED
  BY <1>9 DEF keep, elements

\* What the scanner makes of a written transaction.
LEMMA WrittenIsRead ==
  ASSUME NEW t, Written(t)
  PROVE  IF PayAmt > 0 /\ sender.payToType = "pubkey" THEN Outcome(t) = "error"
         ELSE /\ Outcome(t) = "derived"
              /\ DerivedLog(t).from = sender.from
              /\ DerivedLog(t).to = IF PayAmt > 0 THEN sender.payTo ELSE sender.from
<1> DEFINE n == Len(t.vout)
           out == t.vout[1]
           second == t.vout[2]
           last == t.vout[n]
           in == t.vin[1]
<1>1. /\ sender \in Senders /\ t \in Transactions /\ out = buildNullDataScript
      /\ n = (IF PayAmt > 0 THEN 3 ELSE 2) /\ Len(t.vin) = 1
      /\ PayAmt > 0 => sender.payToType \in {"pubkeyhash", "scripthash", "pubkey"} /\ PaidTo(second, sender.payToType, sender.payTo)
      /\ PaidTo(last, "pubkeyhash", sender.from)
      /\ PaidTo(in, "pubkeyhash", sender.from)
  BY Zenon DEF Written
<1>2. /\ t.vout \in Seq(Outputs) /\ t.vin \in Seq(Outputs)
      /\ \A i \in DOMAIN t.vout : Fits(t.vout[i])
      /\ \A i \in DOMAIN t.vin : Fits(t.vin[i])
  BY <1>1, TransactionFacts
<1>3. out.type = "nulldata" /\ out.egtx = TRUE /\ out.parses = TRUE
  BY <1>1 DEF buildNullDataScript, Out
<1>4. sender.from # NoAddress /\ sender.payTo # NoAddress
  BY <1>1, BuilderAssumption
<1>5. DOMAIN t.vin = {1} /\ DOMAIN t.vout = 1..n
  <2>1. DOMAIN t.vin = 1..Len(t.vin) /\ DOMAIN t.vout = 1..n /\ 1..1 = {1}
    BY <1>2
  <2> QED
    BY <1>1, <2>1, Zenon
<1>6. n \in {2, 3} /\ (PayAmt > 0 => n = 3) /\ (~(PayAmt > 0) => n = 2)
  BY <1>1
<1> HIDE DEF n, out, second, last, in
<1>7. IsPayment(second) <=> ~(PayAmt > 0 /\ sender.payToType = "pubkey")
  <2>1. CASE PayAmt > 0
    BY <1>1, <2>1, SMTT(30) DEF IsPayment, PaidTo
  <2>2. CASE ~(PayAmt > 0)
    <3>1. second = last
      BY <1>6, <2>2, SMTT(30) DEF second, last
    <3> QED
      BY <1>1, <2>2, <3>1 DEF IsPayment, PaidTo
  <2> QED
    BY <2>1, <2>2
<1>8. Rejects(t) <=> ~IsPayment(second)
  BY <1>3, <1>6, SMTT(30) DEF Rejects, out, second, n
<1>9. CASE PayAmt > 0 /\ sender.payToType = "pubkey"
  BY <1>7, <1>8, <1>9, SMTT(30) DEF Outcome
<1>10. CASE ~(PayAmt > 0 /\ sender.payToType = "pubkey")
  <2>1. second.address = IF PayAmt > 0 THEN sender.payTo ELSE sender.from
    <3>1. CASE PayAmt > 0
      BY <1>1, <3>1, SMTT(30) DEF PaidTo
    <3>2. CASE ~(PayAmt > 0)
      BY <1>1, <1>6, <3>2 DEF PaidTo, second, last
    <3> QED
      BY <3>1, <3>2, SMTT(30)
  <2>2. in.address = sender.from /\ IsPayment(in) /\ last.address = sender.from
    BY <1>1 DEF PaidTo, IsPayment
  <2>3. ASSUME NEW i \in 1..n PROVE ~(IsPayment(t.vout[i]) /\ t.vout[i].address = NoAddress)
    <3>1. i = 1 \/ i = 2 \/ i = n
      BY <1>6
    <3>2. CASE i = 1
      BY <1>3, <3>2, SMTT(30) DEF IsPayment, out
    <3>3. CASE i = 2
      BY <1>4, <2>1, <3>3 DEF second
    <3>4. CASE i = n
      BY <1>4, <2>2, <3>4 DEF last
    <3> QED
      BY <3>1, <3>2, <3>3, <3>4
  <2>4. ~Panics(t)
    BY <1>4, <1>5, <2>2, <2>3 DEF Panics, in
  <2>5. Outcome(t) = "derived"
    BY <1>3, <1>7, <1>8, <1>10, <2>4, SMTT(30) DEF Outcome, out
  <2>6. DerivedLog(t).from = FirstAddress(Payments(t.vin)) /\ DerivedLog(t).to = FirstAddress(Payments(t.vout))
    BY Zenon DEF DerivedLog
  <2>7. FirstAddress(Payments(t.vin)) = in.address
    <3>1. 1 \in 1..Len(t.vin) /\ IsPayment(t.vin[1]) /\ \A j \in 1..(1 - 1) : ~IsPayment(t.vin[j])
      BY <1>1, <2>2, SMTT(30) DEF in
    <3> QED
      BY <1>2, <3>1, FirstPayment DEF in
  <2>8. FirstAddress(Payments(t.vout)) = second.address
    <3>1. 2 \in 1..Len(t.vout) /\ IsPayment(t.vout[2])
      BY <1>6, <1>7, <1>10 DEF second, n
    <3>2. \A j \in 1..(2 - 1) : ~IsPayment(t.vout[j])
      BY <1>3 DEF IsPayment, out
    <3> QED
      BY <1>2, <3>1, <3>2, FirstPayment DEF second
  <2> QED
    BY <1>10, <2>1, <2>2, <2>5, <2>6, <2>7, <2>8, Zenon
<1> QED
  BY <1>9, <1>10

\* Its address and topics.
LEMMA WrittenTopics ==
  ASSUME NEW t, Written(t)
  PROVE  LET topics == DerivedLog(t).topics
         IN  /\ DerivedLog(t).address = PadRight(sender.contract, AddressBytes)
             /\ Len(topics) = 3
             /\ Number(topics[1]) = Number(PadRight(sender.payer, AddressBytes))
             /\ Number(topics[2]) = Number(PadRight(sender.payee, AddressBytes))
             /\ topics[3] = PadRight(sender.fileID, TopicBytes)
<1> DEFINE es == t.vout[1].pushes
           p == PadRight(sender.contract, AddressBytes)
           q == PadRight(sender.payer, AddressBytes)
           r == PadRight(sender.payee, AddressBytes)
           s == PadRight(sender.fileID, TopicBytes)
           elements == Selected(TopicElements(es), NonEmpty(TopicElements(es)))
           topics == DerivedLog(t).topics
<1>1. sender \in Senders /\ t \in Transactions /\ t.vout[1] = buildNullDataScript
  BY Zenon DEF Written
<1>2. AddressBytes \in Nat \ {0} /\ TopicBytes \in Nat /\ AddressBytes <= TopicBytes
  BY CandidatesAssumption
<1>3. /\ p \in Seq(Byte) /\ Len(p) = AddressBytes /\ q \in Seq(Byte) /\ Len(q) = AddressBytes
      /\ r \in Seq(Byte) /\ Len(r) = AddressBytes /\ s \in Seq(Byte) /\ Len(s) = TopicBytes
  <2>1. /\ sender.contract \in Seq(Byte) /\ sender.payer \in Seq(Byte)
        /\ sender.payee \in Seq(Byte) /\ sender.fileID \in Seq(Byte)
    BY <1>1, BuilderAssumption
  <2>2. AddressBytes \in Nat /\ 0 \in Byte
    BY <1>2, ByteFacts
  <2> QED
    BY <1>2, <2>1, <2>2, PaddedFacts, Zenon
<1>4. es = <<p, q, r, s, <<>>>>
  BY <1>1 DEF buildNullDataScript, Out
<1> HIDE DEF p, q, r, s
<1>5. IsScript(es, p, q, r, s)
  <2>1. <<>> \in Seq(Byte)
    OBVIOUS
  <2> HIDE DEF es
  <2> QED
    BY <1>3, <1>4, <2>1 DEF IsScript
<1>6. q # <<>> /\ r # <<>> /\ s # <<>> /\ es # <<>> /\ es[1] = p
  BY <1>2, <1>3, <1>4, SMTT(30)
<1>7. DerivedLog(t).address = convertToByte(es[1], AddressBytes)
  BY <1>1, <1>6, LogIs, Zenon
<1>8. /\ Len(topics) = Len(elements)
      /\ \A i \in 1..Len(elements) : topics[i] = convertToByte(elements[i], TopicBytes)
  BY <1>1, TopicsType, SMTT(30)
<1> HIDE DEF topics, es
<1>9. Len(elements) = 3 /\ elements[1] = q /\ elements[2] = r /\ elements[3] = s
  BY <1>5, <1>6, ScriptTopics
<1> HIDE DEF elements
<1>10. topics[1] = convertToByte(q, TopicBytes) /\ topics[2] = convertToByte(r, TopicBytes) /\ topics[3] = convertToByte(s, TopicBytes)
  <2>1. 1 \in 1..3 /\ 2 \in 1..3 /\ 3 \in 1..3
    OBVIOUS
  <2> QED
    BY <1>8, <1>9, <2>1, Zenon
<1>11. convertToByte(p, AddressBytes) = p /\ convertToByte(s, TopicBytes) = s
  BY <1>2, <1>3, ConvertSame, SMTT(30)
<1>12. q \in Seq(Nat) /\ r \in Seq(Nat)
  <2>1. Seq(Byte) \subseteq Seq(Nat)
    BY ByteFacts, SeqMonotonic, Zenon
  <2> QED
    BY <1>3, <2>1
<1>13. Number(topics[1]) = Number(q) /\ Number(topics[2]) = Number(r)
  <2>1. KeepsValue(q, topics[1], TopicBytes) /\ KeepsValue(r, topics[2], TopicBytes)
    BY <1>2, <1>10, <1>12, ConvertedKeepsValue
  <2>2. Len(q) <= TopicBytes /\ Len(r) <= TopicBytes
    BY <1>2, <1>3
  <2> QED
    BY <2>1, <2>2, Zenon DEF KeepsValue
<1> QED
  BY <1>6, <1>7, <1>8, <1>9, <1>10, <1>11, <1>13, Zenon DEF topics, p, q, r, s

\* The scanner reads back what the builder was told to write, for every command
\* line and every list of unspent outputs.
THEOREM BuiltIsRead == BSpec => []BuiltIsDerived
<1>1. EgtxInv /\ WrittenInv => BuiltIsDerived
  <2> SUFFICES ASSUME EgtxInv, WrittenInv, stage = "done", outcome \notin {"building", "none"}
               PROVE  BuiltIsDerived
    BY DEF BuiltIsDerived
  <2>1. Written(tx) /\ outcome = Outcome(tx) /\ (outcome = "derived" => log = DerivedLog(tx))
    BY DEF EgtxInv, ConvertInv, WrittenInv
  <2>2. IF PayAmt > 0 /\ sender.payToType = "pubkey" THEN Outcome(tx) = "error"
        ELSE /\ Outcome(tx) = "derived"
             /\ DerivedLog(tx).from = sender.from
             /\ DerivedLog(tx).to = IF PayAmt > 0 THEN sender.payTo ELSE sender.from
    BY <2>1, WrittenIsRead, SMTT(30)
  <2>3. /\ DerivedLog(tx).address = PadRight(sender.contract, AddressBytes)
        /\ Len(DerivedLog(tx).topics) = 3
        /\ Number(DerivedLog(tx).topics[1]) = Number(PadRight(sender.payer, AddressBytes))
        /\ Number(DerivedLog(tx).topics[2]) = Number(PadRight(sender.payee, AddressBytes))
        /\ DerivedLog(tx).topics[3] = PadRight(sender.fileID, TopicBytes)
    BY <2>1, WrittenTopics
  <2> QED
    BY <2>1, <2>2, <2>3, Zenon DEF BuiltIsDerived
<1> QED
  BY <1>1, WrittenInvariant, PTL

==============================================================================
