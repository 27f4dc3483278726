---------------------------- MODULE EgtxDeriving ----------------------------
(***************************************************************************)
(* BchScanner.convertUtxoInfoToTx and bch/egtx.go: the derived transaction *)
(* and its log, as a function of a main chain transaction.                 *)
(*                                                                         *)
(* An output is [type, egtx, parses, pushes, address, value, cut, token]:  *)
(* whether its script starts with EGTXFlag, whether txscript.PushedData    *)
(* parses the rest, the elements that pushes (those after "EGTX" if egtx), *)
(* the address DecodeAddress gives or NoAddress, the satoshis, what the    *)
(* truncation of the floating point product value * 1e8 takes off (0 or 1: *)
(* the product is closer than 1/2 to the whole number), and the token      *)
(* data.  An input is the output it spends, with type "missing" when the   *)
(* node does not know it.  Addresses are numbers, as in the log's data.    *)
(***************************************************************************)
EXTENDS EgtxLogData, FiniteSetsExt

CONSTANTS
  Candidates,    \* main chain transactions [vout, vin]
  NoAddress,     \* of an output whose address does not decode
  AddressBytes,  \* 20
  TopicBytes,    \* 32
  WeiPerSatoshi  \* 10^10

VARIABLES
  tx,
  outcome,  \* "none" before the conversion, then "error", "panic" or "derived"
  log       \* the derived transaction's sender, recipient and log

\* An amount is an int64 and not negative.
TokenData ==
  [amount : {Unparsable} \cup 0..(Uint96 - 1), category : Seq(Byte),
   capability : {"", "none", "mutable", "minting"}, commitment : Seq(Byte)]

ScriptTypes == {"pubkeyhash", "scripthash", "nulldata", "pubkey", "other", "missing"}

Outputs ==
  [type : ScriptTypes, egtx : BOOLEAN, parses : BOOLEAN, pushes : Seq(Seq(Byte)), address : Nat,
   value : Nat, cut : {0, 1}, token : TokenData]

\* The value is not so large that its wei do not fit beside an address.
Fits(out) == out.cut <= out.value /\ out.value * WeiPerSatoshi < Uint96

Transactions ==
  {t \in [vout : Seq(Outputs), vin : Seq(Outputs)] :
     /\ t.vout # <<>> /\ \A i \in DOMAIN t.vout : Fits(t.vout[i])
     /\ \A i \in DOMAIN t.vin : Fits(t.vin[i])}

\* 21 million coins are 2.1 * 10^25 wei, less than 2^96.
ASSUME CandidatesAssumption ==
  /\ WeiPerSatoshi \in Nat \ {0} /\ NoAddress \in Nat
  /\ AddressBytes \in Nat \ {0} /\ TopicBytes \in Nat /\ AddressBytes <= TopicBytes
  /\ Candidates \subseteq Transactions

\* Mutant: zeros after the value.
convertToBytePadsRight(o, n) ==
  IF Len(o) <= n THEN o \o Zeros(n - Len(o)) ELSE SubSeq(o, 1, n)

\* convertToByte20, convertToByte32: pad on the left, cut on the right.
convertToByte(o, n) ==
  IF Len(o) <= n THEN Zeros(n - Len(o)) \o o ELSE SubSeq(o, 1, n)

ExtractEGTXNullData(es) ==
  LET elements == SubSeq(es, 2, Min({5, Len(es)}))
      topics   == Selected(elements, {i \in DOMAIN elements : elements[i] # <<>>})
  IN  [address   |-> IF es = <<>> THEN Zeros(AddressBytes) ELSE convertToByte(es[1], AddressBytes),
       topics    |-> [i \in DOMAIN topics |-> convertToByte(topics[i], TopicBytes)],
       otherData |-> SubSeq(es, 6, Len(es))]

ZeroAddress == 0

IsPayment(out) == out.type \in {"pubkeyhash", "scripthash"}

AddressAndValue(out) == AddressAnd(out.address, (out.value - out.cut) * WeiPerSatoshi)

PaymentOutputs(outs) == Selected(outs, {i \in DOMAIN outs : IsPayment(outs[i])})

\* Mutant: the first one, the EGTX output of a transaction, is left out.
PaymentsSkipFirst(outs) ==
  LET sel == PaymentOutputs(Tail(outs))
  IN  [i \in DOMAIN sel |-> AddressAndValue(sel[i])]

Payments(outs) ==
  LET sel == PaymentOutputs(outs)
  IN  [i \in DOMAIN sel |-> AddressAndValue(sel[i])]

TokenOutputs(outs) ==
  Selected(outs, {i \in DOMAIN outs : IsPayment(outs[i]) /\ TokenIsValid(outs[i].token)})

\* Token data that buildTokenInfo rejects leaves no entry.
Tokens(outs) ==
  LET sel == TokenOutputs(outs)
  IN  [i \in DOMAIN sel |-> buildTokenInfo(sel[i].address, sel[i].token)]

\* "EGTX" in bytes.
EGTX == <<69, 71, 84, 88>>

\* All that a script pushes: a flag is an element like the others.
ExtractNullData(out) == IF out.egtx THEN <<EGTX>> \o out.pushes ELSE out.pushes

NullDatas(outs) ==
  LET sel == Selected(outs, {i \in DOMAIN outs : outs[i].type = "nulldata" /\ outs[i].parses})
  IN  FlattenSeq([i \in DOMAIN sel |-> ExtractNullData(sel[i])])

\* Mutant: an output further on.
OtherNullDatasOffByOne(outs) == NullDatas(SubSeq(outs, 4, Len(outs)))

\* The outputs after the second.
OtherNullDatas(outs) == NullDatas(SubSeq(outs, 3, Len(outs)))

FirstAddress(payments) == IF payments = <<>> THEN ZeroAddress ELSE payments[1] \div Uint96

\* The first two outputs decide before any address is decoded or any input
\* fetched; the pushed data of the first is parsed last.
Rejects(t) ==
  \/ t.vout[1].type # "nulldata"
  \/ ~t.vout[1].egtx
  \/ Len(t.vout) > 1 /\ ~IsPayment(t.vout[2])

\* DecodeAddress on an output; extractInputInfos and ExtractSenderInfo.
Panics(t) ==
  \/ \E i \in DOMAIN t.vout : IsPayment(t.vout[i]) /\ t.vout[i].address = NoAddress
  \/ \E i \in DOMAIN t.vin : ~IsPayment(t.vin[i]) \/ t.vin[i].address = NoAddress

\* Mutant: addresses and inputs come before the checks on the outputs.
OutcomeInputsFirst(t) ==
  IF Panics(t) THEN "panic"
  ELSE IF Rejects(t) \/ ~t.vout[1].parses THEN "error" ELSE "derived"

Outcome(t) ==
  IF Rejects(t) THEN "error"
  ELSE IF Panics(t) THEN "panic"
  ELSE IF ~t.vout[1].parses THEN "error" ELSE "derived"

DerivedLog(t) ==
  LET nullData == ExtractEGTXNullData(t.vout[1].pushes)
  IN  [from    |-> FirstAddress(Payments(t.vin)),
       to      |-> FirstAddress(Payments(t.vout)),
       address |-> nullData.address,
       topics  |-> nullData.topics,
       data    |-> BuildLogData(Payments(t.vout), Payments(t.vin), Tokens(t.vout), Tokens(t.vin),
                                nullData.otherData \o OtherNullDatas(t.vout))]

NoLog == [from |-> ZeroAddress]

Init ==
  /\ tx \in Candidates
  /\ outcome = "none"
  /\ log = NoLog

convertUtxoInfoToTx ==
  /\ outcome = "none"
  /\ outcome' = Outcome(tx)
  /\ log' = IF Outcome(tx) = "derived" THEN DerivedLog(tx) ELSE NoLog
  /\ UNCHANGED tx

Next == convertUtxoInfoToTx

Spec == Init /\ [][Next]_<<tx, outcome, log>>

-----------------------------------------------------------------------------
(* Properties *)

\* "zero-padding and tail-truncation" (rules 2 and 3): the contract address
\* and the topics have their full length, a short element keeps its value as
\* a big-endian number, a long one its leading bytes.
ConversionKeepsValue ==
  outcome = "derived" =>
    LET Keeps(o, c, n) == /\ Len(c) = n
                          /\ Len(o) <= n => Number(c) = Number(o)
                          /\ Len(o) > n => c = SubSeq(o, 1, n)
        es       == tx.vout[1].pushes
        elements == SubSeq(es, 2, Min({5, Len(es)}))
        topics   == Selected(elements, {i \in DOMAIN elements : elements[i] # <<>>})
    IN  /\ es # <<>> => Keeps(es[1], log.address, AddressBytes)
        /\ Len(log.topics) = Len(topics)
        /\ \A i \in DOMAIN topics : Keeps(topics[i], log.topics[i], TopicBytes)

\* Pushed data is neither lost nor repeated: the elements of all OP_RETURN
\* outputs are the flag, the address, the topics, the empty elements in a
\* topic's place and otherData, which keeps their order.
ElementsConserved ==
  outcome = "derived" =>
    LET all      == NullDatas(tx.vout)
        first    == tx.vout[1].pushes
        consumed == {i \in DOMAIN first : i <= 5}
        empty    == {i \in consumed \ {1} : first[i] = <<>>}
        other    == UnPackEGTXLog(log.data)[6]
    IN  /\ IsSuffix(other, all)
        /\ Len(all) = 1 + Cardinality(consumed) + Len(other)
        /\ Len(log.topics) = Cardinality(consumed \ {1}) - Cardinality(empty)

\* Every input and every P2PKH/P2SH output has its entry, in order, with its
\* address and the value in wei, whole but for what the floating point product
\* lost, and the second output, the first one that can be a payment, is the
\* recipient.
PartiesConserved ==
  outcome = "derived" =>
    LET data     == UnPackEGTXLog(log.data)
        payments == PaymentOutputs(tx.vout)
        Agree(words, outs) ==
          /\ Len(words) = Len(outs)
          /\ \A i \in DOMAIN outs :
               /\ words[i] \div Uint96 = outs[i].address
               /\ words[i] % Uint96 = (outs[i].value - outs[i].cut) * WeiPerSatoshi
    IN  /\ Agree(data[2], payments)
        /\ Agree(data[3], tx.vin)
        /\ Len(tx.vout) > 1 => log.to = tx.vout[2].address

\* TestABI: what was packed can be read back, whatever the lengths of the five
\* lists and of the elements are, and writing the confirmation count over the
\* first word of the packed data changes nothing but the count.
DataUnpacks ==
  outcome = "derived" =>
    \A count \in {0, 1, AllOne} :
      UnPackEGTXLog(RefreshData(log.data, count)) =
        <<count, Payments(tx.vout), Payments(tx.vin), Tokens(tx.vout), Tokens(tx.vin),
          ExtractEGTXNullData(tx.vout[1].pushes).otherData \o OtherNullDatas(tx.vout)>>

\* struct TokenInfo (README.md:36-41): address, amount, category, capability
\* and the whole commitment of a token come back out of its four words, at
\* every length up to the limit; a token beyond it is left out.
TokensCanBeRead ==
  outcome = "derived" =>
    LET outs  == TokenOutputs(tx.vout)
        infos == UnPackEGTXLog(log.data)[4]
    IN  /\ Len(infos) = Len(outs)
        /\ \A i \in DOMAIN outs :
             LET head == Bytes(infos[i][3], HeadBytes + 2)
                 tail == Bytes(infos[i][4], WordBytes)
             IN  /\ infos[i][1] \div Uint96 = outs[i].address
                 /\ infos[i][1] % Uint96 = outs[i].token.amount
                 /\ Bytes(infos[i][2], WordBytes) = outs[i].token.category
                 /\ head[2] = Capability(outs[i].token.capability)
                 /\ SubSeq(SubSeq(head, 3, HeadBytes + 2) \o tail, 1, head[1]) = outs[i].token.commitment

\* The scanner meets every transaction of the chain: one that is not an EGTX
\* transaction never makes it panic, whatever its inputs and outputs are.
OnlyEgtxCanPanic ==
  outcome = "panic" => tx.vout[1].type = "nulldata" /\ tx.vout[1].egtx

-----------------------------------------------------------------------------
(* What README.md says and the code does not do *)

\* README.md:19 and 21, "The value is multiplied by `10**10` such that its unit
\* is changed from satoshi to wei": every entry has the exact value.
ValuesAreExact ==
  outcome = "derived" =>
    LET data == UnPackEGTXLog(log.data)
        Exact(words, outs) ==
          \A i \in DOMAIN outs : words[i] % Uint96 = outs[i].value * WeiPerSatoshi
    IN  Exact(data[2], PaymentOutputs(tx.vout)) /\ Exact(data[3], tx.vin)

\* README.md:31, "The first P2PKH/P2SH inputs' sender address is taken as the
\* from-address": other inputs do not stand in the way.
OtherInputsAreSkipped ==
  /\ outcome \in {"error", "panic", "derived"}
  /\ ~Rejects(tx)
  /\ \A i \in DOMAIN tx.vin : tx.vin[i].type # "missing"
  /\ \A i \in DOMAIN tx.vin : IsPayment(tx.vin[i]) => tx.vin[i].address # NoAddress
  /\ \A i \in DOMAIN tx.vout : IsPayment(tx.vout[i]) => tx.vout[i].address # NoAddress
  => outcome # "panic"

=============================================================================
