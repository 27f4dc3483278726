----------------------------- MODULE TxBuilder -----------------------------
(***************************************************************************)
(* cmd/txbuilder: one run of the program that writes an EGTX transaction,  *)
(* against a node that may refuse the transaction or take it and have its  *)
(* answer lost, followed by the scanner's reading of what the node took.   *)
(*                                                                         *)
(* A sender is the command line: [mode, from, fee, contract, payer, payee, *)
(* fileID, payTo, payToType, payAmt].  payToType is "none" without -pay-to *)
(* and "bad" when the address does not decode.                             *)
(***************************************************************************)
EXTENDS EgtxDeriving

CONSTANTS
  Senders,
  Listings  \* lists of unspent outputs, by their value in satoshis

\* Three kinds of address decode.
ASSUME BuilderAssumption ==
  /\ Senders \subseteq
       [mode : {"send", "dryRun", "listUtxo"}, from : Nat \ {NoAddress}, fee : Nat,
        contract : Seq(Byte), payer : Seq(Byte), payee : Seq(Byte), fileID : Seq(Byte),
        payTo : Nat \ {NoAddress}, payToType : {"none", "bad", "pubkeyhash", "scripthash", "pubkey"}, payAmt : Nat]
  /\ \A list \in Listings : list \in Seq(Nat) /\ \A i \in DOMAIN list : list[i] * WeiPerSatoshi < Uint96

VARIABLES
  sender,
  stage,    \* "idle" (no builder), "main", "list", "send" or "done"
  unspent,
  answers,  \* what buildAndSendEGTX came to, for each output tried
  sent      \* the transactions the node took

vars == <<tx, outcome, log, sender, stage, unspent, answers, sent>>

NoToken == [amount |-> Unparsable, category |-> <<>>, capability |-> "", commitment |-> <<>>]

Out(type) == [type |-> type, egtx |-> FALSE, parses |-> TRUE, pushes |-> <<>>,
              address |-> NoAddress, value |-> 0, cut |-> 0, token |-> NoToken]

PayToAddr(type, address, value) == [Out(type) EXCEPT !.address = address, !.value = value]

NoTx == [vout |-> <<>>, vin |-> <<>>]

-----------------------------------------------------------------------------
\* main copies the flags into arrays, with zeros after a short one.
buildNullDataScript ==
  [Out("nulldata") EXCEPT !.egtx = TRUE,
     !.pushes = <<PadRight(sender.contract, AddressBytes),
                  PadRight(sender.payer, AddressBytes),
                  PadRight(sender.payee, AddressBytes),
                  PadRight(sender.fileID, TopicBytes),
                  <<>>>>]

\* int64(amount * 1e8) of a decimal fraction may come out one too small, but
\* not of 0.00000001.
Satoshis(amount) == IF amount \in {0, 1} THEN {amount} ELSE {amount - 1, amount}

\* Without -pay-to the amount is left at zero.
PayAmt == IF sender.payToType = "none" THEN 0 ELSE sender.payAmt

\* Mutant: the fee is forgotten.
NotEnoughWithoutFee(inAmt, payAmt) == inAmt <= payAmt

NotEnough(inAmt, payAmt) == inAmt <= payAmt + sender.fee

\* Mutant: the change comes before the payment.
buildEGTXChangeFirst(value, inAmt, payAmt) ==
  LET pay    == IF payAmt > 0 THEN <<PayToAddr(sender.payToType, sender.payTo, payAmt)>> ELSE <<>>
      change == inAmt - payAmt - sender.fee
      rest   == IF change > 0 THEN <<PayToAddr("pubkeyhash", sender.from, change)>> ELSE <<>>
  IN  [vout |-> <<buildNullDataScript>> \o rest \o pay,
       vin  |-> <<PayToAddr("pubkeyhash", sender.from, value)>>]

buildEGTX(value, inAmt, payAmt) ==
  LET pay    == IF payAmt > 0 THEN <<PayToAddr(sender.payToType, sender.payTo, payAmt)>> ELSE <<>>
      change == inAmt - payAmt - sender.fee
      rest   == IF change > 0 THEN <<PayToAddr("pubkeyhash", sender.from, change)>> ELSE <<>>
  IN  [vout |-> <<buildNullDataScript>> \o pay \o rest,
       vin  |-> <<PayToAddr("pubkeyhash", sender.from, value)>>]

-----------------------------------------------------------------------------
main ==
  /\ stage = "main"
  /\ stage' = IF sender.payToType = "bad" THEN "done" ELSE "list"
  /\ UNCHANGED <<tx, outcome, log, sender, unspent, answers, sent>>

\* An error is retried after ten seconds, for ever, and changes nothing.
listUnspentUtxo ==
  /\ stage = "list"
  /\ unspent' \in Listings
  /\ stage' = IF sender.mode = "listUtxo" \/ unspent' = <<>> THEN "done" ELSE "send"
  /\ UNCHANGED <<tx, outcome, log, sender, answers, sent>>

\* SendRawTransaction, for a node and a connection that may fail.
SendRawTransaction(t, answer) ==
  /\ answer \in {"sent", "refused", "lost"}
  /\ sent' = IF answer = "refused" THEN sent ELSE Append(sent, t)

\* Mutant: the loop goes on after a success.
StopsNever(answer) == FALSE

\* The loop of main ends with the first call that returns no error.
Stops(answer) == answer \in {"dry", "sent"}

buildAndSendEGTX ==
  /\ stage = "send"
  /\ LET value == unspent[Len(answers) + 1]
     IN  \E inAmt \in Satoshis(value), payAmt \in Satoshis(PayAmt) :
           \E answer \in {"short", "dry", "sent", "refused", "lost"} :
             /\ IF NotEnough(inAmt, payAmt)
                THEN answer = "short" /\ UNCHANGED sent
                ELSE IF sender.mode = "dryRun"
                THEN answer = "dry" /\ UNCHANGED sent
                ELSE SendRawTransaction(buildEGTX(value, inAmt, payAmt), answer)
             /\ answers' = Append(answers, answer)
             /\ stage' = IF Stops(answer) \/ Len(answers') = Len(unspent) THEN "done" ELSE "send"
  /\ UNCHANGED <<tx, outcome, log, sender, unspent>>

\* The scanner comes to one of the transactions the node took.
Scan ==
  /\ stage = "done" /\ outcome = "building"
  /\ \E k \in DOMAIN sent : tx' = sent[k]
  /\ outcome' = "none"
  /\ UNCHANGED <<log, sender, stage, unspent, answers, sent>>

-----------------------------------------------------------------------------
\* Either a transaction of anyone's making, or a run of the builder.
BInit ==
  /\ \/ Init /\ stage = "idle" /\ sender \in [mode : {"none"}]
     \/ /\ tx = NoTx /\ outcome = "building" /\ log = NoLog
        /\ stage = "main" /\ sender \in Senders
  /\ unspent = <<>> /\ answers = <<>> /\ sent = <<>>

BNext ==
  \/ convertUtxoInfoToTx /\ UNCHANGED <<sender, stage, unspent, answers, sent>>
  \/ main \/ listUnspentUtxo \/ buildAndSendEGTX \/ Scan

BSpec == BInit /\ [][BNext]_vars

-----------------------------------------------------------------------------
(* Properties *)

\* What the builder writes, the scanner reads: a transaction it sent derives,
\* with the contract, the three topics and the parties of the command line.  The
\* one exception is a payment to a bare public key, which DecodeAddress accepts
\* and the scanner does not.
BuiltIsDerived ==
  stage = "done" /\ outcome \notin {"building", "none"} =>
    IF PayAmt > 0 /\ sender.payToType = "pubkey" THEN outcome = "error"
    ELSE /\ outcome = "derived"
         /\ log.address = PadRight(sender.contract, AddressBytes)
         /\ Len(log.topics) = 3
         /\ Number(log.topics[1]) = Number(PadRight(sender.payer, AddressBytes))
         /\ Number(log.topics[2]) = Number(PadRight(sender.payee, AddressBytes))
         /\ log.topics[3] = PadRight(sender.fileID, TopicBytes)
         /\ log.from = sender.from
         /\ log.to = IF PayAmt > 0 THEN sender.payTo ELSE sender.from

\* The satoshis of all outputs.
Total(outs) ==
  LET sum[k \in 0..Len(outs)] == IF k = 0 THEN 0 ELSE sum[k - 1] + outs[k].value
  IN  sum[Len(outs)]

PaysFee(t) ==
  /\ t.vin[1].value - Total(t.vout) - sender.fee \in {0, 1}
  /\ \A i \in 2..Len(t.vout) : t.vout[i].value > 0
  /\ PayAmt > 0 => PayAmt - t.vout[2].value \in {0, 1}

\* A transaction that was sent pays the miner the fee, or one satoshi more
\* where a conversion rounds down, and the recipient the amount or one less;
\* the change comes back, and no output but the first is empty.
FeeIsPaid == \A k \in DOMAIN sent : PaysFee(sent[k])

\* The attempts that came to an answer of S.
Attempts(S) == {k \in DOMAIN answers : answers[k] \in S}

\* A run sends one transaction: it stops at the first success, tries every
\* output before it gives up, and a second transaction reaches the chain only
\* when the answer to the first was lost.
SendsOnce ==
  /\ Len(sent) = Cardinality(Attempts({"sent", "lost"}))
  /\ Cardinality(Attempts({"sent", "dry"})) <= 1
  /\ sender.mode # "send" => sent = <<>>
  /\ stage = "done" /\ answers # <<>> => Len(answers) = Len(unspent) \/ answers[Len(answers)] \in {"sent", "dry"}

=============================================================================
