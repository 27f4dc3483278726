--------------------------- MODULE MCEgtxDeriving ---------------------------
(* Transactions with up to three outputs and two inputs, and every list of *)
(* pushed elements around the boundaries: none, a short, an exact and a    *)
(* long address, and empty elements among up to six more.                  *)
EXTENDS TxBuilder

Token == [amount |-> 5, category |-> <<1, 2, 3>>, capability |-> "", commitment |-> <<>>]

\* Commitments of every length from none to one too many; a category that is
\* too short.
SomeTokens ==
  {[Token EXCEPT !.capability = c, !.commitment = SubSeq(<<255, 0, 9, 0, 255, 1>>, 1, n)] :
     c \in {"", "none", "mutable", "minting"}, n \in 0..6}
  \cup {[Token EXCEPT !.category = <<1, 2>>]}

Pay(addr, token) == [PayToAddr("pubkeyhash", addr, 3) EXCEPT !.token = token]

\* Elements of 0 to 4 bytes; addresses have 2, topics 3.
Elements == {<<>>, <<7>>, <<1, 2>>, <<1, 2, 3>>}

PushLists ==
  {<<>>} \cup {<<e>> : e \in Elements}
         \cup {<<<<1>>>> \o es : es \in UNION {[1..n -> {<<>>, <<7>>, <<1, 2, 3, 4>>}] : n \in 1..4}}
         \cup {<<<<1>>, <<7>>>> \o es : es \in [1..5 -> {<<>>, <<4, 5>>}]}

EgtxOuts == {[Out("nulldata") EXCEPT !.egtx = TRUE, !.pushes = p] : p \in PushLists}

OtherOuts ==
  {Out("other"), Out("pubkeyhash"), Pay(1, NoToken), [Pay(2, Token) EXCEPT !.type = "scripthash", !.cut = 1],
   [Out("nulldata") EXCEPT !.pushes = <<<<9>>, <<>>>>],
   [Out("nulldata") EXCEPT !.egtx = TRUE, !.pushes = <<<<8>>>>],
   [Out("nulldata") EXCEPT !.parses = FALSE]}

Inputs == {Out("missing"), Out("other"), Pay(3, Token), [Pay(4, NoToken) EXCEPT !.cut = 1]}

OneEgtx == {[Out("nulldata") EXCEPT !.egtx = TRUE, !.pushes = <<<<1>>, <<2>>>>],
            [Out("nulldata") EXCEPT !.egtx = TRUE, !.parses = FALSE]}

MCCandidates ==
  {[vout |-> <<out, Pay(1, Token)>>, vin |-> <<Pay(3, NoToken)>>] : out \in EgtxOuts}
  \cup
  {[vout |-> <<out, Pay(1, t1), Pay(2, t2)>>, vin |-> <<Pay(3, Token)>>] :
     out \in OneEgtx, t1 \in {NoToken, Token}, t2 \in SomeTokens}
  \cup
  {[vout |-> <<first>> \o rest, vin |-> vin] :
     first \in OneEgtx \cup OtherOuts,
     rest \in UNION {[1..n -> OtherOuts] : n \in 0..2},
     vin \in UNION {[1..n -> Inputs] : n \in 1..2}}

\* Flags shorter and longer than their arrays; every kind of recipient.
MCSenders ==
  [mode : {"send", "dryRun", "listUtxo"}, from : {1}, fee : {2},
   contract : {<<7>>, <<7, 8, 9>>}, payer : {<<5>>}, payee : {<<>>}, fileID : {<<3, 2, 1, 0>>},
   payTo : {2}, payToType : {"none", "bad", "pubkeyhash", "scripthash", "pubkey"}, payAmt : {0, 1, 3}]

\* Three outputs at most, around what the payment and the fee need.
MCListings == UNION {[1..n -> {2, 3, 5, 6, 9}] : n \in 0..2} \cup {<<9, 6, 9>>}

=============================================================================
