---------------------------- MODULE EgtxLogData ----------------------------
(***************************************************************************)
(* The data of a derived log: the words buildTokenInfo makes of a token,   *)
(* the ABI packing of the six fields (bch/abi.go, go-ethereum's abi), and  *)
(* the refresh of the confirmation count inside of it.                     *)
(*                                                                         *)
(* Data is a sequence of words, natural numbers; offsets count bytes, as   *)
(* in the ABI.  A token is [amount, category, capability, commitment] with *)
(* bytes as sequences of numbers below 256, and amount Unparsable where    *)
(* strconv.ParseInt fails, as it does on an output without a token.        *)
(***************************************************************************)
EXTENDS Integers, Selection

CONSTANTS
  WordBytes,  \* 32
  HeadBytes,  \* 8, the bytes of an NFT commitment beside its length
  Uint96,     \* 2^96, what the twelve bytes after an address hold
  AllOne      \* 2^256 - 1

ASSUME WordAssumption ==
  /\ WordBytes \in Nat \ {0} /\ HeadBytes \in Nat \ {0} /\ HeadBytes + WordBytes <= 255
  /\ Uint96 \in Nat \ {0} /\ AllOne \in Nat

Byte == 0..255

Zeros(n) == [k \in 1..n |-> 0]

\* Bytes as a big-endian number, and back.
Number(bytes) ==
  LET number[k \in 0..Len(bytes)] == IF k = 0 THEN 0 ELSE 256 * number[k - 1] + bytes[k]
  IN  number[Len(bytes)]

Bytes(word, n) ==
  LET rest[k \in 0..n] == IF k = 0 THEN word ELSE rest[k - 1] \div 256
  IN  [k \in 1..n |-> rest[n - k] % 256]

\* copy into an array of n bytes.
PadRight(bytes, n) == SubSeq(bytes \o Zeros(n), 1, n)

AddressAnd(address, amount) == (address * Uint96) + (amount % Uint96)

-----------------------------------------------------------------------------
(* Tokens *)

Unparsable == -1

Capability(name) ==
  CASE name = "none" -> 1 [] name = "mutable" -> 2 [] name = "minting" -> 3 [] OTHER -> 0

TokenIsValid(token) ==
  /\ token.amount # Unparsable
  /\ Len(token.category) = WordBytes
  /\ Len(token.commitment) <= HeadBytes + WordBytes

\* Mutant: the tail starts one byte late.
buildTokenInfoLateTail(address, token) ==
  LET c == token.commitment
  IN  <<AddressAnd(address, token.amount),
        Number(token.category),
        Number(<<Len(c), Capability(token.capability)>> \o PadRight(c, HeadBytes)),
        Number(PadRight(SubSeq(c, HeadBytes + 2, Len(c)), WordBytes))>>

\* Without the zero bytes between the capability and the head.
buildTokenInfo(address, token) ==
  LET c == token.commitment
  IN  <<AddressAnd(address, token.amount),
        Number(token.category),
        Number(<<Len(c), Capability(token.capability)>> \o PadRight(c, HeadBytes)),
        Number(PadRight(SubSeq(c, HeadBytes + 1, Len(c)), WordBytes))>>

-----------------------------------------------------------------------------
(* go-ethereum's abi: each dynamic part follows the heads, at its offset. *)

OffsetOf(parts, k) == WordBytes * (Len(parts) + Len(FlattenSeq(SubSeq(parts, 1, k - 1))))

WordsOf(n) == (n + WordBytes - 1) \div WordBytes

EncodeBytes(bytes) ==
  <<Len(bytes)>> \o
  [k \in 1..WordsOf(Len(bytes)) |->
     Number(PadRight(SubSeq(bytes, WordBytes * (k - 1) + 1, Len(bytes)), WordBytes))]

DecodeBytes(data, at) ==
  SubSeq(FlattenSeq([k \in 1..WordsOf(data[at]) |-> Bytes(data[at + k], WordBytes)]), 1, data[at])

Encode(type, v) ==
  CASE type = "uint256"   -> <<>>
    [] type = "uint256[]" -> <<Len(v)>> \o v
    [] type = "tuple[]"   -> <<Len(v)>> \o FlattenSeq(v)
    [] type = "bytes[]"   -> LET parts == [k \in DOMAIN v |-> EncodeBytes(v[k])]
                             IN  <<Len(v)>> \o [k \in DOMAIN v |-> OffsetOf(parts, k)] \o FlattenSeq(parts)

Decode(type, data, at) ==
  CASE type = "uint256[]" -> SubSeq(data, at + 1, at + data[at])
    [] type = "tuple[]"   -> [k \in 1..data[at] |-> SubSeq(data, at + 4 * k - 3, at + 4 * k)]
    [] type = "bytes[]"   -> [k \in 1..data[at] |-> DecodeBytes(data, at + 1 + data[at + k] \div WordBytes)]

Pack(types, args) ==
  LET parts == [k \in DOMAIN types |-> Encode(types[k], args[k])]
  IN  [k \in DOMAIN types |-> IF types[k] = "uint256" THEN args[k] ELSE OffsetOf(parts, k)]
      \o FlattenSeq(parts)

Unpack(types, data) ==
  [k \in DOMAIN types |-> IF types[k] = "uint256" THEN data[k]
                          ELSE Decode(types[k], data, data[k] \div WordBytes + 1)]

-----------------------------------------------------------------------------
\* The inputs of EGTXLogData in the two ABI texts, for packing and unpacking.
a == <<"uint256", "uint256[]", "uint256[]", "tuple[]", "tuple[]", "bytes[]">>

b == <<"uint256", "uint256[]", "uint256[]", "tuple[]", "tuple[]", "bytes[]">>

PackEGTXLogDataEvent(args) == Pack(a, args)

UnPackEGTXLog(data) == Unpack(b, data)

\* Mutant: inputs and outputs are swapped.
BuildLogDataSwapped(outputs, inputs, outTokens, inTokens, otherData) ==
  PackEGTXLogDataEvent(<<0, inputs, outputs, outTokens, inTokens, otherData>>)

\* The confirmation count is zero until the log is read.
BuildLogData(outputs, inputs, outTokens, inTokens, otherData) ==
  PackEGTXLogDataEvent(<<0, outputs, inputs, outTokens, inTokens, otherData>>)

\* What the backend does to the data of a log before it gives it out.
RefreshData(data, count) == IF Len(data) >= 1 THEN [data EXCEPT ![1] = count] ELSE data

=============================================================================
