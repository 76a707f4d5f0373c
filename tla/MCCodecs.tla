------------------------------ MODULE MCCodecs ------------------------------
(***************************************************************************)
(* The laws of the codecs, over bounded inputs: the two key encodings, for *)
(* every pair of a data key and a prefix built from small alphabets and    *)
(* two paddings; the integer codecs, for every number an instance with     *)
(* four-bit bytes can hold; and the account key caches beside the state.   *)
(* part says which of the three a behaviour is about.                      *)
(***************************************************************************)
EXTENDS KeyCodec, ByteCodec, AccountKeyCache, TLC

CONSTANTS AddressByte,  \* address and storage-key bytes
          SuffixBytes   \* bound on the length of a storage key or code hash

ASSUME SuffixAssumption == SuffixBytes \in Nat

VARIABLES part, key, other, padding, padding2,
          number, behind                                \* a number, a byte behind it

Bytes(n) == [1..n -> {<<b>> : b \in AddressByte}]
Addresses == Bytes(ACCOUNT_BYTES)
ShortAddresses == UNION {Bytes(n) : n \in 0..(ACCOUNT_BYTES - 1)}
StorageBytes == UNION {Bytes(n) : n \in 1..SuffixBytes}
Spaces == {"Native", "Ethereum"}

keys    == <<key, other, padding, padding2>>
numbers == <<number, behind>>
mcvars  == <<part, keys, numbers, acvars>>

\* The keys a caller stores under: whole addresses, non-empty suffixes.
FullKeys ==
    {StorageKey(kind, a, <<>>, s) : a \in Addresses, s \in Spaces,
        kind \in {"Account", "StorageRoot", "CodeRoot", "DepositList", "VoteList"}}
    \cup {StorageKey(kind, a, x, s) : kind \in {"Storage", "Code"},
            a \in Addresses, x \in StorageBytes, s \in Spaces}

\* The encoders take an account of any shorter length as it stands.
ShortAccounts ==
    {StorageKey("Account", a, <<>>, s) : a \in ShortAddresses, s \in Spaces}

DataKeys == FullKeys \cup ShortAccounts

AddressPrefixes ==
    {StorageKey("AddressPrefix", a, <<>>, "Native") :
        a \in Addresses \cup ShortAddresses}

\* Prefixes that end at the end of a hashed field, or inside the address.
QueryKeys == FullKeys \cup AddressPrefixes \cup {StorageKey("Empty", <<>>, <<>>, "Native")}

\* 30 and 60 million gas.
MCGasLimits == <<3, 6>>

Unused == StorageKey("Empty", <<>>, <<>>, "Native")

Numbers == 0..Two[ByteBits * (Qc8Bytes + 3) - 2]

Init ==
    /\ part \in {"keys", "numbers", "caches"}
    /\ key \in IF part = "keys" THEN DataKeys ELSE {Unused}
    /\ other \in IF part = "keys" THEN QueryKeys \cup ShortAccounts ELSE {Unused}
    /\ padding = 1 /\ padding2 = 1
    /\ number = 0
    /\ behind \in IF part = "numbers" THEN {0, Two[ByteBits] - 1} ELSE {0}
    /\ KeyCacheInit
    /\ part # "caches" => delta_pad = 1 /\ intermediate_pad = 1

NextPaddings == /\ part = "keys"
                /\ padding' \in Pad /\ padding2' \in Pad
                /\ UNCHANGED <<part, key, other, numbers, acvars>>

NextNumber == /\ part = "numbers"
              /\ number' = (number + 1) % Cardinality(Numbers)
              /\ UNCHANGED <<part, keys, behind, acvars>>

NextAccess == /\ part = "caches"
              /\ KeyCacheNext
              /\ UNCHANGED <<part, keys, numbers>>

Next == NextPaddings \/ NextNumber \/ NextAccess

Spec == Init /\ [][Next]_mcvars
-----------------------------------------------------------------------------
\* Decoding inverts encoding, under every padding and in both spaces.  A short
\* account survives the delta encoding but for its space, which its bytes do
\* not carry, and comes back from its canonical key as an address prefix.
RoundTrips ==
    part = "keys" =>
        /\ FromDeltaMptKey(ToDeltaMptKeyBytes(key, padding))
              = IF IsShortAccount(key) THEN [key EXCEPT !.space = "Native"] ELSE key
        /\ key \in FullKeys => FromKeyBytes(ToKeyBytes(key)) = key

\* Keys that name one entry: a key and itself, and the short accounts of an
\* address in the two spaces.
SameEntry(k, o) ==
    \/ k = o
    \/ IsShortAccount(k) /\ IsShortAccount(o) /\ k.address = o.address

\* Two data keys have the same bytes, in either encoding, exactly if they name
\* one entry, and a delta key moves with the padding exactly if its account is
\* not short: the marker keeps the spaces of whole addresses apart, a short
\* account is one entry for both spaces and every padding, and no short one
\* ever meets a whole one.
NoCollisions ==
    part = "keys" /\ other \in DataKeys =>
        /\ ToKeyBytes(key) = ToKeyBytes(other) <=> SameEntry(key, other)
        /\ ToDeltaMptKeyBytes(key, padding) = ToDeltaMptKeyBytes(other, padding2)
              <=> SameEntry(key, other) /\ (padding = padding2 \/ IsShortAccount(key))

\* The bytes of a delta prefix match exactly the keys whose canonical bytes
\* carry the canonical prefix: an address prefix matches all of them, to be
\* filtered, and a storage key matches only itself.
PrefixesAlign ==
    part = "keys" /\ key \in FullKeys /\ other \in QueryKeys =>
        (IsPrefix(ToDeltaMptKeyBytes(other, padding), ToDeltaMptKeyBytes(key, padding))
         <=> \/ IsAddressPrefix(other)
             \/ IF other.kind = "Storage" THEN key = other
                ELSE IsPrefix(ToKeyBytes(other), ToKeyBytes(key)))

\* A number that fits is read back, wherever it stands and whatever stands
\* behind it, and the reader stops where the writer did.
ReadBack(put, Read(_, _), v) ==
    LET data == <<behind>> \o put \o <<behind>>
    IN  Read(data, 1) = Ok(v, 1 + Len(put))

Word == number % Two[WordBits]
Signed == IF Word < Two[WordBits - 1] THEN Word ELSE Word - Two[WordBits]

\* Every codec of a packet inverts itself up to its width and refuses what is
\* wider: no limit cuts a number short.  The named gas limits and base prices
\* come back through their one-byte forms, in both spaces.
NumbersRoundTrip ==
    part = "numbers" =>
        /\ ReadBack(PutUleb128(Word), ReadUleb128, Word)
        /\ ZigZagDecode(ZigZagEncode(Signed)) = Signed
        /\ LET put == PutQc8(number)
           IN  IF number < Two[ByteBits * (Qc8Bytes + 3) - 2]
               THEN ReadBack(put.value, ReadQc8, number) ELSE put = Err
        /\ \A espace \in BOOLEAN :
              LET put == PutQc5e(number, BasePriceEnum(number, espace))
                  gas == PutQc5e(number, GasLimitEnum(number))
              IN  IF number < Two[ByteBits * (Qc5eBytes + 2) - 2]
                  THEN /\ BasePrice(ReadQc5e(put.value, 0).value, espace) = number
                       /\ GasLimit(ReadQc5e(gas.value, 0).value) = number
                       /\ ReadQc5e(put.value \o <<behind>>, 0).next = Len(put.value)
                  ELSE put = Err /\ gas = Err
=============================================================================
