------------------------------ MODULE KeyCodec ------------------------------
(***************************************************************************)
(* The two key encodings of minimal-mpt (crates/minimal-mpt/src/           *)
(* key_codec.rs): the canonical snapshot key and the padded delta-MPT key  *)
(* of a StorageKeyWithSpace, with their decoders.                          *)
(*                                                                         *)
(* A byte string is a sequence of tokens.  A token is a tuple: <<b>> is an *)
(* address or storage-key byte or one of the constant markers, and         *)
(* <<field, padding, x>> is the digest of x under a padding, taken to be   *)
(* injective.  A digest and a marker count as one token each, so the       *)
(* source's byte lengths become token lengths: an address has              *)
(* ACCOUNT_BYTES tokens and an account key part has one more.              *)
(***************************************************************************)
EXTENDS Naturals, Sequences, SequencesExt

CONSTANT ACCOUNT_BYTES

ASSUME AccountBytesAssumption == ACCOUNT_BYTES \in Nat \ {0}

EVM_SPACE_TYPE      == <<"evm">>
STORAGE_PREFIX      == <<"data">>
CODE_HASH_PREFIX    == <<"code">>
DEPOSIT_LIST_PREFIX == <<"deposit">>
VOTE_LIST_PREFIX    == <<"vote">>

ACCOUNT_KEYPART == ACCOUNT_BYTES + 1

StorageKey(kind, address, suffix, space) ==
    [kind |-> kind, address |-> address, suffix |-> suffix, space |-> space]

\* What a decoder returns where the source returns Err(InvalidKey).
InvalidKey == StorageKey("Invalid", <<>>, <<>>, "Native")

\* Keys the encoders take without checked_address: AddressPrefix of any
\* length, Empty, and an Account shorter than an address.
IsShortAccount(key) == key.kind = "Account" /\ Len(key.address) < ACCOUNT_BYTES

\* checked_address: the encoders return Err for any other length.
Encodable(key) ==
    \/ key.kind \in {"Empty", "AddressPrefix"}
    \/ IsShortAccount(key)
    \/ Len(key.address) = ACCOUNT_BYTES

IsAddressPrefix(key) == key.kind = "AddressPrefix"

\* Mutation: the two spaces share their keys.
SpaceMarkerNone(key) == <<>>

SpaceMarker(key) == IF key.space = "Ethereum" THEN <<EVM_SPACE_TYPE>> ELSE <<>>

TypeMarker(key) ==
    CASE key.kind = "Account"                    -> <<>>
      [] key.kind \in {"StorageRoot", "Storage"} -> <<STORAGE_PREFIX>>
      [] key.kind \in {"CodeRoot", "Code"}       -> <<CODE_HASH_PREFIX>>
      [] key.kind = "DepositList"                -> <<DEPOSIT_LIST_PREFIX>>
      [] key.kind = "VoteList"                   -> <<VOTE_LIST_PREFIX>>

ToKeyBytes(key) ==
    IF IsShortAccount(key) \/ key.kind \in {"Empty", "AddressPrefix"}
    THEN key.address
    ELSE key.address \o SpaceMarker(key) \o TypeMarker(key) \o key.suffix

\* Mutation: the account digest leaves the padding out.
NewAccountKeyUnpadded(address, padding) == <<<<"account", 0, address>>>> \o address

NewAccountKey(address, padding) == <<<<"account", padding, address>>>> \o address

\* Mutation: only the first byte of a storage key is hashed.
StorageKeyPaddingHead(storageKey, padding) ==
    <<"storage", padding, <<Head(storageKey)>>>>

StorageKeyPadding(storageKey, padding) == <<"storage", padding, storageKey>>

ToDeltaMptKeyBytes(key, padding) ==
    IF IsShortAccount(key) THEN key.address
    ELSE IF key.kind \in {"Empty", "AddressPrefix"} THEN <<>>
    ELSE NewAccountKey(key.address, padding) \o SpaceMarker(key)
         \o TypeMarker(key)
         \o (IF key.kind = "Storage"
             THEN <<StorageKeyPadding(key.suffix, padding)>> ELSE <<>>)
         \o key.suffix

\* The part of a key after its type marker, for the two kinds that have one.
Suffixed(rootKind, kind, address, suffix, space) ==
    IF suffix = <<>> THEN StorageKey(rootKind, address, <<>>, space)
                     ELSE StorageKey(kind, address, suffix, space)

FromDeltaMptKey(raw) ==
    IF Len(raw) < ACCOUNT_KEYPART THEN StorageKey("Account", raw, <<>>, "Native")
    ELSE
      LET address == SubSeq(raw, 2, ACCOUNT_KEYPART)
          tail    == SubSeq(raw, ACCOUNT_KEYPART + 1, Len(raw))
          isEvm   == IsPrefix(<<EVM_SPACE_TYPE>>, tail)
          space   == IF isEvm THEN "Ethereum" ELSE "Native"
          rest    == IF isEvm THEN Tail(tail) ELSE tail
      IN  CASE rest = <<>> -> StorageKey("Account", address, <<>>, space)
            [] IsPrefix(<<STORAGE_PREFIX>>, rest) ->
                 IF Len(rest) = 1
                 THEN StorageKey("StorageRoot", address, <<>>, space)
                 ELSE StorageKey("Storage", address,
                                 SubSeq(rest, 3, Len(rest)), space)
            [] IsPrefix(<<CODE_HASH_PREFIX>>, rest) ->
                 Suffixed("CodeRoot", "Code", address, Tail(rest), space)
            [] IsPrefix(<<DEPOSIT_LIST_PREFIX>>, rest) ->
                 StorageKey("DepositList", address, <<>>, space)
            [] IsPrefix(<<VOTE_LIST_PREFIX>>, rest) ->
                 StorageKey("VoteList", address, <<>>, space)
            [] OTHER -> InvalidKey

FromKeyBytes(raw) ==
    IF raw = <<>> THEN StorageKey("Empty", <<>>, <<>>, "Native")
    ELSE IF Len(raw) < ACCOUNT_BYTES
    THEN StorageKey("AddressPrefix", raw, <<>>, "Native")
    ELSE
      LET address == SubSeq(raw, 1, ACCOUNT_BYTES)
          tail    == SubSeq(raw, ACCOUNT_BYTES + 1, Len(raw))
          isEvm   == IsPrefix(<<EVM_SPACE_TYPE>>, tail)
          space   == IF isEvm THEN "Ethereum" ELSE "Native"
          rest    == IF isEvm THEN Tail(tail) ELSE tail
      IN  CASE rest = <<>> -> StorageKey("Account", address, <<>>, space)
            [] IsPrefix(<<STORAGE_PREFIX>>, rest) ->
                 Suffixed("StorageRoot", "Storage", address, Tail(rest), space)
            [] IsPrefix(<<CODE_HASH_PREFIX>>, rest) ->
                 Suffixed("CodeRoot", "Code", address, Tail(rest), space)
            [] rest = <<DEPOSIT_LIST_PREFIX>> ->
                 StorageKey("DepositList", address, <<>>, space)
            [] rest = <<VOTE_LIST_PREFIX>> ->
                 StorageKey("VoteList", address, <<>>, space)
            [] OTHER -> InvalidKey
=============================================================================
