--------------------------- MODULE MCLayeredState ---------------------------
(***************************************************************************)
(* Instances of LayeredState for TLC, over the encodings of KeyCodec with  *)
(* two-token addresses.  A digest is a small number that counts entries,   *)
(* and so collides often: nothing may depend on two roots being distinct.  *)
(* A byte string is represented by a number, and what the codec says of it *)
(* is tabulated.                                                           *)
(***************************************************************************)
EXTENDS LayeredState, FiniteSetsExt, Sequences, TLC

Codec == INSTANCE KeyCodec WITH ACCOUNT_BYTES <- 2

MCDigest  == 0..2
MCPadding == 0..2

Held(m, E) == Cardinality({x \in DOMAIN m : m[x] \in E})

MCTrieRoot(m)      == (Held(m, Value) + 2 * Held(m, {Tombstone})) % 3
MCFromRoots(a, b)  == (a + 2 * b) % 3

\* Two addresses that share their first byte.
Addr1 == <<<<"x">>, <<"1">>>>
Addr2 == <<<<"x">>, <<"2">>>>
SKey  == <<<<"s">>>>

Native(kind, address, suffix) == Codec!StorageKey(kind, address, suffix, "Native")
Evm(kind, address, suffix)    == Codec!StorageKey(kind, address, suffix, "Ethereum")

\* Two storage keys of an account, one a prefix of the other, and a neighbour
\* in the other space; prefixes of whole fields, and one that cuts a key.
LongSKey    == <<<<"s">>, <<"t">>>>
FullKeys    == {Native("Storage", Addr1, SKey), Native("Storage", Addr1, LongSKey),
                Evm("Account", Addr2, <<>>)}
FullQueries == {Native("Account", Addr1, <<>>), Native("Storage", Addr1, SKey),
                Native("AddressPrefix", Addr2, <<>>), Native("Empty", <<>>, <<>>)}

\* An account shorter than an address, used as a key and as a prefix, and the
\* empty account that its tombstone hits.
ShortKeys    == {Native("Account", <<<<"x">>>>, <<>>), Native("Account", <<>>, <<>>)}
ShortQueries == {Native("Account", <<<<"x">>>>, <<>>)}

\* Two keys of one account, for the runs with a store.
PairKeys    == {Native("Account", Addr1, <<>>), Native("Storage", Addr1, SKey)}
PairQueries == {Native("StorageRoot", Addr1, <<>>),
                Native("AddressPrefix", <<<<"x">>>>, <<>>)}

AllKeys == FullKeys \cup ShortKeys \cup PairKeys \cup PairQueries
               \cup FullQueries \cup ShortQueries

\* Every byte string of the instance, and a number for each.
AllBytes == {Codec!ToKeyBytes(k) : k \in AllKeys} \cup
            {Codec!ToDeltaMptKeyBytes(k, p) : k \in AllKeys, p \in MCPadding}

Number == FoldSet(LAMBDA b, f : f @@ (b :> Cardinality(DOMAIN f)), <<>>, AllBytes)

KeyBytes      == [k \in AllKeys |-> Number[Codec!ToKeyBytes(k)]]
DeltaKeyBytes ==
    [k \in AllKeys |-> [p \in MCPadding |-> Number[Codec!ToDeltaMptKeyBytes(k, p)]]]

\* A table of F over byte strings of the set B, by their numbers.
Table(B, F(_)) == [n \in {Number[b] : b \in B} |-> F(CHOOSE b \in B : Number[b] = n)]

Decoded == Table({Codec!ToDeltaMptKeyBytes(k, p) : k \in AllKeys, p \in MCPadding},
                 Codec!FromDeltaMptKey)
Rekeyed == Table({Codec!ToKeyBytes(k) : k \in AllKeys}, Codec!FromKeyBytes)
StartOf == Table(AllBytes, LAMBDA p : {Number[b] : b \in {x \in AllBytes : Codec!IsPrefix(p, x)}})

MCCanonicalBytes(k)    == KeyBytes[k]
MCDeltaBytes(k, p)     == DeltaKeyBytes[k][p]
MCKeyOfDelta(r)        == Decoded[r]
MCKeyOfCanonical(c)    == Rekeyed[c]
MCStartsWith(bytes, p) == bytes \in StartOf[p]
MCCutsAddress(q)       == Codec!IsAddressPrefix(q)

\* The instances differ in the conditions the theorems name: only one has a
\* prefix that cuts a key, only one has keys that do not decode to themselves.
ASSUME InstanceAssumption ==
    /\ (WholeQuery # Query) <=> (Key = FullKeys)
    /\ RekeyExact <=> (Key # ShortKeys)
=============================================================================
