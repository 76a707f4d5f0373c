------------------------------ MODULE ByteCodec ------------------------------
(***************************************************************************)
(* The integer codecs of a packet: crates/cfxpack/src/codec.rs.            *)
(*                                                                         *)
(* The widths are parameters, so that a small instance meets every limit.  *)
(* A buffer is a sequence of numbers below Two[ByteBits]; offsets count from  *)
(* zero.  A writer returns the bytes it appends, or Err; a reader returns  *)
(* the value and the offset behind it, or Err.                             *)
(***************************************************************************)
EXTENDS Integers, Sequences, FiniteSetsExt

CONSTANTS ByteBits,         \* 8
          WordBits,         \* 64
          Qc8Bytes,         \* 8, the shortest Qc8
          Qc5eBytes,        \* 5, the shortest Qc5e integer
          GasLimits,        \* <<30000000, 60000000>>
          CorePrice,        \* 1 Gdrip
          EspacePrice       \* 20 Gdrip

ASSUME WidthAssumption ==
    /\ ByteBits \in Nat /\ ByteBits > 3
    /\ {WordBits, Qc8Bytes, Qc5eBytes} \subseteq Nat \ {0}

\* The powers of two, as a function the provers can unfold.
Two[n \in Nat] == IF n = 0 THEN 1 ELSE 2 * Two[n - 1]

Err == [error |-> TRUE]
Ok(value, next) == [value |-> value, next |-> next]

-----------------------------------------------------------------------------
(* Unsigned LEB128: groups of seven bits, the lowest first. *)

More == Two[ByteBits - 1]

\* The weight of group i.
Shift(i) == Two[(ByteBits - 1) * i]

Group(v, i) == (v \div Shift(i)) % More

\* uleb128_len, the number of rounds put_uleb128 makes.
Uleb128Len(v) ==
    CHOOSE n \in 1..WordBits : v < Shift(n) /\ \A m \in 1..(n - 1) : v >= Shift(m)

PutUleb128(v) ==
    [i \in 1..Uleb128Len(v) |->
        Group(v, i - 1) + (IF i < Uleb128Len(v) THEN More ELSE 0)]

\* Bits shifted out of the word are lost.
ReadUleb128(data, offset) ==
    LET ends   == {i \in (offset + 1)..Len(data) : data[i] < More}
        end    == Min(ends)
        groups == end - offset
        value[i \in 0..groups] ==
            IF i = 0 THEN 0
            ELSE value[i - 1] + (data[offset + i] % More) * Shift(i - 1)
    IN  IF ends = {} \/ (groups - 1) * (ByteBits - 1) >= WordBits THEN Err
        ELSE Ok(value[groups] % Two[WordBits], end)

-----------------------------------------------------------------------------
(* ZigZag, through the unsigned word. *)

ZigZagEncode(v) ==
    LET shifted == (2 * v) % Two[WordBits]
    IN  IF v < 0 THEN Two[WordBits] - 1 - shifted ELSE shifted

ZigZagDecode(u) == IF u % 2 = 0 THEN u \div 2 ELSE -(u \div 2) - 1

-----------------------------------------------------------------------------
(* Qc8 and Qc5e: big-endian, the top two bits of the first byte give the
   length. *)

ModeBit == Two[ByteBits - 2]

BigEndian(v, n) == [i \in 1..n |-> (v \div Two[ByteBits * (n - i)]) % Two[ByteBits]]

Number(bytes) ==
    LET value[i \in 0..Len(bytes)] ==
            IF i = 0 THEN 0 ELSE value[i - 1] * Two[ByteBits] + bytes[i]
    IN  value[Len(bytes)]

\* Mutation: the bits the mode takes are not left out.
FitsWhole(v, n) == v < Two[ByteBits * n]

\* bit_len(compact) <= max_bits.
Fits(v, n) == v < Two[ByteBits * n - 2]

\* The first mode that is wide enough; mode 0 is shortest bytes long.
PutMode(v, shortest, modes) ==
    LET wide == {m \in modes : Fits(v, shortest + m)}
        mode == Min(wide)
        bytes == BigEndian(v, shortest + mode)
    IN  IF wide = {} THEN Err
        ELSE Ok([bytes EXCEPT ![1] = (@ % ModeBit) + mode * ModeBit], 0)

ReadMode(data, offset, n) ==
    IF offset + n > Len(data) THEN Err
    ELSE LET bytes == SubSeq(data, offset + 1, offset + n)
         IN  Ok(Number([bytes EXCEPT ![1] = @ % ModeBit]), offset + n)

PutQc8(v) == PutMode(v, Qc8Bytes, 0..3)

ReadQc8(data, offset) ==
    IF offset >= Len(data) THEN Err
    ELSE ReadMode(data, offset, Qc8Bytes + data[offset + 1] \div ModeBit)

\* Mode 0 is a byte that names one of the values the caller knows.
Enum(e)    == [enum |-> TRUE, number |-> e]
Integer(v) == [enum |-> FALSE, number |-> v]
None       == -1

PutQc5e(v, enum) == IF enum # None THEN Ok(<<enum>>, 0)
                    ELSE PutMode(v, Qc5eBytes - 1, 1..3)

ReadQc5e(data, offset) ==
    IF offset >= Len(data) THEN Err
    ELSE LET mode == data[offset + 1] \div ModeBit
             read == ReadMode(data, offset, Qc5eBytes - 1 + mode)
         IN  IF mode = 0 THEN Ok(Enum(data[offset + 1] % ModeBit), offset + 1)
             ELSE IF read = Err THEN Err
             ELSE Ok(Integer(read.value), read.next)

GasLimitEnum(v) == CASE v = GasLimits[1] -> 1
                     [] v = GasLimits[2] -> 2
                     [] v = 0            -> 0
                     [] OTHER            -> None

GasLimit(q) == IF ~q.enum THEN q.number
               ELSE IF q.number \in {1, 2} THEN GasLimits[q.number] ELSE 0

DefaultPrice(espace) == IF espace THEN EspacePrice ELSE CorePrice

BasePriceEnum(v, espace) == CASE v = 0                    -> 0
                              [] v = DefaultPrice(espace) -> 1
                              [] OTHER                    -> None

BasePrice(q, espace) == IF ~q.enum THEN q.number
                        ELSE IF q.number = 1 THEN DefaultPrice(espace) ELSE 0

\* The values that have a name could be written as numbers too.
ASSUME NamedAssumption ==
    \A v \in {GasLimits[1], GasLimits[2], CorePrice, EspacePrice} :
        v \in Nat /\ Fits(v, Qc5eBytes + 2)
=============================================================================
