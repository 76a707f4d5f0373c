----------------------------- MODULE Container -----------------------------
(***************************************************************************)
(* What a reader of the archive directory goes by:                         *)
(* crates/cfxpack/src/container.rs.                                        *)
(*                                                                         *)
(* A path is the epochs in its name and its extension; a file is its       *)
(* directory and the number of bytes that are there.  The header, a        *)
(* directory entry and a payload count one byte each.                      *)
(***************************************************************************)
EXTENDS Integers, SequencesExt, Ascending

HEADER_LEN    == 1
DIR_ENTRY_LEN == 1
PAYLOAD_LEN   == 1

IsCompressed(path) == path.ext = "cfxpack.zst"

\* The temporary files of a patch end in another extension.
IsCfxpack(path) == path.ext \in {"cfxpack", "cfxpack.zst"}

\* One more path of the listing: of two with the same start epoch a compressed
\* one wins, otherwise the later one.
Preferred(by_start, path) ==
    LET old == path.start \in DOMAIN by_start /\ IsCompressed(by_start[path.start])
    IN  IF IsCfxpack(path) /\ (IsCompressed(path) \/ ~old)
        THEN [s \in DOMAIN by_start \cup {path.start} |->
                 IF s = path.start THEN path ELSE by_start[s]]
        ELSE by_start

\* The paths kept of a listing, by start epoch.
ByStart(listing) ==
    LET kept[n \in 0..Len(listing)] ==
            IF n = 0 THEN <<>> ELSE Preferred(kept[n - 1], listing[n])
    IN  kept[Len(listing)]

\* The files to read, by start epoch; read_dir gives no order to rely on.
CollectFiles(listing) ==
    LET by_start == ByStart(listing)
        starts   == InOrder(DOMAIN by_start)
    IN  [i \in DOMAIN starts |-> by_start[starts[i]]]

-----------------------------------------------------------------------------
EndOf(entry) == entry.start + entry.count - 1

\* The size of a container written to the end.
FullSize(entries) == HEADER_LEN + Len(entries) * (DIR_ENTRY_LEN + PAYLOAD_LEN)

OffsetOf(entries, i) ==
    HEADER_LEN + Len(entries) * DIR_ENTRY_LEN + (i - 1) * PAYLOAD_LEN

\* Mutation: a payload may begin in the file and end outside it.
ParsesOffsets(file) ==
    /\ file.size >= HEADER_LEN
    /\ \A i \in DOMAIN file.entries :
          /\ HEADER_LEN + i * DIR_ENTRY_LEN <= file.size
          /\ OffsetOf(file.entries, i) <= file.size

\* parse_directory returns the entries: the header, every entry and every
\* payload lie within the file.
Parses(file) ==
    /\ file.size >= HEADER_LEN
    /\ \A i \in DOMAIN file.entries :
          /\ HEADER_LEN + i * DIR_ENTRY_LEN <= file.size
          /\ OffsetOf(file.entries, i) + PAYLOAD_LEN <= file.size

\* Mutation: only the first group of a run is compared, with the checkpoint.
ContiguousAtFirst(start, next_expected, resume_height) ==
    next_expected # {} \/ resume_height = 0 \/ start = resume_height + 1

\* Mutation: the group at the resume height is expected once more.
ContiguousFromHeight(start, next_expected, resume_height) ==
    IF next_expected # {} THEN start \in next_expected
    ELSE resume_height = 0 \/ start = resume_height

\* validate_contiguity accepts; next_expected is empty before the first group.
Contiguous(start, next_expected, resume_height) ==
    IF next_expected # {} THEN start \in next_expected
    ELSE resume_height = 0 \/ start = resume_height + 1
=============================================================================
