-------------------------------- MODULE Wire --------------------------------
(***************************************************************************)
(* The wire encoding of src/src/wire.cpp: the batch header and the frame   *)
(* record as sequences of bytes, field by field in little-endian order.    *)
(* The byte is the parameter Radix (256 in the code) and the layout        *)
(* constants are scaled with it; the widths of the fields, their offsets   *)
(* and the order of the decoder's tests are those of the code.             *)
(***************************************************************************)
EXTENDS Integers, Sequences

CONSTANTS
    Radix,         \* values of a byte
    Magic,         \* kMagic
    Version,       \* kVersion
    HeaderSize,    \* kHeaderSize, as written in the header
    RecordSize,    \* kRecordSize, as written in the header
    MaxCount,      \* kMaxCount
    MaxPayload,    \* kMaxPayload, as compared with len
    GapBit, EchoBit, ReservedBit,    \* of flags
    Digits,        \* bytes tried in the count and length of a header
    Numbers        \* values tried for the 64-bit fields of a frame

Byte == 0 .. Radix - 1

\* Radix to the power of i, for fields of up to eight bytes.
Power[i \in 0 .. 8] == IF i = 0 THEN 1 ELSE Radix * Power[i - 1]

U(w) == 0 .. Power[w] - 1

HasBit(flags, bit) == (flags \div bit) % 2 = 1

\* Nothing here wraps around as long as the largest batch fits its length field.
\* The flags are different bits.
ASSUME WireAssumption ==
    /\ Radix \in Nat \ {0, 1} /\ Magic \in [1 .. 4 -> Byte]
    /\ Version \in Byte /\ HeaderSize \in Byte /\ RecordSize \in U(2) \ {0}
    /\ MaxCount \in U(4) /\ MaxCount * RecordSize \in U(4)
    /\ MaxPayload \in Byte /\ {GapBit, EchoBit, ReservedBit} \subseteq Byte \ {0}
    /\ ~HasBit(GapBit, EchoBit) /\ ~HasBit(EchoBit, GapBit)
    /\ ~HasBit(GapBit, ReservedBit) /\ ~HasBit(EchoBit, ReservedBit)
    /\ Numbers \subseteq U(8) /\ Digits \subseteq Byte

----------------------------------------------------------------------------
store_le(v, w) == [i \in 1 .. w |-> (v \div Power[i - 1]) % Radix]

\* The value of the w bytes of s from offset o on.
load_le(s, o, w) ==
    LET acc[i \in 0 .. w] ==
            IF i = 0 THEN 0 ELSE acc[i - 1] + s[o + i] * Power[i - 1]
    IN  acc[w]

----------------------------------------------------------------------------
(* The batch header                                                        *)

\* The product is taken in 32 bits.
PayloadLen(count) == (count * RecordSize) % Power[4]

encode_header(count) ==
    Magic \o store_le(Version, 1) \o store_le(HeaderSize, 1)
          \o store_le(RecordSize, 2) \o store_le(count, 4)
          \o store_le(PayloadLen(count), 4)

\* mutant: any count is believed
CountUnchecked(count) == FALSE

CountTooLarge(count) == count > MaxCount

\* The decoder's tests, in order: a condition that rejects, and the error.
HeaderTests(p) ==
    LET count == load_le(p, 8, 4)
    IN  << <<SubSeq(p, 1, 4) # Magic, "bad_magic">>,
           <<load_le(p, 4, 1) # Version, "unsupported_version">>,
           <<load_le(p, 5, 1) # HeaderSize, "bad_header_len">>,
           <<load_le(p, 6, 2) # RecordSize, "bad_record_len">>,
           <<CountTooLarge(count), "count_too_large">>,
           <<load_le(p, 12, 4) # PayloadLen(count), "inconsistent_length">> >>

\* The error of the first test that rejects.
Verdict(tests) ==
    LET bad == {i \in DOMAIN tests : tests[i][1]}
    IN  IF bad = {} THEN "ok"
        ELSE tests[CHOOSE i \in bad : \A j \in bad : i <= j][2]

decode_header(p) ==
    LET error == Verdict(HeaderTests(p))
    IN  [error |-> error,
         count |-> IF error = "ok" THEN load_le(p, 8, 4) ELSE 0,
         payload_len |-> IF error = "ok" THEN load_le(p, 12, 4) ELSE 0]

----------------------------------------------------------------------------
(* The frame record                                                        *)

GapPayload(n) == store_le(n, 8)

make_gap(first_missing, n, reason, t) ==
    [seq |-> first_missing, t_kernel_ns |-> 0, t_ingest_ns |-> t, can_id |-> 0,
     src_id |-> reason, len |-> MaxPayload, flags |-> GapBit, reserved |-> 0,
     data |-> GapPayload(n)]

make_echo(nonce, t) ==
    [seq |-> nonce, t_kernel_ns |-> 0, t_ingest_ns |-> t, can_id |-> 0,
     src_id |-> 0, len |-> 0, flags |-> EchoBit, reserved |-> 0,
     data |-> store_le(0, 8)]

is_gap(f) == HasBit(f.flags, GapBit)
is_echo(f) == HasBit(f.flags, EchoBit)
gap_count(f) == load_le(f.data, 0, 8)

encode_frame(f) ==
    store_le(f.seq, 8) \o store_le(f.t_kernel_ns, 8) \o store_le(f.t_ingest_ns, 8)
        \o store_le(f.can_id, 4) \o store_le(f.src_id, 1) \o store_le(f.len, 1)
        \o store_le(f.flags, 1) \o store_le(f.reserved, 1) \o f.data

FrameTests(p) ==
    << <<HasBit(load_le(p, 30, 1), ReservedBit), "reserved_flag_set">>,
       <<load_le(p, 29, 1) > MaxPayload, "length_out_of_range">> >>

Fields(p) ==
    [seq |-> load_le(p, 0, 8), t_kernel_ns |-> load_le(p, 8, 8),
     t_ingest_ns |-> load_le(p, 16, 8), can_id |-> load_le(p, 24, 4),
     src_id |-> load_le(p, 28, 1), len |-> load_le(p, 29, 1),
     flags |-> load_le(p, 30, 1), reserved |-> load_le(p, 31, 1),
     data |-> SubSeq(p, 33, 40)]

decode_frame(p) == [error |-> Verdict(FrameTests(p)), frame |-> Fields(p)]

----------------------------------------------------------------------------
(* A header of arbitrary bytes, or the record some frame was encoded to,   *)
(* is handed to the decoder.                                               *)

VARIABLES
    input,    \* "header" or "frame"
    sent,     \* the frame that was encoded
    bytes,
    out       \* what the decoder returned

wireVars == <<input, sent, bytes, out>>

NotYet == [error |-> "none"]

Prefix == SubSeq(encode_header(0), 1, 8)

\* Any count and length over Digits behind the right prefix, and any one byte
\* of the prefix wrong.
TestHeaders ==
    {Prefix \o rest : rest \in [1 .. 8 -> Digits]}
        \cup {[encode_header(c) EXCEPT ![k] = b] :
                 c \in {0, 1, MaxCount}, k \in 1 .. 8, b \in Byte}

Bus ==
    [seq : Numbers, t_kernel_ns : Numbers, t_ingest_ns : Numbers,
     can_id : {Radix, Power[4] - 1}, src_id : {0, Radix - 1}, len : Byte,
     flags : Byte, reserved : {0, 1}, data : {store_le(Power[7] + 2, 8)}]

TestFrames ==
    Bus \cup {make_gap(q, n, 0, t) : q, n, t \in Numbers}
        \cup {make_echo(q, t) : q, t \in Numbers}

HeaderInit ==
    /\ input = "header" /\ sent = make_echo(0, 0) /\ bytes \in TestHeaders
    /\ out = NotYet

FrameInit ==
    /\ input = "frame" /\ sent \in TestFrames /\ bytes = encode_frame(sent)
    /\ out = NotYet

Decode ==
    /\ out = NotYet
    /\ out' = IF input = "header" THEN decode_header(bytes)
                                  ELSE decode_frame(bytes)
    /\ UNCHANGED <<input, sent, bytes>>

WireSpec == (HeaderInit \/ FrameInit) /\ [][Decode]_wireVars

----------------------------------------------------------------------------
(* Properties                                                              *)

\* decode_header accepts exactly what encode_header writes for a count up to
\* kMaxCount, and reads that count back: there is one header per batch size,
\* whatever a corrupted or foreign stream holds.  The 32-bit product never
\* wraps for an accepted count, so read_batch, which buffers payload_len bytes
\* and then decodes count records from them, stays inside its buffer.
HeadersHonest ==
    input = "header" /\ out # NotYet =>
        LET from == {c \in 0 .. MaxCount : encode_header(c) = bytes}
        IN  IF out.error = "ok"
            THEN from = {out.count} /\ out.payload_len = out.count * RecordSize
            ELSE from = {}

\* A record with legal flags and length, and with zero in its reserved byte as
\* every source and maker of frames writes it, decodes to the very frame that
\* was encoded (every field at its own offset, none truncated); illegal flags
\* and lengths are rejected.  Of a legal record whose reserved byte is set,
\* which docs/wire-format.md says to reject and decode_frame accepts, nothing
\* is claimed.  The count of a gap marker survives make_gap, the wire and
\* gap_count, and a marker is never taken for an echo, nor an echo for one.
RecordsSurvive ==
    input = "frame" /\ out # NotYet =>
        /\ LET legal == sent.len <= MaxPayload /\ ~HasBit(sent.flags, ReservedBit)
           IN  /\ legal /\ sent.reserved = 0 =>
                      out = [error |-> "ok", frame |-> sent]
               /\ ~legal => out.error # "ok"
        /\ \A q, n, t \in Numbers :
              /\ sent = make_gap(q, n, 0, t) =>
                    /\ gap_count(out.frame) = n
                    /\ is_gap(out.frame) /\ ~is_echo(out.frame)
              /\ sent = make_echo(q, t) =>
                    is_echo(out.frame) /\ ~is_gap(out.frame)

\* decode_header accepts what encode_header writes and nothing else, and
\* decode_frame returns the frames the gateway encodes as they were.
CodecExact == HeadersHonest /\ RecordsSurvive

=============================================================================
