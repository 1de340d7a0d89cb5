------------------------------- MODULE Framing -------------------------------
(***************************************************************************)
(* The framed protocol over one direction of a TCP connection              *)
(* (include/dependency_fabric/protocol.hpp, src/protocol/framing.cpp): a   *)
(* frame is encoded into a header and a body, write_all sends it piece by  *)
(* piece, read_exact collects the pieces, and read_frame checks the header *)
(* and then the checksum of the body.  Either end can close or die between *)
(* any two pieces, and the stream can be damaged.                          *)
(*                                                                         *)
(* The unit of the stream is a cell: a whole header field or one byte of   *)
(* the body.  A cell remembers the field it was encoded as; only the       *)
(* properties look at that, the reader sees values.                        *)
(***************************************************************************)
EXTENDS Integers, Sequences

CONSTANTS
  Frames,         \* frames offered to write_frame
  kMaxBodyBytes,  \* cap on the length of a body
  DamageValues,   \* values a damaged cell can take
  MaxFrames,      \* bound of the model on the frames written
  MaxDamage       \* bound of the model on the cells damaged

Byte == 0..255
Frame == [type : Nat, body : Seq(Byte)]

ASSUME FrameAssumption ==
  Frames \subseteq Frame /\ kMaxBodyBytes \in Nat /\ DamageValues \subseteq Nat
ASSUME FrameBoundAssumption == MaxFrames \in Nat /\ MaxDamage \in Nat

kMagic == 1145450802
kVersion == 1
kHeader == <<"magic", "version", "type", "length", "checksum">>
kHeaderCells == Len(kHeader)

-----------------------------------------------------------------------------
(* Encoding *)

\* Exclusive or of h with the byte b: the weights of the low bits that differ.
XorLowByte(h, b) ==
  LET differ(w) == IF (h \div w) % 2 = (b \div w) % 2 THEN 0 ELSE w
  IN h - (h % 256) + differ(1) + differ(2) + differ(4) + differ(8)
       + differ(16) + differ(32) + differ(64) + differ(128)

(***************************************************************************)
(* checksum32, an FNV-1a hash.  The model computes the low sixteen bits of *)
(* its running value, which the higher bits do not influence, and leaves   *)
(* out the final fold of the high half onto the low one.                   *)
(***************************************************************************)
fnv_basis == 8997
fnv_step(h, b) == (XorLowByte(h, b) * 435) % 65536

checksum32(body) ==
  LET h[i \in 0..Len(body)] == IF i = 0 THEN fnv_basis ELSE fnv_step(h[i - 1], body[i])
  IN h[Len(body)]

Cell(field, value) == [field |-> field, value |-> value]

encode_frame(f) ==
  <<Cell("magic", kMagic), Cell("version", kVersion), Cell("type", f.type),
    Cell("length", Len(f.body)), Cell("checksum", checksum32(f.body))>>
  \o [i \in DOMAIN f.body |-> Cell("body", f.body[i])]

Values(cells) == [i \in DOMAIN cells |-> cells[i].value]

-----------------------------------------------------------------------------
(* Decoding *)

header_ok(h) == h[1] = kMagic /\ h[2] = kVersion
length_ok(h) == h[4] <= kMaxBodyBytes
checksum_ok(h, body) == checksum32(body) = h[5]

\* decode_frame: exactly one frame in a buffer; <<>> when it is refused.
decode_frame(v) ==
  IF /\ Len(v) >= kHeaderCells
     /\ header_ok(v) /\ length_ok(v)
     /\ Len(v) = kHeaderCells + v[4]
     /\ checksum_ok(v, SubSeq(v, kHeaderCells + 1, Len(v)))
  THEN << [type |-> v[3], body |-> SubSeq(v, kHeaderCells + 1, Len(v))] >>
  ELSE <<>>

-----------------------------------------------------------------------------
VARIABLES
  sent,       \* history: the frames write_frame encoded
  out,        \* the cells write_all has still to send
  wire,       \* the cells sent and not yet received
  got,        \* the cells the current read_exact has collected
  header,     \* <<>> while read_frame reads a header, then its values
  delivered,  \* the frames read_frame returned
  writer,     \* "open", "closed" or "died"
  reader,     \* "open", "failed" or "died"
  damage      \* history: the fields of the cells that were damaged

writeVars == <<sent, out, writer>>
readVars == <<got, header, delivered, reader>>
frameVars == <<writeVars, wire, readVars, damage>>

FrameInit ==
  /\ sent = <<>>
  /\ out = <<>>
  /\ wire = <<>>
  /\ got = <<>>
  /\ header = <<>>
  /\ delivered = <<>>
  /\ writer = "open"
  /\ reader = "open"
  /\ damage = <<>>

-----------------------------------------------------------------------------
(* The writing end.  A frame over the cap is refused before a byte is sent. *)

\* Mutant: the cap is not checked.
write_any_frame(f) ==
  /\ writer = "open"
  /\ out = <<>>
  /\ Len(sent) < MaxFrames
  /\ sent' = Append(sent, f)
  /\ out' = encode_frame(f)
  /\ UNCHANGED <<writer, wire, readVars, damage>>

write_frame(f) ==
  /\ writer = "open"
  /\ out = <<>>
  /\ Len(f.body) <= kMaxBodyBytes
  /\ Len(sent) < MaxFrames
  /\ sent' = Append(sent, f)
  /\ out' = encode_frame(f)
  /\ UNCHANGED <<writer, wire, readVars, damage>>

\* One turn of write_all: the socket takes some of the cells.
write_all_sends ==
  /\ out # <<>>
  /\ \E k \in 1..Len(out) :
       /\ wire' = wire \o SubSeq(out, 1, k)
       /\ out' = SubSeq(out, k + 1, Len(out))
  /\ UNCHANGED <<sent, writer, readVars, damage>>

\* The other end is gone: send fails, write_frame gives up and the caller
\* leaves the connection.
write_all_fails ==
  /\ out # <<>>
  /\ reader # "open"
  /\ out' = <<>>
  /\ writer' = "closed"
  /\ UNCHANGED <<sent, wire, readVars, damage>>

\* close between two frames: what was sent is still delivered.
writer_closes ==
  /\ writer = "open"
  /\ out = <<>>
  /\ writer' = "closed"
  /\ UNCHANGED <<sent, out, wire, readVars, damage>>

\* The process dies, also in the middle of a frame; cells in flight may go.
writer_dies ==
  /\ writer = "open"
  /\ writer' = "died"
  /\ out' = <<>>
  /\ wire' \in {wire, <<>>}
  /\ UNCHANGED <<sent, readVars, damage>>

-----------------------------------------------------------------------------
(* The reading end: read_frame is a read_exact of the header and, unless    *)
(* the length is zero, one of the body.                                     *)

Needed == (IF header = <<>> THEN kHeaderCells ELSE header[4]) - Len(got)

read_exact_receives ==
  /\ reader = "open"
  /\ \E k \in 1..Len(wire) :
       /\ k <= Needed
       /\ got' = got \o SubSeq(wire, 1, k)
       /\ wire' = SubSeq(wire, k + 1, Len(wire))
  /\ UNCHANGED <<writeVars, header, delivered, reader, damage>>

\* recv reports the end of the stream, or fails, before read_exact has all.
read_exact_fails ==
  /\ reader = "open"
  /\ Needed > 0
  /\ wire = <<>>
  /\ writer # "open"
  /\ reader' = "failed"
  /\ UNCHANGED <<writeVars, wire, got, header, delivered, damage>>

\* Mutant: the version is not compared.
checks_magic_only ==
  /\ reader = "open"
  /\ header = <<>> /\ Needed = 0
  /\ IF Values(got)[1] = kMagic /\ length_ok(Values(got))
     THEN header' = Values(got) /\ got' = <<>> /\ UNCHANGED reader
     ELSE reader' = "failed" /\ UNCHANGED <<got, header>>
  /\ UNCHANGED <<writeVars, wire, delivered, damage>>

read_frame_checks_header ==
  /\ reader = "open"
  /\ header = <<>> /\ Needed = 0
  /\ IF header_ok(Values(got)) /\ length_ok(Values(got))
     THEN header' = Values(got) /\ got' = <<>> /\ UNCHANGED reader
     ELSE reader' = "failed" /\ UNCHANGED <<got, header>>
  /\ UNCHANGED <<writeVars, wire, delivered, damage>>

\* Mutant: the checksum is not compared.
returns_unchecked ==
  /\ reader = "open"
  /\ header # <<>> /\ Needed = 0
  /\ delivered' = Append(delivered, [type |-> header[3], body |-> Values(got)])
  /\ header' = <<>> /\ got' = <<>>
  /\ UNCHANGED <<reader, writeVars, wire, damage>>

read_frame_returns ==
  /\ reader = "open"
  /\ header # <<>> /\ Needed = 0
  /\ IF checksum_ok(header, Values(got))
     THEN /\ delivered' = Append(delivered, [type |-> header[3], body |-> Values(got)])
          /\ header' = <<>> /\ got' = <<>>
          /\ UNCHANGED reader
     ELSE reader' = "failed" /\ UNCHANGED <<got, header, delivered>>
  /\ UNCHANGED <<writeVars, wire, damage>>

reader_dies ==
  /\ reader = "open"
  /\ reader' = "died"
  /\ UNCHANGED <<writeVars, wire, got, header, delivered, damage>>

-----------------------------------------------------------------------------
(* The stream *)

stream_damaged ==
  /\ Len(damage) < MaxDamage
  /\ \E i \in DOMAIN wire, v \in DamageValues :
       /\ wire[i].value # v
       /\ wire' = [wire EXCEPT ![i].value = v]
       /\ damage' = Append(damage, wire[i].field)
  /\ UNCHANGED <<writeVars, readVars>>

FrameNext ==
  \/ \E f \in Frames : write_frame(f)
  \/ write_all_sends
  \/ write_all_fails
  \/ writer_closes
  \/ writer_dies
  \/ read_exact_receives
  \/ read_exact_fails
  \/ read_frame_checks_header
  \/ read_frame_returns
  \/ reader_dies
  \/ stream_damaged

(***************************************************************************)
(* The loops of write_all and read_exact run on threads that do not wait   *)
(* for anything else, and TCP moves what was sent.  Nothing forces an end  *)
(* to write, to close or to die, or the stream to be damaged.              *)
(***************************************************************************)
FrameFairness ==
  /\ WF_frameVars(write_all_sends)
  /\ WF_frameVars(write_all_fails)
  /\ WF_frameVars(read_exact_receives)
  /\ WF_frameVars(read_exact_fails)
  /\ WF_frameVars(read_frame_checks_header)
  /\ WF_frameVars(read_frame_returns)

FrameSpec == FrameInit /\ [][FrameNext]_frameVars /\ FrameFairness
-----------------------------------------------------------------------------
(* Properties that hold *)

Bodies(frames) == [i \in DOMAIN frames |-> frames[i].body]

Channel == INSTANCE FrameChannel WITH
  Message <- {f.body : f \in Frames},
  written <- Bodies(sent),
  received <- Bodies(delivered),
  sound <- reader # "died" /\ writer # "died" /\ damage = <<>>

(***************************************************************************)
(* The framing implements the channel: however the bytes are split, joined *)
(* and damaged, read_frame returns the bodies that were written, whole,    *)
(* once and in order; and every frame write_frame accepted is delivered,   *)
(* also when the writer closes right behind it, as long as no end dies and *)
(* the stream is sound.                                                    *)
(***************************************************************************)
ImplementsFrameChannel == Channel!ChannelSpec

(***************************************************************************)
(* What the checksum does not cover: it is computed over the body alone,   *)
(* so the one damage that goes unnoticed is a frame type turned into       *)
(* another; any other damage ends the connection instead of changing what  *)
(* is delivered.                                                           *)
(***************************************************************************)
OnlyTheTypeCanBeForged ==
  \A i \in DOMAIN delivered :
    delivered[i] # sent[i] => \E k \in DOMAIN damage : damage[k] = "type"

(***************************************************************************)
(* The two decoders of the protocol agree: the frame read_frame assembles  *)
(* from the stream is the one decode_frame returns for the same bytes, and *)
(* read_frame refuses no complete buffer that decode_frame accepts.        *)
(***************************************************************************)
DecodersAgree ==
  [][LET buffer == (IF header = <<>> THEN <<>> ELSE header) \o Values(got)
     IN /\ Len(delivered') > Len(delivered) =>
             decode_frame(buffer) = <<delivered'[Len(delivered')]>>
        /\ reader' = "failed" => decode_frame(buffer) = <<>>]_frameVars
=============================================================================
