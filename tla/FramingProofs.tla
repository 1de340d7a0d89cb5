---------------------------- MODULE FramingProofs ----------------------------
(***************************************************************************)
(* What the framing keeps for every set of frames, every cap, any number   *)
(* of partial sends and receives, and any damage: the two decoders agree,  *)
(* and as long as no length and no byte of a body is damaged, the bodies   *)
(* delivered are the bodies written, in order.                             *)
(***************************************************************************)
EXTENDS Framing, Iteration, SequenceTheorems

FieldName == {"magic", "version", "type", "length", "checksum", "body"}
CellRecord == [field : FieldName, value : Nat]
ReadFrame == [type : Nat, body : Seq(Nat)]

LEMMA HeaderCells == kHeaderCells \in Nat /\ {1, 2, 3, 4, 5} \subseteq 1..kHeaderCells
BY DEF kHeaderCells, kHeader

-----------------------------------------------------------------------------
(* Sequences *)

LEMMA Concat ==
  ASSUME NEW S, NEW s \in Seq(S), NEW t \in Seq(S)
  PROVE  /\ s \o t \in Seq(S)
         /\ Len(s) \in Nat /\ Len(t) \in Nat /\ Len(s \o t) = Len(s) + Len(t)
         /\ \A i \in 1..Len(s) : (s \o t)[i] = s[i]
         /\ \A i \in 1..Len(t) : (s \o t)[Len(s) + i] = t[i]
OBVIOUS

\* A sequence split after its first k elements.
LEMMA Split ==
  ASSUME NEW S, NEW s \in Seq(S), NEW k \in 0..Len(s)
  PROVE  /\ SubSeq(s, 1, k) \in Seq(S) /\ SubSeq(s, k + 1, Len(s)) \in Seq(S)
         /\ Len(SubSeq(s, 1, k)) = k /\ Len(SubSeq(s, k + 1, Len(s))) = Len(s) - k
         /\ \A i \in 1..k : SubSeq(s, 1, k)[i] = s[i]
         /\ \A i \in 1..(Len(s) - k) : SubSeq(s, k + 1, Len(s))[i] = s[k + i]
OBVIOUS

\* A function on 1..n is a sequence of length n.
LEMMA Tabulated ==
  ASSUME NEW S, NEW n \in Nat, NEW s \in [1..n -> S]
  PROVE  s \in Seq(S) /\ Len(s) = n
OBVIOUS

\* Sequences of equal length and elements are equal.
LEMMA SameSequence ==
  ASSUME NEW S, NEW s \in Seq(S), NEW t \in Seq(S), Len(s) = Len(t),
         \A i \in 1..Len(s) : s[i] = t[i]
  PROVE  s = t
OBVIOUS

-----------------------------------------------------------------------------
(* Operators *)

LEMMA XorType ==
  ASSUME NEW h \in Nat, NEW b \in Nat
  PROVE  XorLowByte(h, b) \in Nat
<1> DEFINE differ(w) == IF (h \div w) % 2 = (b \div w) % 2 THEN 0 ELSE w
<1>1. \A w \in {1, 2, 4, 8, 16, 32, 64, 128} : differ(w) \in Nat
  OBVIOUS
<1>2. h - (h % 256) \in Nat
  OBVIOUS
<1>3. XorLowByte(h, b) = h - (h % 256) + differ(1) + differ(2) + differ(4) + differ(8)
                           + differ(16) + differ(32) + differ(64) + differ(128)
  BY DEF XorLowByte
<1> HIDE DEF differ
<1> QED BY <1>1, <1>2, <1>3

LEMMA FnvType ==
  ASSUME NEW h \in Nat, NEW b \in Nat
  PROVE  fnv_step(h, b) \in Nat
<1>1. XorLowByte(h, b) \in Nat
  BY XorType
<1> QED BY <1>1, SMT DEF fnv_step

\* checksum32 is a number: its loop has a run.
LEMMA ChecksumType ==
  ASSUME NEW body \in Seq(Nat)
  PROVE  checksum32(body) \in Nat
<1> DEFINE m == Len(body)
           F == [p \in (1..m) \X Nat |-> fnv_step(p[2], body[p[1]])]
           turn(f, i) == IF i = 0 THEN fnv_basis ELSE fnv_step(f[i - 1], body[i])
           h[i \in 0..Len(body)] ==
             IF i = 0 THEN fnv_basis ELSE fnv_step(h[i - 1], body[i])
<1>1. m \in Nat /\ fnv_basis \in Nat /\ \A i \in 1..m : body[i] \in Nat
  <2>1. fnv_basis \in Nat
    BY SMT DEF fnv_basis
  <2> QED BY <2>1
<1>2. F \in LoopStep(m, Nat)
  BY <1>1, FnvType DEF LoopStep
<1>3. PICK f \in [0..m -> Nat] : IsRun(f, m, fnv_basis, F)
  <2> HIDE DEF F, m, turn, h
  <2> QED BY <1>1, <1>2, LoopHasRun
<1>4. f = [i \in 0..m |-> turn(f, i)]
  <2>1. ASSUME NEW i \in 0..m PROVE f[i] = turn(f, i)
    <3>1. CASE i = 0
      BY <3>1, <1>3 DEF IsRun
    <3>2. CASE i # 0
      <4>1. i \in 1..m /\ i - 1 \in 0..m
        BY <3>2, <1>1
      <4>2. f[i] = fnv_step(f[i - 1], body[i])
        BY <4>1, <1>3 DEF IsRun
      <4> QED BY <4>2, <3>2
    <3> QED BY <3>1, <3>2
  <2> HIDE DEF turn
  <2> QED BY <2>1, <1>3
<1>5. h = [i \in 0..Len(body) |-> turn(h, i)]
  BY <1>4, Zenon
<1> HIDE DEF h
<1>6. h[0] = fnv_basis /\ \A i \in 1..m : h[i] = fnv_step(h[i - 1], body[i])
  <2>1. \A i \in 0..m : h[i] = turn(h, i)
    <3> HIDE DEF turn
    <3> QED BY <1>5
  <2> QED BY <2>1, <1>1
<1> DEFINE T == {i \in 0..m : h[i] \in Nat}
<1> HIDE DEF m
<1>8. \A i \in 0..m : i \in T
  <2>1. 0 \in T
    BY <1>1, <1>6
  <2>2. ASSUME NEW i \in 1..m, i - 1 \in T PROVE i \in T
    <3>1. h[i - 1] \in Nat /\ body[i] \in Nat /\ h[i] = fnv_step(h[i - 1], body[i])
      BY <2>2, <1>1, <1>6
    <3>2. h[i] \in Nat
      BY <3>1, FnvType
    <3> QED BY <3>2, <1>1
  <2> HIDE DEF T
  <2> QED BY <1>1, <2>1, <2>2, UpTo
<1>9. checksum32(body) = h[m]
  BY Zenon DEF checksum32, h, m
<1> QED BY <1>1, <1>8, <1>9

\* A frame is the header cells and one cell per byte.
LEMMA Encoded ==
  ASSUME NEW f \in Frame
  PROVE  /\ encode_frame(f) \in Seq(CellRecord) /\ f.body \in Seq(Nat)
         /\ Len(f.body) \in Nat /\ Len(encode_frame(f)) = kHeaderCells + Len(f.body)
         /\ encode_frame(f)[1] = Cell("magic", kMagic)
         /\ encode_frame(f)[2] = Cell("version", kVersion)
         /\ encode_frame(f)[3] = Cell("type", f.type)
         /\ encode_frame(f)[4] = Cell("length", Len(f.body))
         /\ encode_frame(f)[5] = Cell("checksum", checksum32(f.body))
         /\ \A j \in 1..Len(f.body) : encode_frame(f)[kHeaderCells + j] = Cell("body", f.body[j])
<1> DEFINE front == <<Cell("magic", kMagic), Cell("version", kVersion), Cell("type", f.type),
                      Cell("length", Len(f.body)), Cell("checksum", checksum32(f.body))>>
           bytes == [i \in DOMAIN f.body |-> Cell("body", f.body[i])]
           n == Len(f.body)
<1>1. f.body \in Seq(Byte) /\ f.type \in Nat
  BY DEF Frame
<1>2. n \in Nat /\ DOMAIN f.body = 1..n /\ \A i \in 1..n : f.body[i] \in Byte
  BY <1>1
<1>3. \A i \in 1..n : f.body[i] \in Nat
  <2>1. \A b \in Byte : b \in Nat
    BY DEF Byte
  <2> HIDE DEF n
  <2> QED BY <1>2, <2>1
<1>4. checksum32(f.body) \in Nat /\ f.body \in Seq(Nat)
  <2>1. f.body = [i \in 1..n |-> f.body[i]]
    BY <1>1
  <2>2. f.body \in Seq(Nat)
    <3> HIDE DEF n
    <3> QED BY <1>2, <1>3, <2>1, Tabulated
  <2> QED BY <2>2, ChecksumType
<1>6. front \in Seq(CellRecord) /\ Len(front) = kHeaderCells
  <2>1. kMagic \in Nat /\ kVersion \in Nat
    BY SMT DEF kMagic, kVersion
  <2>2. /\ Cell("magic", kMagic) \in CellRecord /\ Cell("version", kVersion) \in CellRecord
        /\ Cell("type", f.type) \in CellRecord /\ Cell("length", Len(f.body)) \in CellRecord
        /\ Cell("checksum", checksum32(f.body)) \in CellRecord
    BY <1>1, <1>2, <1>4, <2>1 DEF Cell, CellRecord, FieldName
  <2>3. Len(front) = kHeaderCells
    BY DEF kHeaderCells, kHeader
  <2> QED BY <2>2, <2>3
<1>7. bytes \in Seq(CellRecord) /\ Len(bytes) = n
  <2>1. \A i \in 1..n : Cell("body", f.body[i]) \in CellRecord
    <3> HIDE DEF n
    <3> QED BY <1>3 DEF Cell, CellRecord, FieldName
  <2>2. bytes \in [1..n -> CellRecord]
    BY <1>2, <2>1
  <2> HIDE DEF bytes, n
  <2> QED BY <2>2, <1>2, Tabulated
<1>8. encode_frame(f) = front \o bytes
  BY DEF encode_frame
<1>9. /\ front \o bytes \in Seq(CellRecord)
      /\ Len(front \o bytes) = Len(front) + n
      /\ \A j \in 1..Len(front) : (front \o bytes)[j] = front[j]
      /\ \A j \in 1..n : (front \o bytes)[Len(front) + j] = bytes[j]
  <2>1. front \in Seq(CellRecord) /\ bytes \in Seq(CellRecord) /\ Len(bytes) = n
    BY <1>6, <1>7
  <2> HIDE DEF front, bytes, n
  <2>2. /\ front \o bytes \in Seq(CellRecord)
        /\ Len(front \o bytes) = Len(front) + Len(bytes)
        /\ \A j \in 1..Len(front) : (front \o bytes)[j] = front[j]
        /\ \A j \in 1..Len(bytes) : (front \o bytes)[Len(front) + j] = bytes[j]
    BY <2>1
  <2> QED BY <2>1, <2>2
<1>10. \A j \in 1..n : bytes[j] = Cell("body", f.body[j])
  BY <1>2
<1>11. /\ front[1] = Cell("magic", kMagic) /\ front[2] = Cell("version", kVersion)
       /\ front[3] = Cell("type", f.type) /\ front[4] = Cell("length", Len(f.body))
       /\ front[5] = Cell("checksum", checksum32(f.body))
  OBVIOUS
<1>12. {1, 2, 3, 4, 5} \subseteq 1..kHeaderCells
  BY HeaderCells
<1> HIDE DEF front, bytes
<1>13. \A j \in {1, 2, 3, 4, 5} : encode_frame(f)[j] = front[j]
  BY <1>6, <1>8, <1>9, <1>12
<1>14. \A j \in 1..n : encode_frame(f)[kHeaderCells + j] = Cell("body", f.body[j])
  BY <1>6, <1>8, <1>9, <1>10
<1>15. encode_frame(f) \in Seq(CellRecord) /\ Len(encode_frame(f)) = kHeaderCells + n
  BY <1>6, <1>8, <1>9
<1> QED BY <1>2, <1>4, <1>11, <1>13, <1>14, <1>15

\* The values of cells are a sequence of numbers.
LEMMA ValuesType ==
  ASSUME NEW cells \in Seq(CellRecord)
  PROVE  /\ Values(cells) \in Seq(Nat) /\ Len(cells) \in Nat
         /\ Len(Values(cells)) = Len(cells)
         /\ \A i \in 1..Len(cells) : Values(cells)[i] = cells[i].value
<1> DEFINE n == Len(cells)
<1>1. n \in Nat /\ DOMAIN cells = 1..n /\ \A i \in 1..n : cells[i] \in CellRecord
  OBVIOUS
<1>2. \A c \in CellRecord : c.value \in Nat
  BY DEF CellRecord
<1>3. Values(cells) = [i \in 1..n |-> cells[i].value]
  BY <1>1 DEF Values
<1> HIDE DEF n
<1>4. Values(cells) \in [1..n -> Nat]
  BY <1>1, <1>2, <1>3
<1>5. Values(cells) \in Seq(Nat) /\ Len(Values(cells)) = n
  BY <1>1, <1>4, Tabulated
<1> QED BY <1>1, <1>3, <1>5 DEF n

\* A header and a body in one buffer.
LEMMA Joined ==
  ASSUME NEW h \in Seq(Nat), NEW v \in Seq(Nat)
  PROVE  /\ h \o v \in Seq(Nat) /\ Len(v) \in Nat /\ Len(h) \in Nat
         /\ Len(h \o v) = Len(h) + Len(v)
         /\ \A j \in 1..Len(h) : (h \o v)[j] = h[j] /\ h[j] \in Nat
         /\ SubSeq(h \o v, Len(h) + 1, Len(h \o v)) = v
<1> DEFINE b == h \o v
           rest == SubSeq(b, Len(h) + 1, Len(b))
<1>1. /\ b \in Seq(Nat) /\ Len(v) \in Nat /\ Len(h) \in Nat /\ Len(b) = Len(h) + Len(v)
      /\ \A j \in 1..Len(h) : b[j] = h[j] /\ h[j] \in Nat
      /\ \A j \in 1..Len(v) : b[Len(h) + j] = v[j]
  OBVIOUS
<1> HIDE DEF b
<1>2. /\ rest \in Seq(Nat) /\ Len(rest) = Len(v)
      /\ \A j \in 1..Len(v) : rest[j] = b[Len(h) + j]
  <2> DEFINE k == Len(h)
             m == Len(v)
  <2>1. k \in 0..Len(b) /\ Len(b) - k = m /\ b \in Seq(Nat)
    <3>1. Len(b) = k + m /\ k \in Nat /\ m \in Nat /\ b \in Seq(Nat)
      BY <1>1
    <3> HIDE DEF k, m
    <3> QED BY <3>1
  <2> HIDE DEF k, m
  <2>2. /\ SubSeq(b, k + 1, Len(b)) \in Seq(Nat)
        /\ Len(SubSeq(b, k + 1, Len(b))) = Len(b) - k
        /\ \A j \in 1..(Len(b) - k) : SubSeq(b, k + 1, Len(b))[j] = b[k + j]
    BY <2>1, Split
  <2> QED BY <2>1, <2>2, Zenon DEF k, m
<1> HIDE DEF rest
<1>3. rest = v
  BY <1>1, <1>2, SameSequence
<1> QED BY <1>1, <1>3 DEF b, rest

\* decode_frame of a header and a body.
LEMMA DecodeJoined ==
  ASSUME NEW h \in Seq(Nat), NEW v \in Seq(Nat), Len(h) = kHeaderCells
  PROVE  decode_frame(h \o v) =
           IF /\ header_ok(h) /\ length_ok(h) /\ Len(v) = h[4] /\ checksum_ok(h, v)
           THEN << [type |-> h[3], body |-> v] >> ELSE <<>>
<1> DEFINE b == h \o v
           lb == Len(b)
           lv == Len(v)
<1>0. kHeaderCells \in Nat /\ {1, 2, 3, 4, 5} \subseteq 1..kHeaderCells
  BY HeaderCells, Zenon
<1>1. /\ b \in Seq(Nat) /\ lv \in Nat /\ Len(h) \in Nat
      /\ lb = Len(h) + lv
      /\ \A j \in 1..Len(h) : b[j] = h[j] /\ h[j] \in Nat
      /\ SubSeq(b, Len(h) + 1, Len(b)) = v
  BY Joined, Zenon
<1>2. /\ lb = kHeaderCells + lv
      /\ \A j \in 1..kHeaderCells : b[j] = h[j] /\ h[j] \in Nat
      /\ SubSeq(b, kHeaderCells + 1, Len(b)) = v
  BY <1>1, Zenon
<1> HIDE DEF b, lb, lv
<1>3. /\ b[1] = h[1] /\ b[2] = h[2] /\ b[3] = h[3] /\ b[4] = h[4] /\ b[5] = h[5]
      /\ h[4] \in Nat
  BY <1>0, <1>2, Zenon
<1>4. /\ header_ok(b) <=> header_ok(h)
      /\ length_ok(b) <=> length_ok(h)
      /\ checksum_ok(b, v) <=> checksum_ok(h, v)
  BY <1>3, SMT DEF header_ok, length_ok, checksum_ok
<1>5. lb >= kHeaderCells /\ (lb = kHeaderCells + b[4] <=> lv = h[4])
  <2> DEFINE c == kHeaderCells
             m == h[4]
  <2>1. c \in Nat /\ m \in Nat /\ lv \in Nat /\ lb = c + lv /\ b[4] = m
    BY <1>0, <1>1, <1>2, <1>3, Zenon
  <2> HIDE DEF c, m
  <2>2. lb >= c /\ (lb = c + m <=> lv = m)
    BY <2>1
  <2> QED BY <2>1, <2>2, Zenon DEF c, m
<1>6. decode_frame(b) =
        IF /\ lb >= kHeaderCells
           /\ header_ok(b) /\ length_ok(b)
           /\ lb = kHeaderCells + b[4]
           /\ checksum_ok(b, v)
        THEN << [type |-> b[3], body |-> v] >> ELSE <<>>
  BY <1>2, Zenon DEF decode_frame, lb
<1>7. decode_frame(b) =
           IF /\ header_ok(h) /\ length_ok(h) /\ lv = h[4] /\ checksum_ok(h, v)
           THEN << [type |-> h[3], body |-> v] >> ELSE <<>>
  BY <1>3, <1>4, <1>5, <1>6, Zenon
<1> QED BY <1>7, Zenon DEF b, lv

\* decode_frame refuses a buffer that is short, or whose header is refused.
LEMMA DecodeRefuses ==
  ASSUME NEW v, ~(Len(v) >= kHeaderCells) \/ ~header_ok(v) \/ ~length_ok(v)
  PROVE  decode_frame(v) = <<>>
BY Zenon DEF decode_frame

-----------------------------------------------------------------------------
(* Types *)

StreamTypes ==
  /\ sent \in Seq(Frame) /\ delivered \in Seq(ReadFrame) /\ damage \in Seq(FieldName)
  /\ out \in Seq(CellRecord) /\ wire \in Seq(CellRecord) /\ got \in Seq(CellRecord)
  /\ header \in Seq(Nat)

\* The header read_frame works with was accepted.
HeaderAccepted ==
  header # <<>> => Len(header) = kHeaderCells /\ header_ok(header) /\ length_ok(header)

\* The cells the current read_exact waits for.
Wanted == IF header = <<>> THEN kHeaderCells ELSE header[4]

FrameTypes == StreamTypes /\ HeaderAccepted /\ Len(got) <= Wanted

LEMMA EmptySequence ==
  ASSUME NEW S
  PROVE  /\ <<>> \in Seq(S) /\ Len(<<>>) = 0
         /\ \A s \in Seq(S) : (Len(s) = 0 <=> s = <<>>) /\ <<>> \o s = s
OBVIOUS

\* A header that was accepted has its five fields.
LEMMA HeaderFields ==
  ASSUME NEW h \in Seq(Nat), Len(h) = kHeaderCells
  PROVE  h[3] \in Nat /\ h[4] \in Nat
<1>1. \A j \in 1..Len(h) : h[j] \in Nat
  OBVIOUS
<1>2. kHeaderCells \in Nat /\ {1, 2, 3, 4, 5} \subseteq 1..kHeaderCells
  BY HeaderCells, Zenon
<1> QED BY <1>1, <1>2, Zenon

LEMMA WantedType ==
  ASSUME FrameTypes
  PROVE  Wanted \in Nat /\ Len(got) \in Nat /\ Needed = Wanted - Len(got)
<1>1. Len(got) \in Nat
  BY DEF FrameTypes, StreamTypes
<1>2. kHeaderCells \in Nat
  BY HeaderCells, Zenon
<1>3. header # <<>> => header[4] \in Nat
  BY HeaderFields, Zenon DEF FrameTypes, StreamTypes, HeaderAccepted
<1>4. Wanted \in Nat
  BY <1>2, <1>3, Zenon DEF Wanted
<1>5. Needed = Wanted - Len(got)
  BY Zenon DEF Needed, Wanted
<1> QED BY <1>1, <1>4, <1>5

LEMMA TypesInit == FrameInit => FrameTypes
<1> SUFFICES ASSUME FrameInit PROVE FrameTypes
  OBVIOUS
<1>1. StreamTypes
  BY DEF FrameInit, StreamTypes
<1>2. HeaderAccepted
  BY DEF FrameInit, HeaderAccepted
<1>3. Len(got) = 0 /\ Wanted = kHeaderCells
  BY DEF FrameInit, Wanted
<1>4. kHeaderCells \in Nat
  BY HeaderCells, Zenon
<1>5. Len(got) <= Wanted
  BY <1>3, <1>4
<1> QED BY <1>1, <1>2, <1>5 DEF FrameTypes

LEMMA TypesNext == FrameTypes /\ [FrameNext]_frameVars => FrameTypes'
<1> SUFFICES ASSUME FrameTypes, [FrameNext]_frameVars PROVE FrameTypes'
  OBVIOUS
<1>1. StreamTypes /\ HeaderAccepted /\ Len(got) <= Wanted
  BY DEF FrameTypes
<1>2. Wanted \in Nat /\ Len(got) \in Nat /\ Needed = Wanted - Len(got)
  BY WantedType
<1>3. ASSUME UNCHANGED <<got, header>>, StreamTypes' PROVE FrameTypes'
  BY <1>1, <1>3 DEF FrameTypes, HeaderAccepted, Wanted
<1>4. ASSUME NEW f \in Frames, write_frame(f) PROVE FrameTypes'
  <2>1. f \in Frame
    BY FrameAssumption
  <2>2. encode_frame(f) \in Seq(CellRecord)
    BY <2>1, Encoded
  <2>3. sent' \in Seq(Frame)
    BY <1>1, <1>4, <2>1 DEF StreamTypes, write_frame
  <2>4. StreamTypes' /\ UNCHANGED <<got, header>>
    BY <1>1, <1>4, <2>2, <2>3 DEF StreamTypes, write_frame, readVars
  <2> QED BY <1>3, <2>4
<1>5. CASE write_all_sends
  <2>1. PICK k \in 1..Len(out) : /\ wire' = wire \o SubSeq(out, 1, k)
                                 /\ out' = SubSeq(out, k + 1, Len(out))
    BY <1>5 DEF write_all_sends
  <2>2. out \in Seq(CellRecord) /\ wire \in Seq(CellRecord) /\ k \in 0..Len(out)
    BY <1>1 DEF StreamTypes
  <2>3. SubSeq(out, 1, k) \in Seq(CellRecord) /\ SubSeq(out, k + 1, Len(out)) \in Seq(CellRecord)
    BY <2>2, Split
  <2>4. wire' \in Seq(CellRecord) /\ out' \in Seq(CellRecord)
    BY <2>1, <2>2, <2>3
  <2>5. StreamTypes' /\ UNCHANGED <<got, header>>
    BY <1>1, <1>5, <2>4 DEF StreamTypes, write_all_sends, readVars
  <2> QED BY <1>3, <2>5
<1>6. CASE write_all_fails
  <2>1. StreamTypes' /\ UNCHANGED <<got, header>>
    BY <1>1, <1>6 DEF StreamTypes, write_all_fails, readVars
  <2> QED BY <1>3, <2>1
<1>7. CASE writer_closes
  <2>1. StreamTypes' /\ UNCHANGED <<got, header>>
    BY <1>1, <1>7 DEF StreamTypes, writer_closes, readVars
  <2> QED BY <1>3, <2>1
<1>8. CASE writer_dies
  <2>1. wire' \in Seq(CellRecord)
    <3>1. (wire' = wire \/ wire' = <<>>) /\ wire \in Seq(CellRecord)
      BY <1>1, <1>8, Zenon DEF StreamTypes, writer_dies
    <3>2. <<>> \in Seq(CellRecord)
      OBVIOUS
    <3> QED BY <3>1, <3>2, Zenon
  <2>2. StreamTypes' /\ UNCHANGED <<got, header>>
    BY <1>1, <1>8, <2>1 DEF StreamTypes, writer_dies, readVars
  <2> QED BY <1>3, <2>2
<1>9. CASE read_exact_receives
  <2>1. PICK k \in 1..Len(wire) : /\ k <= Needed
                                  /\ got' = got \o SubSeq(wire, 1, k)
                                  /\ wire' = SubSeq(wire, k + 1, Len(wire))
    BY <1>9 DEF read_exact_receives
  <2>2. got \in Seq(CellRecord) /\ wire \in Seq(CellRecord) /\ k \in 0..Len(wire)
    BY <1>1 DEF StreamTypes
  <2>3. /\ SubSeq(wire, 1, k) \in Seq(CellRecord)
        /\ SubSeq(wire, k + 1, Len(wire)) \in Seq(CellRecord)
        /\ Len(SubSeq(wire, 1, k)) = k
    BY <2>2, Split
  <2>4. wire' \in Seq(CellRecord) /\ got' \in Seq(CellRecord) /\ Len(got') = Len(got) + k
    BY <2>1, <2>2, <2>3
  <2>5. StreamTypes' /\ UNCHANGED header
    BY <1>1, <1>9, <2>4 DEF StreamTypes, read_exact_receives, writeVars
  <2>6. HeaderAccepted' /\ Wanted' = Wanted
    BY <1>1, <2>5, Zenon DEF HeaderAccepted, Wanted
  <2>7. Len(got') <= Wanted
    BY <1>2, <2>1, <2>2, <2>4
  <2> QED BY <2>5, <2>6, <2>7 DEF FrameTypes
<1>10. CASE read_exact_fails
  <2>1. StreamTypes' /\ UNCHANGED <<got, header>>
    BY <1>1, <1>10 DEF StreamTypes, read_exact_fails, writeVars
  <2> QED BY <1>3, <2>1
<1>11. CASE read_frame_checks_header
  <2>1. CASE header_ok(Values(got)) /\ length_ok(Values(got))
    <3>1. /\ header' = Values(got) /\ got' = <<>>
          /\ UNCHANGED <<sent, delivered, damage, out, wire>>
      BY <1>11, <2>1, Zenon DEF read_frame_checks_header, writeVars
    <3>2. Values(got) \in Seq(Nat) /\ Len(Values(got)) = Len(got)
      BY <1>1, ValuesType DEF StreamTypes
    <3>3. StreamTypes'
      BY <1>1, <3>1, <3>2 DEF StreamTypes
    <3>4. Len(got) = kHeaderCells
      <4>1. header = <<>> /\ Needed = 0
        BY <1>11, Zenon DEF read_frame_checks_header
      <4>2. Wanted = kHeaderCells
        BY <4>1, Zenon DEF Wanted
      <4>3. Wanted = Len(got)
        BY <1>2, <4>1
      <4> QED BY <4>2, <4>3
    <3>5. HeaderAccepted'
      BY <2>1, <3>1, <3>2, <3>4, Zenon DEF HeaderAccepted
    <3>6. Len(got') <= Wanted'
      <4>1. Len(header') = kHeaderCells /\ header' \in Seq(Nat)
        BY <3>1, <3>2, <3>4
      <4>2. header'[4] \in Nat
        BY <4>1, HeaderFields, Zenon
      <4>3. Wanted' \in Nat
        BY <4>2, HeaderCells, Zenon DEF Wanted
      <4>4. Len(got') = 0
        BY <3>1
      <4> QED BY <4>3, <4>4
    <3> QED BY <3>3, <3>5, <3>6 DEF FrameTypes
  <2>2. CASE ~(header_ok(Values(got)) /\ length_ok(Values(got)))
    <3>1. UNCHANGED <<got, header, sent, delivered, damage, out, wire>>
      BY <1>11, <2>2, Zenon DEF read_frame_checks_header, writeVars
    <3>2. StreamTypes'
      BY <1>1, <3>1 DEF StreamTypes
    <3> QED BY <1>3, <3>1, <3>2
  <2> QED BY <2>1, <2>2
<1>12. CASE read_frame_returns
  <2>1. CASE checksum_ok(header, Values(got))
    <3>1. /\ delivered' = Append(delivered, [type |-> header[3], body |-> Values(got)])
          /\ header' = <<>> /\ got' = <<>> /\ header # <<>>
          /\ UNCHANGED <<sent, damage, out, wire>>
      BY <1>12, <2>1, Zenon DEF read_frame_returns, writeVars
    <3>2. Values(got) \in Seq(Nat)
      BY <1>1, ValuesType DEF StreamTypes
    <3>3. header[3] \in Nat
      BY <1>1, <3>1, HeaderFields, Zenon DEF StreamTypes, HeaderAccepted
    <3>4. [type |-> header[3], body |-> Values(got)] \in ReadFrame
      BY <3>2, <3>3 DEF ReadFrame
    <3>5. delivered' \in Seq(ReadFrame)
      BY <1>1, <3>1, <3>4 DEF StreamTypes
    <3>6. StreamTypes'
      BY <1>1, <3>1, <3>5 DEF StreamTypes
    <3>7. HeaderAccepted' /\ Wanted' = kHeaderCells /\ Len(got') = 0
      BY <3>1 DEF HeaderAccepted, Wanted
    <3>8. kHeaderCells \in Nat
      BY HeaderCells, Zenon
    <3>9. Len(got') <= Wanted'
      BY <3>7, <3>8
    <3> QED BY <3>6, <3>7, <3>9 DEF FrameTypes
  <2>2. CASE ~checksum_ok(header, Values(got))
    <3>1. UNCHANGED <<got, header, sent, delivered, damage, out, wire>>
      BY <1>12, <2>2, Zenon DEF read_frame_returns, writeVars
    <3>2. StreamTypes'
      BY <1>1, <3>1 DEF StreamTypes
    <3> QED BY <1>3, <3>1, <3>2
  <2> QED BY <2>1, <2>2
<1>13. CASE reader_dies
  <2>1. StreamTypes' /\ UNCHANGED <<got, header>>
    BY <1>1, <1>13 DEF StreamTypes, reader_dies, writeVars
  <2> QED BY <1>3, <2>1
<1>14. CASE stream_damaged
  <2>1. PICK i \in DOMAIN wire, v \in DamageValues :
          wire' = [wire EXCEPT ![i].value = v] /\ damage' = Append(damage, wire[i].field)
    BY <1>14 DEF stream_damaged
  <2>2. v \in Nat /\ wire \in Seq(CellRecord) /\ damage \in Seq(FieldName)
    BY <1>1, FrameAssumption DEF StreamTypes
  <2>3. wire[i] \in CellRecord
    BY <2>2
  <2>4. wire[i].field \in FieldName /\ [wire[i] EXCEPT !.value = v] \in CellRecord
    BY <2>2, <2>3 DEF CellRecord
  <2>5. damage' \in Seq(FieldName)
    BY <2>1, <2>2, <2>4
  <2>6. wire' \in Seq(CellRecord)
    <3>1. wire' = [wire EXCEPT ![i] = [wire[i] EXCEPT !.value = v]]
      BY <2>1
    <3> QED BY <2>2, <2>4, <3>1
  <2>7. StreamTypes' /\ UNCHANGED <<got, header>>
    BY <1>1, <1>14, <2>5, <2>6 DEF StreamTypes, stream_damaged, writeVars, readVars
  <2> QED BY <1>3, <2>7
<1>15. CASE UNCHANGED frameVars
  <2>1. StreamTypes' /\ UNCHANGED <<got, header>>
    BY <1>1, <1>15 DEF StreamTypes, frameVars, writeVars, readVars
  <2> QED BY <1>3, <2>1
<1> QED
  BY <1>4, <1>5, <1>6, <1>7, <1>8, <1>9, <1>10, <1>11, <1>12, <1>13, <1>14, <1>15
  DEF FrameNext

-----------------------------------------------------------------------------
(* The two decoders *)

Buffer == (IF header = <<>> THEN <<>> ELSE header) \o Values(got)

\* What read_frame gave up on, decode_frame refuses.
Refused == reader = "failed" => decode_frame(Buffer) = <<>>

LEMMA BufferIs ==
  ASSUME FrameTypes
  PROVE  /\ Values(got) \in Seq(Nat) /\ Len(Values(got)) = Len(got)
         /\ header = <<>> => Buffer = Values(got)
         /\ header # <<>> =>
              /\ header \in Seq(Nat) /\ Len(header) = kHeaderCells
              /\ Buffer = header \o Values(got)
              /\ header_ok(header) /\ length_ok(header)
<1>1. Values(got) \in Seq(Nat) /\ Len(Values(got)) = Len(got)
  BY ValuesType DEF FrameTypes, StreamTypes
<1>2. <<>> \o Values(got) = Values(got)
  BY <1>1
<1> QED BY <1>1, <1>2, Zenon DEF FrameTypes, StreamTypes, HeaderAccepted, Buffer

\* read_exact stops short: the buffer is not a whole frame.
LEMMA ShortRefused ==
  ASSUME FrameTypes, Needed > 0
  PROVE  decode_frame(Buffer) = <<>>
<1>1. Wanted \in Nat /\ Len(got) \in Nat /\ Needed = Wanted - Len(got)
  BY WantedType
<1>2. Len(got) # Wanted /\ ~(Len(got) >= Wanted)
  BY <1>1
<1>3. CASE header = <<>>
  <2>1. Buffer = Values(got) /\ Len(Values(got)) = Len(got) /\ Wanted = kHeaderCells
    BY <1>3, BufferIs, Zenon DEF Wanted
  <2>2. ~(Len(Buffer) >= kHeaderCells)
    BY <1>2, <2>1, Zenon
  <2> QED BY <2>2, DecodeRefuses, Zenon
<1>4. CASE header # <<>>
  <2>1. /\ header \in Seq(Nat) /\ Len(header) = kHeaderCells /\ Values(got) \in Seq(Nat)
        /\ Buffer = header \o Values(got) /\ Len(Values(got)) = Len(got) /\ Wanted = header[4]
    BY <1>4, BufferIs, Zenon DEF Wanted
  <2>2. Len(Values(got)) # header[4]
    BY <1>2, <2>1, Zenon
  <2> QED BY <2>1, <2>2, DecodeJoined, Zenon
<1> QED BY <1>3, <1>4

\* read_frame refuses the header, and so does decode_frame.
LEMMA HeaderRefused ==
  ASSUME FrameTypes, header = <<>>, ~(header_ok(Values(got)) /\ length_ok(Values(got)))
  PROVE  decode_frame(Buffer) = <<>>
<1>1. Buffer = Values(got)
  BY BufferIs, Zenon
<1> QED BY <1>1, DecodeRefuses, Zenon

\* The whole body is there: both compare the checksum.
LEMMA WholeDecoded ==
  ASSUME FrameTypes, header # <<>>, Needed = 0
  PROVE  decode_frame(Buffer) =
           IF checksum_ok(header, Values(got))
           THEN << [type |-> header[3], body |-> Values(got)] >> ELSE <<>>
<1>1. Wanted \in Nat /\ Len(got) \in Nat /\ Needed = Wanted - Len(got)
  BY WantedType
<1>2. Len(got) = Wanted
  BY <1>1
<1>3. /\ header \in Seq(Nat) /\ Len(header) = kHeaderCells /\ Values(got) \in Seq(Nat)
      /\ Buffer = header \o Values(got) /\ Len(Values(got)) = Len(got) /\ Wanted = header[4]
      /\ header_ok(header) /\ length_ok(header)
  BY BufferIs, Zenon DEF Wanted
<1>4. Len(Values(got)) = header[4]
  BY <1>2, <1>3, Zenon
<1>5. decode_frame(header \o Values(got)) =
        IF /\ header_ok(header) /\ length_ok(header) /\ Len(Values(got)) = header[4]
           /\ checksum_ok(header, Values(got))
        THEN << [type |-> header[3], body |-> Values(got)] >> ELSE <<>>
  BY <1>3, DecodeJoined, Zenon
<1> QED BY <1>3, <1>4, <1>5, Zenon

\* One step: what it delivers or gives up on, decode_frame says the same.
DecodersStep ==
  /\ Len(delivered') > Len(delivered) =>
       decode_frame(Buffer) = <<delivered'[Len(delivered')]>>
  /\ reader' = "failed" => decode_frame(Buffer) = <<>>

LEMMA DecodersNext ==
  FrameTypes /\ Refused /\ [FrameNext]_frameVars => DecodersStep /\ Refused'
<1> SUFFICES ASSUME FrameTypes, Refused, [FrameNext]_frameVars
             PROVE  DecodersStep /\ Refused'
  OBVIOUS
<1>0. delivered \in Seq(ReadFrame) /\ Len(delivered) \in Nat
  BY DEF FrameTypes, StreamTypes
<1>1. ASSUME UNCHANGED <<got, header, delivered>>, reader' = "failed" => decode_frame(Buffer) = <<>>
      PROVE  DecodersStep /\ Refused'
  <2>1. Buffer' = Buffer
    BY <1>1, Zenon DEF Buffer, Values
  <2>2. ~(Len(delivered') > Len(delivered))
    BY <1>0, <1>1
  <2> QED BY <1>1, <2>1, <2>2, Zenon DEF DecodersStep, Refused
<1>2. ASSUME UNCHANGED <<got, header, delivered, reader>> PROVE DecodersStep /\ Refused'
  <2>1. reader' = "failed" => decode_frame(Buffer) = <<>>
    BY <1>2, Zenon DEF Refused
  <2> QED BY <1>1, <1>2, <2>1, Zenon
<1>3. ASSUME NEW f \in Frames, write_frame(f) PROVE DecodersStep /\ Refused'
  BY <1>2, <1>3, Zenon DEF write_frame, readVars
<1>4. CASE write_all_sends
  BY <1>2, <1>4, Zenon DEF write_all_sends, readVars
<1>5. CASE write_all_fails
  BY <1>2, <1>5, Zenon DEF write_all_fails, readVars
<1>6. CASE writer_closes
  BY <1>2, <1>6, Zenon DEF writer_closes, readVars
<1>7. CASE writer_dies
  BY <1>2, <1>7, Zenon DEF writer_dies, readVars
<1>8. ASSUME reader' # "failed", UNCHANGED delivered PROVE DecodersStep /\ Refused'
  <2>1. ~(Len(delivered') > Len(delivered))
    BY <1>0, <1>8
  <2> QED BY <1>8, <2>1, Zenon DEF DecodersStep, Refused
<1>9. CASE read_exact_receives
  <2>1. reader' = "open" /\ UNCHANGED delivered
    BY <1>9, Zenon DEF read_exact_receives
  <2>2. reader' # "failed"
    BY <2>1
  <2> QED BY <1>8, <2>1, <2>2, Zenon
<1>10. CASE read_exact_fails
  <2>1. Needed > 0 /\ UNCHANGED <<got, header, delivered>>
    BY <1>10, Zenon DEF read_exact_fails
  <2>2. decode_frame(Buffer) = <<>>
    BY <2>1, ShortRefused
  <2> QED BY <1>1, <2>1, <2>2, Zenon
<1>11. CASE read_frame_checks_header
  <2>1. CASE header_ok(Values(got)) /\ length_ok(Values(got))
    <3>1. reader' = "open" /\ UNCHANGED delivered
      BY <1>11, <2>1, Zenon DEF read_frame_checks_header
    <3>2. reader' # "failed"
      BY <3>1
    <3> QED BY <1>8, <3>1, <3>2, Zenon
  <2>2. CASE ~(header_ok(Values(got)) /\ length_ok(Values(got)))
    <3>1. header = <<>> /\ UNCHANGED <<got, header, delivered>>
      BY <1>11, <2>2, Zenon DEF read_frame_checks_header
    <3>2. decode_frame(Buffer) = <<>>
      BY <2>2, <3>1, HeaderRefused, Zenon
    <3> QED BY <1>1, <3>1, <3>2, Zenon
  <2> QED BY <2>1, <2>2, Zenon
<1>12. CASE read_frame_returns
  <2>0. decode_frame(Buffer) =
          IF checksum_ok(header, Values(got))
          THEN << [type |-> header[3], body |-> Values(got)] >> ELSE <<>>
    <3>1. header # <<>> /\ Needed = 0
      BY <1>12, Zenon DEF read_frame_returns
    <3> QED BY <3>1, WholeDecoded, Zenon
  <2>1. CASE checksum_ok(header, Values(got))
    <3> DEFINE r == [type |-> header[3], body |-> Values(got)]
    <3>1. delivered' = Append(delivered, r) /\ reader' = "open"
      BY <1>12, <2>1, Zenon DEF read_frame_returns
    <3>2. decode_frame(Buffer) = <<r>>
      BY <2>0, <2>1, Zenon
    <3>3. FrameTypes'
      BY TypesNext
    <3>4. delivered' \in Seq(ReadFrame)
      BY <3>3 DEF FrameTypes, StreamTypes
    <3> HIDE DEF r
    <3>5. delivered'[Len(delivered')] = r
      BY <1>0, <3>1, <3>4
    <3>6. reader' # "failed"
      BY <3>1
    <3> QED BY <3>2, <3>5, <3>6, Zenon DEF DecodersStep, Refused
  <2>2. CASE ~checksum_ok(header, Values(got))
    <3>1. UNCHANGED <<got, header, delivered>>
      BY <1>12, <2>2, Zenon DEF read_frame_returns
    <3>2. decode_frame(Buffer) = <<>>
      BY <2>0, <2>2, Zenon
    <3> QED BY <1>1, <3>1, <3>2, Zenon
  <2> QED BY <2>1, <2>2, Zenon
<1>13. CASE reader_dies
  <2>1. reader' = "died" /\ UNCHANGED delivered
    BY <1>13, Zenon DEF reader_dies
  <2>2. reader' # "failed"
    BY <2>1
  <2> QED BY <1>8, <2>1, <2>2, Zenon
<1>14. CASE stream_damaged
  BY <1>2, <1>14, Zenon DEF stream_damaged, readVars
<1>15. CASE UNCHANGED frameVars
  BY <1>2, <1>15, Zenon DEF frameVars, readVars
<1> QED
  BY <1>3, <1>4, <1>5, <1>6, <1>7, <1>9, <1>10, <1>11, <1>12, <1>13, <1>14, <1>15, Zenon
  DEF FrameNext

(***************************************************************************)
(* The frame read_frame assembles from any number of partial receives is   *)
(* the one decode_frame returns for the same bytes, and what read_frame    *)
(* gives up on decode_frame refuses, for every damage to the stream.       *)
(***************************************************************************)
THEOREM DecodersSafe == FrameSpec => DecodersAgree
<1>1. FrameInit => FrameTypes /\ Refused
  <2>1. FrameInit => Refused
    BY DEF FrameInit, Refused
  <2> QED BY <2>1, TypesInit
<1>2. FrameTypes /\ Refused /\ [FrameNext]_frameVars =>
        (FrameTypes /\ Refused)' /\ DecodersStep
  BY TypesNext, DecodersNext
<1>3. FrameSpec => [][DecodersStep]_frameVars
  BY <1>1, <1>2, PTL DEF FrameSpec
<1> QED BY <1>3, PTL DEF DecodersAgree, DecodersStep, Buffer

-----------------------------------------------------------------------------
(***************************************************************************)
(* What is delivered is what was written                                   *)
(*                                                                         *)
(* No checksum can tell two bodies with the same sum apart, so the bodies  *)
(* can be trusted only while no cell that carries a length or a byte of a  *)
(* body was damaged.  Everything else may be: a wrong magic, version or    *)
(* checksum ends the connection, and a wrong type is not noticed.          *)
(***************************************************************************)
Intact == \A k \in DOMAIN damage : damage[k] \notin {"length", "body"}
Forged == \E k \in DOMAIN damage : damage[k] = "type"

\* The cell c, as the reader may see it when o was encoded.
Faithful(c, o, forged) ==
  /\ c.field = o.field
  /\ \/ c.value = o.value
     \/ c.field \in {"magic", "version", "checksum"}
     \/ c.field = "type" /\ forged

\* The cells of the frames written, one after the other: all, and the place
\* before the first cell of each frame, and after the last.
Layout(all, start) ==
  /\ all \in Seq(CellRecord) /\ start \in Seq(Nat) /\ Len(start) = Len(sent) + 1
  /\ start[Len(sent) + 1] = Len(all)
  /\ \A i \in 1..Len(sent) :
       /\ start[i + 1] = start[i] + (kHeaderCells + Len(sent[i].body))
       /\ start[i + 1] <= Len(all)
       /\ \A j \in 1..(kHeaderCells + Len(sent[i].body)) :
            all[start[i] + j] = encode_frame(sent[i])[j]

\* The cells written and not yet turned into a header or a frame.
Flight == (got \o wire) \o out

\* Where the first of them was written.
Position(start) ==
  start[Len(delivered) + 1] + (IF header = <<>> THEN 0 ELSE kHeaderCells)

\* The header read belongs to the frame after the delivered ones.
HeaderFollows ==
  header # <<>> =>
    /\ Len(delivered) < Len(sent)
    /\ header[4] = Len(sent[Len(delivered) + 1].body)
    /\ header[3] = sent[Len(delivered) + 1].type \/ Forged

Follows(all, start) ==
  /\ HeaderFollows
  /\ Position(start) + Len(Flight) <= Len(all)
  /\ writer = "open" => Position(start) + Len(Flight) = Len(all)
  /\ \A j \in 1..Len(Flight) : Faithful(Flight[j], all[Position(start) + j], Forged)

DeliveredIsPrefix ==
  /\ Len(delivered) <= Len(sent)
  /\ \A i \in 1..Len(delivered) :
       /\ delivered[i].body = sent[i].body
       /\ delivered[i].type = sent[i].type \/ Forged

Tracked == \E all, start : Layout(all, start) /\ Follows(all, start)

StreamInv == Intact => DeliveredIsPrefix /\ (reader = "open" => Tracked)

\* Cells that move from the front of s to the end of t.
LEMMA Moved ==
  ASSUME NEW S, NEW s \in Seq(S), NEW t \in Seq(S), NEW k \in 0..Len(s)
  PROVE  (t \o SubSeq(s, 1, k)) \o SubSeq(s, k + 1, Len(s)) = t \o s
<1> DEFINE a == SubSeq(s, 1, k)
           b == SubSeq(s, k + 1, Len(s))
<1>1. /\ a \in Seq(S) /\ b \in Seq(S) /\ Len(a) = k /\ Len(b) = Len(s) - k
      /\ \A i \in 1..k : a[i] = s[i]
      /\ \A i \in 1..(Len(s) - k) : b[i] = s[k + i]
  BY Split
<1> HIDE DEF a, b
<1>2. a \o b = s
  <2> DEFINE c == a \o b
  <2>1. /\ c \in Seq(S) /\ Len(c) = Len(a) + Len(b)
        /\ \A i \in 1..Len(a) : c[i] = a[i]
        /\ \A i \in 1..Len(b) : c[Len(a) + i] = b[i]
    BY <1>1
  <2> HIDE DEF c
  <2>2. Len(s) \in Nat /\ k \in Nat /\ k <= Len(s)
    OBVIOUS
  <2>3. Len(c) = Len(s)
    BY <1>1, <2>1, <2>2
  <2>4. ASSUME NEW i \in 1..Len(c) PROVE c[i] = s[i]
    <3>1. CASE i <= k
      BY <1>1, <2>1, <2>2, <2>3, <3>1
    <3>2. CASE i > k
      <4>1. i - k \in 1..(Len(s) - k) /\ k + (i - k) = i
        BY <2>2, <2>3, <3>2
      <4>2. c[k + (i - k)] = b[i - k] /\ b[i - k] = s[k + (i - k)]
        BY <1>1, <2>1, <4>1, Zenon
      <4> QED BY <4>1, <4>2, Zenon
    <3> QED BY <2>2, <3>1, <3>2
  <2>5. c = s
    BY <2>1, <2>3, <2>4, SameSequence
  <2> QED BY <2>5 DEF c
<1>3. (t \o a) \o b = t \o (a \o b)
  BY <1>1, ConcatAssociative
<1> QED BY <1>2, <1>3, Zenon DEF a, b

FlightFacts ==
  /\ Flight \in Seq(CellRecord)
  /\ Len(got) \in Nat /\ Len(wire) \in Nat /\ Len(out) \in Nat
  /\ Len(Flight) = Len(got) + Len(wire) + Len(out)
  /\ \A j \in 1..Len(got) : Flight[j] = got[j]
  /\ \A j \in 1..Len(wire) : Flight[Len(got) + j] = wire[j]
  /\ \A j \in 1..Len(out) : Flight[Len(got) + Len(wire) + j] = out[j]

LEMMA FlightIs == StreamTypes => FlightFacts
<1> SUFFICES ASSUME StreamTypes PROVE FlightFacts
  OBVIOUS
<1> DEFINE gw == got \o wire
<1>1. got \in Seq(CellRecord) /\ wire \in Seq(CellRecord) /\ out \in Seq(CellRecord)
  BY DEF StreamTypes
<1>2. /\ gw \in Seq(CellRecord) /\ Len(gw) = Len(got) + Len(wire)
      /\ \A j \in 1..Len(got) : gw[j] = got[j]
      /\ \A j \in 1..Len(wire) : gw[Len(got) + j] = wire[j]
  BY <1>1
<1> HIDE DEF gw
<1>3. /\ gw \o out \in Seq(CellRecord) /\ Len(gw \o out) = Len(gw) + Len(out)
      /\ \A j \in 1..Len(gw) : (gw \o out)[j] = gw[j]
      /\ \A j \in 1..Len(out) : (gw \o out)[Len(gw) + j] = out[j]
  <2>1. gw \in Seq(CellRecord) /\ out \in Seq(CellRecord)
    BY <1>1, <1>2
  <2> QED BY <2>1
<1>4. Flight = gw \o out
  BY DEF Flight, gw
<1>5. Len(got) \in Nat /\ Len(wire) \in Nat /\ Len(out) \in Nat
  BY <1>1
<1>6. \A j \in 1..Len(got) : j \in 1..Len(gw)
  BY <1>2, <1>5
<1>7. \A j \in 1..Len(wire) : Len(got) + j \in 1..Len(gw)
  BY <1>2, <1>5
<1>8. Len(Flight) = Len(got) + Len(wire) + Len(out)
  BY <1>2, <1>3, <1>4
<1>9. \A j \in 1..Len(got) : Flight[j] = got[j]
  BY <1>2, <1>3, <1>4, <1>6, Zenon
<1>10. \A j \in 1..Len(wire) : Flight[Len(got) + j] = wire[j]
  BY <1>2, <1>3, <1>4, <1>7, Zenon
<1>11. \A j \in 1..Len(out) : Flight[Len(got) + Len(wire) + j] = out[j]
  BY <1>2, <1>3, <1>4, Zenon
<1> QED BY <1>3, <1>4, <1>5, <1>8, <1>9, <1>10, <1>11, Zenon DEF FlightFacts

LEMMA FlightIsNext == StreamTypes' => FlightFacts'
BY FlightIs, PTL

\* The positions are numbers.
LEMMA PositionType ==
  ASSUME StreamTypes, DeliveredIsPrefix, NEW all, NEW start, Layout(all, start)
  PROVE  /\ Len(all) \in Nat /\ Position(start) \in Nat
         /\ Len(delivered) \in Nat /\ Len(sent) \in Nat
         /\ \A i \in 1..(Len(sent) + 1) : start[i] \in Nat
<1>1. /\ Len(all) \in Nat /\ start \in Seq(Nat) /\ Len(start) = Len(sent) + 1
  BY DEF Layout
<1>2. Len(delivered) \in Nat /\ Len(sent) \in Nat
  BY DEF StreamTypes
<1>3. Len(delivered) <= Len(sent)
  BY DEF DeliveredIsPrefix
<1>4. \A i \in 1..(Len(sent) + 1) : start[i] \in Nat
  BY <1>1
<1>5. Len(delivered) + 1 \in 1..(Len(sent) + 1)
  BY <1>2, <1>3
<1>6. start[Len(delivered) + 1] \in Nat
  BY <1>4, <1>5, Zenon
<1>7. kHeaderCells \in Nat
  BY HeaderCells, Zenon
<1>8. Position(start) \in Nat
  BY <1>6, <1>7 DEF Position
<1> QED BY <1>1, <1>2, <1>4, <1>8

\* Steps that keep the frames, the damage and the cells in flight.
LEMMA TrackedKept ==
  ASSUME UNCHANGED <<sent, delivered, header, damage>>, Flight' = Flight,
         writer' = "open" => writer = "open"
  PROVE  /\ DeliveredIsPrefix => DeliveredIsPrefix'
         /\ Tracked => Tracked'
<1>1. Forged' = Forged
  BY Zenon DEF Forged
<1>2. DeliveredIsPrefix => DeliveredIsPrefix'
  BY <1>1, Zenon DEF DeliveredIsPrefix
<1>3. ASSUME NEW all, NEW start, Layout(all, start), Follows(all, start)
      PROVE  Layout(all, start)' /\ Follows(all, start)'
  <2>1. Layout(all, start)'
    BY <1>3, Zenon DEF Layout
  <2>2. Position(start)' = Position(start)
    BY Zenon DEF Position
  <2>3. HeaderFollows'
    BY <1>1, <1>3, Zenon DEF Follows, HeaderFollows
  <2>4. Follows(all, start)'
    BY <1>1, <1>3, <2>2, <2>3, Zenon DEF Follows
  <2> QED BY <2>1, <2>4, Zenon
<1>4. Tracked => Tracked'
  BY <1>3, Zenon DEF Tracked
<1> QED BY <1>2, <1>4, Zenon

LEMMA SendsKeepFlight ==
  ASSUME StreamTypes, write_all_sends
  PROVE  Flight' = Flight
<1>1. PICK k \in 1..Len(out) : /\ wire' = wire \o SubSeq(out, 1, k)
                               /\ out' = SubSeq(out, k + 1, Len(out))
  BY DEF write_all_sends
<1>2. /\ out \in Seq(CellRecord) /\ wire \in Seq(CellRecord) /\ got \in Seq(CellRecord)
      /\ got' = got
  BY Zenon DEF StreamTypes, write_all_sends, readVars
<1>3. k \in 0..Len(out)
  BY <1>2
<1> DEFINE a == SubSeq(out, 1, k)
           b == SubSeq(out, k + 1, Len(out))
<1>4. a \in Seq(CellRecord)
  BY <1>2, <1>3, Split
<1>5. got \o wire \in Seq(CellRecord)
  BY <1>2
<1>6. ((got \o wire) \o a) \o b = (got \o wire) \o out
  BY <1>2, <1>3, <1>5, Moved, Zenon
<1> HIDE DEF a, b
<1>7. got \o (wire \o a) = (got \o wire) \o a
  <2>2. \A x, y, z \in Seq(CellRecord) : (x \o y) \o z = x \o (y \o z)
    BY ConcatAssociative
  <2>3. got \in Seq(CellRecord) /\ wire \in Seq(CellRecord) /\ a \in Seq(CellRecord)
    BY <1>2, <1>4, Zenon
  <2> QED BY <2>2, <2>3
<1>8. wire' = wire \o a /\ out' = b
  BY <1>1 DEF a, b
<1> QED BY <1>2, <1>6, <1>7, <1>8, Zenon DEF Flight

LEMMA ReceivesKeepFlight ==
  ASSUME StreamTypes, read_exact_receives
  PROVE  Flight' = Flight
<1>1. PICK k \in 1..Len(wire) : /\ got' = got \o SubSeq(wire, 1, k)
                                /\ wire' = SubSeq(wire, k + 1, Len(wire))
  BY Zenon DEF read_exact_receives
<1>2. wire \in Seq(CellRecord) /\ got \in Seq(CellRecord) /\ out' = out
  BY Zenon DEF StreamTypes, read_exact_receives, writeVars
<1>3. k \in 0..Len(wire)
  BY <1>2
<1>4. (got \o SubSeq(wire, 1, k)) \o SubSeq(wire, k + 1, Len(wire)) = got \o wire
  BY <1>2, <1>3, Moved, Zenon
<1> QED BY <1>1, <1>2, <1>4, Zenon DEF Flight

\* The writer dies: what is left in flight is a prefix.
LEMMA DeathTracked ==
  ASSUME StreamTypes, StreamTypes', writer_dies, DeliveredIsPrefix, Tracked
  PROVE  Tracked'
<1>1. PICK all, start : Layout(all, start) /\ Follows(all, start)
  BY Zenon DEF Tracked
<1>2. /\ UNCHANGED <<sent, got, header, delivered, damage>> /\ out' = <<>>
      /\ wire' = wire \/ wire' = <<>>
      /\ writer' = "died"
  BY Zenon DEF writer_dies, readVars
<1>3. /\ Forged' = Forged /\ Layout(all, start)' /\ Position(start)' = Position(start)
      /\ HeaderFollows'
  BY <1>1, <1>2, Zenon DEF Forged, Layout, Position, Follows, HeaderFollows
<1> DEFINE n == Len(Flight)
           m == Len(Flight')
           p == Position(start)
<1>4. /\ n = Len(got) + Len(wire) + Len(out)
      /\ \A j \in 1..Len(got) : Flight[j] = got[j]
      /\ \A j \in 1..Len(wire) : Flight[Len(got) + j] = wire[j]
      /\ Len(got) \in Nat /\ Len(wire) \in Nat /\ Len(out) \in Nat
  BY FlightIs, Zenon DEF FlightFacts
<1>5. /\ m = Len(got) + Len(wire') + Len(out')
      /\ \A j \in 1..Len(got) : Flight'[j] = got[j]
      /\ \A j \in 1..Len(wire') : Flight'[Len(got) + j] = wire'[j]
  BY <1>2, FlightIsNext, Zenon DEF FlightFacts
<1> HIDE DEF n, m, p
<1>6. m <= n /\ m \in Nat /\ n \in Nat /\ \A j \in 1..m : Flight'[j] = Flight[j]
  <2> DEFINE g == Len(got)
             w == Len(wire)
  <2>1. CASE wire' = <<>>
    <3>1. Len(wire') = 0 /\ Len(out') = 0
      BY <1>2, <2>1
    <3>2. m = g
      BY <1>4, <1>5, <3>1
    <3> QED BY <1>4, <1>5, <3>2
  <2>2. CASE wire' = wire
    <3>1. Len(wire') = w /\ Len(out') = 0
      BY <1>2, <2>2
    <3>2. m = g + w /\ g \in Nat /\ w \in Nat /\ n = g + w + Len(out)
      BY <1>4, <1>5, <3>1
    <3>3. \A j \in 1..g : Flight'[j] = Flight[j]
      BY <1>4, <1>5, Zenon
    <3>4. \A j \in 1..w : Flight'[g + j] = Flight[g + j]
      BY <1>4, <1>5, <2>2, Zenon
    <3> HIDE DEF g, w
    <3>5. ASSUME NEW j \in 1..m PROVE Flight'[j] = Flight[j]
      <4>1. CASE j <= g
        BY <3>2, <3>3, <4>1
      <4>2. CASE j > g
        <5>1. j - g \in 1..w /\ g + (j - g) = j
          BY <3>2, <4>2
        <5> QED BY <3>4, <5>1, Zenon
      <4> QED BY <3>2, <4>1, <4>2
    <3> QED BY <1>4, <3>2, <3>5
  <2> QED BY <1>2, <2>1, <2>2, Zenon
<1>7. Follows(all, start)'
  <2>1. p + n <= Len(all) /\ \A j \in 1..n : Faithful(Flight[j], all[p + j], Forged)
    BY <1>1, Zenon DEF Follows, n, p
  <2>2. Len(all) \in Nat
    BY <1>1 DEF Layout
  <2>3. p \in Nat
    BY <1>1, PositionType, Zenon DEF p
  <2>4. p + m <= Len(all) /\ 1..m \subseteq 1..n
    BY <1>6, <2>1, <2>2, <2>3
  <2>5. \A j \in 1..m : Faithful(Flight'[j], all[p + j], Forged)
    BY <1>6, <2>1, <2>4, Zenon
  <2>6. writer' # "open"
    BY <1>2
  <2> QED BY <1>3, <2>4, <2>5, <2>6, Zenon DEF Follows, m, p
<1> QED BY <1>3, <1>7, Zenon DEF Tracked

\* What the layout says of one frame.
FrameIsAt(all, start, i) ==
  /\ sent[i].body \in Seq(Nat) /\ Len(sent[i].body) \in Nat
  /\ start[i + 1] = start[i] + (kHeaderCells + Len(sent[i].body))
  /\ all[start[i] + 3] = Cell("type", sent[i].type)
  /\ all[start[i] + 4] = Cell("length", Len(sent[i].body))
  /\ \A j \in 1..Len(sent[i].body) :
       all[start[i] + (kHeaderCells + j)] = Cell("body", sent[i].body[j])

LEMMA FrameAt ==
  ASSUME StreamTypes, NEW all, NEW start, Layout(all, start), NEW i \in 1..Len(sent)
  PROVE  FrameIsAt(all, start, i)
<1> DEFINE f == sent[i]
           n == Len(f.body)
           c == kHeaderCells
<1>1. f \in Frame
  BY DEF StreamTypes
<1> HIDE DEF f
<1>2. /\ f.body \in Seq(Nat) /\ n \in Nat
      /\ encode_frame(f)[3] = Cell("type", f.type)
      /\ encode_frame(f)[4] = Cell("length", n)
      /\ \A j \in 1..n : encode_frame(f)[c + j] = Cell("body", f.body[j])
  BY <1>1, Encoded, Zenon
<1>3. /\ start[i + 1] = start[i] + (c + n)
      /\ \A j \in 1..(c + n) : all[start[i] + j] = encode_frame(f)[j]
  BY Zenon DEF Layout, f
<1>4. c \in Nat /\ 3 \in 1..c /\ 4 \in 1..c
  BY HeaderCells, Zenon
<1> HIDE DEF n, c
<1>5. /\ 3 \in 1..(c + n) /\ 4 \in 1..(c + n)
      /\ \A j \in 1..n : c + j \in 1..(c + n)
  BY <1>2, <1>4
<1> QED BY <1>2, <1>3, <1>5, Zenon DEF f, n, c, FrameIsAt

\* The reader is done with what it got: the rest stays in flight.
LEMMA Dropped ==
  ASSUME StreamTypes, StreamTypes', got' = <<>>, UNCHANGED <<wire, out>>
  PROVE  /\ Len(Flight) = Len(got) + Len(Flight')
         /\ Len(got) \in Nat /\ Len(Flight') \in Nat
         /\ \A j \in 1..Len(Flight') : Flight'[j] = Flight[Len(got) + j]
<1> DEFINE g == Len(got)
           w == Len(wire)
           o == Len(out)
           m == Len(Flight')
<1>1. /\ Len(Flight) = g + w + o /\ g \in Nat /\ w \in Nat /\ o \in Nat
      /\ \A j \in 1..w : Flight[g + j] = wire[j]
      /\ \A j \in 1..o : Flight[g + w + j] = out[j]
  BY FlightIs, Zenon DEF FlightFacts
<1>2. Len(got') = 0
  OBVIOUS
<1>3. /\ m = 0 + w + o
      /\ \A j \in 1..w : Flight'[0 + j] = wire[j]
      /\ \A j \in 1..o : Flight'[0 + w + j] = out[j]
  BY <1>2, FlightIsNext, Zenon DEF FlightFacts
<1> HIDE DEF g, w, o, m
<1>4. m = w + o /\ Len(Flight) = g + m /\ m \in Nat
  BY <1>1, <1>3
<1>5. ASSUME NEW j \in 1..m PROVE Flight'[j] = Flight[g + j]
  <2>1. CASE j <= w
    <3>1. j \in 1..w /\ 0 + j = j
      BY <1>1, <1>4, <2>1
    <3> QED BY <1>1, <1>3, <3>1, Zenon
  <2>2. CASE j > w
    <3>1. j - w \in 1..o /\ 0 + w + (j - w) = j /\ g + w + (j - w) = g + j
      BY <1>1, <1>4, <2>2
    <3> QED BY <1>1, <1>3, <3>1, Zenon
  <2> QED BY <1>1, <1>4, <2>1, <2>2
<1> QED BY <1>1, <1>4, <1>5, Zenon DEF g, m

\* read_frame accepts a header: it is the header of the next frame.
LEMMA HeaderTracked ==
  ASSUME FrameTypes, FrameTypes', DeliveredIsPrefix, Tracked, header = <<>>, Needed = 0,
         header' = Values(got), got' = <<>>,
         UNCHANGED <<sent, out, wire, writer, delivered, damage>>
  PROVE  Tracked'
<1>1. PICK all, start : Layout(all, start) /\ Follows(all, start)
  BY Zenon DEF Tracked
<1> DEFINE d == Len(delivered)
           i == d + 1
           c == kHeaderCells
           p == start[i]
           n == Len(Flight)
           m == Len(Flight')
<1>2. c \in Nat /\ 3 \in 1..c /\ 4 \in 1..c /\ StreamTypes /\ StreamTypes'
  BY HeaderCells, Zenon DEF FrameTypes
<1>3. Len(got) = c
  <2>1. Wanted \in Nat /\ Len(got) \in Nat /\ Needed = Wanted - Len(got)
    BY WantedType
  <2>2. Wanted = c
    BY Zenon DEF Wanted
  <2> QED BY <2>1, <2>2
<1>4. /\ n = c + m /\ m \in Nat /\ \A j \in 1..m : Flight'[j] = Flight[c + j]
  BY <1>2, <1>3, Dropped, Zenon
<1>5. /\ Len(all) \in Nat /\ d \in Nat /\ Len(sent) \in Nat /\ Position(start) \in Nat
  BY <1>1, <1>2, PositionType, Zenon
<1>6. Position(start) = p + 0 /\ Position(start)' = p + c
  <2>1. header' # <<>>
    <3>1. Len(header') = Len(got)
      BY ValuesType DEF FrameTypes, StreamTypes
    <3>2. header' = <<>> => Len(header') = 0
      OBVIOUS
    <3>3. Len(header') # 0
      BY <1>2, <1>3, <3>1
    <3> QED BY <3>2, <3>3, Zenon
  <2> QED BY <2>1, Zenon DEF Position
<1>7. p \in Nat
  <2>1. d <= Len(sent)
    BY Zenon DEF DeliveredIsPrefix
  <2> HIDE DEF d
  <2>2. i \in 1..(Len(sent) + 1)
    BY <1>5, <2>1
  <2>3. \A k \in 1..(Len(sent) + 1) : start[k] \in Nat
    BY <1>1, <1>2, PositionType, Zenon
  <2> QED BY <2>2, <2>3, Zenon
<1>8. /\ p + n <= Len(all) /\ (writer = "open" => p + n = Len(all))
      /\ \A j \in 1..n : Faithful(Flight[j], all[p + j], Forged)
  <2>1. Position(start) = p
    BY <1>6, <1>7
  <2> QED BY <1>1, <2>1, Zenon DEF Follows
<1>9. i \in 1..Len(sent) /\ d < Len(sent)
  <2>1. d <= Len(sent)
    BY Zenon DEF DeliveredIsPrefix
  <2>2. d = Len(sent) => p = Len(all)
    BY <1>1, Zenon DEF Layout
  <2> HIDE DEF d, n, m, c, p
  <2>3. d # Len(sent)
    BY <1>2, <1>4, <1>5, <1>7, <1>8, <2>2
  <2> QED BY <1>5, <2>1, <2>3
<1>10. /\ all[p + 3] = Cell("type", sent[i].type)
       /\ all[p + 4] = Cell("length", Len(sent[i].body))
  <2>1. FrameIsAt(all, start, i)
    <3> HIDE DEF i, d
    <3> QED BY <1>1, <1>2, <1>9, FrameAt
  <2> QED BY <2>1, Zenon DEF FrameIsAt
<1>11. /\ header'[3] = got[3].value /\ header'[4] = got[4].value
       /\ Flight[3] = got[3] /\ Flight[4] = got[4]
  <2>1. \A j \in 1..Len(got) : Values(got)[j] = got[j].value
    BY ValuesType DEF FrameTypes, StreamTypes
  <2>2. \A j \in 1..Len(got) : Flight[j] = got[j]
    BY <1>2, FlightIs, Zenon DEF FlightFacts
  <2> QED BY <1>2, <1>3, <2>1, <2>2, Zenon
<1>12. /\ Faithful(got[3], Cell("type", sent[i].type), Forged)
       /\ Faithful(got[4], Cell("length", Len(sent[i].body)), Forged)
  <2>1. 3 \in 1..n /\ 4 \in 1..n
    <3> HIDE DEF c, n, m
    <3> QED BY <1>2, <1>4
  <2> QED BY <1>8, <1>10, <1>11, <2>1, Zenon
<1>13. header'[4] = Len(sent[i].body) /\ (header'[3] = sent[i].type \/ Forged)
  BY <1>11, <1>12 DEF Faithful, Cell
<1>14. Forged' = Forged /\ Layout(all, start)' /\ HeaderFollows'
  BY <1>1, <1>9, <1>13, Zenon DEF Forged, Layout, HeaderFollows
<1>15. /\ (p + c) + m <= Len(all) /\ (writer = "open" => (p + c) + m = Len(all))
       /\ \A j \in 1..m : c + j \in 1..n /\ (p + c) + j = p + (c + j)
  <2> HIDE DEF c, n, m, p
  <2> QED BY <1>2, <1>4, <1>5, <1>7, <1>8
<1>16. \A j \in 1..m : Faithful(Flight'[j], all[(p + c) + j], Forged)
  BY <1>4, <1>8, <1>15, Zenon
<1>17. Follows(all, start)'
  BY <1>6, <1>14, <1>15, <1>16, Zenon DEF Follows
<1> QED BY <1>14, <1>17, Zenon DEF Tracked

\* read_frame returns a frame: it is the next frame.
LEMMA ReturnTracked ==
  ASSUME FrameTypes, FrameTypes', DeliveredIsPrefix, Tracked, header # <<>>, Needed = 0,
         delivered' = Append(delivered, [type |-> header[3], body |-> Values(got)]),
         header' = <<>>, got' = <<>>,
         UNCHANGED <<sent, out, wire, writer, damage>>
  PROVE  DeliveredIsPrefix' /\ Tracked'
<1>1. PICK all, start : Layout(all, start) /\ Follows(all, start)
  BY Zenon DEF Tracked
<1> DEFINE d == Len(delivered)
           i == d + 1
           c == kHeaderCells
           s == start[i]
           p == s + c
           n == Len(Flight)
           m == Len(Flight')
           g == Len(got)
           r == [type |-> header[3], body |-> Values(got)]
<1>2. c \in Nat /\ StreamTypes /\ StreamTypes'
  BY HeaderCells, Zenon DEF FrameTypes
<1>3. /\ Len(all) \in Nat /\ d \in Nat /\ Len(sent) \in Nat
      /\ \A k \in 1..(Len(sent) + 1) : start[k] \in Nat
  BY <1>1, <1>2, PositionType, Zenon
<1>4. /\ d < Len(sent) /\ header[4] = Len(sent[i].body)
      /\ header[3] = sent[i].type \/ Forged
  BY <1>1, Zenon DEF Follows, HeaderFollows
<1>5. i \in 1..Len(sent) /\ i \in 1..(Len(sent) + 1) /\ i + 1 \in 1..(Len(sent) + 1)
  <2> HIDE DEF d
  <2> QED BY <1>3, <1>4
<1>6. s \in Nat
  BY <1>3, <1>5, Zenon
<1>7. g = Len(sent[i].body)
  <2>1. Wanted \in Nat /\ Len(got) \in Nat /\ Needed = Wanted - Len(got)
    BY WantedType
  <2>2. Wanted = header[4]
    BY Zenon DEF Wanted
  <2>3. Len(got) = Wanted
    BY <2>1
  <2> QED BY <1>4, <2>2, <2>3, Zenon
<1>8. /\ n = g + m /\ m \in Nat /\ g \in Nat /\ \A j \in 1..m : Flight'[j] = Flight[g + j]
  BY <1>2, Dropped, Zenon
<1>9. /\ p + n <= Len(all) /\ (writer = "open" => p + n = Len(all))
      /\ \A j \in 1..n : Faithful(Flight[j], all[p + j], Forged)
  <2>1. Position(start) = p
    BY Zenon DEF Position
  <2> QED BY <1>1, <2>1, Zenon DEF Follows
<1>10. /\ sent[i].body \in Seq(Nat) /\ start[i + 1] = s + (c + g)
       /\ \A j \in 1..g : all[s + (c + j)] = Cell("body", sent[i].body[j])
  <2>1. /\ sent[i].body \in Seq(Nat) /\ start[i + 1] = s + (c + Len(sent[i].body))
        /\ \A j \in 1..Len(sent[i].body) : all[s + (c + j)] = Cell("body", sent[i].body[j])
    <3>1. FrameIsAt(all, start, i)
      <4> HIDE DEF i, d
      <4> QED BY <1>1, <1>2, <1>5, FrameAt
    <3> QED BY <3>1, Zenon DEF FrameIsAt
  <2> QED BY <1>7, <2>1, Zenon
<1>11. Values(got) = sent[i].body
  <2>1. /\ Values(got) \in Seq(Nat) /\ Len(Values(got)) = g
        /\ \A j \in 1..g : Values(got)[j] = got[j].value
    BY <1>2, ValuesType DEF StreamTypes
  <2>2. \A j \in 1..g : Flight[j] = got[j]
    BY <1>2, FlightIs, Zenon DEF FlightFacts
  <2>3. ASSUME NEW j \in 1..g PROVE Values(got)[j] = sent[i].body[j]
    <3>1. j \in 1..n /\ p + j = s + (c + j)
      <4> HIDE DEF n, m, g, c, s
      <4> QED BY <1>2, <1>6, <1>8
    <3>2. Faithful(got[j], Cell("body", sent[i].body[j]), Forged)
      BY <1>9, <1>10, <2>2, <3>1, Zenon
    <3>3. got[j].value = sent[i].body[j]
      BY <3>2 DEF Faithful, Cell
    <3> QED BY <2>1, <3>3, Zenon
  <2> HIDE DEF g, i
  <2> QED BY <1>7, <1>10, <2>1, <2>3, SameSequence, Zenon
<1>12. /\ Len(delivered') = d + 1 /\ delivered'[d + 1] = r
       /\ \A k \in 1..d : delivered'[k] = delivered[k]
  <2>1. delivered \in Seq(ReadFrame) /\ delivered' \in Seq(ReadFrame) /\ delivered' = Append(delivered, r)
    BY <1>2 DEF StreamTypes
  <2> HIDE DEF r
  <2> QED BY <2>1
<1>13. Forged' = Forged
  BY Zenon DEF Forged
<1>14. DeliveredIsPrefix'
  <2>1. Len(delivered') <= Len(sent)
    <3> HIDE DEF d
    <3> QED BY <1>3, <1>4, <1>12
  <2>2. ASSUME NEW k \in 1..Len(delivered')
        PROVE  /\ delivered'[k].body = sent[k].body
               /\ delivered'[k].type = sent[k].type \/ Forged
    <3>1. k \in 1..d \/ k = i
      <4> HIDE DEF d
      <4> QED BY <1>3, <1>12
    <3>2. CASE k \in 1..d
      BY <1>12, <3>2, Zenon DEF DeliveredIsPrefix
    <3>3. CASE k = i
      <4>1. r.body = Values(got) /\ r.type = header[3]
        OBVIOUS
      <4> HIDE DEF r
      <4> QED BY <1>4, <1>11, <1>12, <3>3, <4>1, Zenon
    <3> QED BY <3>1, <3>2, <3>3, Zenon
  <2> QED BY <1>13, <2>1, <2>2, Zenon DEF DeliveredIsPrefix
<1>15. Position(start)' = p + g
  <2>1. Position(start)' = start[(d + 1) + 1] + 0
    BY <1>12, Zenon DEF Position
  <2>2. Position(start)' = (s + (c + g)) + 0
    BY <1>10, <2>1, Zenon
  <2> HIDE DEF c, g, s
  <2> QED BY <1>2, <1>6, <1>8, <2>2
<1>16. /\ (p + g) + m <= Len(all) /\ (writer = "open" => (p + g) + m = Len(all))
       /\ \A j \in 1..m : g + j \in 1..n /\ (p + g) + j = p + (g + j)
  <2> HIDE DEF c, n, m, s, g
  <2> QED BY <1>2, <1>3, <1>6, <1>8, <1>9
<1>17. \A j \in 1..m : Faithful(Flight'[j], all[(p + g) + j], Forged)
  BY <1>8, <1>9, <1>16, Zenon
<1>18. Layout(all, start)' /\ HeaderFollows'
  BY <1>1, Zenon DEF Layout, HeaderFollows
<1>19. Follows(all, start)'
  BY <1>13, <1>15, <1>16, <1>17, <1>18, Zenon DEF Follows
<1> QED BY <1>14, <1>18, <1>19, Zenon DEF Tracked

\* A damaged stream does not become intact again.
LEMMA DamageIntact ==
  ASSUME StreamTypes, StreamTypes', stream_damaged, Intact'
  PROVE  Intact
<1>1. PICK i \in DOMAIN wire, v \in DamageValues : damage' = Append(damage, wire[i].field)
  BY DEF stream_damaged
<1> DEFINE x == wire[i].field
<1>2. damage \in Seq(FieldName) /\ damage' \in Seq(FieldName) /\ damage' = Append(damage, x)
  BY <1>1 DEF StreamTypes
<1> HIDE DEF x
<1>3. \A k \in DOMAIN damage : k \in DOMAIN damage' /\ damage'[k] = damage[k]
  BY <1>2
<1> QED BY <1>3, Zenon DEF Intact

\* Damage leaves the cells in flight faithful while the stream is intact.
LEMMA DamageTracked ==
  ASSUME StreamTypes, StreamTypes', DeliveredIsPrefix, stream_damaged, Intact'
  PROVE  DeliveredIsPrefix' /\ (Tracked => Tracked')
<1>1. PICK i \in DOMAIN wire, v \in DamageValues :
        wire' = [wire EXCEPT ![i].value = v] /\ damage' = Append(damage, wire[i].field)
  BY DEF stream_damaged
<1>2. UNCHANGED <<sent, out, writer, got, header, delivered, reader>>
  BY Zenon DEF stream_damaged, writeVars, readVars
<1> DEFINE x == wire[i].field
           l == Len(damage)
<1>3. /\ damage \in Seq(FieldName) /\ damage' \in Seq(FieldName) /\ damage' = Append(damage, x)
      /\ wire \in Seq(CellRecord)
  BY <1>1 DEF StreamTypes
<1>4. wire[i] \in CellRecord /\ i \in 1..Len(wire)
  BY <1>3
<1>5. x \in FieldName
  BY <1>4 DEF CellRecord
<1> HIDE DEF x
<1>6. /\ l \in Nat /\ DOMAIN damage = 1..l /\ DOMAIN damage' = 1..(l + 1)
      /\ damage'[l + 1] = x /\ \A k \in 1..l : damage'[k] = damage[k]
  BY <1>3, <1>5
<1> HIDE DEF l
<1>7. 1..l \subseteq 1..(l + 1) /\ l + 1 \in 1..(l + 1)
  BY <1>6
<1>8. x \notin {"length", "body"}
  BY <1>6, <1>7, Zenon DEF Intact
<1>10. Forged => Forged'
  BY <1>6, <1>7, Zenon DEF Forged
<1>11. x = "type" => Forged'
  BY <1>6, <1>7, Zenon DEF Forged
<1>12. DeliveredIsPrefix'
  BY <1>2, <1>10, Zenon DEF DeliveredIsPrefix
<1>13. ASSUME NEW all, NEW start, Layout(all, start), Follows(all, start)
       PROVE  Tracked'
  <2> DEFINE n == Len(Flight)
             p == Position(start)
             g == Len(got)
  <2>1. Layout(all, start)' /\ HeaderFollows' /\ Position(start)' = p
    BY <1>2, <1>10, <1>13, Zenon DEF Layout, Follows, HeaderFollows, Position
  <2>2. /\ n = g + Len(wire) + Len(out)
        /\ g \in Nat /\ Len(wire) \in Nat /\ Len(out) \in Nat
        /\ \A j \in 1..g : Flight[j] = got[j]
        /\ \A j \in 1..Len(wire) : Flight[g + j] = wire[j]
        /\ \A j \in 1..Len(out) : Flight[g + Len(wire) + j] = out[j]
    BY FlightIs, Zenon DEF FlightFacts
  <2>3. /\ Len(wire') = Len(wire)
        /\ \A j \in 1..Len(wire) : j # i => wire'[j] = wire[j]
        /\ wire'[i].field = wire[i].field
    <3>1. wire' \in Seq(CellRecord) /\ DOMAIN wire' = DOMAIN wire
      BY <1>1 DEF StreamTypes
    <3>2. DOMAIN wire' = 1..Len(wire') /\ DOMAIN wire = 1..Len(wire)
      BY <1>3, <3>1
    <3>3. wire'[i] = [wire[i] EXCEPT !.value = v]
      BY <1>1
    <3>4. wire'[i].field = wire[i].field
      BY <1>4, <3>3 DEF CellRecord
    <3>5. Len(wire') = Len(wire)
      BY <1>3, <3>1
    <3>6. \A j \in DOMAIN wire : j # i => wire'[j] = wire[j]
      BY <1>1
    <3> QED BY <3>2, <3>4, <3>5, <3>6, Zenon
  <2>4. /\ Len(Flight') = n
        /\ \A j \in 1..g : Flight'[j] = got[j]
        /\ \A j \in 1..Len(wire) : Flight'[g + j] = wire'[j]
        /\ \A j \in 1..Len(out) : Flight'[g + Len(wire) + j] = out[j]
    BY <1>2, <2>2, <2>3, FlightIsNext, Zenon DEF FlightFacts
  <2>5. \A j \in 1..n : Faithful(Flight[j], all[p + j], Forged)
    BY <1>13, Zenon DEF Follows
  <2>6. ASSUME NEW j \in 1..n PROVE Faithful(Flight'[j], all[p + j], Forged')
    <3> DEFINE w == Len(wire)
               u == Len(out)
    <3>1. Faithful(Flight[j], all[p + j], Forged)
      BY <2>5, Zenon
    <3>2. CASE j = g + i
      <4>1. Flight[j] = wire[i] /\ Flight'[j] = wire'[i]
        BY <1>4, <2>2, <2>4, <3>2, Zenon
      <4>2. Flight'[j].field = x /\ Flight[j].field = x
        BY <2>3, <4>1, Zenon DEF x
      <4>3. x \in {"magic", "version", "checksum"} \/ x = "type"
        BY <1>5, <1>8 DEF FieldName
      <4>4. x = all[p + j].field
        BY <3>1, <4>2, Zenon DEF Faithful
      <4> QED BY <1>11, <4>2, <4>3, <4>4, Zenon DEF Faithful
    <3>3. CASE j # g + i
      <4>1. Flight'[j] = Flight[j]
        <5>1. CASE j \in 1..g
          BY <2>2, <2>4, <5>1, Zenon
        <5>2. CASE j \notin 1..g /\ j <= g + w
          <6>1. j - g \in 1..w /\ g + (j - g) = j /\ j - g # i
            <7> HIDE DEF g, w, n
            <7> QED BY <2>2, <3>3, <5>2 DEF w
          <6> DEFINE q == j - g
          <6>2. Flight[g + q] = wire[q] /\ wire'[q] = wire[q]
            BY <2>2, <2>3, <6>1, Zenon
          <6>3. Flight'[g + q] = wire'[q]
            BY <2>4, <6>1, Zenon
          <6> QED BY <6>1, <6>2, <6>3, Zenon
        <5>3. CASE j > g + w
          <6>1. j - (g + w) \in 1..u /\ g + w + (j - (g + w)) = j
            <7>1. g \in Nat /\ w \in Nat /\ u \in Nat /\ n = g + w + u
              BY <2>2
            <7> HIDE DEF g, w, n, u
            <7> QED BY <5>3, <7>1
          <6> DEFINE q == j - (g + w)
          <6>2. Flight[g + w + q] = out[q]
            BY <2>2, <6>1, Zenon
          <6>3. Flight'[g + w + q] = out[q]
            BY <2>4, <6>1, Zenon
          <6> QED BY <6>1, <6>2, <6>3, Zenon
        <5>4. j \in 1..g \/ (j \notin 1..g /\ j <= g + w) \/ j > g + w
          <6>1. g \in Nat /\ w \in Nat /\ j \in Int
            BY <2>2
          <6> HIDE DEF g, w, n
          <6> QED BY <6>1
        <5> QED BY <5>1, <5>2, <5>3, <5>4, Zenon
      <4> QED BY <1>10, <3>1, <4>1, Zenon DEF Faithful
    <3> QED BY <3>2, <3>3, Zenon
  <2>7. Follows(all, start)'
    BY <1>2, <1>13, <2>1, <2>4, <2>6, Zenon DEF Follows
  <2> QED BY <2>1, <2>7, Zenon DEF Tracked
<1>14. Tracked => Tracked'
  BY <1>13, Zenon DEF Tracked
<1> QED BY <1>12, <1>14, Zenon

\* write_frame extends the layout by one frame.
LEMMA WriteTracked ==
  ASSUME StreamTypes, StreamTypes', DeliveredIsPrefix, NEW f \in Frames, write_frame(f)
  PROVE  DeliveredIsPrefix' /\ (Tracked => Tracked')
<1> DEFINE e == encode_frame(f)
           l == Len(sent)
           d == Len(delivered)
<1>1. /\ out = <<>> /\ writer = "open" /\ sent' = Append(sent, f) /\ out' = e
      /\ UNCHANGED <<writer, wire, got, header, delivered, reader, damage>>
  BY Zenon DEF write_frame, readVars
<1>2. f \in Frame
  BY FrameAssumption
<1>3. /\ e \in Seq(CellRecord) /\ Len(e) = kHeaderCells + Len(f.body)
      /\ Len(f.body) \in Nat /\ kHeaderCells \in Nat
  BY <1>2, Encoded, HeaderCells, Zenon
<1> HIDE DEF e
<1>4. /\ l \in Nat /\ Len(sent') = l + 1 /\ sent'[l + 1] = f
      /\ \A i \in 1..l : sent'[i] = sent[i]
  BY <1>1, <1>2 DEF StreamTypes
<1>5. d \in Nat /\ d <= l
  BY DEF StreamTypes, DeliveredIsPrefix
<1> HIDE DEF l, d
<1>6. Forged' = Forged
  BY <1>1, Zenon DEF Forged
<1>7. DeliveredIsPrefix'
  <2>1. d <= l + 1 /\ 1..d \subseteq 1..l
    BY <1>4, <1>5
  <2>2. \A i \in 1..d : /\ delivered[i].body = sent[i].body
                        /\ delivered[i].type = sent[i].type \/ Forged
    BY Zenon DEF DeliveredIsPrefix, d
  <2>3. \A i \in 1..d : /\ delivered[i].body = sent'[i].body
                        /\ delivered[i].type = sent'[i].type \/ Forged
    BY <1>4, <2>1, <2>2, Zenon
  <2> QED BY <1>1, <1>4, <1>6, <2>1, <2>3, Zenon DEF DeliveredIsPrefix, d
<1>8. ASSUME NEW all, NEW start, Layout(all, start), Follows(all, start) PROVE Tracked'
  <2> DEFINE a == Len(all)
             x == Len(e)
             all2 == all \o e
             start2 == Append(start, a + x)
             n == Len(Flight)
             p == Position(start)
  <2>1. /\ all \in Seq(CellRecord) /\ start \in Seq(Nat) /\ Len(start) = l + 1
        /\ start[l + 1] = a
        /\ \A i \in 1..l :
             /\ start[i + 1] = start[i] + (kHeaderCells + Len(sent[i].body))
             /\ start[i + 1] <= a
             /\ \A j \in 1..(kHeaderCells + Len(sent[i].body)) :
                  all[start[i] + j] = encode_frame(sent[i])[j]
    BY <1>8, Zenon DEF Layout, l
  <2>2. a \in Nat /\ x \in Nat /\ p \in Nat /\ \A i \in 1..(l + 1) : start[i] \in Nat
    <3>1. x \in Nat
      BY <1>3
    <3> QED BY <1>8, <3>1, PositionType, Zenon DEF l
  <2>3. /\ all2 \in Seq(CellRecord) /\ Len(all2) = a + x
        /\ \A j \in 1..a : all2[j] = all[j]
        /\ \A j \in 1..x : all2[a + j] = e[j]
    <3>1. all \in Seq(CellRecord) /\ e \in Seq(CellRecord)
      BY <1>3, <2>1, Zenon
    <3> QED BY <3>1
  <2>4. /\ start2 \in Seq(Nat) /\ Len(start2) = Len(start) + 1
        /\ start2[Len(start) + 1] = a + x
        /\ \A i \in 1..Len(start) : start2[i] = start[i]
    <3>1. a + x \in Nat /\ start \in Seq(Nat)
      <4>1. start \in Seq(Nat)
        BY <2>1, Zenon
      <4> QED BY <2>2, <4>1
    <3> DEFINE y == a + x
    <3> HIDE DEF y
    <3>2. y \in Nat /\ start \in Seq(Nat)
      BY <3>1, Zenon DEF y
    <3>3. /\ Append(start, y) \in Seq(Nat) /\ Len(Append(start, y)) = Len(start) + 1
          /\ Append(start, y)[Len(start) + 1] = y
          /\ \A i \in 1..Len(start) : Append(start, y)[i] = start[i]
      BY <3>2
    <3> QED BY <3>3, Zenon DEF y
  <2>5. /\ Len(start2) = (l + 1) + 1
        /\ start2[(l + 1) + 1] = a + x
        /\ \A i \in 1..(l + 1) : start2[i] = start[i]
    BY <2>1, <2>4, Zenon
  <2> HIDE DEF all2, start2, a, x, n, p
  <2>6. Layout(all2, start2)'
    <3>1. ASSUME NEW i \in 1..(l + 1)
          PROVE  /\ start2[i + 1] = start2[i] + (kHeaderCells + Len(sent'[i].body))
                 /\ start2[i + 1] <= Len(all2)
                 /\ \A j \in 1..(kHeaderCells + Len(sent'[i].body)) :
                      all2[start2[i] + j] = encode_frame(sent'[i])[j]
      <4>1. CASE i \in 1..l
        <5>1. i \in 1..(l + 1) /\ i + 1 \in 1..(l + 1)
          BY <1>4, <4>1
        <5>2. start2[i] = start[i] /\ start2[i + 1] = start[i + 1] /\ sent'[i] = sent[i]
          BY <1>4, <2>5, <4>1, <5>1, Zenon
        <5> DEFINE b == kHeaderCells + Len(sent[i].body)
                   u == start[i]
        <5>3. /\ start[i + 1] = u + b /\ start[i + 1] <= a
              /\ \A j \in 1..b : all[u + j] = encode_frame(sent[i])[j]
          BY <2>1, <4>1, Zenon
        <5>4. u \in Nat /\ start[i + 1] \in Nat
          BY <2>2, <5>1, Zenon
        <5>5. b \in Nat
          <6>1. sent[i] \in Frame
            BY <4>1 DEF StreamTypes, l
          <6>2. Len(sent[i].body) \in Nat
            BY <6>1, Encoded, Zenon
          <6> QED BY <1>3, <6>2
        <5> HIDE DEF b, u
        <5>6. start[i + 1] <= a + x /\ \A j \in 1..b : u + j \in 1..a
          BY <2>2, <5>3, <5>4, <5>5
        <5>7. \A j \in 1..b : all2[u + j] = encode_frame(sent[i])[j]
          BY <2>3, <5>3, <5>6, Zenon
        <5> QED BY <2>3, <5>2, <5>3, <5>6, <5>7, Zenon DEF b, u
      <4>2. CASE i = l + 1
        <5>1. i \in 1..(l + 1)
          BY <1>4, <4>2
        <5>2. start2[i] = a /\ start2[i + 1] = a + x /\ sent'[i] = f
          BY <1>4, <2>1, <2>5, <4>2, <5>1, Zenon
        <5>3. x = kHeaderCells + Len(f.body)
          BY <1>3, Zenon DEF x
        <5>4. a + x <= Len(all2)
          BY <2>2, <2>3
        <5>5. \A j \in 1..x : all2[a + j] = encode_frame(f)[j]
          BY <2>3, Zenon DEF e
        <5> QED BY <5>2, <5>3, <5>4, <5>5, Zenon
      <4>3. i \in 1..l \/ i = l + 1
        BY <1>4
      <4> QED BY <4>1, <4>2, <4>3, Zenon
    <3>2. Len(start2) = Len(sent') + 1 /\ start2[Len(sent') + 1] = Len(all2)
      BY <1>4, <2>3, <2>5, Zenon
    <3> QED BY <1>4, <2>3, <2>4, <3>1, <3>2, Zenon DEF Layout
  <2>7. Position(start2)' = p
    <3>1. d + 1 \in 1..(l + 1)
      BY <1>4, <1>5
    <3>2. start2[d + 1] = start[d + 1]
      BY <2>5, <3>1, Zenon
    <3> QED BY <1>1, <3>2, Zenon DEF Position, p, d
  <2>8. HeaderFollows'
    <3>1. ASSUME header # <<>> PROVE d < l /\ sent'[d + 1] = sent[d + 1]
      <4>1. d < l
        BY <1>8, <3>1, Zenon DEF Follows, HeaderFollows, d, l
      <4>2. d + 1 \in 1..l
        BY <1>4, <1>5, <4>1
      <4> QED BY <1>4, <4>1, <4>2, Zenon
    <3>2. d < l => d < l + 1
      BY <1>4, <1>5
    <3> QED BY <1>1, <1>4, <1>6, <1>8, <3>1, <3>2, Zenon DEF Follows, HeaderFollows, d, l
  <2>9. /\ p + n = a /\ n \in Nat
        /\ \A j \in 1..n : Faithful(Flight[j], all[p + j], Forged)
    <3>1. Len(Flight) \in Nat
      <4>1. Flight \in Seq(CellRecord)
        BY FlightIs, Zenon DEF FlightFacts
      <4> QED BY <4>1
    <3> QED BY <1>1, <1>8, <3>1, Zenon DEF Follows, p, n, a
  <2>10. /\ Len(Flight') = n + x
         /\ \A j \in 1..n : Flight'[j] = Flight[j]
         /\ \A j \in 1..x : Flight'[n + j] = e[j]
    <3> DEFINE gw == got \o wire
    <3>1. gw \in Seq(CellRecord) /\ e \in Seq(CellRecord)
      BY <1>3 DEF StreamTypes
    <3>2. Flight = gw \o <<>> /\ Flight' = gw \o e
      BY <1>1, Zenon DEF Flight
    <3> HIDE DEF gw
    <3>3. gw \o <<>> = gw
      BY <3>1
    <3>4. /\ Len(gw \o e) = Len(gw) + Len(e)
          /\ \A j \in 1..Len(gw) : (gw \o e)[j] = gw[j]
          /\ \A j \in 1..Len(e) : (gw \o e)[Len(gw) + j] = e[j]
      BY <3>1
    <3> QED BY <3>2, <3>3, <3>4, Zenon DEF n, x
  <2>11. ASSUME NEW j \in 1..(n + x) PROVE Faithful(Flight'[j], all2[p + j], Forged)
    <3>1. CASE j <= n
      <4>1. j \in 1..n /\ p + j \in 1..a
        BY <2>2, <2>9, <3>1
      <4> QED BY <2>3, <2>9, <2>10, <4>1, Zenon
    <3>2. CASE j > n
      <4>1. j - n \in 1..x /\ n + (j - n) = j /\ a + (j - n) = p + j
        BY <2>2, <2>9, <3>2
      <4>2. Flight'[j] = e[j - n] /\ all2[p + j] = e[j - n]
        BY <2>3, <2>10, <4>1, Zenon
      <4> QED BY <4>2, Zenon DEF Faithful
    <3> QED BY <2>2, <2>9, <3>1, <3>2
  <2>12. p + (n + x) = Len(all2) /\ p + (n + x) <= Len(all2)
    BY <2>2, <2>3, <2>9
  <2>13. Follows(all2, start2)'
    BY <1>6, <2>7, <2>8, <2>10, <2>11, <2>12, Zenon DEF Follows
  <2> QED BY <2>6, <2>13, Zenon DEF Tracked
<1>9. Tracked => Tracked'
  BY <1>8, Zenon DEF Tracked
<1> QED BY <1>7, <1>9, Zenon

LEMMA StreamInit == FrameInit => StreamInv
<1> SUFFICES ASSUME FrameInit PROVE DeliveredIsPrefix /\ Tracked
  BY Zenon DEF StreamInv
<1>1. /\ sent = <<>> /\ delivered = <<>> /\ header = <<>> /\ got = <<>> /\ wire = <<>> /\ out = <<>>
  BY Zenon DEF FrameInit
<1>2. Len(sent) = 0 /\ Len(delivered) = 0
  BY <1>1
<1>3. 1..0 = {} /\ 0 <= 0 /\ 0 + 1 = 1 /\ 0 + 0 = 0
  OBVIOUS
<1>4. DeliveredIsPrefix
  BY <1>2, <1>3 DEF DeliveredIsPrefix
<1>5. Flight = <<>>
  BY <1>1 DEF Flight
<1>6. Len(Flight) = 0
  BY <1>5
<1> DEFINE all == <<>>
           start == <<0>>
<1>7. all \in Seq(CellRecord) /\ Len(all) = 0
  OBVIOUS
<1>8. start \in Seq(Nat) /\ Len(start) = 1 /\ start[1] = 0
  OBVIOUS
<1> HIDE DEF all, start
<1>9. Layout(all, start)
  BY <1>2, <1>3, <1>7, <1>8, Zenon DEF Layout
<1>10. Position(start) = 0
  BY <1>1, <1>2, <1>3, <1>8, Zenon DEF Position
<1>11. HeaderFollows
  BY <1>1, Zenon DEF HeaderFollows
<1>12. Follows(all, start)
  BY <1>3, <1>6, <1>7, <1>10, <1>11, Zenon DEF Follows
<1> QED BY <1>4, <1>9, <1>12, Zenon DEF Tracked

LEMMA StreamNext ==
  FrameTypes /\ FrameTypes' /\ StreamInv /\ [FrameNext]_frameVars => StreamInv'
<1> SUFFICES ASSUME FrameTypes, FrameTypes', StreamInv, [FrameNext]_frameVars, Intact'
             PROVE  DeliveredIsPrefix' /\ (reader' = "open" => Tracked')
  BY Zenon DEF StreamInv
<1>1. StreamTypes /\ StreamTypes'
  BY Zenon DEF FrameTypes
<1>2. ASSUME UNCHANGED damage PROVE DeliveredIsPrefix /\ (reader = "open" => Tracked)
  BY <1>2, Zenon DEF Intact, StreamInv
<1>3. ASSUME UNCHANGED <<sent, delivered, header, damage, reader>>, Flight' = Flight,
             writer' = "open" => writer = "open"
      PROVE  DeliveredIsPrefix' /\ (reader' = "open" => Tracked')
  BY <1>2, <1>3, TrackedKept, Zenon
<1>4. ASSUME UNCHANGED <<sent, delivered, damage>>, reader' # "open"
      PROVE  DeliveredIsPrefix' /\ (reader' = "open" => Tracked')
  BY <1>2, <1>4, Zenon DEF DeliveredIsPrefix, Forged
<1>5. ASSUME NEW f \in Frames, write_frame(f)
      PROVE  DeliveredIsPrefix' /\ (reader' = "open" => Tracked')
  <2>1. UNCHANGED <<damage, reader>>
    BY <1>5, Zenon DEF write_frame, readVars
  <2>2. DeliveredIsPrefix /\ (reader = "open" => Tracked)
    BY <1>2, <2>1, Zenon
  <2> QED BY <1>1, <1>5, <2>1, <2>2, WriteTracked, Zenon
<1>6. CASE write_all_sends
  <2>1. UNCHANGED <<sent, delivered, header, damage, reader, writer>>
    BY <1>6, Zenon DEF write_all_sends, readVars
  <2>2. Flight' = Flight
    BY <1>1, <1>6, SendsKeepFlight, Zenon
  <2> QED BY <1>3, <2>1, <2>2, Zenon
<1>7. CASE write_all_fails
  <2>1. UNCHANGED <<sent, delivered, damage>> /\ reader' # "open"
    BY <1>7, Zenon DEF write_all_fails, readVars
  <2> QED BY <1>4, <2>1, Zenon
<1>8. CASE writer_closes
  <2>1. UNCHANGED <<sent, delivered, header, damage, reader, got, wire, out>> /\ writer = "open"
    BY <1>8, Zenon DEF writer_closes, readVars
  <2>2. Flight' = Flight
    BY <2>1, Zenon DEF Flight
  <2> QED BY <1>3, <2>1, <2>2, Zenon
<1>9. CASE writer_dies
  <2>1. UNCHANGED <<sent, delivered, damage, reader>>
    BY <1>9, Zenon DEF writer_dies, readVars
  <2>2. DeliveredIsPrefix /\ (reader = "open" => Tracked)
    BY <1>2, <2>1, Zenon
  <2>3. DeliveredIsPrefix'
    BY <2>1, <2>2, Zenon DEF DeliveredIsPrefix, Forged
  <2> QED BY <1>1, <1>9, <2>1, <2>2, <2>3, DeathTracked, Zenon
<1>10. CASE read_exact_receives
  <2>1. UNCHANGED <<sent, delivered, header, damage, reader, writer>>
    BY <1>10, Zenon DEF read_exact_receives, writeVars
  <2>2. Flight' = Flight
    BY <1>1, <1>10, ReceivesKeepFlight, Zenon
  <2> QED BY <1>3, <2>1, <2>2, Zenon
<1>11. CASE read_exact_fails
  <2>1. UNCHANGED <<sent, delivered, damage>> /\ reader' = "failed"
    BY <1>11, Zenon DEF read_exact_fails, writeVars
  <2>2. reader' # "open"
    BY <2>1
  <2> QED BY <1>4, <2>1, <2>2, Zenon
<1>12. CASE read_frame_checks_header
  <2>1. CASE header_ok(Values(got)) /\ length_ok(Values(got))
    <3>1. /\ header = <<>> /\ Needed = 0 /\ header' = Values(got) /\ got' = <<>>
          /\ UNCHANGED <<sent, out, wire, writer, delivered, damage>> /\ reader = "open"
      BY <1>12, <2>1, Zenon DEF read_frame_checks_header, writeVars
    <3>2. DeliveredIsPrefix /\ Tracked
      BY <1>2, <3>1, Zenon
    <3>3. DeliveredIsPrefix'
      BY <3>1, <3>2, Zenon DEF DeliveredIsPrefix, Forged
    <3>4. Tracked'
      BY <3>1, <3>2, HeaderTracked, Zenon
    <3> QED BY <3>3, <3>4, Zenon
  <2>2. CASE ~(header_ok(Values(got)) /\ length_ok(Values(got)))
    <3>1. UNCHANGED <<sent, delivered, damage>> /\ reader' = "failed"
      BY <1>12, <2>2, Zenon DEF read_frame_checks_header, writeVars
    <3>2. reader' # "open"
      BY <3>1
    <3> QED BY <1>4, <3>1, <3>2, Zenon
  <2> QED BY <2>1, <2>2, Zenon
<1>13. CASE read_frame_returns
  <2>1. CASE checksum_ok(header, Values(got))
    <3>1. /\ header # <<>> /\ Needed = 0 /\ header' = <<>> /\ got' = <<>>
          /\ delivered' = Append(delivered, [type |-> header[3], body |-> Values(got)])
          /\ UNCHANGED <<sent, out, wire, writer, damage>> /\ reader = "open"
      BY <1>13, <2>1, Zenon DEF read_frame_returns, writeVars
    <3>2. DeliveredIsPrefix /\ Tracked
      BY <1>2, <3>1, Zenon
    <3> QED BY <3>1, <3>2, ReturnTracked, Zenon
  <2>2. CASE ~checksum_ok(header, Values(got))
    <3>1. UNCHANGED <<sent, delivered, damage>> /\ reader' = "failed"
      BY <1>13, <2>2, Zenon DEF read_frame_returns, writeVars
    <3>2. reader' # "open"
      BY <3>1
    <3> QED BY <1>4, <3>1, <3>2, Zenon
  <2> QED BY <2>1, <2>2, Zenon
<1>14. CASE reader_dies
  <2>1. UNCHANGED <<sent, delivered, damage>> /\ reader' = "died"
    BY <1>14, Zenon DEF reader_dies, writeVars
  <2>2. reader' # "open"
    BY <2>1
  <2> QED BY <1>4, <2>1, <2>2, Zenon
<1>15. CASE stream_damaged
  <2>0. UNCHANGED reader
    BY <1>15, Zenon DEF stream_damaged, readVars
  <2>1. Intact
    BY <1>1, <1>15, DamageIntact, Zenon
  <2>2. DeliveredIsPrefix /\ (reader = "open" => Tracked)
    BY <2>1, Zenon DEF StreamInv
  <2> QED BY <1>1, <1>15, <2>0, <2>2, DamageTracked, Zenon
<1>16. CASE UNCHANGED frameVars
  <2>1. UNCHANGED <<sent, delivered, header, damage, reader, writer, got, wire, out>>
    BY <1>16, Zenon DEF frameVars, writeVars, readVars
  <2>2. Flight' = Flight
    BY <2>1, Zenon DEF Flight
  <2> QED BY <1>3, <2>1, <2>2, Zenon
<1> QED
  BY <1>5, <1>6, <1>7, <1>8, <1>9, <1>10, <1>11, <1>12, <1>13, <1>14, <1>15, <1>16, Zenon
  DEF FrameNext

\* A record of two fields is given by them.
LEMMA SameFrame ==
  ASSUME NEW f \in Frame, NEW r \in ReadFrame, f.type = r.type, f.body = r.body
  PROVE  f = r
BY DEF Frame, ReadFrame

(***************************************************************************)
(* As long as no length and no byte of a body is damaged, however the      *)
(* other header cells are damaged and the bytes split, a delivered frame   *)
(* differs from the one written only if a frame type was damaged: magic,   *)
(* version and checksum damage never changes what read_frame returns.      *)
(***************************************************************************)
THEOREM IntactFramesSafe == FrameSpec => [](Intact => OnlyTheTypeCanBeForged)
<1>1. FrameInit => FrameTypes /\ StreamInv
  BY TypesInit, StreamInit
<1>2. FrameTypes /\ StreamInv /\ [FrameNext]_frameVars => (FrameTypes /\ StreamInv)'
  BY TypesNext, StreamNext
<1>3. FrameTypes /\ StreamInv => (Intact => OnlyTheTypeCanBeForged)
  <2> SUFFICES ASSUME FrameTypes, DeliveredIsPrefix, NEW i \in DOMAIN delivered,
                      delivered[i] # sent[i]
               PROVE  Forged
    BY Zenon DEF StreamInv, OnlyTheTypeCanBeForged, Forged
  <2>1. sent \in Seq(Frame) /\ delivered \in Seq(ReadFrame) /\ Len(delivered) <= Len(sent)
    BY DEF FrameTypes, StreamTypes, DeliveredIsPrefix
  <2>2. i \in 1..Len(delivered) /\ i \in 1..Len(sent)
    BY <2>1
  <2>3. sent[i] \in Frame /\ delivered[i] \in ReadFrame
    BY <2>1, <2>2
  <2>4. delivered[i].body = sent[i].body /\ (delivered[i].type = sent[i].type \/ Forged)
    BY <2>2, Zenon DEF DeliveredIsPrefix
  <2> QED BY <2>3, <2>4, SameFrame, Zenon
<1> QED BY <1>1, <1>2, <1>3, PTL DEF FrameSpec

-----------------------------------------------------------------------------
(* The channel *)

\* Only an open writer has cells to send.
WriterInv == out # <<>> => writer = "open"

LEMMA WriterNext == WriterInv /\ [FrameNext]_frameVars => WriterInv'
BY Zenon DEF WriterInv, FrameNext, frameVars, writeVars, readVars, write_frame, write_all_sends,
   write_all_fails, writer_closes, writer_dies, read_exact_receives, read_exact_fails,
   read_frame_checks_header, read_frame_returns, reader_dies, stream_damaged

LEMMA BodiesAppend ==
  ASSUME NEW S, NEW s \in Seq(S), NEW f \in S
  PROVE  Bodies(Append(s, f)) = Append(Bodies(s), f.body)
BY DEF Bodies

LEMMA BodiesAre ==
  ASSUME NEW S, NEW s \in Seq(S)
  PROVE  Len(Bodies(s)) = Len(s) /\ \A i \in 1..Len(s) : Bodies(s)[i] = s[i].body
BY DEF Bodies

ChannelStep == [Channel!ChannelNext]_(Channel!channelVars)
Sound == reader # "died" /\ writer # "died" /\ damage = <<>>

LEMMA ChannelStepSafe ==
  ASSUME FrameTypes, FrameTypes', StreamInv', WriterInv, Intact', [FrameNext]_frameVars
  PROVE  ChannelStep
<1>1. StreamTypes /\ StreamTypes'
  BY Zenon DEF FrameTypes
<1>2. ASSUME UNCHANGED <<sent, delivered, Sound>> PROVE ChannelStep
  BY <1>2, Zenon DEF ChannelStep, Channel!channelVars, Sound, Bodies
<1>3. ASSUME UNCHANGED <<sent, delivered>>, ~Sound' PROVE ChannelStep
  BY <1>3, Zenon DEF ChannelStep, Channel!ChannelNext, Channel!Fail, Sound, Bodies
<1>4. ASSUME NEW f \in Frames, write_frame(f) PROVE ChannelStep
  <2>1. sent' = Append(sent, f) /\ UNCHANGED <<writer, reader, damage, delivered>>
    BY <1>4, Zenon DEF write_frame, readVars
  <2>2. f \in Frame /\ sent \in Seq(Frame)
    BY <1>1, FrameAssumption DEF StreamTypes
  <2>3. Bodies(sent') = Append(Bodies(sent), f.body)
    BY <2>1, <2>2, BodiesAppend
  <2>4. Bodies(sent)' = Append(Bodies(sent), f.body)
    BY <2>3, Zenon DEF Bodies
  <2>5. Bodies(delivered)' = Bodies(delivered) /\ Sound' = Sound
    BY <2>1, Zenon DEF Bodies, Sound
  <2>6. Channel!Write(f.body)
    BY <2>4, <2>5, Zenon DEF Channel!Write, Sound
  <2>7. f.body \in {g.body : g \in Frames}
    OBVIOUS
  <2> QED BY <2>6, <2>7, Zenon DEF ChannelStep, Channel!ChannelNext
<1>5. CASE write_all_sends
  BY <1>2, <1>5, Zenon DEF write_all_sends, readVars, Sound
<1>6. CASE write_all_fails
  <2>1. UNCHANGED <<sent, delivered, reader, damage>> /\ writer = "open" /\ writer' = "closed"
    BY <1>6, Zenon DEF write_all_fails, readVars, WriterInv
  <2>2. writer # "died" /\ writer' # "died"
    BY <2>1
  <2> QED BY <1>2, <2>1, <2>2, Zenon DEF Sound
<1>7. CASE writer_closes
  <2>1. UNCHANGED <<sent, delivered, reader, damage>> /\ writer = "open" /\ writer' = "closed"
    BY <1>7, Zenon DEF writer_closes, readVars
  <2>2. writer # "died" /\ writer' # "died"
    BY <2>1
  <2> QED BY <1>2, <2>1, <2>2, Zenon DEF Sound
<1>8. CASE writer_dies
  BY <1>3, <1>8, Zenon DEF writer_dies, readVars, Sound
<1>9. CASE read_exact_receives
  BY <1>2, <1>9, Zenon DEF read_exact_receives, writeVars, Sound
<1>10. ASSUME reader = "open", reader' = "failed", UNCHANGED <<writer, damage>>
       PROVE  Sound' = Sound
  <2>1. reader # "died" /\ reader' # "died"
    BY <1>10
  <2> QED BY <1>10, <2>1, Zenon DEF Sound
<1>11. CASE read_exact_fails
  BY <1>2, <1>10, <1>11, Zenon DEF read_exact_fails, writeVars
<1>12. CASE read_frame_checks_header
  <2>1. UNCHANGED <<sent, delivered, writer, damage>> /\ reader = "open"
    BY <1>12, Zenon DEF read_frame_checks_header, writeVars
  <2>2. reader' = reader \/ reader' = "failed"
    BY <1>12, Zenon DEF read_frame_checks_header
  <2>3. reader' = reader => Sound' = Sound
    BY <2>1, Zenon DEF Sound
  <2> QED BY <1>2, <1>10, <2>1, <2>2, <2>3, Zenon
<1>13. CASE read_frame_returns
  <2>1. CASE checksum_ok(header, Values(got))
    <3> DEFINE d == Len(delivered)
               r == [type |-> header[3], body |-> Values(got)]
    <3>1. /\ delivered' = Append(delivered, r)
          /\ UNCHANGED <<sent, writer, reader, damage>>
      BY <1>13, <2>1, Zenon DEF read_frame_returns, writeVars
    <3>2. /\ Len(delivered') <= Len(sent')
          /\ \A i \in 1..Len(delivered') : delivered'[i].body = sent'[i].body
      BY Zenon DEF StreamInv, DeliveredIsPrefix
    <3>3. r \in ReadFrame
      <4>1. delivered \in Seq(ReadFrame) /\ delivered' \in Seq(ReadFrame)
        BY <1>1 DEF StreamTypes
      <4>2. Len(delivered') = d + 1 /\ d \in Nat /\ delivered'[d + 1] = r
        <5> HIDE DEF r
        <5> QED BY <3>1, <4>1
      <4>3. d + 1 \in 1..Len(delivered')
        <5> HIDE DEF d, r
        <5> QED BY <4>2
      <4> HIDE DEF r, d
      <4> QED BY <4>1, <4>2, <4>3, ElementOfSeq
    <3>4. delivered \in Seq(ReadFrame) /\ sent \in Seq(Frame)
      BY <1>1, Zenon DEF StreamTypes
    <3>5. r.body = Values(got)
      OBVIOUS
    <3> HIDE DEF r
    <3>6. /\ d \in Nat /\ Len(delivered') = d + 1 /\ delivered'[d + 1] = r
      BY <3>1, <3>3, <3>4
    <3>7. d < Len(sent) /\ r.body = sent[d + 1].body /\ d + 1 \in 1..Len(sent)
      <4>1. d + 1 <= Len(sent) /\ d + 1 \in 1..(d + 1) /\ Len(sent) \in Nat
        BY <3>1, <3>2, <3>4, <3>6
      <4> HIDE DEF d
      <4>2. r.body = sent[d + 1].body
        BY <3>1, <3>2, <3>6, <4>1, Zenon
      <4> QED BY <3>6, <4>1, <4>2
    <3>8. /\ Len(Bodies(sent)) = Len(sent) /\ Len(Bodies(delivered)) = d
          /\ Bodies(sent)[d + 1] = sent[d + 1].body
      <4>1. \A S : \A s \in Seq(S) :
              Len(Bodies(s)) = Len(s) /\ \A i \in 1..Len(s) : Bodies(s)[i] = s[i].body
        BY BodiesAre
      <4> QED BY <3>4, <3>7, <4>1
    <3>9. Bodies(delivered') = Append(Bodies(delivered), r.body)
      BY <3>1, <3>3, <3>4, BodiesAppend
    <3>10. Bodies(delivered)' = Append(Bodies(delivered), Bodies(sent)[d + 1])
      BY <3>7, <3>8, <3>9, Zenon DEF Bodies
    <3>11. Bodies(sent)' = Bodies(sent) /\ Sound' = Sound
      BY <3>1, Zenon DEF Bodies, Sound
    <3>12. Channel!Receive
      BY <3>7, <3>8, <3>10, <3>11, Zenon DEF Channel!Receive, Sound
    <3> QED BY <3>12, Zenon DEF ChannelStep, Channel!ChannelNext
  <2>2. CASE ~checksum_ok(header, Values(got))
    BY <1>2, <1>10, <1>13, <2>2, Zenon DEF read_frame_returns, writeVars
  <2> QED BY <2>1, <2>2, Zenon
<1>14. CASE reader_dies
  BY <1>3, <1>14, Zenon DEF reader_dies, writeVars, Sound
<1>15. CASE stream_damaged
  <2>1. PICK i \in DOMAIN wire, v \in DamageValues : damage' = Append(damage, wire[i].field)
    BY <1>15 DEF stream_damaged
  <2>2. damage \in Seq(FieldName)
    BY <1>1 DEF StreamTypes
  <2> DEFINE x == wire[i].field
  <2>3. damage' = Append(damage, x)
    BY <2>1
  <2> HIDE DEF x
  <2>4. damage' # <<>>
    BY <2>2, <2>3
  <2>5. UNCHANGED <<sent, delivered>>
    BY <1>15, Zenon DEF stream_damaged, writeVars, readVars
  <2> QED BY <1>3, <2>4, <2>5, Zenon DEF Sound
<1>16. CASE UNCHANGED frameVars
  BY <1>2, <1>16, Zenon DEF frameVars, writeVars, readVars, Sound
<1> QED
  BY <1>4, <1>5, <1>6, <1>7, <1>8, <1>9, <1>11, <1>12, <1>13, <1>14, <1>15, <1>16, Zenon
  DEF FrameNext

(***************************************************************************)
(* The framing implements the safety part of the channel while no length   *)
(* and no byte of a body is damaged: the bodies delivered are the bodies   *)
(* written, whole, once and in order, through partial sends and receives,  *)
(* closes, deaths in the middle of a frame and damage to the other cells.  *)
(***************************************************************************)
THEOREM FramingImplementsChannel ==
  FrameSpec /\ []Intact =>
    Channel!ChannelInit /\ [][Channel!ChannelNext]_(Channel!channelVars)
<1>1. FrameInit => FrameTypes /\ StreamInv /\ WriterInv
  <2>1. FrameInit => WriterInv
    BY Zenon DEF FrameInit, WriterInv
  <2> QED BY <2>1, TypesInit, StreamInit
<1>2. FrameTypes /\ StreamInv /\ WriterInv /\ [FrameNext]_frameVars =>
        (FrameTypes /\ StreamInv /\ WriterInv)'
  BY TypesNext, StreamNext, WriterNext
<1>3. /\ FrameTypes /\ StreamInv /\ WriterInv /\ [FrameNext]_frameVars
      /\ (FrameTypes /\ StreamInv /\ WriterInv)' /\ Intact'
      => [Channel!ChannelNext]_(Channel!channelVars)
  BY ChannelStepSafe DEF ChannelStep
<1>4. FrameInit => Channel!ChannelInit
  <2> SUFFICES ASSUME FrameInit PROVE Channel!ChannelInit
    OBVIOUS
  <2>1. sent = <<>> /\ delivered = <<>>
    BY DEF FrameInit
  <2>2. Bodies(sent) = <<>> /\ Bodies(delivered) = <<>>
    BY <2>1 DEF Bodies
  <2>3. (reader # "died" /\ writer # "died" /\ damage = <<>>) = TRUE
    BY DEF FrameInit
  <2> QED BY <2>2, <2>3, Zenon DEF Channel!ChannelInit
<1> QED BY <1>1, <1>2, <1>3, <1>4, PTL DEF FrameSpec
=============================================================================
