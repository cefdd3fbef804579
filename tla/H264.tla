-------------------------------- MODULE H264 --------------------------------
(***************************************************************************)
(* What the gateway understands of H.264 (h264.rs, segmenter.rs): NAL units*)
(* out of an Annex B stream and into four-byte lengths, the configuration  *)
(* record made of the parameter sets, and the picture size read out of the *)
(* sequence parameter set (SPS).                                           *)
(*                                                                         *)
(* The encoder is the standard's (ITU-T H.264, 7.3 and annex B): it is what*)
(* these functions must be the inverse of.  A unit is its bytes, none of   *)
(* them zero at the end; the encoder's zero bytes are at most the one that *)
(* makes a start code four bytes long.                                     *)
(***************************************************************************)
EXTENDS Integers, Sequences, SequencesExt

CONSTANTS
    Bodies,         \* what the units that are not an SPS hold
    Shapes,         \* sequence parameter sets an encoder may send
    MaxUnits        \* bound: units of one access unit

Byte == 0 .. 255

\* Bounds: what a length in four bytes says as a positive number, and one in two.
MaxUnitLength == 2147483647
MaxSetLength == 65535

\* The offsets the standard has in an SPS (offset_for_ref_frame).
MaxOffset == 2147483647
Offsets == -MaxOffset .. MaxOffset

\* Bound: how wide and how high a picture is.
MaxPixels == 65535

ASSUME H264Assumption ==
    /\ MaxUnits \in Nat /\ Bodies \subseteq Seq(Byte)
    /\ \A b \in Bodies : b # <<>> => b[Len(b)] # 0

VARIABLES
    stream,     \* the bytes of the access unit so far
    units,      \* history: the NAL units that are in it
    shape       \* history: the SPS that is among them, or NoShape

h264Vars == <<stream, units, shape>>

NoShape == [pixels |-> <<0, 0>>, cut |-> 0]
NoSize == <<0, 0>>

NalPicture == 1
NalIdr == 5
NalSei == 6
NalSps == 7
NalPps == 8

\* SPS, PPS, SEI, access unit delimiter and filler: not in a recording.
Unrecorded == {NalSps, NalPps, NalSei, 9, 12}

-----------------------------------------------------------------------------
(* The encoder.                                                            *)

\* What the places of an octet are worth, and of a length in four bytes.
Place == <<128, 64, 32, 16, 8, 4, 2, 1>>
Weight == <<16777216, 65536, 256, 1>>

OctetBits(b) == [i \in 1 .. 8 |-> (b \div Place[i]) % 2]
Zeros(n) == [i \in 1 .. n |-> 0]

\* The binary digits of n, the highest first; and the number that digits stand for.
Binary[n \in Nat] == IF n < 2 THEN <<n>> ELSE Append(Binary[n \div 2], n % 2)

Number(base, digits) ==
    LET upTo[i \in 0 .. Len(digits)] == IF i = 0 THEN 0 ELSE base * upTo[i - 1] + digits[i]
    IN  upTo[Len(digits)]

\* Exp-Golomb codes, unsigned and signed.
UeCode(n) == Zeros(Len(Binary[n + 1]) - 1) \o Binary[n + 1]
SeCode(n) == UeCode(IF n > 0 THEN 2 * n - 1 ELSE -2 * n)

\* rbsp_trailing_bits, and eight bits to a byte.
Trailed(bits) == (bits \o <<1>>) \o Zeros(7 - (Len(bits) % 8))
Packed(bits) ==
    [k \in 1 .. Len(Trailed(bits)) \div 8 |-> Number(2, SubSeq(Trailed(bits), 8 * k - 7, 8 * k))]

\* A byte up to 3 after two zeros has a 3 put before it.
Put(s, b) ==
    IF s.zeros = 2 /\ b <= 3
    THEN [out |-> s.out \o <<3, b>>, zeros |-> IF b = 0 THEN 1 ELSE 0]
    ELSE [out |-> Append(s.out, b), zeros |-> IF b = 0 THEN s.zeros + 1 ELSE 0]

Escape(data) ==
    LET upTo[i \in 0 .. Len(data)] ==
            IF i = 0 THEN [out |-> <<>>, zeros |-> 0] ELSE Put(upTo[i - 1], data[i])
    IN  upTo[Len(data)].out

Profiles == {44, 83, 86, 100, 110, 118, 122, 128, 134, 135, 138, 139, 244}

\* A scaling list of n entries: not there, the default one, one that ends early, a flat one.
ListCode(form, n) ==
    CASE form = "absent"  -> <<0>>
      [] form = "default" -> <<1>> \o SeCode(-8)
      [] form = "ends"    -> <<1>> \o SeCode(4) \o SeCode(-12)
      [] form = "flat"    -> <<1>> \o SeCode(8) \o [i \in 1 .. n - 1 |-> 1]

Samples(chroma) == CASE chroma \in {0, 3} -> <<1, 1>> [] chroma = 2 -> <<2, 1>> [] OTHER -> <<2, 2>>

\* The picture of s in macroblocks, and the cropping that takes off what is too much.
Rows(s) == 2 - s.frames
Mbs(s) == <<(s.pixels[1] + 15) \div 16, (s.pixels[2] + 16 * Rows(s) - 1) \div (16 * Rows(s))>>
Crop(s) ==
    <<(16 * Mbs(s)[1] - s.pixels[1]) \div Samples(s.chroma)[1],
      (16 * Rows(s) * Mbs(s)[2] - s.pixels[2]) \div (Rows(s) * Samples(s.chroma)[2])>>

\* seq_parameter_set_data of s: what only some profiles have, the order of pictures, and
\* the size.
ListBits(s, n) ==
    FlattenSeq([i \in 1 .. n |->
        ListCode(s.lists[1 + ((i - 1) % Len(s.lists))], IF i <= 6 THEN 16 ELSE 64)])
ChromaBits(s) ==
    UeCode(s.chroma) \o (IF s.chroma = 3 THEN <<s.plane>> ELSE <<>>)
    \o (UeCode(0) \o (UeCode(0) \o (<<0>>
    \o (IF s.lists = <<>> THEN <<0>> ELSE <<1>> \o ListBits(s, IF s.chroma = 3 THEN 12 ELSE 8)))))
OrderBits(s) ==
    UeCode(s.order) \o
    CASE s.order = 0 -> UeCode(2)
      [] s.order = 1 ->
            <<0>> \o (SeCode(-1) \o (SeCode(1) \o (UeCode(Len(s.offsets))
            \o FlattenSeq([i \in DOMAIN s.offsets |-> SeCode(s.offsets[i])]))))
      [] OTHER -> <<>>
CropBits(s) ==
    IF Crop(s) = <<0, 0>> THEN <<0>>
    ELSE <<1>> \o (UeCode(0) \o (UeCode(Crop(s)[1]) \o (UeCode(0) \o UeCode(Crop(s)[2]))))
SizeBits(s) ==
    UeCode(3) \o (<<0>> \o (UeCode(Mbs(s)[1] - 1) \o (UeCode(Mbs(s)[2] - 1)
    \o (<<s.frames>> \o ((IF s.frames = 0 THEN <<1>> ELSE <<>>) \o (<<1>> \o CropBits(s)))))))
SpsBits(s) ==
    OctetBits(s.profile) \o (OctetBits(0) \o (OctetBits(30) \o (UeCode(0)
    \o ((IF s.profile \in Profiles THEN ChromaBits(s) ELSE <<>>)
    \o (UeCode(4) \o (OrderBits(s) \o (SizeBits(s) \o <<0>>)))))))

Nal(type, body) == <<type>> \o Escape(body)

SpsOf(s) ==
    LET whole == Nal(NalSps, Packed(SpsBits(s))) IN SubSeq(whole, 1, Len(whole) - s.cut)

\* What an encoder may send: the profiles without a chroma format have 4:2:0, the cropping
\* takes whole samples of colour off, and an SPS fits the length its record has for it.
SpsShapes ==
    [profile : Byte, chroma : 0 .. 3, plane : {0, 1}, lists : Seq({"absent", "default", "ends", "flat"}),
     order : 0 .. 2, offsets : Seq(Offsets), frames : {0, 1},
     pixels : (1 .. MaxPixels) \X (1 .. MaxPixels), cut : Nat]

ASSUME ShapesAssumption ==
    /\ \A b \in Bodies : Len(Escape(b)) < MaxUnitLength
    /\ Shapes \subseteq SpsShapes
    /\ \A s \in Shapes :
          /\ s.profile \notin Profiles => s.chroma = 1
          /\ Len(s.offsets) <= 255
          /\ s.pixels[1] % Samples(s.chroma)[1] = 0
          /\ s.pixels[2] % (Rows(s) * Samples(s.chroma)[2]) = 0
          /\ Len(SpsOf(s)) \in 1 .. MaxSetLength

-----------------------------------------------------------------------------
(* annex_b_units, to_avcc, avcc_record, parse_avcc.                        *)

NalType(unit) == unit[1] % 32

\* The loop over the bytes: units that ended, and where the one that has not begins.  A unit
\* ends before the next start code and the zero that belongs to it, or with the data; no two
\* start codes overlap.
Ended(data, s, end) ==
    IF s.begin = 0 \/ s.begin > end THEN s.units ELSE Append(s.units, SubSeq(data, s.begin, end))
IsCode(data, i) == i + 2 <= Len(data) /\ data[i] = 0 /\ data[i + 1] = 0 /\ data[i + 2] = 1
Scanned(data, s, i) ==
    IF ~IsCode(data, i) THEN s
    ELSE [units |-> Ended(data, s, IF i > 1 /\ data[i - 1] = 0 THEN i - 2 ELSE i - 1),
          begin |-> i + 3]

AnnexBUnits(data) ==
    LET scan[i \in 0 .. Len(data)] ==
            IF i = 0 THEN [units |-> <<>>, begin |-> 0] ELSE Scanned(data, scan[i - 1], i)
    IN  Ended(data, scan[Len(data)], Len(data))

BigEndian(n, bytes) == [i \in 1 .. bytes |-> (n \div Weight[4 - bytes + i]) % 256]

ToAvcc(list) == FlattenSeq([i \in DOMAIN list |-> BigEndian(Len(list[i]), 4) \o list[i]])

\* read_avcc_nal: one more unit behind a length of so many bytes, and the cursor behind it.
ReadNal(data, read, bytes) ==
    LET n == Number(256, SubSeq(data, read.cursor, read.cursor + bytes - 1))
    IN  [nals |-> Append(read.nals, SubSeq(data, read.cursor + bytes, read.cursor + bytes + n - 1)),
         cursor |-> read.cursor + bytes + n]

\* The units of a recorded frame, as its player takes them apart.
NextNal(data, read) == IF read.cursor > Len(data) THEN read ELSE ReadNal(data, read, 4)
AvccUnits(data) ==
    LET read[k \in 0 .. Len(data)] ==
            IF k = 0 THEN [nals |-> <<>>, cursor |-> 1] ELSE NextNal(data, read[k - 1])
    IN  read[Len(data)].nals

\* The pictures among the units.
Recorded(list) ==
    LET kept[i \in 0 .. Len(list)] ==
            IF i = 0 THEN <<>>
            ELSE IF NalType(list[i]) \in Unrecorded THEN kept[i - 1] ELSE Append(kept[i - 1], list[i])
    IN  kept[Len(list)]

\* An SPS too short to describe a stream has no record.
AvccRecord(sps, pps) ==
    IF Len(sps) < 4 THEN <<>>
    ELSE <<1, sps[2], sps[3], sps[4], 255, 225>>
         \o BigEndian(Len(sps), 2) \o sps \o <<1>> \o BigEndian(Len(pps), 2) \o pps

Counted(data, count, at) ==
    LET read[k \in 0 .. count] ==
            IF k = 0 THEN [nals |-> <<>>, cursor |-> at] ELSE ReadNal(data, read[k - 1], 2)
    IN  read[count]

ParseAvcc(data) ==
    LET sps == Counted(data, data[6] % 32, 7)
        pps == Counted(data, data[sps.cursor], sps.cursor + 1)
    IN  [lengths |-> data[5] % 4, sps |-> sps.nals, pps |-> pps.nals]

-----------------------------------------------------------------------------
(* dimensions.                                                             *)

TakeByte(s, b) ==
    IF s.zeros = 2 /\ b = 3 THEN [s EXCEPT !.zeros = 0]
    ELSE [out |-> Append(s.out, b), zeros |-> IF b = 0 THEN s.zeros + 1 ELSE 0]

Unescape(data) ==
    LET upTo[i \in 0 .. Len(data)] ==
            IF i = 0 THEN [out |-> <<>>, zeros |-> 0] ELSE TakeByte(upTo[i - 1], data[i])
    IN  upTo[Len(data)].out

BitsOf(data) ==
    [i \in 1 .. 8 * Len(data) |-> OctetBits(data[1 + ((i - 1) \div 8)])[1 + ((i - 1) % 8)]]

\* Where a reader is once the bits have run out: no read brings it back.
Over(bits) == Len(bits) + 2
NoField(bits) == [value |-> 0, at |-> Over(bits)]

\* A field of n bits at `at`: its value, and where the next one is.
U(bits, at, n) ==
    IF at + n > Len(bits) + 1 THEN NoField(bits)
    ELSE [value |-> Number(2, SubSeq(bits, at, at + n - 1)), at |-> at + n]

\* From the first one bit on, as many bits behind it as there are zeros before it: what they
\* stand for together is one more than the value.
FirstOne(bits, at) ==
    LET ones == {i \in at .. Len(bits) : bits[i] = 1}
    IN  IF ones = {} THEN Over(bits) ELSE CHOOSE i \in ones : \A j \in ones : i <= j
LessOne(bits, number) ==
    IF number.at = Over(bits) THEN NoField(bits) ELSE [number EXCEPT !.value = @ - 1]
CodeAt(bits, at, one) ==
    IF one = Over(bits) \/ one - at > 31 THEN NoField(bits)
    ELSE LessOne(bits, U(bits, one, one - at + 1))
Ue(bits, at) == CodeAt(bits, at, FirstOne(bits, at))

Se(bits, at) ==
    LET ue == Ue(bits, at)
        magnitude == (ue.value + 1) \div 2
    IN  [ue EXCEPT !.value = IF @ % 2 = 0 THEN -magnitude ELSE magnitude]

\* A list is read until its next scale is 0.
Scale(bits, s) ==
    LET delta == Se(bits, s.at)
        scale == (s.last + delta.value + 256) % 256
    IN  IF s.next = 0 THEN s
        ELSE [at |-> delta.at, next |-> scale, last |-> IF scale = 0 THEN s.last ELSE scale]

SkipScalingList(bits, at, size) ==
    LET upTo[i \in 0 .. size] ==
            IF i = 0 THEN [at |-> at, last |-> 8, next |-> 8] ELSE Scale(bits, upTo[i - 1])
    IN  upTo[size].at

SkipList(bits, at, i) ==
    LET present == U(bits, at, 1)
    IN  IF present.value = 0 THEN present.at
        ELSE SkipScalingList(bits, present.at, IF i <= 6 THEN 16 ELSE 64)

SkipLists(bits, at, count) ==
    LET upTo[i \in 0 .. count] == IF i = 0 THEN at ELSE SkipList(bits, upTo[i - 1], i)
    IN  upTo[count]

\* What the profiles with a chroma format say, from `at` on.
Chroma(bits, at) ==
    LET idc == Ue(bits, at)
        luma == Ue(bits, IF idc.value = 3 THEN U(bits, idc.at, 1).at ELSE idc.at)
        zero == U(bits, Ue(bits, luma.at).at, 1)
        matrix == U(bits, zero.at, 1)
    IN  [value |-> idc.value,
         at |-> IF matrix.value = 0 THEN matrix.at
                ELSE SkipLists(bits, matrix.at, IF idc.value = 3 THEN 12 ELSE 8)]

SkipOffsets(bits, at, count) ==
    LET upTo[i \in 0 .. count] == IF i = 0 THEN at ELSE Se(bits, upTo[i - 1]).at
    IN  upTo[count]

\* Where the reader is after pic_order_cnt_type and what hangs on it.
AfterOrder(bits, at) ==
    LET type == Ue(bits, at)
        always == U(bits, type.at, 1)
        cycle == Ue(bits, Se(bits, Se(bits, always.at).at).at)
    IN  CASE type.value = 0 -> Ue(bits, type.at).at
          [] type.value = 1 -> SkipOffsets(bits, cycle.at, cycle.value)
          [] OTHER          -> type.at

\* The picture size of an SPS whose reference frames and size begin at `at`.
SizeAt(bits, chroma, at) ==
    LET gaps == U(bits, Ue(bits, at).at, 1)
        width == Ue(bits, gaps.at)
        height == Ue(bits, width.at)
        frames == U(bits, height.at, 1)
        rows == 2 - frames.value
        direct == U(bits, IF frames.value = 0 THEN U(bits, frames.at, 1).at ELSE frames.at, 1)
        cropped == U(bits, direct.at, 1)
        left == Ue(bits, cropped.at)
        right == Ue(bits, left.at)
        top == Ue(bits, right.at)
        bottom == Ue(bits, top.at)
        crop == IF cropped.value = 0 THEN <<0, 0>>
                ELSE <<left.value + right.value, top.value + bottom.value>>
        size == <<(width.value + 1) * 16 - crop[1] * Samples(chroma)[1],
                  rows * (height.value + 1) * 16 - crop[2] * (Samples(chroma)[2] * rows)>>
        over == (IF cropped.value = 0 THEN cropped.at ELSE bottom.at) = Over(bits)
    IN  IF over \/ size[1] = 0 \/ size[2] = 0 THEN NoSize ELSE size

\* The picture size an SPS declares, cropping included; NoSize for one that ends too soon.
Dimensions(sps) ==
    LET bits == BitsOf(Unescape(Tail(sps)))
        profile == U(bits, 1, 8)
        level == U(bits, U(bits, profile.at, 8).at, 8)
        id == Ue(bits, level.at)
        chroma == IF profile.value \in Profiles THEN Chroma(bits, id.at) ELSE [value |-> 1, at |-> id.at]
    IN  SizeAt(bits, chroma.value, AfterOrder(bits, Ue(bits, chroma.at).at))

-----------------------------------------------------------------------------
(* An access unit arrives.                                                 *)

H264Init == stream = <<>> /\ units = <<>> /\ shape = NoShape

\* The encoder adds a unit, behind a start code of three bytes or four.
Adds(unit) ==
    /\ Len(units) < MaxUnits
    /\ \E code \in {<<0, 0, 1>>, <<0, 0, 0, 1>>} : stream' = stream \o code \o unit
    /\ units' = Append(units, unit)

AddUnit(type, body) ==
    /\ type = NalPps => Len(Nal(type, body)) <= MaxSetLength
    /\ Adds(Nal(type, body)) /\ UNCHANGED shape

\* Of an SPS that is cut, what is left is a unit if no zero is at its end.
AddSps(s) ==
    LET unit == SpsOf(s)
    IN  shape = NoShape /\ unit[Len(unit)] # 0 /\ Adds(unit) /\ shape' = s

H264Next ==
    \/ \E type \in {NalPicture, NalIdr, NalSei, NalPps}, body \in Bodies : AddUnit(type, body)
    \/ \E s \in Shapes : AddSps(s)

H264Spec == H264Init /\ [][H264Next]_h264Vars

-----------------------------------------------------------------------------
(* Properties.                                                             *)

H264TypeOK ==
    /\ stream \in Seq(Byte) /\ Len(units) <= MaxUnits
    /\ \A i \in DOMAIN units : units[i] \in Seq(Byte)
    /\ shape \in Shapes \cup {NoShape}

\* The units found in a stream are the encoder's, whatever start codes stand between them
\* (annex_b_units), and a recorded frame is taken apart into its pictures (to_avcc).
UnitsComeThrough ==
    LET found == AnnexBUnits(stream)
        pictures == Recorded(found)
    IN  found = units /\ AvccUnits(ToAvcc(pictures)) = pictures

\* The size a stream is announced with is the one its encoder meant, whatever fields its
\* SPS has before the size, and an SPS that was cut says that size or none (dimensions); the
\* record made of it gives the parameter sets back (avcc_record, parse_avcc).
DescriptionIsTrue ==
    \A i \in DOMAIN units : NalType(units[i]) = NalSps =>
        /\ Dimensions(units[i]) \in {shape.pixels} \cup (IF shape.cut = 0 THEN {} ELSE {NoSize})
        /\ \A j \in DOMAIN units : NalType(units[j]) = NalPps /\ Len(units[i]) >= 4 =>
               ParseAvcc(AvccRecord(units[i], units[j]))
                   = [lengths |-> 3, sps |-> <<units[i]>>, pps |-> <<units[j]>>]
=============================================================================
