-------------------------------- MODULE Jpeg --------------------------------
(***************************************************************************)
(* jpeg_dc.py and frame.py of vcap_py: what the structure of a JPEG says   *)
(* of a frame, and the decoder of its DC coefficients.  One payload is     *)
(* decoded: its segments one by one, then every block of the scan, the AC  *)
(* coefficients symbol by symbol.                                          *)
(*                                                                         *)
(* A payload is the bytes of a file from one place to another, for a card  *)
(* sends fragments.  Offsets count from 0.                                 *)
(***************************************************************************)
EXTENDS Integers, Sequences, SequencesExt, FiniteSetsExt

CONSTANT
    Payloads  \* what may arrive, [image, from, upTo]; an image has its bytes
              \* and what is known of them: width, height, segments (the offsets
              \* of their markers), frame (that of its frame header), scanFrom
              \* (that of its scan), luma (the values of the luma blocks, row
              \* by row) and ends (the offsets after their last bytes)

ASSUME PayloadsAssumption ==
    \A p \in Payloads : p.upTo \in 0..Len(p.image.bytes) /\ p.from \in 0..p.upTo

SOI == 216
EOI == 217
SOS == 218
DQT == 219
DRI == 221
DHT == 196
Restarts == 208..215
\* What a frame header may be marked, and what the decoder reads of it.
FrameHeaders == (192..207) \ {196, 200, 204}
Baseline == {192, 193}

(* What is a JPEG.  Its markers follow one another, by the lengths of their  *)
(* segments or, of a byte that fills, at once, up to its scan or its end.    *)

ByteAt(image, i) == image.bytes[i + 1]
Marked(image, i, marker) == ByteAt(image, i) = 255 /\ ByteAt(image, i + 1) = marker

\* The next marker after i is at j.
Follows(image, i, j) ==
    j \in image.segments /\ \A k \in image.segments : k > i => k >= j

IsSegment(image, i) ==
    LET marker == ByteAt(image, i + 1)
        length == 256 * ByteAt(image, i + 2) + ByteAt(image, i + 3)
    IN  /\ ByteAt(image, i) = 255
        /\ marker \in FrameHeaders <=> i = image.frame
        /\ \/ marker \in {SOS, EOI} /\ i > image.frame
           \/ marker = 255 /\ Follows(image, i, i + 1)
           \/ /\ marker \notin {255, 1, SOI, EOI, SOS} \cup Restarts
              /\ length >= 2 /\ Follows(image, i, i + 2 + length)

IsImage(image) ==
    LET last == Len(image.bytes) - 2 IN
    /\ image.bytes \in Seq(0..255) /\ last >= 2
    /\ Marked(image, 0, SOI) /\ Marked(image, last, EOI)
    /\ \A i \in 1..last : ~Marked(image, i, SOI)
    /\ image.segments \subseteq 2..last /\ 2 \in image.segments
    /\ image.frame \in image.segments
    /\ \A i \in image.segments : IsSegment(image, i)
    /\ image.height = 256 * ByteAt(image, image.frame + 5) + ByteAt(image, image.frame + 6)
    /\ image.width = 256 * ByteAt(image, image.frame + 7) + ByteAt(image, image.frame + 8)

\* What is cut has no end of image but at its end.
ASSUME ImagesAssumption ==
    /\ \A image \in {p.image : p \in Payloads} : IsImage(image)
    /\ \A p \in Payloads :
          (p.from = 0 /\ p.upTo = Len(p.image.bytes))
            \/ \A i \in 0..(Len(p.image.bytes) - 3) : ~Marked(p.image, i, EOI)

VARIABLES
    payload,
    step,    \* of decode_dc: "idle", "segment", "mcu", "dc", "ac" or "returned"
    offset,  \* i, where the next marker is
    header,  \* what the segments have said
    reader,  \* _BitReader: pos, and the count bits it has but has not given
    scan,    \* _decode_scan: mcu, component and block, the next coefficient,
             \* predictions, MCUs since the last restart, samples
    result   \* "image", "JpegError", or "IndexError" no handler expects

jpegVars == <<payload, step, offset, header, reader, scan, result>>

Nothing == <<>>  \* an empty dict

NoPayload == <<>>

JpegInit ==
    /\ payload = NoPayload
    /\ step = "idle" /\ offset = 2
    /\ header = [width |-> 0, height |-> 0, components |-> <<>>, restart |-> 0,
                 quant |-> Nothing, dc |-> Nothing, ac |-> Nothing]
    /\ reader = Nothing /\ scan = Nothing
    /\ result = "none"

-----------------------------------------------------------------------------
(* The payload.                                                            *)

Size == payload.upTo - payload.from
Byte(i) == payload.image.bytes[payload.from + i + 1]
Word(i) == 256 * Byte(i) + Byte(i + 1)

StartsAsJpeg == Size >= 4 /\ Byte(0) = 255 /\ Byte(1) = SOI

LooksLikeJpeg ==
    StartsAsJpeg /\ Byte(Size - 2) = 255 /\ Byte(Size - 1) = EOI

Unknown == <<>>

\* Mutant: the marker of the Huffman tables is taken for a frame header.
IsFrameHeaderOrTable(marker) == marker \in FrameHeaders \cup {DHT}

IsFrameHeader(marker) == marker \in FrameHeaders

\* jpeg_dimensions: the size in pixels, looked for from offset i.
SizeFrom[i \in Nat] ==
    IF i + 3 >= Size \/ Byte(i) # 255 THEN Unknown
    ELSE LET marker == Byte(i + 1) IN
         IF marker = 255 THEN SizeFrom[i + 1]
         ELSE IF marker \in {1, SOI, EOI} \cup Restarts THEN SizeFrom[i + 2]
         ELSE IF IsFrameHeader(marker)
         THEN IF i + 9 >= Size THEN Unknown ELSE <<Word(i + 7), Word(i + 5)>>
         ELSE IF Word(i + 2) < 2 THEN Unknown ELSE SizeFrom[i + 2 + Word(i + 2)]

JpegDimensions == IF StartsAsJpeg THEN SizeFrom[2] ELSE Unknown

-----------------------------------------------------------------------------
(* The segments before the scan.                                           *)

\* decode_dc is called.
Decode(p) ==
    /\ step = "idle"
    /\ payload' = p /\ step' = "segment"
    /\ UNCHANGED <<offset, header, reader, scan, result>>

Finish(how) == step' = "returned" /\ result' = how

\* What there is of the segment at offset, without its marker and length.
Segment ==
    [k \in 1..(Min({offset + 2 + Word(offset + 2), Size}) - offset - 4)
        |-> Byte(offset + 3 + k)]

HighNibble(b) == b \div 16
LowNibble(b) == b % 16

\* A marker, at which decode_dc has not given up.
AtMarker(markers) ==
    /\ step = "segment"
    /\ StartsAsJpeg /\ offset + 3 < Size /\ Byte(offset) = 255
    /\ Byte(offset + 1) \in markers

\* On to the segment after this one.
Onward(h) ==
    /\ header' = h
    /\ offset' = offset + 2 + Word(offset + 2)
    /\ UNCHANGED <<payload, step, reader, scan, result>>

\* It raises an exception in this segment.
Raise(what) == Finish(what) /\ UNCHANGED <<payload, offset, header, reader, scan>>

NoMarker ==
    /\ step = "segment"
    /\ ~(StartsAsJpeg /\ offset + 3 < Size /\ Byte(offset) = 255)
    /\ Raise("JpegError")

Fill ==
    /\ AtMarker({255})
    /\ offset' = offset + 1
    /\ UNCHANGED <<payload, step, header, reader, scan, result>>

Unsupported == AtMarker(FrameHeaders \ Baseline) /\ Raise("JpegError")

EndOfImage == AtMarker({EOI}) /\ Raise("JpegError")

FrameHeader ==
    /\ AtMarker(Baseline)
    /\ LET s == Segment
           component(c) == [id |-> s[7 + 3 * c], h |-> HighNibble(s[8 + 3 * c]),
                            v |-> LowNibble(s[8 + 3 * c]), quant |-> s[9 + 3 * c],
                            dc |-> 0, ac |-> 0]
       IN  IF Len(s) < 6 \/ s[1] # 8 THEN Raise("JpegError")
           ELSE IF Len(s) < 6 + 3 * s[6] THEN Raise("IndexError")
           ELSE Onward([header EXCEPT
                          !.height = 256 * s[2] + s[3], !.width = 256 * s[4] + s[5],
                          !.components = @ \o [c \in 1..s[6] |-> component(c - 1)]])

\* The tables of segment s from its byte p (from 1) on, each of them as long
\* as Length says: a sequence of their first bytes.
TablesFrom(s, Length(_)) ==
    LET from[p \in Nat] ==
            IF p > Len(s) THEN <<>> ELSE <<p>> \o from[p + Length(p)]
    IN  from[1]

QuantTables ==
    /\ AtMarker({DQT})
    /\ LET s == Segment
           width(p) == IF HighNibble(s[p]) > 0 THEN 2 ELSE 1
           tables == TablesFrom(s, LAMBDA p : 1 + 64 * width(p))
           entry(p) == IF width(p) = 2 THEN 256 * s[p + 1] + s[p + 2] ELSE s[p + 1]
       IN  IF \E p \in Range(tables) : p + width(p) > Len(s) THEN Raise("IndexError")
           ELSE Onward([header EXCEPT !.quant =
                    FoldLeft(LAMBDA q, p : LowNibble(s[p]) :> entry(p) @@ q, @, tables)])

\* _HuffTable.build: codes of a length are consecutive, and go on from those
\* of the length before, a bit longer.
Canonical(counts, symbols) ==
    LET first[length \in 1..16] ==
            IF length = 1 THEN 0 ELSE 2 * (first[length - 1] + counts[length - 1])
        before[length \in 1..16] ==
            IF length = 1 THEN 0 ELSE before[length - 1] + counts[length - 1]
        codes == UNION {{<<length, first[length] + n>> : n \in 0..(counts[length] - 1)}
                        : length \in 1..16}
    IN  [c \in codes |-> symbols[before[c[1]] + c[2] - first[c[1]] + 1]]

HuffmanTables ==
    /\ AtMarker({DHT})
    /\ LET s == Segment
           counts(p) == SubSeq(s, p + 1, Min({p + 16, Len(s)}))
           total(p) == FoldLeft(LAMBDA a, b : a + b, 0, counts(p))
           tables == TablesFrom(s, LAMBDA p : 17 + total(p))
           add(dicts, p) ==
               LET table == Canonical(counts(p), SubSeq(s, p + 17, p + 16 + total(p)))
               IN  IF HighNibble(s[p]) > 0
                   THEN [dicts EXCEPT !.ac = LowNibble(s[p]) :> table @@ @]
                   ELSE [dicts EXCEPT !.dc = LowNibble(s[p]) :> table @@ @]
       IN  IF \E p \in Range(tables) : total(p) > 0 /\ p + 16 + total(p) > Len(s)
           THEN Raise("JpegError")
           ELSE IF \E p \in Range(tables) : p + 16 > Len(s) THEN Raise("IndexError")
           ELSE LET dicts == FoldLeft(add, [dc |-> header.dc, ac |-> header.ac], tables)
                IN  Onward([header EXCEPT !.dc = dicts.dc, !.ac = dicts.ac])

RestartInterval ==
    /\ AtMarker({DRI})
    /\ IF Len(Segment) < 2 THEN Raise("IndexError")
       ELSE Onward([header EXCEPT !.restart = 256 * Segment[1] + Segment[2]])

OtherSegment ==
    /\ AtMarker((0..254) \ (FrameHeaders \cup {DQT, DHT, DRI, SOS, EOI}))
    /\ Onward(header)

-----------------------------------------------------------------------------
(* _BitReader.                                                             *)

\* Mutant: a reader at the end is fed ones.
BlankOnes == 255

\* What read_bit makes of no byte.
Blank == 0

\* _next_byte: the stuffing undone.  None at the end and at a marker, whose
\* first byte the reader has passed by then.
NextByte(pos) ==
    IF pos >= Size THEN [byte |-> Blank, pos |-> pos]
    ELSE IF Byte(pos) # 255 THEN [byte |-> Byte(pos), pos |-> pos + 1]
    ELSE IF pos + 1 < Size /\ Byte(pos + 1) = 0 THEN [byte |-> 255, pos |-> pos + 2]
    ELSE [byte |-> Blank, pos |-> pos + 1]

\* r with k bytes more
Loaded(r, k) ==
    LET with[n \in Nat] ==
            IF n = 0 THEN r
            ELSE LET next == NextByte(with[n - 1].pos)
                 IN  [pos |-> next.pos, bits |-> 256 * with[n - 1].bits + next.byte,
                      count |-> with[n - 1].count + 8]
    IN  with[k]

\* read_bits: n bits of r, and the reader after them
Read(r, n) ==
    LET full == Loaded(r, IF n <= r.count THEN 0 ELSE (n - r.count + 7) \div 8)
        rest == 2 ^ (full.count - n)
    IN  [value |-> full.bits \div rest,
         reader |-> [full EXCEPT !.bits = @ % rest, !.count = @ - n]]

NoSymbol == -1

\* decode: the shortest code the next 16 bits begin with.
Symbol(r, table) ==
    LET ahead == Read(r, 16).value
        lengths == {n \in 1..16 : <<n, ahead \div 2 ^ (16 - n)>> \in DOMAIN table}
        code == Read(r, Min(lengths))
    IN  IF lengths = {} THEN [value |-> NoSymbol, reader |-> r]
        ELSE [code EXCEPT !.value = table[<<Min(lengths), @>>]]

\* skip_restart_marker: byte aligned, after the marker if one is there.
AtRestart(r) ==
    r.pos + 1 < Size /\ Byte(r.pos) = 255 /\ Byte(r.pos + 1) \in Restarts

AfterRestart(r) == [pos |-> r.pos + 2, bits |-> 0, count |-> 0]
Aligned(r) == [r EXCEPT !.bits = 0, !.count = 0]

\* _extend: the bottom half of the range is negative.
Extend(value, size) ==
    IF size = 0 \/ value >= 2 ^ (size - 1) THEN value ELSE value - 2 ^ size + 1

-----------------------------------------------------------------------------
(* _decode_scan.                                                           *)

Ceiling(n, d) == (n + d - 1) \div d

Components == header.components
McusAcross == Ceiling(header.width, 8 * Max({Components[c].h : c \in DOMAIN Components}))
McusDown == Ceiling(header.height, 8 * Max({Components[c].v : c \in DOMAIN Components}))

\* of the image that is returned, in blocks
Across == McusAcross * Components[1].h
Down == McusDown * Components[1].v

Zeros == [c \in {Components[k].id : k \in DOMAIN Components} |-> 0]

StartOfScan ==
    /\ AtMarker({SOS})
    /\ LET s == Segment
           named(c) == {k \in 1..s[1] : s[2 * k] = c.id}
           withTables(c) == IF named(c) = {} THEN c
                            ELSE [c EXCEPT !.dc = HighNibble(s[2 * Max(named(c)) + 1]),
                                           !.ac = LowNibble(s[2 * Max(named(c)) + 1])]
       IN  IF Len(s) = 0 \/ Len(s) < 1 + 2 * s[1] THEN Raise("IndexError")
           ELSE IF Components = <<>> \/ header.width = 0 \/ header.height = 0
           THEN Raise("JpegError")
           ELSE /\ header' = [header EXCEPT !.components =
                                [c \in DOMAIN @ |-> withTables(@[c])]]
                /\ reader' = [pos |-> offset + 2 + Word(offset + 2), bits |-> 0, count |-> 0]
                /\ scan' = [mcu |-> 0, component |-> 1, block |-> 0, k |-> 1,
                            since |-> 0, predictions |-> Zeros,
                            samples |-> [b \in 0..(Across * Down - 1) |-> 0]]
                /\ step' = "mcu"
                /\ UNCHANGED <<payload, offset, result>>

\* Mutant: the predictions live on after a restart.
RestartedOnly(s) == [s EXCEPT !.since = 0]

Restarted(s) == [s EXCEPT !.since = 0, !.predictions = Zeros]

\* The next MCU, after a restart marker if it is time for one.
Mcu ==
    /\ step = "mcu"
    /\ scan.mcu < McusAcross * McusDown
    /\ step' = "dc"
    /\ IF header.restart = 0 \/ scan.since # header.restart THEN UNCHANGED <<reader, scan>>
       ELSE IF AtRestart(reader)
       THEN reader' = AfterRestart(reader) /\ scan' = Restarted(scan)
       ELSE reader' = Aligned(reader) /\ UNCHANGED scan
    /\ UNCHANGED <<payload, offset, header, result>>

AllDecoded ==
    /\ step = "mcu"
    /\ scan.mcu = McusAcross * McusDown
    /\ Finish("image")
    /\ UNCHANGED <<payload, offset, header, reader, scan>>

Component == Components[scan.component]

\* Where a block of an MCU is in an image of so many MCUs across, of h times
\* v blocks each.
PlaceOf(mcu, block, mcusAcross, h, v) ==
    LET x == (mcu % mcusAcross) * h + (block % h)
        y == (mcu \div mcusAcross) * v + block \div h
    IN  y * (mcusAcross * h) + x

\* Where the block that is decoded is.
Place == PlaceOf(scan.mcu, scan.block, McusAcross, Component.h, Component.v)

\* Dequantised, shifted and clamped.
Sample(prediction) ==
    LET q == IF Component.quant \in DOMAIN header.quant
             THEN Max({1, header.quant[Component.quant]}) ELSE 1
    IN  Max({0, Min({255, (prediction * q) \div 8 + 128})})

TablesDefined ==
    Component.dc \in DOMAIN header.dc /\ Component.ac \in DOMAIN header.ac

\* The DC coefficient of a block.
DcTerm ==
    /\ step = "dc"
    /\ TablesDefined
    /\ LET size == Symbol(reader, header.dc[Component.dc])
           diff == Read(size.reader, size.value)
           prediction == scan.predictions[Component.id] + Extend(diff.value, size.value)
       IN  /\ size.value # NoSymbol
           /\ reader' = diff.reader
           /\ scan' = [scan EXCEPT !.k = 1, !.predictions[Component.id] = prediction,
                         !.samples = IF scan.component = 1
                                     THEN [@ EXCEPT ![Place] = Sample(prediction)] ELSE @]
           /\ step' = "ac"
    /\ UNCHANGED <<payload, offset, header, result>>

\* The block after this one, of the component, of the MCU, of the next MCU.
NextBlock ==
    IF scan.block + 1 < Component.h * Component.v
    THEN step' = "dc" /\ scan' = [scan EXCEPT !.block = @ + 1]
    ELSE IF scan.component < Len(Components)
    THEN step' = "dc" /\ scan' = [scan EXCEPT !.block = 0, !.component = @ + 1]
    ELSE step' = "mcu" /\ scan' = [scan EXCEPT !.block = 0, !.component = 1,
                                               !.mcu = @ + 1, !.since = @ + 1]

\* One round of _skip_ac: the end of the block, sixteen zeros, or some zeros
\* and a coefficient.
AcTerm ==
    /\ step = "ac"
    /\ LET symbol == Symbol(reader, header.ac[Component.ac])
           run == HighNibble(symbol.value)
           size == LowNibble(symbol.value)
           k == IF size = 0 THEN IF run = 15 THEN scan.k + 16 ELSE 64 ELSE scan.k + run + 1
       IN  /\ symbol.value # NoSymbol
           /\ reader' = Read(symbol.reader, size).reader
           /\ IF k >= 64 THEN NextBlock ELSE scan' = [scan EXCEPT !.k = k] /\ UNCHANGED step
    /\ UNCHANGED <<payload, offset, header, result>>

\* A table that was not defined, or 16 bits that are no code.
ScanFails ==
    /\ \/ /\ step = "dc"
          /\ TablesDefined => Symbol(reader, header.dc[Component.dc]).value = NoSymbol
       \/ step = "ac" /\ Symbol(reader, header.ac[Component.ac]).value = NoSymbol
    /\ Raise("JpegError")

DecodeOn ==
    \/ NoMarker \/ Fill \/ Unsupported \/ EndOfImage
    \/ FrameHeader \/ QuantTables \/ HuffmanTables \/ RestartInterval
    \/ OtherSegment \/ StartOfScan
    \/ Mcu \/ DcTerm \/ AcTerm \/ ScanFails \/ AllDecoded

-----------------------------------------------------------------------------
(* Properties.                                                             *)

Original == payload.image

\* Of a frame that was cut short, or that is whole, every block that came
\* before the cut is decoded to what was encoded: over byte stuffing, padding,
\* restarts, and blocks of other components in between.
PrefixIsDecoded ==
    result = "image" =>
        /\ Across * Down = Len(Original.luma)
        /\ \A b \in DOMAIN Original.luma :
              payload.upTo >= Original.ends[b] => scan.samples[b - 1] = Original.luma[b]

\* A scan that ends too early is decoded to its end all the same, as the
\* comment in read_bit promises: whatever code the cut goes through, zeros
\* complete it.
CutScanIsFinished ==
    step = "returned" /\ payload.from = 0 /\ payload.upTo >= Original.scanFrom =>
        result = "image"

\* jpeg_dimensions and the decoder, which walk the segments by rules of their
\* own, agree on the size of what can be decoded, and jpeg_dimensions has no
\* wrong answer about a fragment of either end; a fragment is told from a
\* whole frame.
FragmentsAreTold ==
    step = "returned" =>
        /\ JpegDimensions \in {Unknown, <<Original.width, Original.height>>}
        /\ result = "image" => JpegDimensions = <<header.width, header.height>>
        /\ LooksLikeJpeg <=> Size = Len(Original.bytes)
=============================================================================
