------------------------------- MODULE MCJpeg -------------------------------
(* Small JPEGs from an encoder that knows nothing of the decoder: grey     *)
(* ones of three blocks, with and without restarts, and colour ones of two *)
(* MCUs with the chroma at half the width, or half the width and height.   *)
EXTENDS Jpeg

(* A block: tables, 0 for luma and 1 for chroma, DC difference, AC symbols. *)
Block(tables, diff, ac) == [tables |-> tables, diff |-> diff, ac |-> ac]

\* The same Huffman tables as bits and as a segment: size of a difference,
\* kind of an AC symbol.  In those of chroma a zero is not the end of a block.
DcBits == << [d \in {0, 2, 3, 8} |->
                CASE d = 0 -> <<0, 0>> [] d = 2 -> <<0, 1>>
                  [] d = 3 -> <<1, 0, 0>> [] d = 8 -> <<1, 0, 1>>],
             [d \in {0, 2} |-> IF d = 2 THEN <<0>> ELSE <<1, 0>>] >>
AcBits == << [end |-> <<0>>, one |-> <<1, 0, 0, 1>>, sixteen |-> <<1, 0, 1>>,
              last |-> <<1, 1, 0, 0, 0, 0, 0, 0, 0, 0, 1>>],
             [end |-> <<1, 0>>, one |-> <<0, 1>>] >>

Counts(c) == [n \in 1..16 |-> IF n \in DOMAIN c THEN c[n] ELSE 0]
DhtDc(id) == <<id>> \o IF id = 0 THEN Counts(<<0, 2, 2>>) \o <<0, 2, 3, 8>>
                       ELSE Counts(<<1, 1>>) \o <<2, 0>>
DhtAc(id) == <<16 + id>> \o
    IF id = 0 THEN Counts(<<1, 0, 2, 0, 0, 0, 0, 0, 0, 1>>) \o <<0, 1, 240, 225>>
    ELSE Counts(<<1, 1>>) \o <<1, 0>>

Quant(id, q) == <<id, q>> \o [n \in 1..63 |-> 16]
WideQuant(id, q) == <<16 + id, 0, q>> \o [n \in 1..126 |-> 16]

MarkerSegment(marker, bytes) == <<255, marker, 0, Len(bytes) + 2>> \o bytes

-----------------------------------------------------------------------------
Bits(value, n) == [k \in 1..n |-> (value \div 2 ^ (n - k)) % 2]

\* The bits of a difference: its own if it is positive, else all inverted.
BlockBits(b) ==
    LET absolute == IF b.diff < 0 THEN -b.diff ELSE b.diff
        n == Min({m \in 0..8 : absolute < 2 ^ m})
        bits == Bits(absolute, n)
    IN  DcBits[b.tables + 1][n]
        \o (IF b.diff < 0 THEN [k \in 1..n |-> 1 - bits[k]] ELSE bits)
        \o FlattenSeq([k \in DOMAIN b.ac |-> AcBits[b.tables + 1][b.ac[k]]])

BitsOf(blocks) == FlattenSeq([b \in DOMAIN blocks |-> BlockBits(blocks[b])])

\* Bits as bytes, filled up with ones, a zero stuffed after every 255.
Packed(bits) ==
    LET byte(k) == FoldLeft(LAMBDA v, p : 2 * v + (IF p \in DOMAIN bits THEN bits[p] ELSE 1),
                            0, [j \in 1..8 |-> 8 * (k - 1) + j])
    IN  FlattenSeq([k \in 1..((Len(bits) + 7) \div 8) |->
                      IF byte(k) = 255 THEN <<255, 0>> ELSE <<byte(k)>>])

Sum(s) == FoldLeft(LAMBDA a, b : a + b, 0, s)

\* Where these parts of a file begin.
Offsets(parts) ==
    [k \in DOMAIN parts |-> Sum([j \in 1..(k - 1) |-> Len(parts[j])])]

\* Where the frame header is among those parts.
FrameAt(parts) ==
    CHOOSE o \in {Offsets(parts)[k] : k \in {j \in DOMAIN parts :
                    Len(parts[j]) > 1 /\ parts[j][2] \in {192, 194}}} : TRUE

\* A file.  The parts before its scan are given one by one, its blocks interval
\* by interval; at is the place of each luma block of the scan in the image.
File(parts, width, height, q, intervals, at) ==
    LET before == FlattenSeq(parts)
        chunk(i) == Packed(BitsOf(intervals[i]))
                    \o IF i = Len(intervals) THEN <<255, 217>>
                       ELSE <<255, 208 + ((i - 1) % 8)>>
        chunkFrom(i) == Len(before) + Sum([j \in 1..(i - 1) |-> Len(chunk(j))])
        luma == {<<i, b>> \in (DOMAIN intervals) \X (1..20) :
                    b \in DOMAIN intervals[i] /\ intervals[i][b].tables = 0}
        earlier(x) == {y \in luma : y[1] < x[1] \/ (y[1] = x[1] /\ y[2] < x[2])}
        in(p) == CHOOSE x \in luma : at[Cardinality(earlier(x)) + 1] = p
        dc(x) == Sum([b \in 1..x[2] |-> IF intervals[x[1]][b].tables = 0
                                        THEN intervals[x[1]][b].diff ELSE 0])
    IN  [bytes |-> before \o FlattenSeq([i \in DOMAIN intervals |-> chunk(i)]),
         width |-> width, height |-> height, scanFrom |-> Len(before),
         segments |-> Range(Offsets(parts)) \ {0}, frame |-> FrameAt(parts),
         luma |-> [p \in DOMAIN at |->
                     Max({0, Min({255, ((dc(in(p)) * q) \div 8) + 128})})],
         ends |-> [p \in DOMAIN at |->
                     chunkFrom(in(p)[1])
                     + Len(Packed(BitsOf(SubSeq(intervals[in(p)[1]], 1, in(p)[2]))))]]

-----------------------------------------------------------------------------
GreyHeader(interval) ==
    <<<<255, 216>>, MarkerSegment(224, <<74, 70>>), MarkerSegment(219, Quant(0, 8)),
      MarkerSegment(196, DhtDc(0)), <<255>>, MarkerSegment(196, DhtAc(0))>>
        \o (IF interval = 0 THEN <<>> ELSE <<MarkerSegment(221, <<0, interval>>)>>)
        \o <<MarkerSegment(192, <<8, 0, 8, 0, 20, 1, 1, 17, 0>>),
             MarkerSegment(218, <<1, 1, 0, 0, 63, 0>>)>>

ColourHeader(sampling, width, height, interval) ==
    <<<<255, 216>>,
      MarkerSegment(192, <<8, 0, height, 0, width, 3, 1, sampling, 0, 2, 17, 1, 3, 17, 1>>),
      MarkerSegment(219, WideQuant(0, 12)), MarkerSegment(219, Quant(1, 8)),
      MarkerSegment(196, DhtDc(0) \o DhtAc(0) \o DhtDc(1) \o DhtAc(1))>>
        \o (IF interval = 0 THEN <<>> ELSE <<MarkerSegment(221, <<0, interval>>)>>)
        \o <<MarkerSegment(218, <<3, 1, 0, 2, 17, 3, 17, 0, 63, 0>>)>>

\* Blocks one after the other in intervals of so many, 0 for one of all.
Cut(blocks, n) ==
    IF n = 0 THEN <<blocks>>
    ELSE [i \in 1..((Len(blocks) + n - 1) \div n) |->
            SubSeq(blocks, (i - 1) * n + 1, Min({i * n, Len(blocks)}))]

AcPatterns ==
    <<<<"end">>, <<"one", "sixteen", "end">>, <<"sixteen", "sixteen", "sixteen", "last">>>>

Grey(diffs, pattern, interval) ==
    File(GreyHeader(interval), 20, 8, 8,
         Cut([b \in 1..3 |-> Block(0, diffs[b], AcPatterns[((pattern + b) % 3) + 1])], interval),
         <<1, 2, 3>>)

Chroma(diff, ac) == Block(1, diff, ac)

ColourMcu(lumas, diffs, chroma) ==
    [b \in 1..lumas |-> Block(0, diffs[b], <<"one", "end">>)]
        \o <<Chroma(chroma, <<"end">>), Chroma(-chroma, <<"one", "end">>)>>

Colour(lumas, diffs, interval) ==
    LET mcus == ColourMcu(lumas, diffs, 3) \o ColourMcu(lumas, Reverse(diffs), 0)
    IN  File(ColourHeader(IF lumas = 2 THEN 33 ELSE 34, 30, IF lumas = 2 THEN 8 ELSE 12, interval),
             30, IF lumas = 2 THEN 8 ELSE 12, 12,
             Cut(mcus, interval * (lumas + 2)),
             IF lumas = 2 THEN <<1, 2, 3, 4>> ELSE <<1, 2, 5, 6, 3, 4, 7, 8>>)

Differences == {3, -200, 255}

GreyImages ==
    {Grey(diffs, pattern, interval) :
        diffs \in [1..3 -> Differences], pattern \in {0, 1}, interval \in 0..2}

ColourImages ==
    {Colour(2, <<3, -6>>, 0), Colour(2, <<-200, 255>>, 1),
     Colour(4, <<255, -3, 7, 0>>, 1), Colour(4, <<0, -255, 2, 4>>, 0)}

\* The scan of an image without n bytes of it: what came before is known,
\* and nothing else.
Mangled(image, at, n) ==
    LET never == Len(image.bytes) + 1
    IN  [image EXCEPT
           !.bytes = SubSeq(@, 1, at) \o SubSeq(@, at + n + 1, Len(@)),
           !.scanFrom = never,
           !.ends = [b \in DOMAIN @ |-> IF @[b] <= at THEN @[b] ELSE never]]

\* Files with nothing to decode: before the scan, of this kind of frame.
Undecodable(kind, before) ==
    LET parts == <<<<255, 216>>, MarkerSegment(kind, <<8, 0, 8, 0, 8, 1, 1, 17, 0>>)>>
                     \o before \o <<MarkerSegment(218, <<1, 1, 0, 0, 63, 0>>)>>
        file == FlattenSeq(parts) \o <<10, 255, 217>>
    IN  [bytes |-> file, width |-> 8, height |-> 8, scanFrom |-> Len(file) + 1,
         segments |-> Range(Offsets(parts)) \ {0}, frame |-> FrameAt(parts),
         luma |-> <<0>>, ends |-> <<Len(file) + 1>>]

\* Progressive; without Huffman tables; ended before its scan.
UndecodableImages ==
    {Undecodable(194, <<>>), Undecodable(192, <<>>), Undecodable(192, <<<<255, 217>>>>)}

Part(image, from, upTo) == [image |-> image, from |-> from, upTo |-> upTo]
Whole(image) == Part(image, 0, Len(image.bytes))

\* All that end in the scan; of some, all that end before it, all that have
\* no head, and those that lost bytes of the scan.
MCPayloads ==
    LET colour == ColourImages
        some == colour \cup {Grey(<<255, 3, -200>>, 0, 1)}
    IN  UNION {{Part(image, 0, u) : u \in image.scanFrom..Len(image.bytes)}
               : image \in GreyImages \cup colour}
        \cup UNION {{Part(image, 0, u) : u \in 0..Len(image.bytes)} : image \in some}
        \cup UNION {{Part(image, f, Len(image.bytes)) : f \in 1..Len(image.bytes)}
                    : image \in some}
        \cup UNION {{Whole(Mangled(image, at, n)) :
                        at \in image.scanFrom..(Len(image.bytes) - 7), n \in 1..4}
                    : image \in some}
        \cup {Whole(image) : image \in UndecodableImages}
=============================================================================
