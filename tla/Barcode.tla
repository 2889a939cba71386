------------------------------ MODULE Barcode -------------------------------
(***************************************************************************)
(* barcode.py of vcap_py: a number as a row of black and white bars, and   *)
(* the number back from what a capture card made of them.                  *)
(*                                                                         *)
(* A picture is a row of column means, numbered from 0, each a level in    *)
(* 0..255.  Positions and levels are fractions in the code and exact here: *)
(* a position is a number of columns times a denominator of its own, a     *)
(* mean level is scaled by LevelScale.                                     *)
(***************************************************************************)
EXTENDS Integers, Nearness, Sequences, FiniteSets, FiniteSetsExt

CONSTANT
    DataBits  \* bits of a number, 20 in the program

ASSUME DataBitsAssumption == DataBits \in Nat \ {0} /\ 2 ^ DataBits \in Nat \ {0}

CheckBits == 4
TotalBars == 2 + DataBits + CheckBits + 2

\* Numbers count modulo this.
WrapMs == 2 ^ DataBits

Refused == -1  \* DecodeError
Crashed == -2  \* ZeroDivisionError

-----------------------------------------------------------------------------
(* A number as bars.                                                       *)

Bit(n, i) == (n \div 2 ^ i) % 2 = 1

\* Mutant: the check repeats the lowest nibble.
CheckBitLowest(n, k) == Bit(n, k)

\* Bit k of the exclusive or of the nibbles of n.
CheckBit(n, k) ==
    Cardinality({i \in 0..(DataBits - 1) : i % CheckBits = k /\ Bit(n, i)}) % 2 = 1

\* White, black, the number, its check, black, white; most significant first.
Encode(n) ==
    <<TRUE, FALSE>>
        \o [i \in 1..DataBits |-> Bit(n, DataBits - i)]
        \o [i \in 1..CheckBits |-> CheckBit(n, CheckBits - i)]
        \o <<FALSE, TRUE>>

\* The number a sequence of bits spells.
Spelled(bits) ==
    MapThenSumSet(LAMBDA i : IF bits[i] THEN 2 ^ (Len(bits) - i) ELSE 0,
                  1..Len(bits))

-----------------------------------------------------------------------------
(* Where the bars are.                                                     *)

Width(columns) == Cardinality(DOMAIN columns)
Levels(columns) == {columns[x] : x \in DOMAIN columns}

\* MIN_CONTRAST of the range of levels, 0.15 * 255 = 153/4
Contrasted(white, black, scale) == 4 * (white - black) >= 153 * scale

\* The columns above the middle of the extremes.
Bright(columns) ==
    LET middle == Min(Levels(columns)) + Max(Levels(columns))
    IN  {x \in DOMAIN columns : 2 * columns[x] > middle}

\* The first and the last run of bright columns, [start, end), of
\* bright_runs.
Outermost(columns) ==
    LET bright == Bright(columns)
        dark == (0..Width(columns)) \ bright
    IN  [firstStart |-> Min(bright),
         firstEnd |-> Min({x \in dark : x > Min(bright)}),
         lastStart |-> Max(({-1} \cup dark) \cap (-1..Max(bright))) + 1,
         lastEnd |-> Max(bright) + 1]

\* The four ways in which a run at either end can have merged with something
\* bright beside the pattern.  The pattern starts at left / bars, and a bar
\* is span / bars wide; the span of "bars" bars goes from edge to edge.
Geometry(from, to, bars, fromIsInner) ==
    [left |-> from * bars - (IF fromIsInner THEN to - from ELSE 0),
     span |-> to - from, bars |-> bars]

Candidates(r) ==
    <<Geometry(r.firstStart, r.lastEnd, TotalBars, FALSE),
      Geometry(r.firstEnd, r.lastStart, TotalBars - 2, TRUE),
      Geometry(r.firstStart, r.lastStart, TotalBars - 1, FALSE),
      Geometry(r.firstEnd, r.lastEnd, TotalBars - 1, TRUE)>>

\* MIN_PITCH_COLUMNS, 3/2
Plausible(g) == g.span > 0 /\ 2 * g.span >= 3 * g.bars

-----------------------------------------------------------------------------
(* What the bars say.                                                      *)

\* Python's round of n/d: a half goes to the even neighbour.
Rounded(n, d) ==
    LET down == n \div d
        rest == 2 * (n % d)
    IN  IF rest < d \/ (rest = d /\ down % 2 = 0) THEN down ELSE down + 1

\* sample_bars: the middle half of a bar, counted from 0, as the columns
\* from .. upTo - 1; at least one column, and not beyond the last.
Sampled(columns, g, bar) ==
    LET edge(quarter) == Rounded(4 * g.left + (4 * bar + quarter) * g.span, 4 * g.bars)
        from == Max({0, edge(1)})
    IN  [from |-> from,
         upTo |-> Min({Width(columns), Max({from + 1, edge(3)})})]

\* A mean is a sum divided by a number of columns up to 4.
LevelScale == 12

\* A bar that begins beyond the last column has no columns, and their number
\* is negative: its level is 0.
MeanLevel(columns, s) ==
    IF s.upTo <= s.from THEN 0
    ELSE (LevelScale * MapThenSumSet(LAMBDA x : columns[x], s.from..(s.upTo - 1)))
            \div (s.upTo - s.from)

\* Every bar is near to the white reference or to the black one:
\* BIMODAL_TOLERANCE.
Bimodal(level, white, black) ==
    \A b \in DOMAIN level : \E reference \in {white, black} :
        10 * Distance(level[b], reference) <= 3 * (white - black)

\* The number in bars with these levels.
Deciphered(level, white, black) ==
    LET bits == [i \in 1..TotalBars |-> 2 * level[i - 1] > white + black]
        value == Spelled(SubSeq(bits, 3, 2 + DataBits))
    IN  IF bits = Encode(value) THEN value ELSE Refused

\* _decode_at
DecodeAt(columns, g) ==
    LET sampled == [b \in 0..(TotalBars - 1) |-> Sampled(columns, g, b)]
        level == [b \in 0..(TotalBars - 1) |-> MeanLevel(columns, sampled[b])]
        white == level[0]
        black == level[1]
    IN  IF \E b \in DOMAIN sampled : sampled[b].from = sampled[b].upTo THEN Crashed
        ELSE IF \/ ~Contrasted(white, black, LevelScale)
                \/ ~Bimodal(level, white, black)
        THEN Refused
        ELSE Deciphered(level, white, black)

\* decode_columns: the first candidate that is not refused.
DecodeColumns(columns) ==
    LET runs == Outermost(columns)
        candidates == SelectSeq(Candidates(runs), Plausible)
        read == [i \in DOMAIN candidates |-> DecodeAt(columns, candidates[i])]
        taken == {i \in DOMAIN candidates : read[i] # Refused}
    IN  IF \/ Width(columns) < 2 * TotalBars
           \/ ~Contrasted(Max(Levels(columns)), Min(Levels(columns)), 1)
           \/ runs.firstEnd = runs.lastEnd
           \/ taken = {}
        THEN Refused ELSE read[Min(taken)]

-----------------------------------------------------------------------------
(* The time of a number.                                                   *)

\* Mutant: the time is looked for in the current period only.
ReconstructMsHere(encoded, reference) ==
    (reference \div WrapMs) * WrapMs + encoded

\* reconstruct_ms: numbers wrap every WRAP_MS.
ReconstructMs(encoded, reference) == Recovered(encoded, reference, WrapMs)
=============================================================================
