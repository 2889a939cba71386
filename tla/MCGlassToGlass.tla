-------------------------- MODULE MCGlassToGlass ---------------------------
(* The 20 bits of the program, in frames of 100 columns: bars of two, two  *)
(* and a half and three columns, dark and bright surroundings on either    *)
(* side, a washed out picture, and a desktop without the pattern.          *)
EXTENDS GlassToGlass

MCWidth == 100

Scene(left, pitch, white, black, before, after) ==
    [covered |-> FALSE, left |-> left, pitch |-> pitch, white |-> white,
     black |-> black,
     background |-> [x \in 0..(MCWidth - 1) |-> IF x < left THEN before ELSE after]]

\* A desktop, bright in these columns.
Desktop(bright) ==
    [covered |-> TRUE, left |-> 0, pitch |-> 4, white |-> 255, black |-> 0,
     background |-> [x \in 0..(MCWidth - 1) |-> IF x \in bright THEN 200 ELSE 20]]

MCScenes ==
    <<Scene(10, 4, 235, 18, 24, 24),
     Scene(10, 5, 150, 70, 80, 80),
     Scene(8, 6, 235, 18, 250, 24),
     Scene(20, 4, 235, 18, 24, 250),
     Scene(7, 5, 235, 18, 250, 250),
     Desktop((20..39) \cup {99})>>

\* The second painting is on the other side of the wrap.
MCFirstPaint == 2 * WrapMs - 8
MCGaps == {8, 1200}

Take(lag, torn, mix, misread, state) ==
    [lag |-> lag, torn |-> torn, mix |-> mix, misread |-> misread, state |-> state]

MCTakes ==
    {Take(40, FALSE, 4, 0, state) : state \in {"ok", "flagged", "broken"}}
        \cup {Take(-3, FALSE, 4, 0, "ok")}
        \cup {Take(40, TRUE, mix, 0, "ok") : mix \in 1..3}
        \cup {Take(40, FALSE, 4, bar, "ok") : bar \in {18, 28}}
=============================================================================
