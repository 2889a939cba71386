------------------------------- MODULE Verify -------------------------------
(***************************************************************************)
(* tools/vcap-verify on what SegmentWriter has left behind: opened by the  *)
(* reader, every index entry counted, some of the frames read.             *)
(***************************************************************************)
EXTENDS SegmentWriter, SequencesExt, FiniteSetsExt

CONSTANT
    Samples  \* --sample: frames to check without --deep

ASSUME SamplesAssumption == Samples \subseteq Nat \ {0}

\* Nothing writes the recording any more.
Over == fate # "alive" \/ pc \in {"closed", "abandoned"}

\* IndexReader: whole records only, a fragment at the end is ignored.
RecordsIn(s) == SubSeq(s.recs, 1, s.indexOs)

\* The entries of the segments a manifest lists, the first n, as one sequence.
Entries(n) ==
    FlattenSeq([i \in 1..n |->
        [k \in DOMAIN RecordsIn(segs[i]) |->
            [segment |-> segs[i], record |-> RecordsIn(segs[i])[k]]]])

\* Recording._load: the stream has fewer bytes than the entry says.
Truncated(e) == End(e.record) > e.segment.streamOs

\* Mutant: the last frame is in the sample only if the stride hits it.
SampleByStride(count, sample) ==
    {i \in 1..count : (i - 1) % Max({1, count \div sample}) = 0}

\* The frames that are read, numbered from 1.
Sample(count, sample) ==
    {1, count} \cup {i \in 1..count : (i - 1) % Max({1, count \div sample}) = 0}

\* What main() finds, of the frames of a set.
Verdict(entries, read) ==
    IF entries = <<>> THEN "no frames"
    ELSE IF \E i \in read : Truncated(entries[i]) THEN "truncated"
    ELSE "usable"

\* "A truncated stream shows up ... regardless": however a recording came to
\* its end, and however many of its segments the manifest lists, a sample
\* finds it damaged if reading every frame would.
SampleIsEnough ==
    Over =>
        \A n \in 1..Len(segs), sample \in Samples :
            LET entries == Entries(n)
            IN  Verdict(entries, Sample(Len(entries), sample))
                    = Verdict(entries, DOMAIN entries)
=============================================================================
