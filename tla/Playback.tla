------------------------------ MODULE Playback ------------------------------
(***************************************************************************)
(* The reading side of vcap_py: one call per behaviour, a lookup in a      *)
(* recording or the decoding of a frame of one.                            *)
(***************************************************************************)
EXTENDS Recording, Jpeg

playbackVars == <<vars, jpegVars>>

PlaybackInit == Init /\ JpegInit

\* Decoding does not look at the recording the frame is from: bound, that of
\* no segments stands for all.
AskDecode ==
    /\ rec = <<>>
    /\ Ask([op |-> "decode"])
    /\ \E p \in Payloads : Decode(p)
    /\ UNCHANGED <<answered, answer, searchVars>>

Lookup == Next /\ UNCHANGED jpegVars
Decoding == DecodeOn /\ UNCHANGED vars
Decoded == step = "returned" /\ UNCHANGED playbackVars

PlaybackNext ==
    \/ Lookup
    \/ AskDecode
    \/ Decoding
    \/ Decoded

PlaybackSpec == PlaybackInit /\ [][PlaybackNext]_playbackVars
=============================================================================
