------------------------------ MODULE FrameLog ------------------------------
(***************************************************************************)
(* What handing a frame to the recorder promises, without saying how.      *)
(*                                                                         *)
(* A recorder accepts frames, commits them to the recording in the order   *)
(* in which it accepted them, and is finally closed with a verdict.  Once  *)
(* it breaks it commits nothing more, so the recording never has a hole;   *)
(* and a verdict of "ok" means that every accepted frame was committed.    *)
(* That much the docstrings of AsyncWriter.write and AsyncWriter.close     *)
(* state.  "abandoned" is what the code adds to it: a close that stopped   *)
(* waiting, and promises nothing.  Module AsyncWriter implements all this  *)
(* with a queue and a thread.                                              *)
(***************************************************************************)
EXTENDS Naturals, Sequences

CONSTANT
    Frame       \* the frames a caller may hand over

VARIABLES
    accepted,   \* frames accepted so far, in order
    committed,  \* frames in the recording, in order
    broken,     \* the recording can no longer grow
    verdict     \* "none" while open, then what close told the caller

logVars == <<accepted, committed, broken, verdict>>

LogInit ==
    /\ accepted = <<>>
    /\ committed = <<>>
    /\ broken = FALSE
    /\ verdict = "none"

\* A frame may still be accepted after the recording broke: the caller has
\* not heard of it yet.
Accept(f) ==
    /\ verdict = "none"
    /\ accepted' = Append(accepted, f)
    /\ UNCHANGED <<committed, broken, verdict>>

Commit ==
    /\ ~broken
    /\ Len(committed) < Len(accepted)
    /\ committed' = Append(committed, accepted[Len(committed) + 1])
    /\ UNCHANGED <<accepted, broken, verdict>>

Break ==
    /\ ~broken
    /\ broken' = TRUE
    /\ UNCHANGED <<accepted, committed, verdict>>

CloseOk ==
    /\ verdict = "none"
    /\ ~broken
    /\ committed = accepted
    /\ verdict' = "ok"
    /\ UNCHANGED <<accepted, committed, broken>>

CloseRaises ==
    /\ verdict = "none"
    /\ verdict' = "raised"
    /\ UNCHANGED <<accepted, committed, broken>>

\* The caller stops waiting: what it handed over may still be committed, or
\* may not.
CloseGivesUp ==
    /\ verdict = "none"
    /\ verdict' = "abandoned"
    /\ UNCHANGED <<accepted, committed, broken>>

LogNext ==
    \/ \E f \in Frame : Accept(f)
    \/ Commit
    \/ Break
    \/ CloseOk
    \/ CloseRaises
    \/ CloseGivesUp

LogSpec == LogInit /\ [][LogNext]_logVars
=============================================================================
