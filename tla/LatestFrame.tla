---------------------------- MODULE LatestFrame -----------------------------
(***************************************************************************)
(* ring.LatestFrame of vcap_py: one slot guarded by a condition variable,  *)
(* overwritten by a producer and read by consumers that follow it by       *)
(* generation, the way the handler threads of tools/vcap-view do.          *)
(*                                                                         *)
(* A frame is identified with the generation its put() created, 0 standing *)
(* for no frame.  Code holding the lock is one step; waiting releases the  *)
(* lock, and a waiter that was notified or timed out must take it again,   *)
(* so puts and other consumers come in between.                            *)
(***************************************************************************)
EXTENDS Integers, FiniteSets

CONSTANTS
    Consumers,  \* the threads that call wait_for_new
    MaxPuts,    \* bound: calls of put()
    MayTimeOut  \* TRUE: wait_for_new is called with a timeout

ASSUME ConsumersAssumption == IsFiniteSet(Consumers)
ASSUME MaxPutsAssumption == MaxPuts \in Nat
ASSUME TimeOutAssumption == MayTimeOut \in BOOLEAN

VARIABLES
    frame,       \* _frame: the generation that put it, 0 for None
    generation,  \* _generation
    overwritten, \* overwritten
    state,       \* per consumer: "idle", "waiting" in the condition, or
                 \* "notified" or "expired" and about to retake the lock
    since,       \* per consumer: the generation it passes to wait_for_new
    shown,       \* history, per consumer: the frames returned to it
    late         \* history, per consumer: its last call ended by timeout

vars == <<frame, generation, overwritten, state, since, shown, late>>

TypeOK ==
    /\ frame \in 0..MaxPuts
    /\ generation \in 0..MaxPuts
    /\ overwritten \in 0..MaxPuts
    /\ state \in [Consumers -> {"idle", "waiting", "notified", "expired"}]
    /\ since \in [Consumers -> -1..MaxPuts]
    /\ shown \in [Consumers -> SUBSET (0..MaxPuts)]
    /\ late \in [Consumers -> BOOLEAN]

\* vcap-view starts each viewer at generation -1.
Init ==
    /\ frame = 0
    /\ generation = 0
    /\ overwritten = 0
    /\ state = [c \in Consumers |-> "idle"]
    /\ since = [c \in Consumers |-> -1]
    /\ shown = [c \in Consumers |-> {}]
    /\ late = [c \in Consumers |-> FALSE]

Waiters == {c \in Consumers : state[c] = "waiting"}

\* Mutant: notify() for notify_all().
NotifyOne ==
    IF Waiters = {} THEN UNCHANGED state
    ELSE \E c \in Waiters : state' = [state EXCEPT ![c] = "notified"]

NotifyAll ==
    state' = [c \in Consumers |-> IF c \in Waiters THEN "notified" ELSE state[c]]

Put ==
    /\ generation < MaxPuts
    /\ overwritten' = IF frame # 0 THEN overwritten + 1 ELSE overwritten
    /\ frame' = generation + 1
    /\ generation' = generation + 1
    /\ NotifyAll
    /\ UNCHANGED <<since, shown, late>>

\* wait_for_new or get returns (_frame, _generation) to c, which remembers
\* the generation for its next call.
Return(c, expired) ==
    /\ state' = [state EXCEPT ![c] = "idle"]
    /\ since' = [since EXCEPT ![c] = generation]
    /\ shown' = [shown EXCEPT ![c] = IF frame = 0 THEN @ ELSE @ \cup {frame}]
    /\ late' = [late EXCEPT ![c] = expired]
    /\ UNCHANGED <<frame, generation, overwritten>>

Get(c) == state[c] = "idle" /\ Return(c, FALSE)

\* wait_for_new when something newer is already there
CallBehind(c) ==
    /\ state[c] = "idle"
    /\ generation > since[c]
    /\ Return(c, FALSE)

\* wait_for_new when the consumer is up to date: release the lock and wait
CallUpToDate(c) ==
    /\ state[c] = "idle"
    /\ ~(generation > since[c])
    /\ state' = [state EXCEPT ![c] = "waiting"]
    /\ UNCHANGED <<frame, generation, overwritten, since, shown, late>>

Expire(c) ==
    /\ MayTimeOut
    /\ state[c] \in {"waiting", "notified"}
    /\ state' = [state EXCEPT ![c] = "expired"]
    /\ UNCHANGED <<frame, generation, overwritten, since, shown, late>>

\* Mutant: wait() for wait_for().
WakeToNewUnchecked(c) ==
    /\ state[c] \in {"notified", "expired"}
    /\ Return(c, FALSE)

\* The lock is retaken and wait_for evaluates its predicate once more.
WakeToNew(c) ==
    /\ state[c] \in {"notified", "expired"}
    /\ generation > since[c]
    /\ Return(c, FALSE)

WakeToNothing(c) ==
    /\ state[c] = "expired"
    /\ ~(generation > since[c])
    /\ Return(c, TRUE)

Consume(c) == CallBehind(c) \/ CallUpToDate(c) \/ WakeToNew(c)
                \/ WakeToNothing(c)

Next == Put \/ \E c \in Consumers : Get(c) \/ Consume(c) \/ Expire(c)

Spec == Init /\ [][Next]_vars

\* A thread that has been woken gets the lock sooner or later, and a viewer
\* calls wait_for_new again; nothing obliges the device to send a frame.
FairSpec == Spec /\ \A c \in Consumers : WF_vars(Consume(c))

-----------------------------------------------------------------------------
(* Properties.                                                             *)

\* A consumer gets the newest frame at the moment it is served, never an
\* older one that happened to be waiting, and unless its wait timed out it
\* gets one it has not seen.
ServedNewest ==
    [][\A c \in Consumers :
          since'[c] # since[c] \/ late'[c] # late[c] \/ shown'[c] # shown[c] =>
              /\ since'[c] = generation
              /\ state[c] # "idle" /\ ~late'[c] =>
                    frame \notin shown[c] /\ frame \in shown'[c]]_vars

\* The slot and its generation move together, so a consumer up to date by
\* generation has really been shown the frame in the slot; and only such a
\* consumer is asleep on the condition: no wakeup is lost.
SleepersHaveSeenIt ==
    \A c \in Consumers :
        /\ frame # 0 /\ since[c] = generation => frame \in shown[c]
        /\ state[c] = "waiting" => since[c] = generation

\* A frame put while a consumer is waiting, or before it asks, is served to
\* it, or a newer one is: no consumer sleeps through the stream.
NewFrameIsServed ==
    \A c \in Consumers : \A n \in 1..MaxPuts :
        (generation = n) ~> (since[c] >= n)
=============================================================================
