-------------------------------- MODULE View --------------------------------
(***************************************************************************)
(* main() of tools/vcap-view: find the card (Discovery), start the server  *)
(* whose handler threads follow the slot (LatestFrame), open the device    *)
(* and put every frame that arrives into the slot.                         *)
(***************************************************************************)
EXTENDS LatestFrame, Discovery

viewVars == <<vars, discoveryVars>>

ViewInit == DiscoveryInit /\ Init

\* The server is started before the device is opened, so a browser may ask
\* before there is a frame.
Serving == step \in {"found", "open", "streaming"}

\* The frames arrive from here on.  Nothing looks at the machine or at the
\* search again, and both are forgotten to keep the states few.
Stream ==
    /\ step = "open"
    /\ step' = "streaming"
    /\ place' = [c \in Cards |-> Gone] /\ links' = [l \in Links |-> Gone]
    /\ denied' = {} /\ moves' = 0 /\ hint' = NoHint /\ device' = NoDevice
    /\ UNCHANGED <<search, vars>>

PutFrame == step = "streaming" /\ Put /\ UNCHANGED discoveryVars

Handle(c) == Serving /\ Consume(c) /\ UNCHANGED discoveryVars

\* What the threads do when nothing obliges them to.
Stray(c) == Serving /\ (Get(c) \/ Expire(c)) /\ UNCHANGED discoveryVars

ViewNext ==
    \/ (Find \/ OpenNode \/ Move) /\ UNCHANGED vars
    \/ Stream
    \/ PutFrame
    \/ \E c \in Consumers : Handle(c) \/ Stray(c)

ViewSpec == ViewInit /\ [][ViewNext]_viewVars /\ \A c \in Consumers : WF_viewVars(Handle(c))
=============================================================================
