------------------------------ MODULE MCEngine ------------------------------
(***************************************************************************)
(* The instances of the session engine that TLC checks: a behaviour runs   *)
(* one of the machines, the others keep their initial state.               *)
(***************************************************************************)
EXTENDS MediaLanes, SocketPressure, NetworkWatch, Recovery

CONSTANTS Machines

VARIABLE machine

engineVars == <<machine, mediaVars, pressVars, netVars, recVars>>

(* Recovery: the offering end through an outage, and approved by a caller; *)
(* the answering end with a wake and media, and with a pin.                *)
Ends == {[offerer |-> TRUE,  may |-> {"hold"}],
         [offerer |-> TRUE,  may |-> {"settle"}],
         [offerer |-> FALSE, may |-> {"wake", "media"}],
         [offerer |-> FALSE, may |-> {"pin"}]}

EngineInit ==
    /\ machine \in Machines
    /\ MediaInit /\ PressInit /\ NetInit /\ RecInit
    /\ machine # "watch" => Down(host)
    /\ machine # "recovery" => policy = [offerer |-> TRUE, may |-> {"hold"}]

MediaAlone == machine = "media" /\ UNCHANGED <<machine, pressVars, netVars, recVars>>
PressAlone == machine = "pressure" /\ UNCHANGED <<machine, mediaVars, netVars, recVars>>
WatchAlone == machine = "watch" /\ UNCHANGED <<machine, mediaVars, pressVars, recVars>>
RecAlone   == machine = "recovery" /\ UNCHANGED <<machine, mediaVars, pressVars, netVars>>

EngineNext ==
    \/ MediaAlone /\ MediaNext
    \/ PressAlone /\ PressNext
    \/ WatchAlone /\ NetNext
    \/ RecAlone /\ RecNext

EngineSpec == EngineInit /\ [][EngineNext]_engineVars

(* What goes on happening.  Media: callers end their add_track, events and *)
(* ticks are handled, tasks go on and offers are answered.  Pressure:      *)
(* probes come due, the interface comes back, each driver polls and goes   *)
(* on replaying.  Watcher: it polls.  Recovery: closes end, time passes,   *)
(* and a watcher that has something to drop has its turn.                  *)
FairEngineSpec ==
    /\ EngineSpec
    /\ \A i \in 1..2 : /\ WF_mediaVars(machine = "media" /\ (AttachTrack(i) \/ StoreTrack(i)))
                       /\ WF_pressVars(machine = "pressure" /\ (ProbeDue(i) \/ Interface(TRUE)))
                       /\ WF_pressVars(machine = "pressure" /\ Service(i))
                       /\ WF_pressVars(machine = "pressure" /\ \E p \in Peer : Replay(i, p) \/ OfferBuilt(i, p))
    /\ WF_recVars(machine = "recovery" /\ (DropEnds \/ CleanupEnds))
    /\ WF_recVars(machine = "recovery" /\ ConnectTimes)
    /\ WF_recVars(machine = "recovery" /\ GrowsQuiet)
    /\ WF_recVars(machine = "recovery" /\ HeartbeatTick)
    /\ WF_recVars(machine = "recovery" /\ WatchdogPoll)
    /\ WF_netVars(machine = "watch" /\ Poll)
    /\ WF_mediaVars(machine = "media" /\ RenegotiationNeeded)
    /\ WF_mediaVars(machine = "media" /\ Tick)
    /\ WF_mediaVars(machine = "media" /\ (TaskNotStable \/ TaskFreesSlots \/ TaskRemovesTracks \/ TaskOffers))
    /\ WF_mediaVars(machine = "media" /\ (Answered \/ RemoteOfferAnswered))

(* Recovery does what it decided on and no more: holds follow the network, *)
(* no waiter sits on an open link, live links are kept, and an intent is   *)
(* neither extended nor dropped.                                           *)
RecoverySound ==
    /\ [](NetTypeOK /\ RecTypeOK /\ OfflineFollows /\ NoWaiterOnOpenLink)
    /\ LiveLinkKept /\ GraceNotExtended /\ PinnedIntentKept

(* The engine goes on, whatever ICE reports and whoever interferes: an     *)
(* open lane is negotiated, a pause for sockets ends on every network, a   *)
(* hold ends once the host is connected, a dead link carries again or is   *)
(* torn down.  One machine runs, so the one i is its lane or its network.  *)
Unfinished(i) == LaneUnheard(i - 1) \/ Pressed(i) \/ HeldUp \/ DeadLink
EngineProgress == \A i \in 1..2 : Unfinished(i) ~> ~Unfinished(i)
=============================================================================
