----------------------------- MODULE MediaLanes -----------------------------
(***************************************************************************)
(* The media lanes of one peer session (transport/webrtc.rs) and the       *)
(* renegotiation that tells the far side about them (engine/mod.rs,        *)
(* service_media_renegotiations).                                          *)
(*                                                                         *)
(* A lane slot is empty, open, or draining: a close only marks the slot,   *)
(* so that a quick reopen costs no negotiation, and a reaper removes the   *)
(* tracks of the drains that outlived the grace.  Three kinds of task run  *)
(* at once: the callers that write or open a lane (each splits where       *)
(* add_track awaits), the driver that handles the RenegotiationNeeded      *)
(* events and ticks, and the renegotiation task a tick spawns.  Video and  *)
(* audio pools are independent and alike; one pool is modelled.            *)
(***************************************************************************)
EXTENDS Naturals

CONSTANTS
    Caller,      \* tasks that write to or open lanes
    MaxLanes,    \* the device ceiling (resolve_media_lanes)
    Pinned,      \* PRE_PROVISIONED_LANES
    MaxTracks,   \* bound: tracks created in a behaviour
    MaxRemote    \* bound: offers the far side makes and attempts that fail

ASSUME MediaLanesAssumption ==
    /\ MaxLanes \in Nat \ {0}
    /\ Pinned \in 1..MaxLanes
    /\ MaxTracks \in Nat /\ MaxRemote \in Nat

Lane == 0..(MaxLanes - 1)
Track == [lane : Lane, no : 0..MaxTracks]
NoTrack == [lane |-> 0, no |-> MaxTracks + 1]
NoTask == [at |-> "idle"]

VARIABLES
    slot,        \* lane |-> "none", "open" or "draining"
    laneTrack,        \* lane |-> the track in the slot
    due,         \* the draining lanes past LANE_DRAIN_GRACE
    senders,     \* tracks attached to the peer connection
    negotiated,  \* the senders the last completed negotiation carried
    offered,     \* the senders in the local offer that is outstanding
    signaling,   \* signaling state of the peer connection
    events,      \* a RenegotiationNeeded event is queued at the driver
    pending,     \* media_reneg_pending
    inflight,    \* media_reneg_inflight
    caller,      \* caller |-> where it stands in ensure_lane
    task,        \* the spawned renegotiation task
    made,        \* tracks created so far
    remote       \* offers of the far side and failed attempts so far

mediaVars == <<slot, laneTrack, due, senders, negotiated, offered, signaling, events,
          pending, inflight, caller, task, made, remote>>
pool == <<slot, laneTrack, due>>
sdp  == <<negotiated, offered, signaling, remote>>
reneg == <<pending, inflight, task>>

MediaTypeOK ==
    /\ slot \in [Lane -> {"none", "open", "draining"}]
    /\ laneTrack \in [Lane -> Track \cup {NoTrack}]
    /\ due \subseteq {l \in Lane : slot[l] = "draining"}
    /\ senders \subseteq Track /\ negotiated \subseteq Track
    /\ offered \subseteq Track
    /\ signaling \in {"stable", "local", "remote"}
    /\ events \in BOOLEAN /\ pending \in BOOLEAN /\ inflight \in BOOLEAN
    /\ made \in 0..MaxTracks /\ remote \in 0..MaxRemote

(* open_peer_with_config: only the pre-provisioned lanes exist at setup.   *)
MediaInit ==
    LET first == [l \in Lane |-> [lane |-> l, no |-> 0]]
        pre   == {l \in Lane : l < Pinned}
    IN  /\ slot = [l \in Lane |-> IF l \in pre THEN "open" ELSE "none"]
        /\ laneTrack = [l \in Lane |-> IF l \in pre THEN first[l] ELSE NoTrack]
        /\ due = {}
        /\ senders = {first[l] : l \in pre}
        /\ negotiated = senders
        /\ offered = {}
        /\ signaling = "stable"
        /\ events = FALSE /\ pending = FALSE /\ inflight = FALSE
        /\ caller = [c \in Caller |-> NoTask]
        /\ task = NoTask
        /\ made = 0 /\ remote = 0

-----------------------------------------------------------------------------
(* The slot bookkeeping shared by the operations below.                    *)
Keep(l, t) ==
    /\ slot' = [slot EXCEPT ![l] = "open"]
    /\ laneTrack' = [laneTrack EXCEPT ![l] = t]
    /\ due' = due \ {l}

(* ensure_lane, first critical section: an open lane is returned, a        *)
(* draining one revives in place, an empty one needs a new track.          *)
EnsureLane(c, l) ==
    /\ caller[c] = NoTask
    /\ \/ /\ slot[l] = "draining"
          /\ Keep(l, laneTrack[l])
          /\ UNCHANGED <<caller, made>>
       \/ /\ slot[l] = "none"
          /\ made < MaxTracks
          /\ made' = made + 1
          /\ caller' = [caller EXCEPT ![c] =
                          [at |-> "attach", track |-> [lane |-> l, no |-> made + 1]]]
          /\ UNCHANGED pool
    /\ UNCHANGED <<senders, events, sdp, reneg>>

(* A frame written to a lane goes through ensure_lane (send_video,         *)
(* send_audio); a lane at or past the ceiling is an error and no step.     *)
SendSample(c) == \E l \in Lane : EnsureLane(c, l)

(* open_media_lane: a draining lane is preferred to an empty slot, the     *)
(* lowest of either; with every slot open the call fails.                  *)
OpenMediaLane(c) ==
    LET draining == {l \in Lane : slot[l] = "draining"}
        empty    == {l \in Lane : slot[l] = "none"}
        from     == IF draining # {} THEN draining ELSE empty
    IN  \E l \in from : /\ \A k \in from : l <= k
                        /\ EnsureLane(c, l)

(* attach_track: add_track returned, the track is on the connection.       *)
AttachTrack(c) ==
    /\ caller[c].at = "attach"
    /\ senders' = senders \cup {caller[c].track}
    /\ caller' = [caller EXCEPT ![c].at = "store"]
    /\ UNCHANGED <<pool, sdp, reneg, events, made>>

(* ensure_lane, second critical section: the first caller to come here     *)
(* fills the slot, a later one takes the winner's track.                   *)
StoreTrack(c) ==
    LET l == caller[c].track.lane
    IN  /\ caller[c].at = "store"
        /\ CASE slot[l] = "none"     -> Keep(l, caller[c].track)
             [] slot[l] = "draining" -> Keep(l, laneTrack[l])
             [] OTHER                -> UNCHANGED pool
        /\ caller' = [caller EXCEPT ![c] = NoTask]
        /\ events' = TRUE
        /\ UNCHANGED <<senders, sdp, reneg, made>>

(* close_media_lane: a drain, nothing is signalled.                        *)
CloseMediaLane(l) ==
    /\ slot[l] = "open"
    /\ slot' = [slot EXCEPT ![l] = "draining"]
    /\ UNCHANGED <<laneTrack, due, senders, sdp, reneg, events, caller, made>>

(* A drain outlives LANE_DRAIN_GRACE.                                      *)
DrainAges(l) ==
    /\ slot[l] = "draining"
    /\ l \notin due
    /\ due' = due \cup {l}
    /\ UNCHANGED <<slot, laneTrack, senders, sdp, reneg, events, caller, made>>

(* has_reapable_lanes: the pinned lanes are never reaped.                  *)
Reapable == {l \in due : l >= Pinned}

-----------------------------------------------------------------------------
(* The driver: TransportEvent::RenegotiationNeeded only sets the flag.     *)
RenegotiationNeeded ==
    /\ events
    /\ events' = FALSE
    /\ pending' = TRUE
    /\ UNCHANGED <<pool, senders, sdp, inflight, task, caller, made>>

(* service_media_renegotiations, the selection on the state-watch tick.    *)
Tick ==
    /\ ~inflight
    /\ pending \/ Reapable # {}
    /\ inflight' = TRUE
    /\ pending' = FALSE
    /\ task' = [at |-> "start"]
    /\ UNCHANGED <<pool, senders, sdp, events, caller, made>>

(* The task ends without an offer: the work stays owed.                    *)
Defer_Forgets ==
    /\ inflight' = FALSE
    /\ task' = NoTask
    /\ UNCHANGED pending
Defer ==
    /\ inflight' = FALSE
    /\ pending' = TRUE
    /\ task' = NoTask

(* The task does not stack an offer on a negotiation that is settling.     *)
TaskNotStable ==
    /\ task.at = "start"
    /\ signaling # "stable"
    /\ Defer
    /\ UNCHANGED <<pool, senders, sdp, events, caller, made>>

(* reap_drained_lanes, under the pool lock: the due slots are freed.       *)
TaskFreesSlots ==
    /\ task.at = "start"
    /\ signaling = "stable"
    /\ slot' = [l \in Lane |-> IF l \in Reapable THEN "none" ELSE slot[l]]
    /\ laneTrack' = [l \in Lane |-> IF l \in Reapable THEN NoTrack ELSE laneTrack[l]]
    /\ due' = due \ Reapable
    /\ task' = [at |-> "reap", victims |-> Reapable]
    /\ UNCHANGED <<senders, sdp, events, pending, inflight, caller, made>>

(* reap_drained_lanes, outside it: every sender whose track has the id of  *)
(* a victim is removed, and the id of a track is its lane.                 *)
TaskRemovesTracks ==
    /\ task.at = "reap"
    /\ senders' = {t \in senders : t.lane \notin task.victims}
    /\ task' = [at |-> "offer"]
    /\ UNCHANGED <<pool, sdp, events, pending, inflight, caller, made>>

(* create_offer: the local description carries the senders as they are.    *)
TaskOffers ==
    /\ task.at = "offer"
    /\ signaling # "remote"
    /\ signaling' = "local"
    /\ offered' = senders
    /\ inflight' = FALSE
    /\ task' = NoTask
    /\ UNCHANGED <<pool, senders, negotiated, events, pending, caller, made, remote>>

(* create_offer fails, the peer generation changed, or the host ran out of *)
(* sockets while the task waited.                                          *)
TaskFails ==
    /\ task.at \in {"start", "offer"}
    /\ remote < MaxRemote
    /\ remote' = remote + 1
    /\ Defer
    /\ UNCHANGED <<pool, senders, negotiated, offered, signaling, events, caller, made>>

(* The far side answers the outstanding offer.                             *)
Answered ==
    /\ signaling = "local"
    /\ signaling' = "stable"
    /\ negotiated' = offered
    /\ UNCHANGED <<pool, senders, offered, events, reneg, caller, made, remote>>

(* An offer of the far side is applied, then answered with what this side  *)
(* has attached by then.                                                   *)
RemoteOffer ==
    /\ signaling = "stable"
    /\ remote < MaxRemote
    /\ remote' = remote + 1
    /\ signaling' = "remote"
    /\ UNCHANGED <<pool, senders, negotiated, offered, events, reneg, caller, made>>

RemoteOfferAnswered ==
    /\ signaling = "remote"
    /\ signaling' = "stable"
    /\ UNCHANGED <<pool, senders, negotiated, offered, events, reneg, caller, made, remote>>

Task == TaskNotStable \/ TaskFreesSlots \/ TaskRemovesTracks \/ TaskOffers

MediaNext ==
    \/ \E c \in Caller : SendSample(c) \/ OpenMediaLane(c) \/ AttachTrack(c) \/ StoreTrack(c)
    \/ \E l \in Lane : CloseMediaLane(l) \/ DrainAges(l)
    \/ RenegotiationNeeded
    \/ Tick
    \/ Task
    \/ TaskFails
    \/ Answered
    \/ RemoteOffer
    \/ RemoteOfferAnswered

MediaSpec == MediaInit /\ [][MediaNext]_mediaVars

-----------------------------------------------------------------------------
(* Where something still remembers that the far side has not been told of  *)
(* the present set of tracks: a queued event, the pending flag, a task on  *)
(* its way to an offer, a caller about to queue the event, or an           *)
(* outstanding offer that already carries the set.                         *)
Owed ==
    \/ events \/ pending
    \/ task # NoTask
    \/ \E c \in Caller : caller[c].at = "store"
    \/ signaling = "local" /\ offered = senders

(* No lane change is lost: whenever the tracks on the connection differ    *)
(* from the last negotiated ones, the renegotiation is owed, however the   *)
(* callers, the reaper, failed attempts and glare interleave.              *)
NoLaneChangeLost == senders # negotiated => Owed

(* The pre-provisioned lanes never lose their track, whatever is opened,   *)
(* closed, drained or reaped: their reopen must be free of SDP work.       *)
PinnedLanesStayAttached ==
    \A l \in Lane : l < Pinned => laneTrack[l] \in senders

(* A lane is open, its track attached, and the far side has not heard of   *)
(* it.                                                                     *)
LaneUnheard(l) ==
    slot[l] = "open" /\ laneTrack[l] \in senders /\ laneTrack[l] \notin negotiated

(* Lanes and the connection's tracks agree: what differs is owed, and the  *)
(* pinned lanes keep their tracks.                                         *)
LanesKept == MediaTypeOK /\ NoLaneChangeLost /\ PinnedLanesStayAttached
=============================================================================
