------------------------------ MODULE Recovery ------------------------------
(***************************************************************************)
(* How a network keeps one peer connected (engine/mod.rs, ice_watchdog.rs, *)
(* heartbeat.rs, wake.rs, state.rs): the ICE state handler, the watchdogs  *)
(* of the state-watch tick, the heartbeat, the wake probe, the forced      *)
(* restart after a network change, and the reconnect intents that bring a  *)
(* dropped peer back.                                                      *)
(*                                                                         *)
(* The driver handles one command or tick at a time and is blocked while   *)
(* it closes a session; the wake probe and the restart fan-out are tasks   *)
(* of their own, and so is the tail of an activation a caller runs.  The   *)
(* gaps between timestamps are modelled by what the code tells apart: how  *)
(* long the peer has been quiet, whether a session is past its connect     *)
(* timeout or a restart past its grace.                                    *)
(***************************************************************************)
EXTENDS Naturals

CONSTANTS
    Retries,     \* length of RECONNECT_RETRY_BACKOFF_MS
    Policy       \* [offerer, may]: which end we are, and what happens of
                 \* "media", "wake", "settle", "hold" and "pin"

ASSUME RecoveryAssumption == Retries \in Nat

None == [at |-> "none"]
Silence == 0..3    \* 0: within WAKE_PROBE_DELAY_MS, 1: within HEARTBEAT_TIMEOUT_MS,
                 \* 2: past it, 3: past the drop of the heartbeat
Parked == Retries + 2

Session == [at : {"connecting", "open"},
            ice : {"checking", "up", "down"},
            path : BOOLEAN,                             \* frames really get through
            tier : {"steady", "watchdog", "restart"},
            disc : {"no", "fresh", "old"},              \* ice_disconnected_since
            quiet : Silence,                              \* last_recv_at
            timed : BOOLEAN,                            \* past the connect timeout
            pinged : BOOLEAN,                           \* the restart's confirm ping is out
            unconfirmed : BOOLEAN,                      \* the restart is past its grace
            throttled : BOOLEAN]                        \* last_offer_sent_at is recent
Intent == [at : {"held"}, sticky : BOOLEAN, attempt : 0..Parked, due : BOOLEAN, aged : BOOLEAN]
Reason == {"ended", "closed", "watch"}   \* on purpose, by the channel, by a watcher
Teardown == [at : {"driver", "task"}, why : Reason] \cup [at : {"cleanup"}]

VARIABLES
    policy,      \* an element of Policy
    session,     \* the peer's session, or None
    teardown,     \* the close in progress (closing_peers), or None
    retryIntent,      \* its reconnect intent, or None
    pin,         \* the peer is in sticky_peers
    parked,      \* a connect_peer_wait caller is parked
    probe,       \* the wake probe: "none", "this" session or an "older" one
    settling,    \* a caller is in the tail of an activation
    onHold,        \* NetworkState::offline
    far          \* the far side is reachable

recVars == <<policy, session, teardown, retryIntent, pin, parked, probe, settling, onHold, far>>
demand == <<pin, parked>>
around == <<policy, onHold, far>>

RecTypeOK ==
    /\ policy \in Policy
    /\ session \in Session \cup {None}
    /\ teardown \in Teardown \cup {None}
    /\ retryIntent \in Intent \cup {None}
    /\ {pin, parked, settling, onHold, far} \subseteq BOOLEAN
    /\ probe \in {"none", "this", "older"}
    /\ teardown # None => session = None

RecInit ==
    /\ policy \in Policy
    /\ session = None /\ teardown = None /\ retryIntent = None
    /\ pin = FALSE /\ parked = FALSE /\ settling = FALSE
    /\ probe = "none"
    /\ onHold = FALSE /\ far = TRUE

-----------------------------------------------------------------------------
Live == session # None
Open == session.at = "open"
DriverFree == teardown.at # "driver"

New == [at |-> "connecting", ice |-> "checking", path |-> FALSE, tier |-> "steady",
        disc |-> "no", quiet |-> 0, timed |-> FALSE, unconfirmed |-> FALSE, pinged |-> FALSE,
        throttled |-> TRUE]

(* ensure_peer_session: nothing happens while a session exists or one is   *)
(* still closing.                                                          *)
Dialled == IF session = None /\ teardown = None THEN New ELSE session

(* record_reconnect_intent: only the first one opens a grace window, and a *)
(* pin that arrives later upgrades it.                                     *)
Recorded(sticky) ==
    IF retryIntent = None
    THEN [at |-> "held", sticky |-> sticky, attempt |-> 0, due |-> TRUE, aged |-> FALSE]
    ELSE [retryIntent EXCEPT !.sticky = @ \/ sticky]

(* advance_backoff                                                         *)
Advanced(i) == [i EXCEPT !.attempt = IF @ < Parked THEN @ + 1 ELSE Parked, !.due = FALSE]

(* Expired intents are retained only when sticky.                          *)
Retained(i) == IF i # None /\ i.aged /\ ~i.sticky THEN None ELSE i

(* renegotiate_ice on session s: held while offline; a healthy one is left *)
(* alone unless forced; one that is checking or was just offered is left;  *)
(* otherwise a restart starts, which only the offerer's agent sees now.    *)
Restarted(s, force) ==
    IF onHold \/ s.ice = "checking" THEN s
    ELSE IF s.ice = "up" /\ ~force
         THEN [s EXCEPT !.disc = "no", !.tier = "steady", !.unconfirmed = FALSE,
                        !.pinged = FALSE]
    ELSE IF s.throttled THEN s
    ELSE [s EXCEPT !.throttled = TRUE, !.tier = "restart", !.unconfirmed = FALSE, !.pinged = FALSE,
                   !.ice = IF policy.offerer THEN "checking" ELSE @]

(* drop_peer_inner up to the close it awaits.                              *)
TearDown(by, why) ==
    /\ session' = None
    /\ teardown' = [at |-> by, why |-> why]
    /\ probe' = IF probe = "this" THEN "older" ELSE probe
    /\ UNCHANGED <<retryIntent, demand, settling, around>>

(* drop_peer_inner after the close: a recoverable loss is retried by the   *)
(* offerer and for a pinned peer; a deliberate end retires the intent and  *)
(* fails the callers.  A close past PEER_CLOSE_TIMEOUT_MS keeps its gate   *)
(* until the cleanup is over.                                              *)
DropEnds ==
    /\ teardown.at \in {"driver", "task"}
    /\ teardown' \in {None, [at |-> "cleanup"]}
    /\ retryIntent' = IF teardown.why = "ended" THEN None
                 ELSE IF policy.offerer \/ pin THEN Recorded(pin) ELSE retryIntent
    /\ parked' = (parked /\ teardown.why # "ended")
    /\ UNCHANGED <<session, pin, probe, settling, around>>
CleanupEnds ==
    /\ teardown.at = "cleanup"
    /\ teardown' = None
    /\ UNCHANGED <<session, retryIntent, demand, probe, settling, around>>

-----------------------------------------------------------------------------
(* connect_peer: while the old session closes the dial is kept as an       *)
(* intent.                                                                 *)
ConnectPeer(sticky) ==
    /\ sticky => "pin" \in policy.may
    /\ DriverFree
    /\ pin' = (pin \/ sticky)
    /\ parked' = (parked \/ ~(Live /\ Open))
    /\ retryIntent' = IF teardown # None THEN Recorded(sticky) ELSE retryIntent
    /\ session' = Dialled
    /\ UNCHANGED <<teardown, probe, settling, around>>

(* remove_sticky: the app forgets the peer.                                *)
Forget ==
    /\ pin
    /\ pin' = FALSE
    /\ retryIntent' = None
    /\ UNCHANGED <<session, teardown, parked, probe, settling, around>>

(* The far side offers, and its offer is answered by a session here.       *)
FarDials ==
    /\ DriverFree /\ far /\ ~onHold /\ session = None /\ teardown = None
    /\ session' = New
    /\ UNCHANGED <<teardown, retryIntent, demand, probe, settling, around>>

(* The data channel opens, the frames of the admission come in and the     *)
(* peer becomes ACTIVE: the intent is retired, the callers resolved.  When *)
(* a caller's approval completed the admission, a second retirement        *)
(* follows in that caller's task.                                          *)
PeerOpens ==
    /\ DriverFree /\ Live /\ ~Open
    /\ session.ice = "up" /\ session.path
    /\ session' = [session EXCEPT !.at = "open", !.quiet = 0, !.tier = "steady", !.disc = "no",
                                  !.unconfirmed = FALSE, !.pinged = FALSE]
    /\ retryIntent' = None
    /\ parked' = FALSE
    /\ settling' \in {settling, settling \/ "settle" \in policy.may}
    /\ UNCHANGED <<teardown, pin, probe, around>>
Settles ==
    /\ settling
    /\ settling' = FALSE
    /\ retryIntent' = None
    /\ parked' = FALSE
    /\ UNCHANGED <<session, teardown, pin, probe, around>>

(* DataChannelClosed, and the drops a user or the admission asks for.      *)
PeerCloses ==
    /\ DriverFree /\ Live /\ teardown = None
    /\ \E why \in {"ended", "closed"} : TearDown("driver", why)

-----------------------------------------------------------------------------
Only(s) == session' = s /\ UNCHANGED <<teardown, retryIntent, demand, probe, settling, around>>

(* handle_ice_state_change, Connected: the tier of a recovering peer stays *)
(* in restart with a fresh clock until traffic confirms it, and a ping     *)
(* asks for some.  ICE may be up on a path that carries nothing.           *)
IceConnected ==
    /\ DriverFree /\ Live /\ session.ice # "up"
    /\ \E path \in {session.path, far} :
          Only([session EXCEPT !.ice = "up", !.path = path, !.disc = "no",
                               !.tier = IF @ = "steady" THEN @ ELSE "restart",
                               !.unconfirmed = FALSE, !.pinged = session.tier # "steady"])

(* Disconnected: the first one latches the watchdog's clock.               *)
IceDisconnected ==
    /\ DriverFree /\ Live /\ session.ice = "up"
    /\ Only(IF session.disc # "no" THEN [session EXCEPT !.ice = "down"]
            ELSE [session EXCEPT !.ice = "down", !.disc = "fresh", !.tier = "watchdog"])

(* Failed: believed only when the peer has been quiet, then on_failed      *)
(* renegotiates.                                                           *)
IceFailed ==
    /\ DriverFree /\ Live
    /\ LET s == [session EXCEPT !.ice = "down"]
       IN  Only(IF Open /\ s.quiet < 2 THEN s ELSE Restarted(s, FALSE))

(* A restart offer of the far side is applied: ICE checks again.           *)
FarRestarts ==
    /\ DriverFree /\ Live /\ far /\ session.ice # "checking"
    /\ Only([session EXCEPT !.ice = "checking"])

(* A frame arrives: it is the proof that a restart worked.  A media sample *)
(* only renews last_recv_at.                                               *)
Frame ==
    /\ DriverFree /\ Live /\ Open /\ session.path /\ far
    /\ Only([session EXCEPT !.quiet = 0, !.tier = "steady", !.disc = "no", !.unconfirmed = FALSE,
                         !.pinged = FALSE])
MediaSample ==
    /\ "media" \in policy.may
    /\ DriverFree /\ Live /\ Open /\ session.path /\ far
    /\ Only([session EXCEPT !.quiet = 0])

-----------------------------------------------------------------------------
(* Time.  A ping is answered on a live path: it is never quiet for longer  *)
(* than a heartbeat, and a confirm ping settles a restart in its grace.    *)
GrowsQuiet ==
    /\ Live /\ Open /\ session.quiet < 3
    /\ session.quiet = 2 => ~(session.path /\ far)
    /\ Only([session EXCEPT !.quiet = @ + 1])
Later(q) == IF q = 0 THEN 1 ELSE q
DisconnectAges ==
    /\ Live /\ session.disc = "fresh"
    /\ Only([session EXCEPT !.disc = "old"])
ConnectTimes ==
    /\ Live /\ ~Open /\ ~session.timed
    /\ Only([session EXCEPT !.timed = TRUE])
GraceEnds ==
    /\ Live /\ session.tier = "restart" /\ ~session.unconfirmed
    /\ session.pinged => ~(session.path /\ far)
    /\ Only([session EXCEPT !.unconfirmed = TRUE, !.quiet = Later(@), !.throttled = FALSE])
ThrottleEnds ==
    /\ Live /\ session.throttled
    /\ Only([session EXCEPT !.throttled = FALSE])
IntentTimes ==
    /\ retryIntent # None
    /\ \/ ~retryIntent.due /\ retryIntent' = [retryIntent EXCEPT !.due = TRUE]
       \/ ~retryIntent.aged /\ retryIntent' = [retryIntent EXCEPT !.aged = TRUE, !.due = TRUE]
    /\ UNCHANGED <<session, teardown, demand, probe, settling, around>>

(* The path breaks, the far side comes and goes, and the watcher latches   *)
(* and releases the hold.                                                  *)
PathBreaks ==
    /\ Live /\ session.path
    /\ Only([session EXCEPT !.path = FALSE])
FarMoves ==
    /\ far' = ~far
    /\ UNCHANGED <<policy, session, teardown, retryIntent, demand, probe, settling, onHold>>
HoldMoves ==
    /\ "hold" \in policy.may
    /\ onHold' = ~onHold
    /\ UNCHANGED <<policy, session, teardown, retryIntent, demand, probe, settling, far>>

-----------------------------------------------------------------------------
(* poll_all: a long disconnect is renegotiated; then a session past its    *)
(* connect timeout, or a restart that no traffic confirmed within its      *)
(* grace, is dropped, except while offline.                                *)
WatchdogPoll ==
    LET s == IF Open /\ session.disc = "old" THEN Restarted(session, FALSE) ELSE session
    IN  /\ DriverFree /\ Live
        /\ IF ~onHold /\ ((~Open /\ s.timed) \/ (s.tier = "restart" /\ s.unconfirmed))
           THEN TearDown("driver", "watch")
           ELSE s # session /\ Only(s)

(* heartbeat::tick                                                         *)
HeartbeatTick_TrustsIce ==
    /\ DriverFree /\ Live /\ Open /\ session.quiet = 3 /\ session.ice # "up"
    /\ TearDown("driver", "watch")
HeartbeatTick ==
    /\ DriverFree /\ Live /\ Open /\ session.quiet = 3
    /\ TearDown("driver", "watch")

(* on_wake: the active peers are pinged and a probe is left behind.        *)
OnWake ==
    /\ "wake" \in policy.may
    /\ DriverFree /\ Live /\ Open /\ probe = "none"
    /\ probe' = "this"
    /\ UNCHANGED <<session, teardown, retryIntent, demand, settling, around>>

(* The probe, WAKE_PROBE_DELAY_MS later: the session it was sent on is     *)
(* dropped when it is still silent.                                        *)
WakeProbe_AnySession ==
    /\ probe # "none"
    /\ IF Live /\ Open /\ teardown = None
       THEN /\ session' = None
            /\ teardown' = [at |-> "task", why |-> "watch"]
            /\ probe' = "none"
            /\ UNCHANGED <<retryIntent, demand, settling, around>>
       ELSE probe' = "none" /\ UNCHANGED <<session, teardown, retryIntent, demand, settling, around>>
WakeProbe ==
    /\ probe # "none"
    /\ IF Live /\ probe = "this" /\ session.quiet > 0 /\ teardown = None
       THEN /\ session' = None
            /\ teardown' = [at |-> "task", why |-> "watch"]
            /\ probe' = "none"
            /\ UNCHANGED <<retryIntent, demand, settling, around>>
       ELSE probe' = "none" /\ UNCHANGED <<session, teardown, retryIntent, demand, settling, around>>

(* service_reconnect_intents: an intent past its grace is forgotten, one   *)
(* that is due is offered again; a sticky one past its schedule is parked. *)
ServiceIntents ==
    LET i == Retained(retryIntent)
        go == i # None /\ teardown = None /\ i.due /\ ~(i.sticky /\ i.attempt = Parked)
    IN  /\ DriverFree /\ ~onHold
        /\ retryIntent # None /\ (go \/ i # retryIntent)
        /\ retryIntent' = IF go THEN Advanced(i) ELSE i
        /\ session' = IF go THEN Dialled ELSE session
        /\ UNCHANGED <<teardown, demand, probe, settling, around>>

(* fan_out_restart, in its own task: every active peer is restarted by     *)
(* force and every intent offered at once.                                 *)
RestartAll ==
    LET i == Retained(retryIntent)
        go == i # None /\ teardown = None
    IN  /\ ~onHold
        /\ retryIntent' = IF go THEN Advanced(i) ELSE i
        /\ session' = IF Live /\ Open THEN Restarted(session, TRUE)
                      ELSE IF go THEN Dialled ELSE session
        /\ UNCHANGED <<teardown, demand, probe, settling, around>>

(* reconnect_peer_in_place                                                 *)
ReconnectPeer ==
    /\ DriverFree /\ ~onHold
    /\ session' = IF Live THEN Restarted(session, TRUE) ELSE Dialled
    /\ UNCHANGED <<teardown, retryIntent, demand, probe, settling, around>>

Handlers ==
    \/ \E sticky \in BOOLEAN : ConnectPeer(sticky)
    \/ Forget \/ ReconnectPeer
    \/ PeerOpens \/ PeerCloses \/ Settles \/ DropEnds \/ CleanupEnds
    \/ IceConnected \/ IceDisconnected \/ IceFailed \/ Frame \/ MediaSample
    \/ WatchdogPoll \/ HeartbeatTick \/ OnWake \/ WakeProbe
    \/ ServiceIntents \/ RestartAll

Environment ==
    \/ FarDials \/ FarRestarts \/ FarMoves \/ PathBreaks \/ HoldMoves
    \/ GrowsQuiet \/ DisconnectAges \/ ConnectTimes \/ GraceEnds \/ ThrottleEnds \/ IntentTimes

RecNext == Handlers \/ Environment

RecSpec == RecInit /\ [][RecNext]_recVars

-----------------------------------------------------------------------------
(* The watchers never tear down a settled link on which a frame arrived    *)
(* within the last probe delay, nor a session other than the one they      *)
(* judged: only a close or an explicit drop ends it.                       *)
LiveLinkKept ==
    [][Live /\ Open /\ session.quiet = 0 /\ session.tier = "steady" /\ session' = None
       => teardown'.why # "watch"]_recVars

(* The grace of an intent is opened once: no failed rebuild, second drop   *)
(* or repeated dial extends it, and its backoff only advances.             *)
GraceNotExtended ==
    [][retryIntent # None /\ retryIntent' # None
       => /\ retryIntent.aged => retryIntent'.aged
          /\ retryIntent'.attempt >= retryIntent.attempt]_recVars

(* The intent of a pinned peer is given up only when the link is back, the *)
(* app forgets the peer, or the session was ended on purpose.              *)
PinnedIntentKept ==
    [][retryIntent # None /\ retryIntent.sticky /\ retryIntent' = None
       => \/ Forget \/ Settles \/ PeerOpens
          \/ DropEnds /\ teardown.why = "ended"]_recVars

(* No caller is left waiting for a link that is up.                        *)
NoWaiterOnOpenLink == parked => ~(Live /\ Open)

(* A session is there, its path is dead, and the network is not held.      *)
DeadLink == Live /\ ~session.path /\ ~onHold
=============================================================================
