------------------------------ MODULE Signaling ------------------------------
(***************************************************************************)
(* The signaling side of one device: the bridge between the engine and its *)
(* drivers (engine/signaling_bridge.rs) and the Nostr driver               *)
(* (nostr/driver.rs): a task per relay, the supervisor of the public       *)
(* fallback relays, the outbound pump with its replay buffer, and the      *)
(* dedup of what the relays and the LAN driver deliver.  The relays and    *)
(* the LAN driver are the environment.                                     *)
(*                                                                         *)
(* A relay task is at the top of its loop, connecting, open (subscribed),  *)
(* live (admitted by EOSE), in its backoff, or off.  A fallback relay has  *)
(* several task slots, as a cancelled task may still be winding down when  *)
(* the fallback is brought up again.                                       *)
(***************************************************************************)
EXTENDS Naturals, Sequences, FiniteSets, SequencesExt

CONSTANTS
    Primary, Fallback,   \* the selected relays and the public fallback
    Slots,               \* bound: tasks of one fallback relay alive at a time
    Inbound,             \* the events other peers may put on the relays
    Scenes,              \* what may happen around the driver in one behaviour
    SeenCap,             \* SEEN_EVENT_CAPACITY and GATE_SEEN_CAPACITY
    ReplayCap,           \* OUTBOUND_REPLAY_CAP
    BackoffCap           \* 6: the backoff exponent's ceiling

ASSUME SignalingAssumption ==
    /\ Primary \cap Fallback = {} /\ 1 \in Slots
    /\ {SeenCap, ReplayCap, BackoffCap} \subseteq Nat /\ SeenCap > 0
    /\ \A e \in Inbound : e.type \in {"announce", "leave", "directed"}
    /\ \A s \in Scenes :
         /\ s.primary \subseteq Primary /\ s.inbound \subseteq Inbound
         /\ s.forces \in Nat
         /\ {s.outage, s.stop, s.announce, s.listen_only} \subseteq BOOLEAN

Task == (Primary \X {1}) \cup (Fallback \X Slots)
IsPrimary(t) == t[1] \in Primary

VARIABLES
    task,       \* task |-> where the relay task is, and its session
    live,       \* primary_live
    active,     \* the fallback tasks the supervisor holds tokens for
    down,       \* down_since: "up", "down", or down past the "grace"
    seen,       \* seen_event_ids
    gate,       \* the content keys in the bridge's InboundGate
    caps,       \* room_caps: peer |-> tags its directed events
    compat,     \* compat_directed
    pump,       \* the message the pump found no subscriber for
    replay,     \* outbound_replay
    todo,       \* directed messages the engine has yet to send
    given,      \* inbound event |-> times the engine got its content
    written,    \* directed messages written to a relay
    evicted,    \* self_evicted
    probed,     \* a stood-down announce went out within its interval
    stopped,    \* the driver's handle was dropped
    forces,     \* forced reconnects the engine still asks for
    scene       \* the relays, the network's listen_only, and what may happen

relays == <<task, live, active, down>>
rooms == <<caps, compat>>
outs == <<pump, replay, todo, written>>
ins == <<seen, gate, given>>
stance == <<evicted, probed, stopped, forces, scene>>
sigVars == <<relays, rooms, outs, ins, stance>>

Off == [at |-> "off", cancelled |-> FALSE, forced |-> FALSE, stable |-> FALSE,
        shape |-> TRUE, verdict |-> "none", event |-> "none", pub |-> <<>>,
        shown |-> FALSE, attempt |-> 0]
Spawned == [Off EXCEPT !.at = "top"]
Subscribed(tk) == {t \in Task : tk[t].at \in {"open", "live"}}
Busy(t) == task[t].verdict # "none"

SigInit ==
    /\ scene \in Scenes
    /\ task = [t \in Task |-> IF t[1] \in scene.primary THEN Spawned ELSE Off]
    /\ live = 0 /\ active = {} /\ down = "up"
    /\ seen = <<>> /\ gate = <<>>
    /\ given = [e \in Inbound |-> 0]
    /\ caps = << >> /\ compat = TRUE
    /\ pump = "none" /\ replay = <<>> /\ todo = scene.directed /\ written = {}
    /\ evicted = FALSE /\ probed = FALSE /\ stopped = FALSE
    /\ forces = scene.forces

-----------------------------------------------------------------------------
(* A bounded ring: push, dropping the oldest at the capacity.              *)
Ring(q, x, cap) == Append(IF Len(q) >= cap THEN Tail(q) ELSE q, x)

(* The broadcast bus: every subscribed session queues the message.         *)
Bus(tk, msgs) == [t \in Task |-> IF t \in Subscribed(tk)
                                 THEN [tk[t] EXCEPT !.pub = @ \o msgs] ELSE tk[t]]

(* InboundGate::deliver; a count of two stands for two or more.            *)
Count(g, e) == [g EXCEPT ![e] = IF @ < 2 THEN @ + 1 ELSE 2]
GateDrops_ById(e) == e.type = "directed" /\ \E i \in 1..Len(gate) : gate[i] = e.id
GateDrops(e) == e.type = "directed" /\ \E i \in 1..Len(gate) : gate[i] = e.content
Deliver(e) ==
    IF GateDrops(e) THEN UNCHANGED <<gate, given>>
    ELSE /\ gate' = IF e.type = "directed" THEN Ring(gate, e.content, SeenCap) ELSE gate
         /\ given' = Count(given, e)

-----------------------------------------------------------------------------
(* run_relay: the loop of one relay.                                       *)
Top(t) ==
    /\ task[t].at = "top"
    /\ task' = [task EXCEPT ![t] = IF @.cancelled THEN Off ELSE [@ EXCEPT !.at = "connecting"]]
    /\ UNCHANGED <<live, active, down, rooms, outs, ins, stance>>

(* connect_async succeeded and run_relay_session opens: the room REQ in    *)
(* the current shape, the subscription to the bus, the replay of what was  *)
(* buffered and is still fresh, the open-announce.                         *)
Fresh(buf) == LET f == SelectSeq(buf, LAMBDA b : b.fresh)
              IN  [i \in 1..Len(f) |-> f[i].msg]
OpenAnnounce == ~scene.listen_only
Connect(t) ==
    LET opened == [task EXCEPT ![t] = [@ EXCEPT !.at = "open", !.shape = compat,
                                                !.shown = OpenAnnounce, !.pub = <<>>]]
    IN  /\ task[t].at = "connecting"
        /\ task' = Bus(opened, Fresh(replay))
        /\ replay' = <<>>
        /\ UNCHANGED <<live, active, down, rooms, pump, todo, written, ins, stance>>

(* The end of an attempt: the retry state, the live count, and the cancel  *)
(* check before the backoff.                                               *)
Ended(x, forced) ==
    IF x.cancelled /\ ~forced THEN Off
    ELSE [Off EXCEPT !.at = IF forced THEN "top" ELSE "backoff",
                     !.cancelled = x.cancelled, !.forced = x.forced /\ ~forced,
                     !.attempt = IF forced THEN 0
                                 ELSE IF x.attempt < BackoffCap THEN x.attempt + 1 ELSE BackoffCap]
EndLive(t) == live' = IF IsPrimary(t) /\ task[t].at = "live" THEN live - 1 ELSE live

ConnectFails(t) ==
    /\ task[t].at = "connecting"
    /\ task' = [task EXCEPT ![t] = Ended(@, FALSE)]
    /\ UNCHANGED <<live, active, down, rooms, outs, ins, stance>>
SessionEnds(t) ==                     \* closed, failed, or refused by NOTICE
    /\ task[t].at \in {"open", "live"} /\ ~Busy(t)
    /\ task' = [task EXCEPT ![t] = Ended(@, FALSE)]
    /\ EndLive(t)
    /\ UNCHANGED <<active, down, rooms, outs, ins, stance>>
SessionCancelled(t) ==
    /\ task[t].at \in {"open", "live"} /\ task[t].cancelled /\ ~Busy(t)
    /\ task' = [task EXCEPT ![t] = Off]
    /\ EndLive(t)
    /\ UNCHANGED <<active, down, rooms, outs, ins, stance>>
Reconnect(t) ==                       \* force_rx.changed()
    /\ task[t].at \in {"open", "live", "backoff"} /\ task[t].forced /\ ~Busy(t)
    /\ task' = [task EXCEPT ![t] = Ended(@, TRUE)]
    /\ EndLive(t)
    /\ UNCHANGED <<active, down, rooms, outs, ins, stance>>
BackoffEnds(t) ==
    /\ task[t].at = "backoff"
    /\ task' = [task EXCEPT ![t].at = "top"]
    /\ UNCHANGED <<live, active, down, rooms, outs, ins, stance>>

(* EOSE admits the session; it counts as stable once it has lasted.        *)
Admit(t) ==
    /\ task[t].at = "open" /\ ~Busy(t)
    /\ task' = [task EXCEPT ![t].at = "live"]
    /\ live' = IF IsPrimary(t) THEN live + 1 ELSE live
    /\ UNCHANGED <<active, down, rooms, outs, ins, stance>>
Stabilise(t) ==
    /\ task[t].at = "live" /\ ~task[t].stable /\ ~Busy(t)
    /\ task' = [task EXCEPT ![t].stable = TRUE, ![t].attempt = 0]
    /\ UNCHANGED <<live, active, down, rooms, outs, ins, stance>>
Write(t) ==
    /\ task[t].pub # <<>> /\ ~Busy(t)
    /\ written' = written \cup {Head(task[t].pub)}
    /\ task' = [task EXCEPT ![t].pub = Tail(@)]
    /\ UNCHANGED <<live, active, down, rooms, pump, replay, todo, ins, stance>>
Reshape(t) ==                         \* compat_rx.changed(): the REQ again
    /\ task[t].at \in {"open", "live"} /\ task[t].shape # compat /\ ~Busy(t)
    /\ task' = [task EXCEPT ![t].shape = compat]
    /\ UNCHANGED <<live, active, down, rooms, outs, ins, stance>>

-----------------------------------------------------------------------------
(* handle_inbound_frame.  The relay applies the REQ's filters: an untagged *)
(* ephemeral event only reaches the catch-all shape.                       *)
Passes(t, e) == e.kind = "stored" \/ e.tagged \/ task[t].shape
Seen(e) == \E i \in 1..Len(seen) : seen[i] = e.id
NeedCompat(c) == DOMAIN c = {} \/ \E p \in DOMAIN c : ~c[p]
RightKind(e) == (e.type = "announce") = (e.kind = "stored")
With(c, p, b) == [x \in DOMAIN c \cup {p} |-> IF x = p THEN b ELSE c[x]]
Without(c, p) == [x \in DOMAIN c \ {p} |-> c[x]]

(* The dedup ring first, then the message by its type and kind.  Presence  *)
(* changes room_caps and computes recompute_compat's verdict; the watch    *)
(* takes it only after the lock is gone (Recompute).                       *)
HandleEvent(t, e) ==
    /\ task[t].at \in {"open", "live"} /\ ~Busy(t) /\ Passes(t, e)
    /\ ~Seen(e)
    /\ seen' = Ring(seen, e.id, SeenCap)
    /\ \/ /\ RightKind(e) /\ e.type # "directed"
          /\ caps' = IF e.type = "announce" THEN With(caps, e.from, e.tags) ELSE Without(caps, e.from)
          /\ task' = [task EXCEPT ![t].verdict = IF NeedCompat(caps') THEN "compat" ELSE "narrow",
                                  ![t].event = e]
          /\ UNCHANGED <<gate, given>>
       \/ /\ RightKind(e) /\ e.type = "directed"
          /\ Deliver(e)
          /\ UNCHANGED <<caps, task>>
       \/ /\ ~RightKind(e)
          /\ UNCHANGED <<caps, task, gate, given>>
    /\ UNCHANGED <<live, active, down, compat, outs, stance>>
Recompute(t) ==
    /\ Busy(t)
    /\ compat' = (task[t].verdict = "compat")
    /\ task' = [task EXCEPT ![t].verdict = "none", ![t].event = "none"]
    /\ Deliver(task[t].event)
    /\ UNCHANGED <<live, active, down, caps, outs, seen, stance>>

(* The LAN driver delivers the same content through the same gate.         *)
MdnsDelivers(e) ==
    /\ e.type = "directed" /\ e.kind = "live" /\ ~GateDrops(e)
    /\ Deliver(e)
    /\ UNCHANGED <<relays, rooms, outs, seen, stance>>

-----------------------------------------------------------------------------
(* run_fallback_supervisor: one poll.                                      *)
FreeSlot(f) == CHOOSE s \in Slots : task[<<f, s>>].at = "off"
Activate == live = 0 /\ active = {} /\ down = "grace"
StandDown_AllLive == live = Cardinality(Primary) /\ active # {}
StandDown == live > 0 /\ active # {}
Poll ==
    /\ scene.outage /\ ~stopped /\ Fallback # {}
    /\ Activate => \A f \in Fallback : \E s \in Slots : task[<<f, s>>].at = "off"
    /\ down' = IF live > 0 THEN "up" ELSE IF down = "up" THEN "down" ELSE down
    /\ IF Activate
       THEN /\ active' = {<<f, FreeSlot(f)>> : f \in Fallback}
            /\ task' = [t \in Task |-> IF t \in active' THEN Spawned ELSE task[t]]
       ELSE /\ active' = IF StandDown THEN {} ELSE active
            /\ task' = [t \in Task |-> IF StandDown /\ t \in active
                                       THEN [task[t] EXCEPT !.cancelled = task[t].at # "off"]
                                       ELSE task[t]]
    /\ UNCHANGED <<live, rooms, outs, ins, stance>>
GracePasses ==
    /\ scene.outage /\ down = "down" /\ live = 0
    /\ down' = "grace"
    /\ UNCHANGED <<task, live, active, rooms, outs, ins, stance>>

-----------------------------------------------------------------------------
(* The outbound way: the bridge's fan-out and the driver's pump, which     *)
(* looks at the subscriber count and then publishes or buffers.            *)
Pump(m) ==
    /\ ~stopped /\ pump = "none"
    /\ todo' = todo \ {m}
    /\ IF Subscribed(task) = {} THEN pump' = m /\ UNCHANGED task
                                ELSE task' = Bus(task, <<m>>) /\ UNCHANGED pump
    /\ UNCHANGED <<live, active, down, rooms, replay, written, ins, stance>>
Buffer ==
    /\ pump # "none"
    /\ replay' = Ring(replay, [msg |-> pump, fresh |-> TRUE], ReplayCap)
    /\ pump' = "none"
    /\ UNCHANGED <<relays, rooms, todo, written, ins, stance>>
Expire ==                             \* OUTBOUND_REPLAY_TTL_MS
    /\ \E i \in 1..Len(replay) : replay[i].fresh
    /\ replay' = [i \in 1..Len(replay) |-> [replay[i] EXCEPT !.fresh = FALSE]]
    /\ UNCHANGED <<relays, rooms, pump, todo, written, ins, stance>>

(* An announce the engine asks for, through the bridge: dropped on a       *)
(* listen-only network, and while stood down but for a probe.              *)
Shown(tk) == [t \in Task |-> IF t \in Subscribed(tk) THEN [tk[t] EXCEPT !.shown = TRUE] ELSE tk[t]]
EngineAnnounce ==
    /\ scene.announce /\ ~stopped /\ ~scene.listen_only
    /\ evicted => ~probed
    /\ probed' = evicted
    /\ task' = Shown(task)
    /\ UNCHANGED <<live, active, down, rooms, outs, ins, evicted, stopped, forces, scene>>
(* run_announcer: the driver's own ticker.                                 *)
Announcer ==
    /\ scene.announce /\ ~stopped /\ ~scene.listen_only
    /\ task' = Shown(task)
    /\ UNCHANGED <<live, active, down, rooms, outs, ins, stance>>
SetEvicted ==
    /\ scene.announce
    /\ evicted' = ~evicted /\ probed' = FALSE
    /\ UNCHANGED <<relays, rooms, outs, ins, stopped, forces, scene>>

(* request_relay_reconnect, and the drop of the handle: every canceller,   *)
(* the supervisor's included, which cancels the tasks it holds.            *)
Force ==
    /\ ~stopped /\ forces > 0
    /\ forces' = forces - 1
    /\ task' = [t \in Task |-> [task[t] EXCEPT !.forced = task[t].at # "off"]]
    /\ UNCHANGED <<live, active, down, rooms, outs, ins, evicted, probed, stopped, scene>>
Stop ==
    /\ scene.stop /\ ~stopped
    /\ stopped' = TRUE
    /\ task' = [t \in Task |-> IF IsPrimary(t) \/ t \in active
                               THEN [task[t] EXCEPT !.cancelled = task[t].at # "off"] ELSE task[t]]
    /\ UNCHANGED <<live, active, down, rooms, outs, ins, evicted, probed, forces, scene>>

-----------------------------------------------------------------------------
Progress(t) == \/ Top(t) \/ Connect(t) \/ ConnectFails(t) \/ SessionCancelled(t)
               \/ Reconnect(t) \/ BackoffEnds(t) \/ Recompute(t)
SigNext ==
    \/ \E t \in Task : \/ Progress(t) \/ SessionEnds(t) \/ Admit(t) \/ Stabilise(t)
                       \/ Write(t) \/ Reshape(t)
                       \/ \E e \in scene.inbound : HandleEvent(t, e)
    \/ \E e \in scene.inbound : MdnsDelivers(e)
    \/ \E m \in todo : Pump(m)
    \/ Poll \/ GracePasses \/ Buffer \/ Expire
    \/ EngineAnnounce \/ Announcer \/ SetEvicted \/ Force \/ Stop

SigSpec == SigInit /\ [][SigNext]_sigVars

(* The tasks run, a connection attempt ends, a backoff ends, and a session *)
(* whose token is cancelled is looked at within a poll interval.           *)
SigFairness == (\A t \in Task : WF_sigVars(Progress(t)) /\ WF_sigVars(SessionCancelled(t)))
               /\ WF_sigVars(Poll)
SigFairSpec == SigSpec /\ SigFairness

-----------------------------------------------------------------------------
SigTypeOK ==
    /\ \A t \in Task :
         /\ task[t].at \in {"off", "top", "connecting", "open", "live", "backoff"}
         /\ task[t].attempt \in 0..BackoffCap
         /\ task[t].pub # <<>> => t \in Subscribed(task)
    /\ live \in 0..Cardinality(Primary)
    /\ Len(seen) <= SeenCap /\ Len(gate) <= SeenCap /\ Len(replay) <= ReplayCap
    /\ active \subseteq Task

(* primary_live, which the fallback decision rests on, is the number of    *)
(* primary sessions the relays have admitted, whichever way each ended.    *)
LiveIsExact == live = Cardinality({t \in Task : IsPrimary(t) /\ task[t].at = "live"})

(* However many relays and drivers carry one negotiation message, the      *)
(* engine gets it once.                                                    *)
DeliveredOnce == \A e \in Inbound :
    e.type = "directed" => given[e] + Cardinality(
        {f \in Inbound \ {e} : f.type = "directed" /\ f.content = e.content /\ given[f] > 0}) <= 1

(* Negotiation replayed from a relay's history never reaches the engine.   *)
HistoryNotApplied ==
    \A e \in Inbound : e.type = "directed" /\ e.kind = "stored" => given[e] = 0

(* A listen-only device is never announced, by no session's opening, by no *)
(* request of the engine and by no tick.                                   *)
ListenOnlyIsSilent == scene.listen_only => \A t \in Task : ~task[t].shown

(* A relay that keeps ending its sessions early is redialled ever more     *)
(* slowly: only a session that lasted, or the engine, resets its backoff.  *)
BackoffIsEarned == [][\A t \in Task :
    task'[t].attempt < task[t].attempt =>
        task[t].forced \/ task[t].cancelled \/ task'[t].stable]_sigVars

(* A stopped driver winds down every task it ever spawned.                 *)
StopsEverything == stopped ~> (\A t \in Task : task[t].at = "off")

(* While primary relays stay up, the public fallback does not.             *)
FallbackStandsDown == <>[](live > 0 /\ ~stopped) => []<>(\A f \in Fallback, s \in Slots :
                                                 task[<<f, s>>].at \notin {"open", "live"})

(* The driver's books agree with its sessions: the count of live primaries *)
(* is exact, negotiation is applied once and never from history, a listen- *)
(* only device is silent, and a backoff is only reset by a session that    *)
(* lasted.                                                                 *)
DriverBooks ==
    /\ [](SigTypeOK /\ LiveIsExact /\ DeliveredOnce /\ HistoryNotApplied /\ ListenOnlyIsSilent)
    /\ BackoffIsEarned
=============================================================================
