---------------------------- MODULE Negotiation -----------------------------
(***************************************************************************)
(* How two devices of one network build, repair and replace their peer     *)
(* session over the signaling channel (engine/mod.rs): announces, offers   *)
(* and answers, the driver task of each device, a task it spawns, and the  *)
(* WebRTC peer connection as the engine uses it.                           *)
(*                                                                         *)
(* The driver and a spawned task of a device interleave wherever the code  *)
(* awaits (open_peer, create_offer, session close), so the handlers are    *)
(* split there and carry a job record from part to part.  Offer ids,       *)
(* session epochs and ICE fragments are only ever compared, so all three   *)
(* are tokens of one counter per device.  The schedules of the retries     *)
(* move on when nothing else is under way, and all faults share one budget.*)
(***************************************************************************)
EXTENDS Naturals, FiniteSets

CONSTANTS
    MaxToken,    \* bound: tokens a device draws
    MaxFault,    \* bound: faults in a behaviour
    Mode         \* the scenes: the devices that pinned the other one
                 \* (connect_peer, sticky), those that never dial on presence
                 \* alone, the kinds of fault that may happen, and how many

Fault == {"lose", "duplicate", "crash", "open", "create", "close", "pressure", "move", "media"}

ASSUME NegotiationAssumption ==
    /\ MaxToken \in Nat /\ MaxFault \in Nat
    /\ Mode \subseteq [sticky : SUBSET {"lo", "hi"}, silent : SUBSET {"lo", "hi"},
                         fault : SUBSET Fault, most : 0..MaxFault]

Device == {"lo", "hi"}
Other(d) == IF d = "lo" THEN "hi" ELSE "lo"
Offers(d) == d = "lo"            \* the deterministic offerer: me < device_id
Token == 1..MaxToken
Worker == {"driver", "task"}

VARIABLES
    peer,      \* device |-> its entry for the other device in state.peers
    closing,   \* device |-> the epoch whose session close has not finished
    intent,    \* device |-> a reconnect intent is held
    pressure,  \* device |-> local_socket_recovery_active
    deferred,  \* device |-> an ICE restart is deferred until it ends
    job,       \* device |-> worker |-> what it awaits
    event,     \* transport events queued at the drivers
    net,       \* signaling messages in flight
    path,      \* the selected candidate pair carries traffic
    next,      \* device |-> its next token
    mode,      \* the scene, an element of Mode
    faults     \* faults so far

local == <<closing, intent, pressure, deferred>>
negVars == <<peer, local, job, event, net, path, next, mode, faults>>

(* An entry of the peer map: epoch 0 is no entry, and an entry without     *)
(* session is a discovery placeholder.  The second half abstracts the      *)
(* PeerConnection: signaling state, own ICE fragment, the local offer, the *)
(* remote fingerprint (the epoch of the connection that described itself)  *)
(* and fragment, and whether the data channel is up.                       *)
NoPeer == [ep |-> 0, sess |-> FALSE, active |-> FALSE, open |-> FALSE, old |-> FALSE,
           pend |-> 0, throttled |-> FALSE,
           sig |-> "stable", uf |-> 0, off |-> 0, fp |-> 0, ruf |-> 0, up |-> FALSE]
Idle == [at |-> "idle"]
NoMsg == [type |-> "none"]

(* Signaling messages.  A relay may deliver one twice: copy tells the two  *)
(* deliveries apart, and no handler looks at it.                           *)
Announce(d) == [type |-> "announce", from |-> d, copy |-> 1]
Leave(d)    == [type |-> "leave", from |-> d, copy |-> 1]
Offer(d, o, e, u)  == [type |-> "offer",  from |-> d, id |-> o, fp |-> e, uf |-> u, copy |-> 1]
Answer(d, o, e, u) == [type |-> "answer", from |-> d, id |-> o, fp |-> e, uf |-> u, copy |-> 1]

FreshEntry(d) == next[d]
FreshAfter(d) == next[d] + 1
Draw(d, n) == next[d] + n - 1 <= MaxToken /\ next' = [next EXCEPT ![d] = @ + n]

NegInit ==
    /\ peer = [d \in Device |-> NoPeer]
    /\ closing = [d \in Device |-> {}]
    /\ intent = [d \in Device |-> FALSE]
    /\ pressure = [d \in Device |-> FALSE]
    /\ deferred = [d \in Device |-> FALSE]
    /\ job = [d \in Device |-> [w \in Worker |-> Idle]]
    /\ event = {}
    /\ net = {Announce(d) : d \in Device}
    /\ path = FALSE
    /\ next = [d \in Device |-> 1]
    /\ mode \in Mode
    /\ faults = 0

-----------------------------------------------------------------------------
(* The peer connections as a pair (webrtc-rs).                             *)
Paired == \A d \in Device : peer[d].sess /\ peer[d].fp = peer[Other(d)].ep
(* Both descriptions are applied and name each other's fragments.          *)
Checks == /\ Paired
          /\ \A d \in Device : peer[d].sig = "stable" /\ peer[d].ruf = peer[Other(d)].uf
Carries == Paired /\ path /\ \A d \in Device : peer[d].up
Connected == Carries /\ \A d \in Device : peer[d].active

Quiet ==
    /\ net = {} /\ event = {}
    /\ \A d \in Device : closing[d] = {} /\ job[d] = [w \in Worker |-> Idle]
    /\ Checks => Connected

Spend(k) == k \in mode.fault /\ faults < mode.most /\ faults' = faults + 1
DriverIdle(d) == job[d]["driver"] = Idle
Receive(d, m, type) == m \in net /\ m.from # d /\ m.type = type /\ DriverIdle(d)

(* peer_is_closing                                                         *)
Closing(d) == closing[d] # {}

(* drop_peer_inner: with another close in progress, or no entry, nothing;  *)
(* otherwise the entry leaves the map, its session starts to close behind  *)
(* the gate, and a recoverable drop leaves an intent where this side dials.*)
Drop(d, recoverable) ==
    IF Closing(d) \/ peer[d].ep = 0 THEN UNCHANGED <<peer, closing, intent, deferred>>
    ELSE /\ peer' = [peer EXCEPT ![d] = NoPeer]
         /\ closing' = [closing EXCEPT ![d] = IF peer[d].sess THEN {peer[d].ep} ELSE {}]
         /\ intent' = [intent EXCEPT ![d] = recoverable /\ (@ \/ Offers(d) \/ d \in mode.sticky)]
         /\ deferred' = [deferred EXCEPT ![d] = FALSE]

(* The dropping worker awaits the close, up to PEER_CLOSE_TIMEOUT_MS.      *)
AfterDrop(d) == IF Closing(d) \/ ~peer[d].sess THEN Idle ELSE [at |-> "dropping"]

(* ensure_peer_session up to open_peer, and its early returns.             *)
MayOpen(d) == ~pressure[d] /\ ~Closing(d) /\ ~peer[d].sess
Opening(role, m) == [at |-> "open", role |-> role, m |-> m]
Ensure(d, w, role) ==
    job' = [job EXCEPT ![d][w] = IF MayOpen(d) THEN Opening(role, NoMsg) ELSE Idle]
Creating(e, kind) == [at |-> "create", ep |-> e, kind |-> kind]
Applying(m) == [at |-> "apply", m |-> m]

-----------------------------------------------------------------------------
(* The parts of the handlers that follow an await.                         *)

(* open_peer returned.  Pressure or a teardown that began meanwhile closes *)
(* the unpublished session; otherwise the entry is published, whatever the *)
(* map holds by now, and the offerer goes on to build its offer.           *)
Published(e) == [NoPeer EXCEPT !.ep = e, !.sess = TRUE, !.uf = e]
AfterEnsure(m) == IF m = NoMsg THEN Idle ELSE Applying(m)
(* The state is not looked at again after the await.                       *)
Publish_NoRecheck(d, w) ==
    LET j == job[d][w]
        e == FreshEntry(d)
    IN  /\ j.at = "open"
        /\ Draw(d, 1)
        /\ peer' = [peer EXCEPT ![d] = Published(e)]
        /\ job' = [job EXCEPT ![d][w] = IF j.role = "offerer" THEN Creating(e, "first")
                                        ELSE AfterEnsure(j.m)]
        /\ UNCHANGED <<local, event, net, path, faults>>
Publish(d, w) ==
    LET j == job[d][w]
        e == FreshEntry(d)
    IN  /\ j.at = "open"
        /\ IF pressure[d] \/ Closing(d)
           THEN /\ UNCHANGED <<peer, next>>
                /\ job' = [job EXCEPT ![d][w] = AfterEnsure(j.m)]
           ELSE /\ Draw(d, 1)
                /\ peer' = [peer EXCEPT ![d] = Published(e)]
                /\ job' = [job EXCEPT ![d][w] = IF j.role = "offerer" THEN Creating(e, "first")
                                                ELSE AfterEnsure(j.m)]
        /\ UNCHANGED <<local, event, net, path, faults>>

OpenFails(d, w) ==
    /\ job[d][w].at = "open"
    /\ Spend("open")
    /\ job' = [job EXCEPT ![d][w] = AfterEnsure(job[d][w].m)]
    /\ UNCHANGED <<peer, local, event, net, path, next>>

(* create_offer: the local description of that epoch's connection becomes  *)
(* a new offer, a restart renews the ICE fragment first.  A failure or the *)
(* build timeout ends the attempt.                                         *)
CreateOffer(d, w) ==
    LET j == job[d][w]
        o == FreshEntry(d)
        u == IF j.kind = "restart" THEN FreshAfter(d) ELSE peer[d].uf
    IN  /\ j.at = "create"
        /\ IF peer[d].ep = j.ep
           THEN /\ Draw(d, IF j.kind = "restart" THEN 2 ELSE 1)
                /\ peer' = [peer EXCEPT ![d].sig = "local", ![d].off = o, ![d].uf = u]
                /\ job' = [job EXCEPT ![d][w] = [at |-> "issue", ep |-> j.ep, off |-> o,
                                                uf |-> u, kind |-> j.kind]]
           ELSE /\ UNCHANGED <<peer, next>>
                /\ job' = [job EXCEPT ![d][w] = Idle]
        /\ UNCHANGED <<local, event, net, path, faults>>

CreateOfferFails(d, w) ==
    /\ job[d][w].at = "create"
    /\ Spend("create")
    /\ job' = [job EXCEPT ![d][w] = Idle]
    /\ UNCHANGED <<peer, local, event, net, path, next>>

(* The rest of the offer, for the epoch it was built on: under pressure a  *)
(* first offer drops the session, a re-offer gives its throttle stamp      *)
(* back, a restart is deferred; otherwise issue_offer_id and the send.     *)
IssueOffer(d, w) ==
    LET j == job[d][w]
        gives == peer[d].ep = j.ep /\ pressure[d] /\ j.kind = "first"
    IN  /\ j.at = "issue"
        /\ job' = [job EXCEPT ![d][w] = IF gives THEN AfterDrop(d) ELSE Idle]
        /\ \/ /\ peer[d].ep # j.ep
              /\ UNCHANGED <<peer, closing, intent, deferred, net>>
           \/ /\ gives
              /\ Drop(d, TRUE)
              /\ UNCHANGED net
           \/ /\ peer[d].ep = j.ep /\ pressure[d] /\ j.kind # "first"
              /\ peer' = [peer EXCEPT ![d].throttled = @ /\ j.kind # "again"]
              /\ deferred' = [deferred EXCEPT ![d] = @ \/ j.kind = "restart"]
              /\ UNCHANGED <<closing, intent, net>>
           \/ /\ peer[d].ep = j.ep /\ ~pressure[d]
              /\ peer' = [peer EXCEPT ![d].pend = j.off, ![d].throttled = @ \/ j.kind = "first"]
              /\ net' = net \cup {Offer(d, j.off, j.ep, j.uf)}
              /\ UNCHANGED <<closing, intent, deferred>>
        /\ UNCHANGED <<pressure, event, path, next, faults>>

(* set_remote_description.                                                 *)
WithRemote(p, m) == [p EXCEPT !.sig = "stable", !.fp = m.fp, !.ruf = m.uf]

(* apply_remote_sdp for an offer, and the answer.  The connection rejects  *)
(* an offer while it has one of its own out, and then has nothing to       *)
(* answer; a new fragment from the same connection is an ICE restart and   *)
(* renews the local fragment too.  The answer echoes the id of the offer.  *)
AnswerOffer(d) ==
    LET j == job[d]["driver"]
        p == peer[d]
        restarts == p.fp = j.m.fp /\ p.ruf # j.m.uf
        u == IF restarts THEN FreshEntry(d) ELSE p.uf
    IN  /\ j.at = "apply"
        /\ job' = [job EXCEPT ![d]["driver"] =
                      IF p.sess /\ pressure[d] THEN AfterDrop(d) ELSE Idle]
        /\ \/ /\ ~p.sess \/ (~pressure[d] /\ p.sig = "local")
              /\ UNCHANGED <<peer, closing, intent, deferred, net, next>>
           \/ /\ p.sess /\ pressure[d]
              /\ Drop(d, TRUE)
              /\ UNCHANGED <<net, next>>
           \/ /\ p.sess /\ ~pressure[d] /\ p.sig # "local"
              /\ peer' = [peer EXCEPT ![d] = [WithRemote(p, j.m) EXCEPT !.uf = u]]
              /\ net' = net \cup {Answer(d, j.m.id, p.ep, u)}
              /\ Draw(d, IF restarts THEN 1 ELSE 0)
              /\ UNCHANGED <<closing, intent, deferred>>
        /\ UNCHANGED <<pressure, event, path, faults>>

Dropped(d, w) ==
    /\ job[d][w].at = "dropping"
    /\ \/ ~Closing(d) /\ UNCHANGED faults
       \/ Closing(d) /\ Spend("close")
    /\ job' = [job EXCEPT ![d][w] = Idle]
    /\ UNCHANGED <<peer, local, event, net, path, next>>

(* finish_peer_close.  The dead session's last event follows it.           *)
CloseDone(d) ==
    /\ Closing(d)
    /\ closing' = [closing EXCEPT ![d] = {}]
    /\ event' = event \cup {[dev |-> d, ep |-> e, kind |-> "closed"] : e \in closing[d]}
    /\ UNCHANGED <<peer, intent, pressure, deferred, job, net, path, next, faults>>
-----------------------------------------------------------------------------
(* Inbound signaling (handle_signaling_inbound).                           *)

Stale(d) == peer[d].open /\ peer[d].old /\ ~Carries

(* renegotiate_ice: deferred under pressure, nothing without a session or  *)
(* within the offer interval; the offerer restarts, the answerer nudges.   *)
Restart(d, w) ==
    LET go == ~pressure[d] /\ peer[d].sess /\ ~peer[d].throttled
    IN  /\ deferred' = [deferred EXCEPT ![d] = pressure[d] \/ (@ /\ ~go)]
        /\ peer' = [peer EXCEPT ![d].throttled = @ \/ go]
        /\ job' = [job EXCEPT ![d][w] = IF go /\ Offers(d) THEN Creating(peer[d].ep, "restart")
                                        ELSE Idle]
        /\ UNCHANGED <<closing, intent, pressure>>
Nudge(d) == IF ~Offers(d) /\ ~pressure[d] /\ peer[d].sess /\ ~peer[d].throttled
            THEN {Announce(d)} ELSE {}

Role(d) == IF Offers(d) \/ d \in mode.sticky THEN "offerer" ELSE "answerer"
Dials(d) == d \notin mode.silent \/ d \in mode.sticky

(* The end of the announce handler: ensure_peer_session, or on a silent    *)
(* network note_sighted_without_dialing.                                   *)
DialOrNote(d) ==
    IF Dials(d) THEN Ensure(d, "driver", Role(d)) /\ UNCHANGED <<peer, next>>
    ELSE /\ IF peer[d].ep # 0 THEN UNCHANGED <<peer, next>>
            ELSE /\ Draw(d, 1)
                 /\ peer' = [peer EXCEPT ![d] = [NoPeer EXCEPT !.ep = FreshEntry(d)]]
         /\ job' = [job EXCEPT ![d]["driver"] = Idle]

(* The handlers after their drop_peer: the close finished, or took longer  *)
(* than PEER_CLOSE_TIMEOUT_MS and the gate stays.                          *)
AfterClose(d) ==
    LET j == job[d]["driver"]
    IN  /\ j.at = "closing"
        /\ \/ ~Closing(d) /\ UNCHANGED faults
           \/ Closing(d) /\ Spend("close")
        /\ IF j.m = NoMsg THEN DialOrNote(d)
           ELSE /\ job' = [job EXCEPT ![d]["driver"] =
                             IF MayOpen(d) THEN Opening("answerer", j.m) ELSE Applying(j.m)]
                /\ UNCHANGED <<peer, next>>
        /\ UNCHANGED <<local, event, net, path>>

OnAnnounce(d, m) ==
    LET p == peer[d]
        again == /\ Offers(d) /\ ~pressure[d] /\ ~Closing(d)
                 /\ p.sess /\ ~p.open /\ ~p.throttled
    IN  /\ Receive(d, m, "announce")
        /\ net' = net \ {m}
        /\ \/ /\ again                              \* re-offer a stuck attempt
              /\ peer' = [peer EXCEPT ![d].throttled = TRUE]
              /\ job' = [job EXCEPT ![d]["driver"] = Creating(p.ep, "again")]
              /\ UNCHANGED <<local, next>>
           \/ /\ ~again /\ Offers(d) /\ p.active /\ ~p.old /\ ~Carries
              /\ Restart(d, "driver")              \* unhealthy, recently alive
              /\ UNCHANGED next
           \/ /\ Stale(d)                           \* ICE admits it: a zombie
              /\ Drop(d, TRUE)
              /\ job' = [job EXCEPT ![d]["driver"] = [at |-> "closing", m |-> NoMsg]]
              /\ UNCHANGED <<pressure, next>>
           \/ /\ Stale(d) /\ p.active                \* ICE claims it lives: probe
              /\ job[d]["task"] = Idle
              /\ job' = [job EXCEPT ![d]["task"] = [at |-> "probe", ep |-> p.ep]]
              /\ UNCHANGED <<peer, local, next>>
           \/ /\ ~again /\ (Stale(d) => job[d]["task"] # Idle)
              /\ DialOrNote(d)
              /\ UNCHANGED local
        /\ UNCHANGED <<event, path, faults>>

(* An offer: a stale session, one the peer rebuilt (another fingerprint)   *)
(* and one stuck connecting past its grace are dropped before it is        *)
(* answered on a fresh connection; others renegotiate in place.            *)
OnOffer(d, m) ==
    LET p == peer[d]
        rebuilt == p.fp # 0 /\ p.fp # m.fp
        stuck == p.sess /\ ~p.open /\ p.old
    IN  /\ Receive(d, m, "offer")
        /\ net' = net \ {m}
        /\ \/ /\ pressure[d] \/ Closing(d)
              /\ UNCHANGED <<peer, closing, intent, deferred, job>>
           \/ /\ ~pressure[d] /\ ~Closing(d) /\ (rebuilt \/ stuck \/ Stale(d))
              /\ Drop(d, TRUE)
              /\ job' = [job EXCEPT ![d]["driver"] = [at |-> "closing", m |-> m]]
           \/ /\ ~pressure[d] /\ ~Closing(d) /\ ~rebuilt /\ ~stuck
              /\ job' = [job EXCEPT ![d]["driver"] =
                             IF p.sess THEN Applying(m) ELSE Opening("answerer", m)]
              /\ UNCHANGED <<peer, closing, intent, deferred>>
        /\ UNCHANGED <<pressure, event, path, next, faults>>

(* reoffer_after_failed_answer                                             *)
MayReoffer(d) == /\ Offers(d) /\ ~pressure[d] /\ ~Closing(d)
                 /\ peer[d].ep # 0 => ~peer[d].throttled
Reoffer(d) ==
    job' = [job EXCEPT ![d]["driver"] =
              IF ~MayReoffer(d) THEN Idle
              ELSE IF peer[d].sess THEN Creating(peer[d].ep, "again")
              ELSE Opening("offerer", NoMsg)]

(* An answer: correlated on the offer id first; applied only while the     *)
(* connection awaits one, and otherwise answered by a fresh offer.         *)
Expected(d, m) == peer[d].ep # 0 => m.id = peer[d].pend
OnAnswer(d, m) ==
    LET p == peer[d]
    IN  /\ Receive(d, m, "answer")
        /\ net' = net \ {m}
        /\ \/ /\ ~Expected(d, m)
              /\ UNCHANGED <<peer, job>>
           \/ /\ Expected(d, m) /\ p.sess /\ p.sig = "local"
              /\ peer' = [peer EXCEPT ![d] =
                            [WithRemote(p, m) EXCEPT !.pend = 0]]
              /\ UNCHANGED job
           \/ /\ Expected(d, m) /\ ~(p.sess /\ p.sig = "local")
              /\ peer' = [peer EXCEPT ![d].pend = 0,
                                      ![d].throttled = @ \/ (p.ep # 0 /\ MayReoffer(d))]
              /\ Reoffer(d)
        /\ UNCHANGED <<local, event, path, next, faults>>

OnLeave(d, m) ==
    /\ Receive(d, m, "leave")
    /\ net' = net \ {m}
    /\ Drop(d, FALSE)
    /\ job' = [job EXCEPT ![d]["driver"] = AfterDrop(d)]
    /\ UNCHANGED <<pressure, event, path, next, faults>>

(* handle_transport_event: only for the epoch in the map.                  *)
OnEvent(d, e) ==
    /\ e \in event /\ e.dev = d /\ DriverIdle(d)
    /\ event' = event \ {e}
    /\ \/ /\ peer[d].ep # e.ep
          /\ UNCHANGED <<peer, closing, intent, deferred, job>>
       \/ /\ peer[d].ep = e.ep /\ e.kind = "open"
          /\ peer' = [peer EXCEPT ![d].open = TRUE]
          /\ intent' = [intent EXCEPT ![d] = FALSE]
          /\ deferred' = [deferred EXCEPT ![d] = FALSE]
          /\ UNCHANGED <<closing, job>>
       \/ /\ peer[d].ep = e.ep /\ e.kind = "closed"
          /\ Drop(d, TRUE)
          /\ job' = [job EXCEPT ![d]["driver"] = AfterDrop(d)]
    /\ UNCHANGED <<pressure, net, path, next, faults>>

-----------------------------------------------------------------------------
(* The driver's timers and the spawned tasks.                              *)

(* service_reconnect_intents and try_reoffer                               *)
Retry(d) ==
    /\ DriverIdle(d) /\ intent[d] /\ peer[d].ep = 0 /\ MayOpen(d)
    /\ UNCHANGED net
    /\ Ensure(d, "driver", "offerer")
    /\ UNCHANGED <<peer, local, event, path, next, faults>>

(* The connect timeout, the heartbeat and the handshake watchdog reclaim   *)
(* a session that is late, and re-seed discovery.                          *)
Reclaim(d) ==
    /\ DriverIdle(d) /\ peer[d].sess /\ peer[d].old /\ ~Closing(d)
    /\ ~peer[d].open \/ Stale(d)
    /\ Drop(d, TRUE)
    /\ job' = [job EXCEPT ![d]["driver"] = AfterDrop(d)]
    /\ UNCHANGED net
    /\ UNCHANGED <<pressure, event, path, next, faults>>

(* The ICE watchdog: a live session whose path went away is restarted.     *)
Watchdog(d) ==
    /\ DriverIdle(d) /\ peer[d].active /\ ~peer[d].old /\ ~Carries /\ ~path
    /\ ~peer[d].throttled
    /\ net' = net \cup Nudge(d)
    /\ Restart(d, "driver")
    /\ UNCHANGED <<event, path, next, faults>>

(* The probe task of confirm_active_session_on_announce.                   *)
Probe(d) ==
    LET j == job[d]["task"]
        silent == peer[d].ep = j.ep /\ ~Carries
    IN  /\ j.at = "probe"
        /\ job' = [job EXCEPT ![d]["task"] = IF silent THEN AfterDrop(d) ELSE Idle]
        /\ IF silent
           THEN /\ Drop(d, TRUE)
           ELSE UNCHANGED <<peer, closing, intent, deferred>>
        /\ UNCHANGED <<pressure, event, net, path, next, faults>>

(* The task a network change spawns (fan_out_restart): restart a session,  *)
(* or re-offer to a peer an intent is held for.                            *)
FanOut(d) ==
    /\ job[d]["task"].at = "fanout"
    /\ \/ /\ peer[d].sess \/ ~intent[d] \/ pressure[d]
          /\ net' = net \cup Nudge(d)
          /\ Restart(d, "task")
       \/ /\ ~peer[d].sess /\ intent[d] /\ ~pressure[d]
          /\ UNCHANGED net
          /\ IF peer[d].ep # 0 THEN job' = [job EXCEPT ![d]["task"] = Idle]
             ELSE Ensure(d, "task", "offerer")
          /\ UNCHANGED <<peer, local>>
    /\ UNCHANGED <<event, path, next, faults>>

-----------------------------------------------------------------------------
(* The environment: the transport, the clock, and the faults.              *)

(* Connectivity checks succeed: the data channel comes up, or traffic      *)
(* resumes on a channel that was up.                                       *)
ChannelOpens ==
    /\ Checks /\ ~Carries
    /\ peer' = [d \in Device |-> [peer[d] EXCEPT !.up = TRUE, !.old = FALSE]]
    /\ path' = TRUE
    /\ event' = event \cup {[dev |-> d, ep |-> peer[d].ep, kind |-> "open"] :
                              d \in {x \in Device : ~peer[x].up}}
    /\ UNCHANGED <<local, job, net, next, faults>>

(* A session whose far end closed may learn it from the data channel.      *)
ChannelCloses(d) ==
    /\ peer[d].up /\ path
    /\ peer[Other(d)].ep # peer[d].fp /\ peer[d].fp \notin closing[Other(d)]
    /\ peer' = [peer EXCEPT ![d].up = FALSE]
    /\ event' = event \cup {[dev |-> d, ep |-> peer[d].ep, kind |-> "closed"]}
    /\ UNCHANGED <<local, job, net, path, next, faults>>

(* The handshake over an open channel (module Handshake).                  *)
Activate(d) ==
    /\ Carries /\ peer[d].open /\ peer[Other(d)].open /\ ~peer[d].active
    /\ peer' = [peer EXCEPT ![d].active = TRUE]
    /\ UNCHANGED <<local, job, event, net, path, next, faults>>

(* Quiet intervals.  A deadline is long after the last signaling message:  *)
(* what is still not connected is late.  With no deadline left, the offer  *)
(* and announce intervals elapse and the periodic announces go out.        *)
Waiting(d) == peer[d].sess /\ ~Carries /\ ~peer[d].old
Deadline(d) ==
    /\ Quiet /\ Waiting(d)
    /\ peer' = [peer EXCEPT ![d].old = TRUE]
    /\ UNCHANGED <<local, job, event, net, path, next, faults>>
Period ==
    /\ Quiet /\ \A d \in Device : ~Waiting(d)
    /\ peer' = [d \in Device |-> [peer[d] EXCEPT !.throttled = FALSE]]
    /\ net' = {Announce(d) : d \in Device}
    /\ UNCHANGED <<local, job, event, path, next, faults>>

Lose(m) ==
    /\ m \in net
    /\ Spend("lose")
    /\ net' = net \ {m}
    /\ UNCHANGED <<peer, local, job, event, path, next>>
Duplicate(m) ==
    /\ m \in net /\ m.copy = 1
    /\ Spend("duplicate")
    /\ net' = net \cup {[m EXCEPT !.copy = 2]}
    /\ UNCHANGED <<peer, local, job, event, path, next>>

(* The process dies and starts over, with or without a last Leave.         *)
Crash(d) ==
    /\ Spend("crash")
    /\ peer' = [peer EXCEPT ![d] = NoPeer]
    /\ closing' = [closing EXCEPT ![d] = {}]
    /\ intent' = [intent EXCEPT ![d] = FALSE]
    /\ pressure' = [pressure EXCEPT ![d] = FALSE]
    /\ deferred' = [deferred EXCEPT ![d] = FALSE]
    /\ job' = [job EXCEPT ![d] = [w \in Worker |-> Idle]]
    /\ event' = {e \in event : e.dev # d}
    /\ \E last \in {{}, {Leave(d)}} : net' = net \cup last \cup {Announce(d)}
    /\ UNCHANGED <<path, next>>

(* The device moves to another network: the path is gone, and its watcher  *)
(* spawns the fan-out task.                                                *)
Move(d) ==
    /\ Spend("move")
    /\ job[d]["task"] = Idle
    /\ path' = FALSE
    /\ job' = [job EXCEPT ![d]["task"] = [at |-> "fanout"]]
    /\ UNCHANGED <<peer, local, event, net, next>>

(* The media task renegotiates an active, stable session (MediaLanes).     *)
MediaChange(d) ==
    /\ Spend("media")
    /\ job[d]["task"] = Idle /\ peer[d].active /\ peer[d].sig = "stable" /\ ~pressure[d]
    /\ job' = [job EXCEPT ![d]["task"] = Creating(peer[d].ep, "media")]
    /\ UNCHANGED <<peer, local, event, net, path, next>>

(* Local socket pressure comes, and ends with one recovery announce and    *)
(* the deferred restart.                                                   *)
PressureOn(d) ==
    /\ ~pressure[d] /\ Spend("pressure")
    /\ pressure' = [pressure EXCEPT ![d] = TRUE]
    /\ UNCHANGED <<peer, closing, intent, deferred, job, event, net, path, next>>
PressureOff(d) ==
    /\ pressure[d] /\ DriverIdle(d)
    /\ pressure' = [pressure EXCEPT ![d] = FALSE]
    /\ net' = net \cup {Announce(d)}
    /\ UNCHANGED <<peer, closing, intent, deferred, job, event, path, next, faults>>
RunDeferred(d) ==
    /\ deferred[d] /\ ~pressure[d] /\ DriverIdle(d) /\ ~peer[d].throttled
    /\ net' = net \cup Nudge(d)
    /\ IF peer[d].sess THEN Restart(d, "driver")
       ELSE /\ deferred' = [deferred EXCEPT ![d] = FALSE]
            /\ UNCHANGED <<peer, job, closing, intent, pressure>>
    /\ UNCHANGED <<event, path, next, faults>>

-----------------------------------------------------------------------------
Inbound(d) == \E m \in net : \/ OnAnnounce(d, m) \/ OnOffer(d, m) \/ OnAnswer(d, m)
                             \/ OnLeave(d, m)
Resume(d) == \/ \E w \in Worker : Publish(d, w) \/ CreateOffer(d, w) \/ IssueOffer(d, w)
                                 \/ Dropped(d, w)
             \/ AnswerOffer(d) \/ AfterClose(d)
             \/ Probe(d) \/ FanOut(d)
Events(d) == \E e \in event : OnEvent(d, e)
Timers(d) == Retry(d) \/ Reclaim(d) \/ Watchdog(d) \/ RunDeferred(d)
Faults == \/ \E m \in net : Lose(m) \/ Duplicate(m)
          \/ \E d \in Device : \/ Crash(d) \/ Move(d)
                               \/ MediaChange(d) \/ PressureOn(d)
                               \/ \E w \in Worker : OpenFails(d, w) \/ CreateOfferFails(d, w)

NegNext ==
    /\ \/ \E d \in Device : \/ Inbound(d) \/ Resume(d) \/ Events(d) \/ Timers(d)
                            \/ CloseDone(d) \/ PressureOff(d) \/ ChannelCloses(d)
                            \/ Activate(d) \/ Deadline(d)
       \/ ChannelOpens \/ Period \/ Faults
    /\ UNCHANGED mode

NegSpec == NegInit /\ [][NegNext]_negVars

-----------------------------------------------------------------------------
(* The types of the state, and what no handler may leave behind: a session *)
(* state of an entry without session, or an active entry whose data        *)
(* channel was never reported open.                                        *)
NegTypeOK ==
    /\ \A d \in Device :
         /\ {peer[d].ep, peer[d].pend, peer[d].uf, peer[d].off, peer[d].fp, peer[d].ruf}
               \subseteq Token \cup {0}
         /\ peer[d].sig \in {"stable", "local"}
         /\ closing[d] \subseteq Token
         /\ ~peer[d].sess => peer[d] = [NoPeer EXCEPT !.ep = peer[d].ep]
         /\ peer[d].active => peer[d].open
         /\ next[d] \in 1..(MaxToken + 1)
    /\ path \in BOOLEAN /\ faults \in 0..MaxFault

(* While the close of a session is under way, or the host is short of      *)
(* sockets, nothing is published in its place, whichever task wants to     *)
(* (ensure_peer_session looks before and after open_peer).                 *)
GateHolds ==
    [][\A d \in Device : (pressure[d] \/ Closing(d)) /\ ~peer[d].sess => ~peer'[d].sess]_negVars

(* An answer is only ever applied to the offer it answers: the offer id in *)
(* the entry names the connection's local description.  That is so while   *)
(* one task at a time makes offers; the task of a network change may       *)
(* overtake the driver between create_offer and issue_offer_id.            *)
AnswerFitsOffer ==
    [][\A d \in Device, m \in net :
          "move" \notin mode.fault /\ OnAnswer(d, m) /\ peer[d].sig = "local" /\ peer'[d].sig = "stable"
              => m.id = peer[d].off]_negVars

(* No session replaces another that was not torn down first, so that no    *)
(* two socket generations of a peer overlap (ensure_peer_session looks at *)
(* the map before it opens one).  Again the task of a network change is    *)
(* the exception: it and the driver may both be past that look, and the    *)
(* later insert replaces the earlier session without a close.              *)
NoOverlap ==
    [][\A d \in Device : "move" \notin mode.fault /\ peer[d].sess /\ peer'[d].sess
                         => peer'[d].ep = peer[d].ep]_negVars

(* Sessions are kept apart: one per peer, none opened beside a close, and  *)
(* an answer goes to the offer it answers.                                 *)
SessionsApart == []NegTypeOK /\ AnswerFitsOffer /\ NoOverlap /\ GateHolds
=============================================================================
