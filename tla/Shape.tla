------------------------------- MODULE Shape --------------------------------
(***************************************************************************)
(* Connection shaping (engine/ladder.rs): every device re-runs its         *)
(* selector whenever its set of live links changes, shelves the links that *)
(* are not preferred, closes the non-edges that both ends have shelved and *)
(* dials the edges that are missing.  Pinned (sticky) peers are exempt.    *)
(*                                                                         *)
(* How a session is negotiated is Negotiation's subject: here a dial makes *)
(* a link, each end activates it in a step of its own, and the end that is *)
(* closed upon learns of it later.  The control frames shelve and unshelve *)
(* travel in order on the link; a send that times out is lost.             *)
(***************************************************************************)
EXTENDS Topology

CONSTANTS
    Member,       \* the devices of the network
    Before,       \* the mode every device starts in ...
    After,        \* ... and the one it is switched to
    Pins,         \* pairs <<d, p>>: d pins p at some moment
    MaxTimeouts,  \* bound: evaluations in which a control send times out
    MaxFailures   \* links lost to the network

ASSUME ShapeAssumption ==
    MaxTimeouts \in Nat /\ MaxFailures \in Nat

VARIABLES
    topo,         \* topology_impl of each device
    peers,        \* [d -> [p -> PeerConnection]], only the entries of the map
    wire,         \* [<<from, to>> -> control frames in flight]
    intents,      \* [d -> reconnect intents]
    sticky,       \* [d -> pinned peers]
    timeouts, failures

shapeVars == <<topo, peers, wire, intents, sticky, timeouts, failures>>

Pair == {x \in Member \X Member : x[1] # x[2]}
Sighted == [sess |-> FALSE, status |-> "sighted", ls |-> FALSE, rs |-> FALSE]
Opened == [sess |-> TRUE, status |-> "pending", ls |-> FALSE, rs |-> FALSE]

Holds(d, p) == p \in DOMAIN peers[d] /\ peers[d][p].sess
Carries(r) == r.status \in {"active", "shelved"}
Without(f, p) == [x \in DOMAIN f \ {p} |-> f[x]]
With(f, p, v) == [x \in DOMAIN f \cup {p} |-> IF x = p THEN v ELSE f[x]]
Known(d) == DOMAIN peers[d] \cup {d}

(***************************************************************************)
(* reevaluate_topology over d's map ps: the new map, and who is told.      *)
(***************************************************************************)

Shelve(m, d, pins, ps) ==
    LET live == {p \in DOMAIN ps : Carries(ps[p])}
        preferred == select_preferred(m, d, live)
    IN  [p \in DOMAIN ps |->
            IF p \notin live THEN ps[p]
            ELSE LET off == p \notin preferred /\ p \notin pins
                 IN  [ps[p] EXCEPT !.ls = off,
                                   !.status = IF off THEN "shelved" ELSE "active"]]

(* Only new shelvings are told.                                            *)
Reevaluate_ShelveOnly(m, d, pins, ps, w) ==
    LET new == Shelve(m, d, pins, ps)
        told == {p \in DOMAIN ps : new[p].ls /\ ~ps[p].ls}
    IN  /\ peers' = [peers EXCEPT ![d] = new]
        /\ wire' = [x \in Pair |-> IF x[1] = d /\ x[2] \in told
                                   THEN Append(w[x], new[x[2]].ls) ELSE w[x]]
        /\ UNCHANGED timeouts

(* needs_shelve: the flag moved.  The flag is committed before the send,   *)
(* so a frame that times out is not sent again.                            *)
Reevaluate(m, d, pins, ps, w) ==
    LET new == Shelve(m, d, pins, ps)
        told == {p \in DOMAIN ps : new[p].ls # ps[p].ls}
    IN  \E lost \in SUBSET told :
           /\ lost # {} => timeouts < MaxTimeouts
           /\ timeouts' = IF lost = {} THEN timeouts ELSE timeouts + 1
           /\ peers' = [peers EXCEPT ![d] = new]
           /\ wire' = [x \in Pair |-> IF x[1] = d /\ x[2] \in told \ lost
                                      THEN Append(w[x], new[x[2]].ls) ELSE w[x]]

(* A dial opens a session at both ends, with nothing in flight.            *)
Dialled(d, p) ==
    /\ peers' = [peers EXCEPT ![d] = With(@, p, Opened), ![p] = With(@, d, Opened)]
    /\ wire' = [wire EXCEPT ![<<d, p>>] = <<>>, ![<<p, d>>] = <<>>]
ensure_peer_session(d, p) ==
    IF Holds(d, p) THEN UNCHANGED <<peers, wire>> ELSE ~Holds(p, d) /\ Dialled(d, p)

(***************************************************************************)
(* Handlers                                                                *)
(***************************************************************************)
(* NetworkCmd::SetTopology.                                                *)
SetTopology(d) ==
    /\ topo[d] = Before /\ After # Before
    /\ topo' = [topo EXCEPT ![d] = After]
    /\ Reevaluate(After, d, sticky[d], peers[d], wire)
    /\ UNCHANGED <<intents, sticky, failures>>

(* The link becomes Active at this end.                                    *)
Activate(d, p) ==
    /\ Holds(d, p) /\ Holds(p, d) /\ peers[d][p].status = "pending"
    /\ Reevaluate(topo[d], d, sticky[d],
                  [peers[d] EXCEPT ![p].status = "active"], wire)
    /\ intents' = [intents EXCEPT ![d] = @ \ {p}]
    /\ UNCHANGED <<topo, sticky, failures>>

(* on_shelve, on_unshelve.                                                 *)
OnShelve(d, p) ==
    /\ Holds(d, p) /\ Holds(p, d)
    /\ wire[<<p, d>>] # <<>>
    /\ peers' = [peers EXCEPT ![d][p].rs = Head(wire[<<p, d>>])]
    /\ wire' = [wire EXCEPT ![<<p, d>>] = Tail(@)]
    /\ UNCHANGED <<topo, intents, sticky, timeouts, failures>>

(* DataChannelClosed: the other end has closed, or the network failed.     *)
(* drop_peer takes it for a recoverable failure: the offerer of the pair,  *)
(* or the end that holds a pin, will redial.                               *)
LinkLost(d, p) ==
    /\ Holds(d, p)
    /\ \/ ~Holds(p, d) /\ UNCHANGED failures
       \/ Holds(p, d) /\ failures < MaxFailures /\ failures' = failures + 1
    /\ Reevaluate(topo[d], d, sticky[d], Without(peers[d], p),
                  [wire EXCEPT ![<<p, d>>] = <<>>, ![<<d, p>>] = <<>>])
    /\ intents' = [intents EXCEPT ![d] = IF Less(d, p) \/ p \in sticky[d] THEN @ \cup {p} ELSE @]
    /\ UNCHANGED <<topo, sticky>>

(* PeerAnnounced for a peer without a session.                             *)
OnAnnounce(d, p) ==
    /\ ~Holds(d, p)
    /\ LET dial == \/ p \in sticky[d]
                   \/ Less(d, p) /\ (prunes(topo[d]) => edge(topo[d], d, p, Known(d) \cup {p}))
       IN  IF dial THEN ensure_peer_session(d, p)
           ELSE /\ peers' = [peers EXCEPT ![d] = With(@, p, Sighted)]
                /\ UNCHANGED wire
    /\ UNCHANGED <<topo, intents, sticky, timeouts, failures>>

(* connect_peer with a pin.                                                *)
Pin(d, p) ==
    /\ <<d, p>> \in Pins /\ p \notin sticky[d]
    /\ sticky' = [sticky EXCEPT ![d] = @ \cup {p}]
    /\ ensure_peer_session(d, p)
    /\ UNCHANGED <<topo, intents, timeouts, failures>>

(***************************************************************************)
(* The state-watch tick                                                    *)
(***************************************************************************)
(* service_reconnect_intents, try_reoffer: only a peer that is not in the  *)
(* map is dialled; the shape is not consulted.                             *)
Retry(d, p) ==
    /\ p \in intents[d]
    /\ p \notin DOMAIN peers[d]
    /\ ensure_peer_session(d, p)
    /\ UNCHANGED <<topo, intents, sticky, timeouts, failures>>

(* A plain intent ages out.                                                *)
Expire(d, p) ==
    /\ p \in intents[d] \ sticky[d]
    /\ intents' = [intents EXCEPT ![d] = @ \ {p}]
    /\ UNCHANGED <<topo, peers, wire, sticky, timeouts, failures>>

(* shape_connections: the links to close and the members to dial.          *)
Prunable(d, p) ==
    /\ Holds(d, p) /\ peers[d][p].ls /\ peers[d][p].rs /\ peers[d][p].status = "shelved"
    /\ ~edge(topo[d], d, p, Known(d)) /\ p \notin sticky[d]
Diallable(d, p) ==
    /\ ~Holds(d, p) /\ Less(d, p)
    /\ edge(topo[d], d, p, Known(d)) \/ p \in sticky[d]
(* The closes of a pass are decided together; every close is followed by a *)
(* re-evaluation, here by one after the last.                              *)
Prune(d) ==
    LET out == {p \in DOMAIN peers[d] : Prunable(d, p)}
    IN  /\ prunes(topo[d]) /\ out # {}
        /\ Reevaluate(topo[d], d, sticky[d],
                      [p \in DOMAIN peers[d] |-> IF p \in out THEN Sighted ELSE peers[d][p]],
                      [x \in Pair |-> IF x \in ({d} \X out) \cup (out \X {d}) THEN <<>> ELSE wire[x]])
        /\ intents' = [intents EXCEPT ![d] = @ \ out]
        /\ UNCHANGED <<topo, sticky, failures>>

ShapeDial(d, p) ==
    /\ prunes(topo[d]) /\ p \in DOMAIN peers[d] /\ Diallable(d, p)
    /\ ensure_peer_session(d, p)
    /\ UNCHANGED <<topo, intents, sticky, timeouts, failures>>

(***************************************************************************)
(* Every member has met every other, all links are up and every shelving   *)
(* has been told.                                                          *)
(***************************************************************************)
Settled(d) ==
    Shelve(Before, d, {}, [p \in Member \ {d} |-> [Opened EXCEPT !.status = "active"]])

ShapeInit ==
    /\ topo = [d \in Member |-> Before]
    /\ peers = [d \in Member |->
                   [p \in Member \ {d} |-> [Settled(d)[p] EXCEPT !.rs = Settled(p)[d].ls]]]
    /\ wire = [x \in Pair |-> <<>>]
    /\ intents = [d \in Member |-> {}]
    /\ sticky = [d \in Member |-> {}]
    /\ timeouts = 0 /\ failures = 0

ShapeNext ==
    \E d \in Member :
        \/ SetTopology(d) \/ Prune(d)
        \/ \E p \in Member \ {d} :
              \/ Activate(d, p) \/ OnShelve(d, p) \/ LinkLost(d, p) \/ OnAnnounce(d, p)
              \/ Pin(d, p) \/ Retry(d, p) \/ Expire(d, p) \/ ShapeDial(d, p)

(* What is queued for a driver is handled; a tick finds what persists.     *)
ShapeFairness ==
    \A d \in Member :
        /\ WF_shapeVars(SetTopology(d)) /\ WF_shapeVars(Prune(d))
        /\ \A p \in Member \ {d} :
              /\ WF_shapeVars(Activate(d, p)) /\ WF_shapeVars(OnShelve(d, p))
              /\ WF_shapeVars(LinkLost(d, p) /\ failures' = failures)
              /\ WF_shapeVars(OnAnnounce(d, p)) /\ WF_shapeVars(Retry(d, p))
              /\ WF_shapeVars(ShapeDial(d, p))

ShapeSpec == ShapeInit /\ [][ShapeNext]_shapeVars /\ ShapeFairness

(***************************************************************************)
(* Properties                                                              *)
(***************************************************************************)
ShapeTypeOK ==
    /\ \A d \in Member : DOMAIN peers[d] \subseteq Member \ {d}
    /\ \A d \in Member : \A p \in DOMAIN peers[d] :
          peers[d][p].ls <=> peers[d][p].status = "shelved"
    /\ timeouts \in 0..MaxTimeouts /\ failures \in 0..MaxFailures

(* The frame a link carries last.                                          *)
Newest(q) == q[Len(q)]

(* No end acts on a shelving its peer never decided: on a link that is up, *)
(* what this end believes of the other, once the frames in flight have     *)
(* landed, is what the other decided.  It is the agreement pruning rests   *)
(* on ("once both sides have independently shelved the link").             *)
ShelvingAgrees ==
    \A x \in Pair :
        LET d == x[1]
            p == x[2]
        IN  Holds(d, p) /\ Holds(p, d) =>
               peers[p][d].ls = IF wire[<<p, d>>] = <<>> THEN peers[d][p].rs
                                ELSE Newest(wire[<<p, d>>])

(* Once every device runs the new mode, every edge of it and every pinned  *)
(* pair is connected and carries frames at the preferring end, for good.   *)
LinkedFor(d, p) == Holds(d, p) /\ Holds(p, d) /\ peers[d][p].status = "active"
Switched == \A d \in Member : topo[d] = After
EdgesConnect ==
    <>[]Switched => <>[](\A x \in Pair : x[2] \in select_preferred(After, x[1], Member \ {x[1]})
                             => LinkedFor(x[1], x[2]))
PinsConnect == <>[](\A x \in Pins : x[2] \in sticky[x[1]] => LinkedFor(x[1], x[2]))

(* What both ends hold of a link fits: the status is the local verdict,    *)
(* and each side's belief is what the other decided.                       *)
ShapingFits == ShapeTypeOK /\ ShelvingAgrees
=============================================================================
