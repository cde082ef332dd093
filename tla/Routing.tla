------------------------------ MODULE Routing -------------------------------
(***************************************************************************)
(* Frames across a shaped network (engine/routing.rs and the channel sends *)
(* of engine/mod.rs): directed frames are handed to the shape's next hops, *)
(* broadcasts are flooded by the forwarders, and a ring of recent frame    *)
(* ids keeps a node from handling a frame twice.  The links are those of a *)
(* settled shape (Shape); some may go down while frames are on their way.  *)
(* The opt-in relay service (services/relay.rs) forwards the envelopes     *)
(* that carry no routing wrapper.                                          *)
(***************************************************************************)
EXTENDS Topology, Functions

CONSTANTS
    Router,       \* the devices of the network
    Modes,        \* the shapes to look at
    Scripts,      \* sets of frames [id, kind, org, dst] to send; dst = org for
                  \* a broadcast
    SeenCap,      \* ROUTING_SEEN_CAPACITY
    MaxDown,      \* links that go down
    Relays,       \* the devices that run the relay service
    Rostered      \* [Router -> the members each has approved]

VARIABLES
    mode,         \* the shape in force ...
    shape,        \* ... and the connections it makes, as two-element sets
    links,        \* those that are up
    air,          \* envelopes in flight: [from, to, frame, ttl, src]
    todo,         \* frames not sent yet
    refused,      \* frames whose send was an error
    seen,         \* [Router -> ring of frame ids]
    got           \* deliveries to the application: [at, frame, from], counted

routingVars == <<mode, shape, links, air, todo, refused, seen, got>>

Sends == UNION Scripts

(* Frame ids are minted fresh.                                             *)
ASSUME RoutingAssumption ==
    /\ Sends \subseteq [id : {f.id : f \in Sends},
                       kind : {"directed", "broadcast", "relayed", "relayAll"},
                       org : Router, dst : Router]
    /\ \A f, g \in Sends : f.id = g.id => f = g
    /\ SeenCap \in Nat

Conn(d) == {p \in Router : {d, p} \in links /\ d # p}

(* Neither end has shelved the link.                                       *)
Unshelved(d, p) == /\ p \in select_preferred(mode, d, Conn(d))
                   /\ d \in select_preferred(mode, p, Conn(p))

SeenPut(q, id) == LET s == Append(q, id) IN IF Len(s) > SeenCap THEN Tail(s) ELSE s

FirstSighting(d, id) == id \notin Range(seen[d])

(* A forwarder names itself as the source.                                 *)
Envelope_Restamped(d, p, f, t, s) == [from |-> d, to |-> p, frame |-> f, ttl |-> t, src |-> d]

Envelope(d, p, f, t, s) == [from |-> d, to |-> p, frame |-> f, ttl |-> t, src |-> s]

(* Deliveries are counted up to two.                                       *)
Delivered(d, f, s) == [got EXCEPT ![<<d, f.id>>] = IF Len(@) < 2 THEN Append(@, s) ELSE @]

(***************************************************************************)
(* Sending                                                                 *)
(***************************************************************************)
(* send_channel_frame: straight to a connected peer, else send_routed; the *)
(* hop that accepts may be any of those tried.  A plain frame is ttl 0.    *)
SendDirected(f) ==
    LET d == f.org
    IN  /\ f \in todo /\ f.kind = "directed"
        /\ todo' = todo \ {f}
        /\ IF f.dst \in Conn(d)
           THEN /\ air' = air \cup {[Envelope(d, f.dst, f, 0, d) EXCEPT !.ttl = -1]}
                /\ UNCHANGED <<refused, seen>>
           ELSE \E hops \in next_hops(mode, d, f.dst, Conn(d)) :
                   IF hops = {}
                   THEN refused' = refused \cup {f} /\ UNCHANGED <<air, seen>>
                   ELSE /\ seen' = [seen EXCEPT ![d] = SeenPut(@, f.id)]
                        /\ \E h \in hops : air' = air \cup {Envelope(d, h, f, flood_ttl(mode), d)}
                        /\ UNCHANGED refused
        /\ UNCHANGED <<mode, shape, links, got>>

(* broadcast_channel_frame under a shape: broadcast_flood.                 *)
Broadcast(f) ==
    LET d == f.org
        targets == {p \in Conn(d) : Unshelved(d, p)}
    IN  /\ f \in todo /\ f.kind = "broadcast"
        /\ todo' = todo \ {f}
        /\ seen' = [seen EXCEPT ![d] = SeenPut(@, f.id)]
        /\ air' = air \cup {Envelope(d, p, f, flood_ttl(mode), d) : p \in targets}
        /\ UNCHANGED <<mode, shape, links, refused, got>>

(* An envelope without the wrapper, handed to a relay on its channel.      *)
SendToRelay(f, r) ==
    /\ f \in todo /\ f.kind \in {"relayed", "relayAll"}
    /\ r \in Relays \cap Conn(f.org)
    /\ todo' = todo \ {f}
    /\ air' = air \cup {[Envelope(f.org, r, f, 0, f.org) EXCEPT !.ttl = -1]}
    /\ UNCHANGED <<mode, shape, links, refused, seen, got>>

(***************************************************************************)
(* Receiving                                                               *)
(***************************************************************************)
Wrapped(e) == e.ttl >= 0
Frame(f) == f.kind \in {"directed", "broadcast"}

(* on_channel_frame for a frame that came straight from its sender.        *)
OnPlain(e) ==
    /\ e \in air /\ ~Wrapped(e) /\ Frame(e.frame)
    /\ air' = air \ {e}
    /\ got' = Delivered(e.to, e.frame, e.from)
    /\ UNCHANGED <<mode, shape, links, todo, refused, seen>>

(* on_relay_frame: the carrier gate, the ring, the delivery, the onward    *)
(* duty.                                                                   *)
Onward(e) ==
    LET me == e.to
        f == e.frame
        out == {p \in Conn(me) : p # e.from /\ p # e.src}
    IN  IF f.kind = "broadcast" THEN {{Envelope(me, p, f, e.ttl - 1, e.src) : p \in out}}
        ELSE LET choices == IF f.dst \in Conn(me) THEN {{f.dst}}
                            ELSE next_hops(mode, me, f.dst, Conn(me))
             IN  UNION {IF hops \ {e.from} = {} THEN {{}}
                        ELSE {{Envelope(me, h, f, e.ttl - 1, e.src)} : h \in hops \ {e.from}}
                        : hops \in choices}
OnRelayFrame(e) ==
    LET me == e.to
        f == e.frame
        carried == e.src = e.from \/ forwards(mode, e.from)
        forMe == f.kind = "broadcast" \/ f.dst = me
        onward == forwards(mode, me) /\ e.ttl > 0 /\ (f.kind = "broadcast" \/ f.dst # me)
    IN  /\ e \in air /\ Wrapped(e)
        /\ IF ~carried \/ ~FirstSighting(me, f.id)
           THEN air' = air \ {e} /\ UNCHANGED <<seen, got>>
           ELSE /\ seen' = [seen EXCEPT ![me] = SeenPut(@, f.id)]
                /\ got' = IF forMe THEN Delivered(me, f, e.src) ELSE got
                /\ IF onward THEN \E new \in Onward(e) : air' = (air \ {e}) \cup new
                   ELSE air' = air \ {e}
        /\ UNCHANGED <<mode, shape, links, todo, refused>>

(* relay_targets and the loop of the relay service.  A forwarded envelope  *)
(* names its carrier's peer as the source and no destination.              *)
relay_targets(r, from, dst) ==
    IF from \notin Rostered[r] THEN {}
    ELSE IF dst # from THEN {dst} \cap Rostered[r] \cap Conn(r)
    ELSE (Conn(r) \cap Rostered[r]) \ {from}

OnServiceFrame(e) ==
    LET me == e.to
        f == e.frame
        dst == IF f.kind = "relayed" THEN f.dst ELSE e.from
        flat == [f EXCEPT !.kind = "relayAll"]
        out == IF me \in Relays THEN relay_targets(me, e.from, dst) ELSE {}
    IN  /\ e \in air /\ ~Wrapped(e) /\ ~Frame(f)
        /\ air' = (air \ {e}) \cup
                  {[Envelope(me, p, flat, 0, e.from) EXCEPT !.ttl = -1] : p \in out}
        /\ got' = Delivered(me, f, e.src)
        /\ UNCHANGED <<mode, shape, links, todo, refused, seen>>

(* A link goes down with what is on it.                                    *)
LinkDown(l) ==
    /\ l \in links
    /\ Cardinality(shape \ links) < MaxDown
    /\ links' = links \ {l}
    /\ air' = {e \in air : {e.from, e.to} # l}
    /\ UNCHANGED <<mode, shape, todo, refused, seen, got>>

RoutingInit ==
    /\ mode \in Modes
    /\ shape = {l \in SUBSET Router : Cardinality(l) = 2
                     /\ \E a, b \in l : a # b /\ edge(mode, a, b, Router)}
    /\ links = shape
    /\ air = {} /\ todo \in Scripts /\ refused = {}
    /\ seen = [d \in Router |-> <<>>]
    /\ got = [x \in Router \X {f.id : f \in Sends} |-> <<>>]

Originate == \E f \in Sends : SendDirected(f) \/ Broadcast(f)
Receive == \E e \in air : OnPlain(e) \/ OnRelayFrame(e) \/ OnServiceFrame(e)

RoutingNext ==
    \/ Originate \/ Receive
    \/ \E f \in Sends, r \in Router : SendToRelay(f, r)
    \/ \E l \in links : LinkDown(l)

RoutingFairness == WF_routingVars(Originate) /\ WF_routingVars(Receive)
RoutingSpec == RoutingInit /\ [][RoutingNext]_routingVars /\ RoutingFairness

(***************************************************************************)
(* Properties                                                              *)
(***************************************************************************)
(* "per-node dedup keeps delivery exactly once": no frame is handed to an  *)
(* application twice, however many paths the shape has, and none comes     *)
(* back to its origin.                                                     *)
DeliveredAtMostOnce ==
    \A f \in Sends : Frame(f) =>
        \A d \in Router : Len(got[<<d, f.id>>]) <= IF d = f.org THEN 0 ELSE 1

(* "the application sees who actually said it, not which hub carried it":  *)
(* the sender shown is the origin, and a directed frame shows up nowhere   *)
(* but at its destination.                                                 *)
OriginIsShown ==
    \A f \in Sends : Frame(f) =>
        \A d \in Router : /\ Range(got[<<d, f.id>>]) \subseteq {f.org}
                          /\ f.kind = "directed" /\ d # f.dst => got[<<d, f.id>>] = <<>>

(* As long as no link went down, a broadcast reaches every member of a     *)
(* ring, a star or a hub tier within its hop budget, and a directed frame  *)
(* its destination under a star or hubs unless the send was an error.      *)
Intact == links = shape
Arrived(f) ==
    IF f.kind = "broadcast" THEN \A d \in Router \ {f.org} : got[<<d, f.id>>] # <<>>
    ELSE f \in refused \/ got[<<f.dst, f.id>>] # <<>>
EverythingArrives ==
    \A f \in Sends :
        f.kind = "broadcast" \/ (f.kind = "directed" /\ mode.kind # "ring")
            => (f \in todo ~> Arrived(f) \/ ~Intact)

(* Every flood dies out: nothing circulates for ever.                      *)
FloodsEnd == <>[](air = {})

(* A frame is handed over once, at those it is meant for, under its        *)
(* origin's name.                                                          *)
RoutedOnce == DeliveredAtMostOnce /\ OriginIsShown
=============================================================================
