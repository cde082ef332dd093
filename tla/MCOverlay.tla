----------------------------- MODULE MCOverlay ------------------------------
(***************************************************************************)
(* The overlay for TLC: the selectors, connection shaping, routing and RPC *)
(* are looked at one at a time, each over a network of its own.  machine   *)
(* says which of them moves; the others rest in an initial state.          *)
(***************************************************************************)
EXTENDS TopologyLaws, Shape, Routing, Rpc

VARIABLE machine

Mode(k, hubs, n) == [kind |-> k, hubs |-> hubs, n |-> n]
Ids == {<<0, 0>>, <<0, 1>>, <<1, 0>>, <<1, 1>>, <<2, 0>>, <<2, 1>>}
Scores ==
    [x \in Ids \X Ids |-> (2 * x[1][1] + x[2][1] + x[1][2] * x[2][2]) % 3]

(* Selectors: every mode, rings of every width, replication up to 2.       *)
AllModes ==
    {Mode("star", {<<0, 1>>}, 0)}
        \cup {Mode("ring", {}, n) : n \in 0..4}
        \cup {Mode("hubs", {<<0, 1>>, <<1, 0>>, <<2, 0>>}, n) : n \in 0..2}

(* Shaping: a full mesh of three is switched to a star; one spoke pins the *)
(* other.                                                                  *)
Three == {<<0, 0>>, <<0, 1>>, <<1, 0>>}
FullMesh == Mode("fullmesh", {}, 0)
StarAt01 == Mode("star", {<<0, 1>>}, 0)
SpokePin == {<<<<1, 0>>, <<0, 0>>>>}

(* Routing: two application frames, or two envelopes for the relay.        *)
Five == Ids \ {<<2, 1>>}
Shapes ==
    {StarAt01, Mode("ring", {}, 2)}
        \cup {Mode("hubs", {<<0, 1>>, <<1, 0>>}, n) : n \in 1..2}
Sent(id, k, o, d) == [id |-> id, kind |-> k, org |-> o, dst |-> d]
Plans ==
    {{},
     {Sent(1, "broadcast", <<0, 0>>, <<0, 0>>), Sent(2, "directed", <<1, 1>>, <<0, 0>>)},
     {Sent(3, "relayed", <<0, 0>>, <<1, 1>>), Sent(4, "relayAll", <<0, 0>>, <<0, 0>>)}}
RelayHost == {<<0, 1>>}
Everybody == [d \in Five |-> Five \ {d}]

(* RPC: a single-shot call, a streamed one, a streamed one nobody serves.  *)
Served == [single |-> "single", stream |-> "stream", unserved |-> "none"]

MCInit ==
    /\ machine \in {"law", "shape", "routing", "rpc"}
    /\ LawInit /\ ShapeInit /\ RoutingInit /\ RpcInit
    /\ machine # "law" => lawMode = StarAt01
    /\ machine # "routing" => mode = StarAt01 /\ todo = {}

MCNext ==
    \/ /\ machine = "law" /\ LawNext
       /\ UNCHANGED <<machine, shapeVars, routingVars, rpcVars>>
    \/ /\ machine = "shape" /\ ShapeNext
       /\ UNCHANGED <<machine, lawVars, routingVars, rpcVars>>
    \/ /\ machine = "routing" /\ RoutingNext
       /\ UNCHANGED <<machine, lawVars, shapeVars, rpcVars>>
    \/ /\ machine = "rpc" /\ RpcNext
       /\ UNCHANGED <<machine, lawVars, shapeVars, routingVars>>

(* The fairness of Shape, Routing and Rpc, each while it is looked at.     *)
Shaping == machine = "shape"
Fairness ==
    /\ \A d \in Member :
          /\ WF_shapeVars(Shaping /\ SetTopology(d))
          /\ WF_shapeVars(Shaping /\ Prune(d))
          /\ \A p \in Member \ {d} :
                /\ WF_shapeVars(Shaping /\ Activate(d, p))
                /\ WF_shapeVars(Shaping /\ OnShelve(d, p))
                /\ WF_shapeVars(Shaping /\ LinkLost(d, p) /\ failures' = failures)
                /\ WF_shapeVars(Shaping /\ OnAnnounce(d, p))
                /\ WF_shapeVars(Shaping /\ Retry(d, p))
                /\ WF_shapeVars(Shaping /\ ShapeDial(d, p))
    /\ WF_routingVars(machine = "routing" /\ Originate)
    /\ WF_routingVars(machine = "routing" /\ Receive)
    /\ \A c \in Call : WF_rpcVars(machine = "rpc" /\ CallStep(c))
    /\ WF_rpcVars(machine = "rpc" /\ OnRequest)
    /\ WF_rpcVars(machine = "rpc" /\ Inbound)

MCSpec ==
    /\ MCInit /\ [][MCNext]_<<machine, lawVars, shapeVars, routingVars, rpcVars>>
    /\ Fairness

(* The overlay settles: the links of the shape and the pins come up,       *)
(* frames arrive and die out, and calls return.                            *)
OverlaySettles == EdgesConnect /\ PinsConnect /\ EverythingArrives /\ FloodsEnd /\ CallsReturn
=============================================================================
