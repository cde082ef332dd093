------------------------------ MODULE Topology ------------------------------
(***************************************************************************)
(* The topology selectors (topology/): pure functions by which every       *)
(* device decides which connections should exist, which of them carry      *)
(* frames, who forwards, and where a frame for an unconnected member goes. *)
(*                                                                         *)
(* A device id is a sequence of letters, compared as the strings of the    *)
(* code are.  SHA-256 over (spoke, hub) is the constant Score.             *)
(***************************************************************************)
EXTENDS Integers, Sequences, FiniteSets

CONSTANTS
    Device,       \* device ids: sequences of naturals
    Score         \* [Device \X Device -> Nat]: rendezvous_score(spoke, hub)

(* The order of Rust's strings.                                            *)
Common(a, b) ==
    LET n == IF Len(a) < Len(b) THEN Len(a) ELSE Len(b)
    IN  CHOOSE k \in 0..n : (\A i \in 1..k : a[i] = b[i]) /\ (k < n => a[k + 1] # b[k + 1])
Less(a, b) ==
    LET k == Common(a, b)
    IN  \/ k = Len(a) /\ k < Len(b)
        \/ k < Len(a) /\ k < Len(b) /\ a[k + 1] < b[k + 1]

(* ring_distance: the longer id's length less the common prefix.           *)
ring_distance(a, b) ==
    LET longer == IF Len(a) < Len(b) THEN Len(b) ELSE Len(a)
    IN  (IF longer = 0 THEN 1 ELSE longer) - Common(a, b)

(***************************************************************************)
(* Ring                                                                    *)
(***************************************************************************)
(* Position of a member on the sorted ring, from 0, and the member there.  *)
Index(ring, d) == Cardinality({x \in ring : Less(x, d)})
At(ring, i) == CHOOSE d \in ring : Index(ring, d) = i % Cardinality(ring)

(* The walk outward, at every distance clockwise first: the two neighbours,*)
(* and then on while the set is short of n.                                *)
Outward(ring, me, n) ==
    LET size == Cardinality(ring)
        here == Index(ring, me)
        Stop(k) == At(ring, here + IF k % 2 = 1 THEN (k + 1) \div 2 ELSE size - k \div 2)
        walk[k \in 0..2 * (size - 1)] ==
            IF k = 0 THEN {}
            ELSE LET chosen == walk[k - 1]
                 IN  IF k > 2 /\ Cardinality(chosen) >= n THEN chosen
                     ELSE chosen \cup ({Stop(k)} \ {me})
    IN  walk[2 * (size - 1)]

select_ring_neighbors(me, peers, n) ==
    IF Cardinality(peers) <= n THEN peers ELSE Outward(peers \cup {me}, me, n)

(***************************************************************************)
(* Hubs                                                                    *)
(***************************************************************************)

hubs_for(mode, spoke) ==
    LET Ahead(g, h) == \/ Score[spoke, g] > Score[spoke, h]
                       \/ Score[spoke, g] = Score[spoke, h] /\ Less(g, h)
    IN  {h \in mode.hubs : Cardinality({g \in mode.hubs : Ahead(g, h)})
                             < IF mode.n > 1 THEN mode.n ELSE 1}

(***************************************************************************)
(* The four modes: [kind, hubs, n].  Star is one hub.                      *)
(***************************************************************************)
IsHub(mode, d) == d \in mode.hubs

(* Only the asking end's choice counts.                                    *)
RingEdge_OneSided(mode, a, b, all) ==
    b \in select_ring_neighbors(a, (all \cup {a, b}) \ {a}, mode.n)

RingEdge(mode, a, b, all) ==
    \E x \in {<<a, b>>, <<b, a>>} :
        x[2] \in select_ring_neighbors(x[1], (all \cup {a, b}) \ {x[1]}, mode.n)

HubsEdge(mode, a, b) ==
    \/ IsHub(mode, a) /\ IsHub(mode, b)
    \/ \E x \in {<<a, b>>, <<b, a>>} : ~IsHub(mode, x[1]) /\ x[2] \in hubs_for(mode, x[1])

edge(mode, a, b, all) ==
    CASE mode.kind = "fullmesh" -> TRUE
      [] mode.kind = "star" -> IsHub(mode, a) \/ IsHub(mode, b)
      [] mode.kind = "ring" -> RingEdge(mode, a, b, all)
      [] mode.kind = "hubs" -> HubsEdge(mode, a, b)

select_preferred(mode, me, peers) ==
    CASE mode.kind = "fullmesh" -> peers
      [] mode.kind = "star" -> IF IsHub(mode, me) THEN peers ELSE peers \cap mode.hubs
      [] mode.kind = "ring" -> select_ring_neighbors(me, peers, mode.n)
      [] mode.kind = "hubs" -> {p \in peers : HubsEdge(mode, me, p)}

prunes(mode) == mode.kind # "fullmesh"

forwards(mode, me) ==
    CASE mode.kind = "fullmesh" -> FALSE
      [] mode.kind = "ring" -> TRUE
      [] OTHER -> IsHub(mode, me)

(* One hop too few for a hub tier.                                         *)
flood_ttl_Short(mode) ==
    CASE mode.kind = "star" -> 3 [] mode.kind = "ring" -> 32 [] OTHER -> 1

flood_ttl(mode) ==
    CASE mode.kind = "star" -> 3 [] mode.kind = "ring" -> 32 [] OTHER -> 4

(* The hops to try.  A ring takes one of the nearest connected peers (ties *)
(* fall to the map's iteration order); the others try all in any order.    *)
next_hops(mode, me, dest, connected) ==
    LET peers == connected \ {me}
        nearest == {c \in peers : \A o \in peers : ring_distance(c, dest) <= ring_distance(o, dest)}
        destHubs == IF IsHub(mode, dest) THEN {dest} ELSE hubs_for(mode, dest)
        direct == connected \cap destHubs
    IN  CASE mode.kind = "fullmesh" -> {{}}
          [] mode.kind = "star" -> {IF IsHub(mode, me) THEN {} ELSE connected \cap mode.hubs}
          [] mode.kind = "ring" -> IF nearest = {} THEN {{}} ELSE {{c} : c \in nearest}
          [] mode.kind = "hubs" -> {IF direct # {} THEN direct ELSE peers \cap mode.hubs}
=============================================================================
