---------------------------- MODULE TopologyLaws ----------------------------
(***************************************************************************)
(* What the engine relies on about the selectors of Topology, over every   *)
(* membership a network can grow through and every set of hubs it can      *)
(* shrink to.                                                              *)
(***************************************************************************)
EXTENDS Topology

CONSTANTS
    LawModes      \* the modes to start from

VARIABLES
    lawMode,      \* the mode in force
    members       \* the members known to everybody

lawVars == <<lawMode, members>>

(* A device is met for the first time.                                     *)
Join(d) == /\ d \notin members
           /\ members' = members \cup {d}
           /\ UNCHANGED lawMode
(* A hub is taken out of the configuration.                                *)
Retire(h) == /\ h \in lawMode.hubs /\ Cardinality(lawMode.hubs) > 1
             /\ lawMode' = [lawMode EXCEPT !.hubs = @ \ {h}]
             /\ UNCHANGED members

LawInit == lawMode \in LawModes /\ members = lawMode.hubs
LawNext == \E d \in Device : Join(d) \/ Retire(d)
LawSpec == LawInit /\ [][LawNext]_lawVars

(* "Symmetric by contract": both ends of every pair decide alike.          *)
EdgeIsSymmetric ==
    \A a, b \in members : a # b =>
        (edge(lawMode, a, b, members) <=> edge(lawMode, b, a, members))

(* The two neighbours and then the nearest, clockwise first: the walk of   *)
(* select_ring_neighbors against ranks computed one by one.                *)
Rank(me, p) ==
    LET size == Cardinality(members)
        cw == (Index(members, p) + size - Index(members, me)) % size
        ccw == size - cw
    IN  IF cw <= ccw THEN 2 * cw - 1 ELSE 2 * ccw
RingIsNearest ==
    \A me \in members :
        LET peers == members \ {me}
            chosen == select_ring_neighbors(me, peers, lawMode.n)
            quota == IF lawMode.n > 2 THEN lawMode.n ELSE 2
        IN  lawMode.kind = "ring" =>
               chosen = {p \in peers : Cardinality({o \in peers : Rank(me, o) < Rank(me, p)}) < quota}

(* Whoever is a member, the edges connect them all: a hub tier, a star     *)
(* whose hub is there and a ring never fall apart.                         *)
Reach == LET linked == {x \in members \X members : edge(lawMode, x[1], x[2], members)}
             grow[k \in 0..Cardinality(members)] ==
                 IF k = 0 THEN {CHOOSE d \in members : TRUE}
                 ELSE LET near == grow[k - 1]
                      IN  near \cup {x[2] : x \in {y \in linked : y[1] \in near}}
         IN  grow[Cardinality(members)]
ShapeIsConnected == members # {} /\ lawMode.hubs \subseteq members => Reach = members

(* "a hub joining or leaving only moves the spokes that ranked it".        *)
OnlyItsSpokesMove ==
    [][\A h \in Device : Retire(h) =>
          \A s \in Device : h \notin hubs_for(lawMode, s)
                               => hubs_for(lawMode', s) = hubs_for(lawMode, s)]_lawVars

(* The selectors agree with one another at both ends of every pair,        *)
(* connect whoever is a member, and move no spoke that a change of hubs is *)
(* not about.                                                              *)
ShapeLaws ==
    /\ [](EdgeIsSymmetric /\ RingIsNearest /\ ShapeIsConnected)
    /\ OnlyItsSpokesMove
=============================================================================
