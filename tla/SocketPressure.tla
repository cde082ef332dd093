--------------------------- MODULE SocketPressure ---------------------------
(***************************************************************************)
(* The circuit that pauses ICE gathering while the host is out of UDP      *)
(* sockets (engine/state.rs, engine/ice_watchdog.rs).  Every network of a  *)
(* process has its own LocalSocketRecoveryWatch and its own driver, and    *)
(* they share one counter of owners: a circuit armed on one network pauses *)
(* them all.  Restarts that come up meanwhile are deferred and replayed.   *)
(*                                                                         *)
(* The steps of one driver interleave with those of the others where it    *)
(* awaits, between two replayed restarts and while an offer is built.      *)
(***************************************************************************)
EXTENDS Naturals

CONSTANTS
    Network,     \* the joined networks of the process
    Peer,        \* peers of a network
    Steps,       \* length of LOCAL_SOCKET_PROBE_BACKOFF_MS
    MaxWaves     \* bound: circuits armed, probes failed and interfaces lost

ASSUME SocketPressureAssumption ==
    Steps \in Nat \ {0} /\ MaxWaves \in Nat

Request == {"no", "plain", "forced"}

VARIABLES
    circuit,     \* network |-> its LocalSocketRecoveryWatch
    owners,      \* LOCAL_SOCKET_PRESSURE_OWNERS
    postponed,    \* network |-> peer |-> the restart that waits
    replay,      \* network |-> peer |-> the restart the driver took to replay
    building,    \* network |-> the peers whose restart offer is being built
    owed,        \* network |-> peer |-> the restart nobody has run yet
    joined,      \* networks not yet left
    unplugged,     \* the host has no interface
    waves

pressVars == <<circuit, owners, postponed, replay, building, owed, joined, unplugged, waves>>

Closed == [active |-> FALSE, due |-> FALSE, level |-> 0, delay |-> 0, recent |-> FALSE]
Nothing == [p \in Peer |-> "no"]

(* delay 0 is the initial one, delay k the k-th step of the backoff.       *)
PressTypeOK ==
    /\ circuit \in [Network -> [active : BOOLEAN, due : BOOLEAN, level : 0..Steps,
                                delay : 0..Steps, recent : BOOLEAN]]
    /\ owners \in Nat
    /\ {postponed, replay, owed} \subseteq [Network -> [Peer -> Request]]
    /\ building \in [Network -> SUBSET Peer]
    /\ joined \subseteq Network /\ unplugged \in BOOLEAN /\ waves \in 0..MaxWaves

PressInit ==
    /\ circuit = [n \in Network |-> Closed]
    /\ owners = 0
    /\ postponed = [n \in Network |-> Nothing]
    /\ replay = [n \in Network |-> Nothing]
    /\ building = [n \in Network |-> {}]
    /\ owed = [n \in Network |-> Nothing]
    /\ joined = Network
    /\ unplugged = FALSE
    /\ waves = 0

(* local_socket_recovery_active                                            *)
Pressed(n) == circuit[n].active \/ owners > 0
Driving(n) == n \in joined /\ replay[n] = Nothing /\ building[n] = {}

(* defer_ice_restart: a second request for a peer keeps the stronger one.  *)
Stronger(a, b) == IF "forced" \in {a, b} THEN "forced"
                  ELSE IF "plain" \in {a, b} THEN "plain" ELSE "no"
Deferring_Last(n, p, r) == [postponed EXCEPT ![n][p] = r]
Deferring(n, p, r) == [postponed EXCEPT ![n][p] = Stronger(@, r)]

(* LocalSocketRecoveryWatch::arm: a new wave soon after the last one       *)
(* starts further up the backoff.                                          *)
Upper(k) == IF k < Steps THEN k + 1 ELSE Steps
Arm(n) ==
    LET c == circuit[n]
        level == IF c.recent THEN Upper(c.level) ELSE 0
    IN  IF c.active THEN UNCHANGED <<circuit, owners, waves>>
        ELSE /\ waves < MaxWaves
             /\ waves' = waves + 1
             /\ circuit' = [circuit EXCEPT ![n] = [c EXCEPT !.active = TRUE, !.due = FALSE,
                                                            !.level = level, !.delay = level]]
             /\ owners' = owners + 1

(* on_empty_local_gather: a session that never opened or has gone silent   *)
(* is dropped, which forgets its restart; a live one is owed a forced one. *)
EmptyGather(n, p) ==
    /\ Driving(n)
    /\ Arm(n)
    /\ \/ /\ postponed' = [postponed EXCEPT ![n][p] = "no"]
          /\ owed' = [owed EXCEPT ![n][p] = "no"]
       \/ /\ postponed' = Deferring(n, p, "forced")
          /\ owed' = [owed EXCEPT ![n][p] = "forced"]
    /\ UNCHANGED <<replay, building, joined, unplugged>>

(* renegotiate_ice under pressure.                                         *)
DeferRestart(n, p, r) ==
    /\ Driving(n) /\ Pressed(n) /\ ~unplugged
    /\ postponed' = Deferring(n, p, r)
    /\ owed' = [owed EXCEPT ![n][p] = Stronger(@, r)]
    /\ UNCHANGED <<circuit, owners, replay, building, joined, unplugged, waves>>

(* finish_probe: success closes the circuit and gives its ownership back,  *)
(* a failure widens the backoff.                                           *)
Probed(n, success) ==
    LET c == circuit[n]
    IN  IF success
        THEN /\ circuit' = [circuit EXCEPT ![n].active = FALSE, ![n].recent = TRUE]
             /\ owners' = owners - 1
             /\ UNCHANGED waves
        ELSE /\ waves < MaxWaves /\ waves' = waves + 1
             /\ circuit' = [circuit EXCEPT ![n].due = FALSE, ![n].level = Upper(@),
                                           ![n].delay = Upper(c.level)]
             /\ UNCHANGED owners

(* take_deferred_ice_restarts                                              *)
TakeAll(n) ==
    /\ replay' = [replay EXCEPT ![n] = postponed[n]]
    /\ postponed' = [postponed EXCEPT ![n] = Nothing]

(* service_local_socket_recovery on the watchdog's poll: one probe when it *)
(* is due, and when no circuit of the process is open any more the         *)
(* deferred restarts are taken to be replayed.                             *)
Service(n) ==
    /\ Driving(n) /\ ~unplugged
    /\ \/ /\ circuit[n].active /\ circuit[n].due
          /\ \E success \in BOOLEAN : Probed(n, success)
       \/ /\ ~(circuit[n].active /\ circuit[n].due)
          /\ UNCHANGED <<circuit, owners, waves>>
    /\ IF circuit'[n].active \/ owners' > 0 THEN UNCHANGED <<postponed, replay>>
       ELSE TakeAll(n)
    /\ UNCHANGED <<building, owed, joined, unplugged>>

(* The replay of one restart: pressure that came back defers it again, and *)
(* so does a negotiation that is still settling; otherwise its offer is    *)
(* built.                                                                  *)
Replay(n, p) ==
    /\ n \in joined /\ replay[n][p] # "no" /\ building[n] = {}
    /\ replay' = [replay EXCEPT ![n][p] = "no"]
    /\ \/ /\ postponed' = Deferring(n, p, replay[n][p])
          /\ UNCHANGED building
       \/ /\ ~Pressed(n)
          /\ building' = [building EXCEPT ![n] = {p}]
          /\ UNCHANGED postponed
    /\ UNCHANGED <<circuit, owners, owed, joined, unplugged, waves>>

(* The offer is built: it goes out, unless the sockets ran out meanwhile.  *)
OfferBuilt(n, p) ==
    /\ n \in joined /\ p \in building[n]
    /\ building' = [building EXCEPT ![n] = {}]
    /\ IF Pressed(n) THEN postponed' = Deferring(n, p, owed[n][p]) /\ UNCHANGED owed
       ELSE owed' = [owed EXCEPT ![n][p] = "no"] /\ UNCHANGED postponed
    /\ UNCHANGED <<circuit, owners, replay, joined, unplugged, waves>>

(* The network is left while its circuit may be armed (Drop for            *)
(* NetworkState): its ownership is released.                               *)
LeaveNetwork(n) ==
    /\ n \in joined
    /\ joined' = joined \ {n}
    /\ owners' = IF circuit[n].active THEN owners - 1 ELSE owners
    /\ circuit' = [circuit EXCEPT ![n] = Closed]
    /\ postponed' = [postponed EXCEPT ![n] = Nothing]
    /\ replay' = [replay EXCEPT ![n] = Nothing]
    /\ building' = [building EXCEPT ![n] = {}]
    /\ owed' = [owed EXCEPT ![n] = Nothing]
    /\ UNCHANGED <<unplugged, waves>>

(* Time: the next probe comes due, and LOCAL_SOCKET_RECOVERY_MEMORY_MS     *)
(* passes.  The host goes offline and comes back.                          *)
ProbeDue(n) ==
    /\ circuit[n].active /\ ~circuit[n].due
    /\ circuit' = [circuit EXCEPT ![n].due = TRUE]
    /\ UNCHANGED <<owners, postponed, replay, building, owed, joined, unplugged, waves>>
MemoryEnds(n) ==
    /\ circuit[n].recent /\ ~circuit[n].active
    /\ circuit' = [circuit EXCEPT ![n].recent = FALSE]
    /\ UNCHANGED <<owners, postponed, replay, building, owed, joined, unplugged, waves>>
Interface(up) ==
    /\ unplugged = up
    /\ unplugged' = ~up
    /\ up \/ waves < MaxWaves
    /\ waves' = IF up THEN waves ELSE waves + 1
    /\ UNCHANGED <<circuit, owners, postponed, replay, building, owed, joined>>

PressNext ==
    \/ \E n \in Network :
          \/ \E p \in Peer : \/ EmptyGather(n, p) \/ Replay(n, p) \/ OfferBuilt(n, p)
                             \/ \E r \in {"plain", "forced"} : DeferRestart(n, p, r)
          \/ Service(n) \/ LeaveNetwork(n) \/ ProbeDue(n) \/ MemoryEnds(n)
    \/ \E up \in BOOLEAN : Interface(up)

PressSpec == PressInit /\ [][PressNext]_pressVars

-----------------------------------------------------------------------------
(* The members of S can be listed as a first, a second, ..., a k-th.       *)
Counts(k, S) ==
    \E q \in [1..k -> S] :
        /\ \A i, j \in 1..k : q[i] = q[j] => i = j
        /\ \A x \in S : \E i \in 1..k : q[i] = x

(* The shared counter is the number of armed circuits, whatever was armed, *)
(* probed or left in which order: a count too high pauses every network of *)
(* the process for good, one too low lets them gather under pressure.      *)
OwnersExact == Counts(owners, {n \in joined : circuit[n].active})

(* A restart that pressure postponed is never forgotten or weakened: until *)
(* it has run it waits in the deferred set, in the driver's hands, or on   *)
(* an offer under construction.                                            *)
RestartKept ==
    \A n \in Network, p \in Peer :
        p \in building[n]
            \/ Stronger(Stronger(postponed[n][p], replay[n][p]), owed[n][p])
                 = Stronger(postponed[n][p], replay[n][p])

(* Within one wave the delays between probes only widen.                   *)
DelaysWiden ==
    [][\A n \in Network : circuit[n].active /\ circuit'[n].active
                          => circuit'[n].delay >= circuit[n].delay]_pressVars

(* The pause is exact: counted once per armed circuit, probed ever more    *)
(* slowly, and forgetful of no restart that it postponed.                  *)
PressureExact == [](PressTypeOK /\ OwnersExact /\ RestartKept) /\ DelaysWiden
=============================================================================
