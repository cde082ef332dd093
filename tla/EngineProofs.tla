---------------------------- MODULE EngineProofs ----------------------------
(***************************************************************************)
(* Proofs about three stores that tasks of one process share:              *)
(* SocketPressure, for any networks and peers and any length of the        *)
(* backoff; MediaLanes, for any number of callers and lanes; and Custody,  *)
(* for any number of tasks inside it, networks and recovery codes.         *)
(***************************************************************************)
EXTENDS Custody, MediaLanes, SocketPressure, TLAPS

(* What a leaf is tried with, in this order, and for how many seconds.     *)
USE ZenonT(3), SMTT(25), ZenonT(40)

-----------------------------------------------------------------------------
(* Socket pressure: the inductive invariant                                *)

Circuit == [active : BOOLEAN, due : BOOLEAN, level : 0..Steps, delay : 0..Steps, recent : BOOLEAN]

Armed == {n \in joined : circuit[n].active}

(* Only a joined network has an armed circuit, and its delay never exceeds *)
(* the level that the next failed probe starts from.                       *)
CircuitInv ==
    /\ circuit \in [Network -> Circuit]
    /\ joined \subseteq Network /\ unplugged \in BOOLEAN /\ waves \in 0..MaxWaves
    /\ owners \in Nat /\ Counts(owners, Armed)
    /\ \A n \in Network : circuit[n].active => n \in joined /\ circuit[n].delay <= circuit[n].level

(* The restart of p on n that nobody has run yet is in somebody's hands.   *)
Kept(n, p) ==
    p \in building[n]
        \/ Stronger(Stronger(postponed[n][p], replay[n][p]), owed[n][p])
             = Stronger(postponed[n][p], replay[n][p])

(* A driver builds one restart offer at a time, and no restart is lost.    *)
RestartInv ==
    /\ postponed \in [Network -> [Peer -> Request]]
    /\ replay \in [Network -> [Peer -> Request]]
    /\ owed \in [Network -> [Peer -> Request]]
    /\ building \in [Network -> SUBSET Peer]
    /\ \A n \in Network : \A p, q \in building[n] : p = q
    /\ \A n \in Network, p \in Peer : Kept(n, p)

PressInv == CircuitInv /\ RestartInv

-----------------------------------------------------------------------------
(* Socket pressure: the proof                                              *)

(* The stronger of two requests is a join: it is a request, idempotent,    *)
(* commutative and associative, with "no" below everything.                *)
LEMMA StrongerIsJoin ==
    /\ \A r, s \in Request : /\ Stronger(r, s) \in Request
                             /\ Stronger(r, s) = Stronger(s, r)
                             /\ Stronger(r, Stronger(r, s)) = Stronger(r, s)
                             /\ Stronger(r, r) = r /\ Stronger("no", r) = r
    /\ \A r, s, t \in Request : Stronger(Stronger(r, s), t) = Stronger(r, Stronger(s, t))
  BY DEF Stronger, Request

(* A restart that is deferred once more stays in somebody's hands.         *)
LEMMA DeferringKeeps ==
    ASSUME RestartInv, NEW n \in Network, NEW p \in Peer, NEW r \in Request,
           postponed' = Deferring(n, p, r)
    PROVE  /\ postponed' \in [Network -> [Peer -> Request]]
           /\ postponed'[n][p] = Stronger(postponed[n][p], r)
           /\ \A m \in Network, q \in Peer : <<m, q>> # <<n, p>> => postponed'[m][q] = postponed[m][q]
  <1>1. Stronger(postponed[n][p], r) \in Request
    BY StrongerIsJoin DEF RestartInv
  <1> QED
    BY <1>1 DEF RestartInv, Deferring

LEMMA QuietRestarts ==
    ASSUME RestartInv, UNCHANGED <<postponed, replay, building, owed>>
    PROVE  RestartInv'
  BY DEF RestartInv, Kept

(* on_empty_local_gather: the restart goes with its session, or is forced. *)
LEMMA GatherKeeps ==
    ASSUME RestartInv, NEW n \in Network, NEW p \in Peer, EmptyGather(n, p)
    PROVE  RestartInv'
  <1>1. UNCHANGED <<replay, building>> /\ replay[n][p] = "no"
    BY DEF EmptyGather, Driving, Nothing
  <1>2. CASE /\ postponed' = [postponed EXCEPT ![n][p] = "no"]
             /\ owed' = [owed EXCEPT ![n][p] = "no"]
    BY <1>1, <1>2 DEF RestartInv, Kept, Request, Stronger
  <1>3. CASE /\ postponed' = Deferring(n, p, "forced")
             /\ owed' = [owed EXCEPT ![n][p] = "forced"]
    <2>1. /\ postponed' \in [Network -> [Peer -> Request]]
          /\ postponed'[n][p] = Stronger(postponed[n][p], "forced")
          /\ \A m \in Network, q \in Peer : <<m, q>> # <<n, p>> => postponed'[m][q] = postponed[m][q]
      BY <1>3, DeferringKeeps DEF Request
    <2>2. /\ owed' \in [Network -> [Peer -> Request]] /\ owed'[n][p] = "forced"
          /\ \A m \in Network, q \in Peer : <<m, q>> # <<n, p>> => owed'[m][q] = owed[m][q]
      BY <1>3 DEF RestartInv, Request
    <2>3. Kept(n, p)'
      BY <1>1, <2>1, <2>2 DEF Kept, Stronger
    <2>4. \A m \in Network, q \in Peer : <<m, q>> # <<n, p>> => Kept(m, q)'
      BY <1>1, <2>1, <2>2 DEF RestartInv, Kept
    <2> QED
      BY <1>1, <2>1, <2>2, <2>3, <2>4 DEF RestartInv
  <1> QED
    BY <1>2, <1>3 DEF EmptyGather

(* renegotiate_ice under pressure: what is owed and what is deferred grow  *)
(* by the same request.                                                    *)
LEMMA DeferKeeps ==
    ASSUME RestartInv, NEW n \in Network, NEW p \in Peer, NEW r \in {"plain", "forced"},
           DeferRestart(n, p, r)
    PROVE  RestartInv'
  <1>1. UNCHANGED <<replay, building>> /\ r \in Request /\ owed[n][p] \in Request
    BY DEF DeferRestart, Request, RestartInv
  <1>2. /\ postponed' \in [Network -> [Peer -> Request]]
        /\ postponed'[n][p] = Stronger(postponed[n][p], r)
        /\ \A m \in Network, q \in Peer : <<m, q>> # <<n, p>> => postponed'[m][q] = postponed[m][q]
    BY <1>1, DeferringKeeps DEF DeferRestart
  <1>3. /\ owed' \in [Network -> [Peer -> Request]] /\ owed'[n][p] = Stronger(owed[n][p], r)
        /\ \A m \in Network, q \in Peer : <<m, q>> # <<n, p>> => owed'[m][q] = owed[m][q]
    BY ZenonT(60), <1>1, StrongerIsJoin DEF DeferRestart, RestartInv
  <1>4. Kept(n, p)'
    <2>1. \A a, b, c \in Request :
             Stronger(Stronger(a, b), c) = Stronger(a, b)
               => Stronger(Stronger(Stronger(a, r), b), Stronger(c, r)) = Stronger(Stronger(a, r), b)
      BY <1>1 DEF Stronger, Request
    <2>2. postponed[n][p] \in Request /\ replay[n][p] \in Request /\ Kept(n, p)
      BY DEF RestartInv
    <2> DEFINE a == postponed[n][p]
               b == replay[n][p]
               c == owed[n][p]
    <2>3. Stronger(Stronger(a, b), c) = Stronger(a, b)
            => Stronger(Stronger(Stronger(a, r), b), Stronger(c, r)) = Stronger(Stronger(a, r), b)
      BY ONLY ZenonT(60), <1>1, <2>1, <2>2
    <2>4. /\ building'[n] = building[n] /\ replay'[n][p] = b
          /\ postponed'[n][p] = Stronger(a, r) /\ owed'[n][p] = Stronger(c, r)
      BY <1>1, <1>2, <1>3
    <2> QED
      BY ZenonT(30), <2>2, <2>3, <2>4 DEF Kept
  <1>5. \A m \in Network, q \in Peer : <<m, q>> # <<n, p>> => Kept(m, q)'
    BY <1>1, <1>2, <1>3 DEF RestartInv, Kept
  <1> QED
    BY <1>1, <1>2, <1>3, <1>4, <1>5 DEF RestartInv

(* take_deferred_ice_restarts, by a driver that has nothing left to        *)
(* replay: the restarts change hands.                                      *)
LEMMA ServiceKeeps ==
    ASSUME RestartInv, NEW n \in Network, Service(n)
    PROVE  RestartInv'
  <1>1. UNCHANGED <<building, owed>> /\ replay[n] = Nothing
    BY DEF Service, Driving
  <1>2. CASE UNCHANGED <<postponed, replay>>
    BY <1>1, <1>2, QuietRestarts
  <1>3. CASE TakeAll(n)
    <2>a. Nothing \in [Peer -> Request] /\ \A q \in Peer : Nothing[q] = "no"
      BY DEF Nothing, Request
    <2>1. /\ replay' \in [Network -> [Peer -> Request]]
          /\ postponed' \in [Network -> [Peer -> Request]]
          /\ \A q \in Peer : /\ replay'[n][q] = postponed[n][q] /\ postponed'[n][q] = "no"
                             /\ replay[n][q] = "no"
          /\ \A m \in Network \ {n} : replay'[m] = replay[m] /\ postponed'[m] = postponed[m]
      BY <1>1, <1>3, <2>a DEF TakeAll, RestartInv
    <2>2. \A q \in Peer : Kept(n, q)'
      <3> SUFFICES ASSUME NEW q \in Peer PROVE Kept(n, q)'
        OBVIOUS
      <3>1. Stronger(postponed[n][q], "no") = Stronger("no", postponed[n][q])
        BY StrongerIsJoin DEF RestartInv, Request
      <3> QED
        BY <1>1, <2>1, <3>1 DEF RestartInv, Kept
    <2>3. \A m \in Network \ {n}, q \in Peer : Kept(m, q)'
      BY <1>1, <2>1 DEF RestartInv, Kept
    <2> QED
      BY <1>1, <2>1, <2>2, <2>3 DEF RestartInv
  <1> QED
    BY <1>2, <1>3 DEF Service

(* The replay of one restart hands it on: back to the deferred ones, or to *)
(* the offer under construction.                                           *)
LEMMA ReplayKeeps ==
    ASSUME RestartInv, NEW n \in Network, NEW p \in Peer, Replay(n, p)
    PROVE  RestartInv'
  <1> DEFINE r == replay[n][p]
  <1>1. /\ r \in Request /\ building[n] = {} /\ owed' = owed
        /\ replay' \in [Network -> [Peer -> Request]] /\ replay'[n][p] = "no"
        /\ \A m \in Network, q \in Peer : <<m, q>> # <<n, p>> => replay'[m][q] = replay[m][q]
    BY DEF Replay, RestartInv, Request
  <1>2. CASE postponed' = Deferring(n, p, r) /\ UNCHANGED building
    <2>1. /\ postponed' \in [Network -> [Peer -> Request]]
          /\ postponed'[n][p] = Stronger(postponed[n][p], r)
          /\ \A m \in Network, q \in Peer : <<m, q>> # <<n, p>> => postponed'[m][q] = postponed[m][q]
      BY <1>1, <1>2, DeferringKeeps
    <2>2. Kept(n, p)'
      <3>1. Stronger(Stronger(postponed[n][p], r), "no") = Stronger(postponed[n][p], r)
        BY <1>1 DEF Stronger, RestartInv, Request
      <3> QED
        BY <1>1, <1>2, <2>1, <3>1 DEF RestartInv, Kept
    <2>3. \A m \in Network, q \in Peer : <<m, q>> # <<n, p>> => Kept(m, q)'
      BY <1>1, <1>2, <2>1 DEF RestartInv, Kept
    <2> QED
      BY <1>1, <1>2, <2>1, <2>2, <2>3 DEF RestartInv
  <1>3. CASE building' = [building EXCEPT ![n] = {p}] /\ UNCHANGED postponed
    <2>1. \A m \in Network, q \in Peer : <<m, q>> # <<n, p>> => Kept(m, q)'
      BY <1>1, <1>3 DEF RestartInv, Kept
    <2>2. Kept(n, p)'
      BY <1>3 DEF RestartInv, Kept
    <2> QED
      BY <1>1, <1>3, <2>1, <2>2 DEF RestartInv
  <1> QED
    BY <1>2, <1>3 DEF Replay

(* The offer goes out and nothing is owed, or what is owed is deferred.    *)
LEMMA BuiltKeeps ==
    ASSUME RestartInv, NEW n \in Network, NEW p \in Peer, OfferBuilt(n, p)
    PROVE  RestartInv'
  <1>1. /\ replay' = replay /\ p \in building[n] /\ owed[n][p] \in Request
        /\ building' = [building EXCEPT ![n] = {}]
        /\ \A q \in building[n] : q = p
    BY DEF OfferBuilt, RestartInv
  <1>2. CASE postponed' = Deferring(n, p, owed[n][p]) /\ UNCHANGED owed
    <2>1. /\ postponed' \in [Network -> [Peer -> Request]]
          /\ postponed'[n][p] = Stronger(postponed[n][p], owed[n][p])
          /\ \A m \in Network, q \in Peer : <<m, q>> # <<n, p>> => postponed'[m][q] = postponed[m][q]
      BY <1>1, <1>2, DeferringKeeps
    <2>2. Kept(n, p)'
      <3>1. \A a, b, c \in Request :
               Stronger(Stronger(Stronger(a, c), b), c) = Stronger(Stronger(a, c), b)
        BY DEF Stronger, Request
      <3> QED
        BY <1>1, <1>2, <2>1, <3>1 DEF RestartInv, Kept
    <2>3. \A m \in Network, q \in Peer : <<m, q>> # <<n, p>> => Kept(m, q)'
      BY <1>1, <1>2, <2>1 DEF RestartInv, Kept
    <2> QED
      BY <1>1, <1>2, <2>1, <2>2, <2>3 DEF RestartInv
  <1>3. CASE owed' = [owed EXCEPT ![n][p] = "no"] /\ UNCHANGED postponed
    <2>1. /\ owed' \in [Network -> [Peer -> Request]] /\ owed'[n][p] = "no"
          /\ \A m \in Network, q \in Peer : <<m, q>> # <<n, p>> => owed'[m][q] = owed[m][q]
      BY <1>3 DEF RestartInv, Request
    <2>2. Kept(n, p)'
      <3>1. \A a, b \in Request : Stronger(Stronger(a, b), "no") = Stronger(a, b)
        BY DEF Stronger, Request
      <3> QED
        BY <1>1, <1>3, <2>1, <3>1 DEF RestartInv, Kept
    <2>3. \A m \in Network, q \in Peer : <<m, q>> # <<n, p>> => Kept(m, q)'
      BY <1>1, <1>3, <2>1 DEF RestartInv, Kept
    <2> QED
      BY <1>1, <1>3, <2>1, <2>2, <2>3 DEF RestartInv
  <1> QED
    BY <1>2, <1>3 DEF OfferBuilt

(* A network that is left owes no restart.                                 *)
LEMMA LeaveForgets ==
    ASSUME RestartInv, NEW n \in Network, LeaveNetwork(n)
    PROVE  RestartInv'
  <1>1. Nothing \in [Peer -> Request] /\ \A q \in Peer : Nothing[q] = "no"
    BY DEF Nothing, Request
  <1>2. /\ postponed' \in [Network -> [Peer -> Request]]
        /\ replay' \in [Network -> [Peer -> Request]]
        /\ owed' \in [Network -> [Peer -> Request]]
        /\ building' = [building EXCEPT ![n] = {}]
        /\ postponed'[n] = Nothing /\ replay'[n] = Nothing /\ owed'[n] = Nothing
        /\ \A m \in Network \ {n} : /\ postponed'[m] = postponed[m] /\ replay'[m] = replay[m]
                                    /\ owed'[m] = owed[m]
    BY <1>1 DEF LeaveNetwork, RestartInv
  <1>3. \A q \in Peer : Kept(n, q)'
    BY <1>1, <1>2 DEF Kept, Stronger
  <1>4. \A m \in Network \ {n}, q \in Peer : Kept(m, q)'
    BY <1>2 DEF RestartInv, Kept
  <1> QED
    BY <1>2, <1>3, <1>4 DEF RestartInv

(* How a count follows its set.                                            *)
LEMMA CountNone == Counts(0, {})
  <1> DEFINE q == [i \in 1..0 |-> i]
  <1>1. q \in [1..0 -> {}]
    OBVIOUS
  <1>2. \A i, j \in 1..0 : q[i] = q[j] => i = j
    OBVIOUS
  <1> HIDE DEF q
  <1> QED
    BY ZenonT(60), <1>1, <1>2 DEF Counts

LEMMA CountOneMore ==
    ASSUME NEW k \in Nat, NEW S, NEW n, n \notin S, Counts(k, S)
    PROVE  Counts(k + 1, S \cup {n})
  <1>1. PICK q \in [1..k -> S] :
           /\ \A i, j \in 1..k : q[i] = q[j] => i = j
           /\ \A x \in S : \E i \in 1..k : q[i] = x
    BY DEF Counts
  <1> DEFINE r == [i \in 1..(k + 1) |-> IF i = k + 1 THEN n ELSE q[i]]
  <1>2. r \in [1..(k + 1) -> S \cup {n}]
    OBVIOUS
  <1>3. \A i, j \in 1..(k + 1) : r[i] = r[j] => i = j
    BY <1>1
  <1>4. \A x \in S \cup {n} : \E i \in 1..(k + 1) : r[i] = x
    <2>1. r[k + 1] = n /\ k + 1 \in 1..(k + 1)
      OBVIOUS
    <2>2. \A i \in 1..k : r[i] = q[i] /\ i \in 1..(k + 1)
      OBVIOUS
    <2> HIDE DEF r
    <2> QED
      BY ZenonT(60), <1>1, <2>1, <2>2
  <1> HIDE DEF r
  <1> QED
    BY ZenonT(60), <1>2, <1>3, <1>4 DEF Counts

LEMMA CountOneLess ==
    ASSUME NEW k \in Nat, NEW S, NEW n \in S, Counts(k, S)
    PROVE  k - 1 \in Nat /\ Counts(k - 1, S \ {n})
  <1>1. PICK q \in [1..k -> S] :
           /\ \A i, j \in 1..k : q[i] = q[j] => i = j
           /\ \A x \in S : \E i \in 1..k : q[i] = x
    BY DEF Counts
  <1>2. PICK m \in 1..k : q[m] = n
    BY <1>1
  <1> DEFINE r == [i \in 1..(k - 1) |-> IF i = m THEN q[k] ELSE q[i]]
  <1>3. r \in [1..(k - 1) -> S \ {n}]
    BY <1>1, <1>2
  <1>4. \A i, j \in 1..(k - 1) : r[i] = r[j] => i = j
    BY <1>1, <1>2
  <1>5. \A x \in S \ {n} : \E i \in 1..(k - 1) : r[i] = x
    <2> SUFFICES ASSUME NEW x \in S \ {n} PROVE \E i \in 1..(k - 1) : r[i] = x
      OBVIOUS
    <2>1. PICK i \in 1..k : q[i] = x
      BY <1>1
    <2>2. i # m
      BY <1>2, <2>1
    <2>3. CASE i = k
      <3>1. m \in 1..(k - 1) /\ r[m] = x
        BY <1>2, <2>1, <2>2, <2>3
      <3> QED
        BY <3>1
    <2>4. CASE i # k
      <3>1. i \in 1..(k - 1) /\ r[i] = x
        BY <2>1, <2>2, <2>4
      <3> QED
        BY <3>1
    <2> QED
      BY <2>3, <2>4
  <1>6. k - 1 \in Nat
    BY <1>2
  <1> HIDE DEF r
  <1> QED
    BY ZenonT(60), <1>3, <1>4, <1>5, <1>6 DEF Counts

(* The first state satisfies the invariant.                                *)
LEMMA PressStarts == PressInit => PressInv
  <1> SUFFICES ASSUME PressInit PROVE PressInv
    OBVIOUS
  <1>1. CircuitInv
    <2>1. Closed \in Circuit /\ Closed.active = FALSE
      BY SocketPressureAssumption DEF Closed, Circuit
    <2>2. Armed = {}
      BY <2>1 DEF PressInit, Armed
    <2>3. owners \in Nat /\ Counts(owners, Armed)
      BY <2>2, CountNone DEF PressInit
    <2>4. /\ circuit = [n \in Network |-> Closed] /\ joined = Network /\ unplugged = FALSE
          /\ waves = 0 /\ owners = 0
      BY DEF PressInit
    <2>5. circuit \in [Network -> Circuit] /\ \A n \in Network : ~circuit[n].active
      BY <2>1, <2>4
    <2>6. waves \in 0..MaxWaves
      BY <2>4, SocketPressureAssumption
    <2> QED
      BY ZenonT(60), <2>2, <2>3, <2>4, <2>5, <2>6 DEF CircuitInv
  <1>2. RestartInv
    BY DEF PressInit, RestartInv, Kept, Stronger, Nothing, Request
  <1> QED
    BY <1>1, <1>2 DEF PressInv

(* The invariant gives the properties of a state.                          *)
LEMMA PressMeans == PressInv => PressTypeOK /\ OwnersExact /\ RestartKept
  <1> SUFFICES ASSUME PressInv PROVE PressTypeOK /\ OwnersExact /\ RestartKept
    OBVIOUS
  <1>1. PressTypeOK
    BY DEF PressInv, CircuitInv, RestartInv, PressTypeOK, Circuit
  <1>2. OwnersExact /\ RestartKept
    BY DEF PressInv, CircuitInv, RestartInv, OwnersExact, RestartKept, Armed, Kept
  <1> QED
    BY <1>1, <1>2

(* A step of DelaysWiden.                                                  *)
Widens ==
    \A n \in Network : circuit[n].active /\ circuit'[n].active
                       => circuit'[n].delay >= circuit[n].delay

LEMMA QuietCircuits ==
    ASSUME CircuitInv, UNCHANGED <<circuit, owners, joined, unplugged, waves>>
    PROVE  CircuitInv' /\ Widens
  BY DEF CircuitInv, Armed, Widens, Circuit

(* Arming counts an owner exactly when the circuit was not armed yet.      *)
LEMMA ArmKeeps ==
    ASSUME CircuitInv, NEW n \in joined, Arm(n), UNCHANGED <<joined, unplugged>>
    PROVE  CircuitInv' /\ Widens
  <1>1. CASE circuit[n].active
    BY <1>1, QuietCircuits DEF Arm
  <1>2. CASE ~circuit[n].active
    <2> DEFINE level == IF circuit[n].recent THEN Upper(circuit[n].level) ELSE 0
    <2>1. n \in Network /\ circuit[n] \in Circuit
      BY DEF CircuitInv
    <2>2. level \in 0..Steps
      BY <2>1, SocketPressureAssumption DEF Circuit, Upper
    <2>3. /\ waves < MaxWaves /\ waves' = waves + 1 /\ owners' = owners + 1
          /\ circuit' = [circuit EXCEPT ![n] = [circuit[n] EXCEPT !.active = TRUE, !.due = FALSE,
                                                                 !.level = level, !.delay = level]]
      BY <1>2 DEF Arm
    <2> HIDE DEF level
    <2>4. /\ circuit' \in [Network -> Circuit]
          /\ circuit'[n].active /\ circuit'[n].delay = level /\ circuit'[n].level = level
          /\ \A m \in Network \ {n} : circuit'[m] = circuit[m]
      BY ZenonT(60), <2>1, <2>2, <2>3 DEF CircuitInv, Circuit
    <2>5. Armed' = Armed \cup {n} /\ n \notin Armed /\ Armed \in SUBSET Network
      BY <1>2, <2>1, <2>4 DEF Armed, CircuitInv
    <2>6. owners' \in Nat /\ Counts(owners', Armed')
      BY <2>3, <2>5, CountOneMore DEF CircuitInv
    <2>7. waves' \in 0..MaxWaves
      BY <2>3, SocketPressureAssumption DEF CircuitInv
    <2>8. \A m \in Network : circuit'[m].active =>
              m \in joined' /\ circuit'[m].delay <= circuit'[m].level
      BY <2>1, <2>2, <2>4 DEF CircuitInv
    <2>9. Widens
      BY <1>2, <2>1, <2>4 DEF Widens, CircuitInv, Circuit
    <2> QED
      BY <2>4, <2>6, <2>7, <2>8, <2>9 DEF CircuitInv
  <1> QED
    BY <1>1, <1>2

(* A probe gives the ownership back or widens the delay.                   *)
LEMMA ProbedKeeps ==
    ASSUME CircuitInv, NEW n \in joined, circuit[n].active, NEW success \in BOOLEAN,
           Probed(n, success), UNCHANGED <<joined, unplugged>>
    PROVE  CircuitInv' /\ Widens
  <1>1. n \in Network /\ circuit[n] \in Circuit /\ circuit[n].delay <= circuit[n].level
    BY DEF CircuitInv
  <1>2. CASE success
    <2> DEFINE new == [circuit[n] EXCEPT !.active = FALSE, !.recent = TRUE]
    <2>a. new \in Circuit /\ ~new.active
      BY ZenonT(60), <1>1 DEF Circuit
    <2>b. circuit' = [circuit EXCEPT ![n] = new] /\ owners' = owners - 1 /\ waves' = waves
      BY ZenonT(60), <1>2 DEF Probed
    <2> HIDE DEF new
    <2>1. /\ circuit' \in [Network -> Circuit] /\ ~circuit'[n].active
          /\ \A m \in Network \ {n} : circuit'[m] = circuit[m]
          /\ owners' = owners - 1 /\ waves' = waves
      BY <1>1, <2>a, <2>b DEF CircuitInv
    <2>2. Armed' = Armed \ {n} /\ n \in Armed /\ Armed \in SUBSET Network
      BY <1>1, <2>1 DEF Armed, CircuitInv
    <2>3. owners' \in Nat /\ Counts(owners', Armed')
      BY <2>1, <2>2, CountOneLess DEF CircuitInv
    <2>4. Widens
      BY <1>1, <2>1 DEF Widens, CircuitInv, Circuit
    <2> QED
      BY <1>1, <2>1, <2>3, <2>4 DEF CircuitInv
  <1>3. CASE ~success
    <2>1. /\ Upper(circuit[n].level) \in 0..Steps
          /\ Upper(circuit[n].level) >= circuit[n].delay
      BY <1>1, SocketPressureAssumption DEF Upper, Circuit
    <2> DEFINE level == Upper(circuit[n].level)
               new == [circuit[n] EXCEPT !.due = FALSE, !.level = level, !.delay = level]
    <2>a. new \in Circuit /\ new.active /\ new.level = level /\ new.delay = level
      BY ZenonT(60), <1>1, <2>1 DEF Circuit
    <2>b. /\ circuit' = [circuit EXCEPT ![n] = new]
           /\ owners' = owners /\ waves < MaxWaves /\ waves' = waves + 1
      BY ZenonT(60), <1>3 DEF Probed
    <2> HIDE DEF new
    <2>2. /\ circuit' \in [Network -> Circuit] /\ circuit'[n].active
          /\ circuit'[n].delay = Upper(circuit[n].level)
          /\ circuit'[n].level = Upper(circuit[n].level)
          /\ \A m \in Network \ {n} : circuit'[m] = circuit[m]
          /\ owners' = owners /\ waves < MaxWaves /\ waves' = waves + 1
      BY <1>1, <2>a, <2>b DEF CircuitInv
    <2>3. Armed' = Armed
      BY <1>1, <2>2 DEF Armed, CircuitInv
    <2>4. waves' \in 0..MaxWaves
      BY <2>2, SocketPressureAssumption DEF CircuitInv
    <2>5. Widens
      BY <1>1, <2>1, <2>2 DEF Widens, CircuitInv, Circuit
    <2> QED
      BY <1>1, <2>1, <2>2, <2>3, <2>4, <2>5 DEF CircuitInv
  <1> QED
    BY <1>2, <1>3

(* Leaving a network gives back the ownership its circuit had.             *)
LEMMA LeaveKeeps ==
    ASSUME CircuitInv, NEW n \in Network, LeaveNetwork(n)
    PROVE  CircuitInv' /\ Widens
  <1>1. Closed \in Circuit /\ ~Closed.active
    BY SocketPressureAssumption DEF Closed, Circuit
  <1>2. /\ circuit' \in [Network -> Circuit] /\ ~circuit'[n].active
        /\ \A m \in Network \ {n} : circuit'[m] = circuit[m]
        /\ n \in joined /\ joined' = joined \ {n} /\ UNCHANGED <<unplugged, waves>>
    BY <1>1 DEF LeaveNetwork, CircuitInv
  <1>3. Armed' = Armed \ {n} /\ Armed \in SUBSET Network /\ (n \in Armed <=> circuit[n].active)
    BY <1>2 DEF Armed, CircuitInv
  <1>4. owners' \in Nat /\ Counts(owners', Armed')
    <2>1. CASE circuit[n].active
      BY <1>3, <2>1, CountOneLess DEF LeaveNetwork, CircuitInv
    <2>2. CASE ~circuit[n].active
      <3>1. Armed' = Armed
        BY <1>3, <2>2
      <3> QED
        BY <2>2, <3>1 DEF LeaveNetwork, CircuitInv
    <2> QED
      BY <2>1, <2>2
  <1>5. Widens
    BY <1>2 DEF Widens, CircuitInv, Circuit
  <1> QED
    BY <1>2, <1>4, <1>5 DEF CircuitInv

(* Time and interfaces arm and disarm nothing.                             *)
LEMMA TimeKeeps ==
    ASSUME CircuitInv,
           \/ \E n \in Network : ProbeDue(n) \/ MemoryEnds(n)
           \/ \E up \in BOOLEAN : Interface(up)
    PROVE  CircuitInv' /\ Widens
  <1>1. ASSUME NEW n \in Network, ProbeDue(n) \/ MemoryEnds(n) PROVE CircuitInv' /\ Widens
    <2>1. PICK b \in BOOLEAN : \/ circuit' = [circuit EXCEPT ![n] = [circuit[n] EXCEPT !.due = b]]
                               \/ circuit' = [circuit EXCEPT ![n] = [circuit[n] EXCEPT !.recent = b]]
      BY ZenonT(60), <1>1 DEF ProbeDue, MemoryEnds
    <2>2. circuit[n] \in Circuit
      BY DEF CircuitInv
    <2>3. /\ circuit' \in [Network -> Circuit]
          /\ \A m \in Network : /\ circuit'[m].active = circuit[m].active
                                /\ circuit'[m].delay = circuit[m].delay
                                /\ circuit'[m].level = circuit[m].level
      BY <2>1, <2>2 DEF CircuitInv, Circuit
    <2>4. UNCHANGED <<owners, joined, unplugged, waves>>
      BY <1>1 DEF ProbeDue, MemoryEnds
    <2>5. Armed' = Armed
      BY <2>3, <2>4 DEF Armed, CircuitInv
    <2>6. Widens
      <3>1. \A m \in Network : circuit[m].delay \in 0..Steps
        BY DEF CircuitInv, Circuit
      <3> QED
        BY <2>3, <3>1, SocketPressureAssumption DEF Widens
    <2> QED
      BY <2>3, <2>4, <2>5, <2>6 DEF CircuitInv
  <1>2. ASSUME NEW up \in BOOLEAN, Interface(up) PROVE CircuitInv' /\ Widens
    <2>1. waves' \in 0..MaxWaves
      BY <1>2, SocketPressureAssumption DEF Interface, CircuitInv
    <2>2. UNCHANGED <<circuit, owners, joined>> /\ unplugged' \in BOOLEAN
      BY <1>2 DEF Interface
    <2>3. Widens
      BY <2>2 DEF Widens, CircuitInv, Circuit
    <2> QED
      BY <2>1, <2>2, <2>3 DEF CircuitInv, Armed
  <1> QED
    BY <1>1, <1>2

(* For any networks, peers and backoff: the shared counter is the number   *)
(* of armed circuits, a postponed restart is never lost or weakened, and   *)
(* within a wave probes only slow down (LocalSocketRecoveryWatch,          *)
(* service_local_socket_recovery, renegotiate_ice).                        *)
THEOREM PressureIsExact == PressSpec => PressureExact
  <1>1. PressInv /\ [PressNext]_pressVars => PressInv' /\ Widens
    <2> SUFFICES ASSUME PressInv, [PressNext]_pressVars PROVE PressInv' /\ Widens
      OBVIOUS
    <2> USE DEF PressInv
    <2>1. ASSUME NEW n \in Network, NEW p \in Peer, EmptyGather(n, p) PROVE PressInv' /\ Widens
      BY <2>1, GatherKeeps, ArmKeeps DEF EmptyGather, Driving
    <2>2. ASSUME NEW n \in Network, NEW p \in Peer, Replay(n, p) PROVE PressInv' /\ Widens
      BY ZenonT(60), <2>2, ReplayKeeps, QuietCircuits DEF Replay
    <2>3. ASSUME NEW n \in Network, NEW p \in Peer, OfferBuilt(n, p) PROVE PressInv' /\ Widens
      BY ZenonT(60), <2>3, BuiltKeeps, QuietCircuits DEF OfferBuilt
    <2>4. ASSUME NEW n \in Network, NEW p \in Peer, NEW r \in {"plain", "forced"},
                 DeferRestart(n, p, r)
          PROVE  PressInv' /\ Widens
      BY ZenonT(60), <2>4, DeferKeeps, QuietCircuits DEF DeferRestart
    <2>5. ASSUME NEW n \in Network, Service(n) PROVE PressInv' /\ Widens
      <3>1. CircuitInv' /\ Widens
        BY <2>5, ProbedKeeps, QuietCircuits DEF Service, Driving
      <3> QED
        BY <2>5, <3>1, ServiceKeeps
    <2>6. ASSUME NEW n \in Network, LeaveNetwork(n) PROVE PressInv' /\ Widens
      BY <2>6, LeaveKeeps, LeaveForgets
    <2>7. CASE \/ \E n \in Network : ProbeDue(n) \/ MemoryEnds(n)
               \/ \E up \in BOOLEAN : Interface(up)
      <3>1. UNCHANGED <<postponed, replay, building, owed>>
        BY <2>7 DEF ProbeDue, MemoryEnds, Interface
      <3> QED
        BY <2>7, <3>1, TimeKeeps, QuietRestarts
    <2>8. CASE UNCHANGED pressVars
      BY <2>8, QuietCircuits, QuietRestarts DEF pressVars
    <2> QED
      BY <2>1, <2>2, <2>3, <2>4, <2>5, <2>6, <2>7, <2>8 DEF PressNext
  <1>2. PressSpec => []PressInv
    BY PressStarts, <1>1, PTL DEF PressSpec
  <1>3. PressInv /\ [PressNext]_pressVars => [Widens]_pressVars
    BY <1>1
  <1>4. PressSpec => DelaysWiden
    BY <1>2, <1>3, PTL DEF PressSpec, DelaysWiden, Widens
  <1> QED
    BY <1>2, <1>4, PressMeans, PTL DEF PressureExact

-----------------------------------------------------------------------------
(* Media lanes: the inductive invariant                                    *)

CallerOK ==
    caller \in [Caller -> {NoTask} \cup [at : {"attach", "store"}, track : Track]]

(* A task that reaps removes no track of a pinned lane.                    *)
TaskOK ==
    task \in {NoTask, [at |-> "start"], [at |-> "offer"]}
               \cup [at : {"reap"}, victims : SUBSET {l \in Lane : l >= Pinned}]

(* A pinned lane always has a slot, and in it a track of its own lane.     *)
PinnedKept ==
    \A l \in Lane : l < Pinned => /\ slot[l] # "none"
                                  /\ laneTrack[l] \in senders
                                  /\ laneTrack[l].lane = l

(* Owed without counting on the offer that is outstanding.                 *)
OwedAnew ==
    \/ events \/ pending
    \/ task # NoTask
    \/ \E c \in Caller : caller[c].at = "store"

(* An outstanding offer that the senders have outgrown will be followed by *)
(* another one: its answer settles less than there is.                     *)
OfferOutgrown == signaling = "local" /\ offered # senders => OwedAnew

MediaInv ==
    MediaTypeOK /\ CallerOK /\ TaskOK /\ PinnedKept /\ OfferOutgrown /\ NoLaneChangeLost

-----------------------------------------------------------------------------
(* Media lanes: the proof                                                  *)

(* The first state satisfies the invariant.                                *)
LEMMA MediaStarts == MediaInit => MediaInv
  <1> SUFFICES ASSUME MediaInit PROVE MediaInv
    OBVIOUS
  <1> USE MediaLanesAssumption
  <1>1. Lane \subseteq Nat /\ \A l \in Lane : [lane |-> l, no |-> 0] \in Track
    BY DEF Lane, Track
  <1>2. MediaTypeOK
    <2>1. senders \subseteq Track
      BY <1>1 DEF MediaInit
    <2>2. /\ slot \in [Lane -> {"none", "open", "draining"}]
          /\ laneTrack \in [Lane -> Track \cup {NoTrack}]
      BY <1>1 DEF MediaInit
    <2>3. /\ due = {} /\ negotiated = senders /\ offered = {} /\ signaling = "stable"
          /\ events = FALSE /\ pending = FALSE /\ inflight = FALSE
          /\ made = 0 /\ remote = 0
      BY DEF MediaInit
    <2>4. made \in 0..MaxTracks /\ remote \in 0..MaxRemote
      BY <2>3
    <2> QED
      BY ZenonT(60), <2>1, <2>2, <2>3, <2>4 DEF MediaTypeOK
  <1>3. CallerOK /\ TaskOK
    BY DEF MediaInit, CallerOK, TaskOK
  <1>4. PinnedKept
    BY <1>1 DEF MediaInit, PinnedKept
  <1>5. OfferOutgrown /\ NoLaneChangeLost
    BY DEF MediaInit, OfferOutgrown, NoLaneChangeLost
  <1> QED
    BY <1>2, <1>3, <1>4, <1>5 DEF MediaInv

(* ensure_lane, whoever calls it for whichever lane.                       *)
LEMMA EnsureKeeps ==
    ASSUME MediaInv, NEW c \in Caller, NEW l \in Lane, EnsureLane(c, l)
    PROVE  MediaInv'
  <1> USE MediaLanesAssumption DEF MediaInv, pool, sdp, reneg
  <1>1. CASE slot[l] = "draining" /\ Keep(l, laneTrack[l]) /\ UNCHANGED <<caller, made>>
    <2>1. MediaTypeOK'
      BY <1>1 DEF EnsureLane, MediaTypeOK, Keep
    <2>2. PinnedKept'
      BY <1>1 DEF EnsureLane, MediaTypeOK, PinnedKept, Keep
    <2> QED
      BY <1>1, <2>1, <2>2
      DEF EnsureLane, CallerOK, TaskOK, OfferOutgrown, OwedAnew, NoLaneChangeLost, Owed
  <1>2. CASE slot[l] = "none" /\ made < MaxTracks /\ made' = made + 1 /\ UNCHANGED pool
             /\ caller' = [caller EXCEPT ![c] =
                            [at |-> "attach", track |-> [lane |-> l, no |-> made + 1]]]
    <2>1. MediaTypeOK'
      BY <1>2 DEF EnsureLane, MediaTypeOK
    <2>2. CallerOK'
      <3>1. [at |-> "attach", track |-> [lane |-> l, no |-> made + 1]]
              \in [at : {"attach", "store"}, track : Track]
        BY <1>2 DEF MediaTypeOK, Track
      <3> QED
        BY <1>2, <3>1 DEF CallerOK
    <2>3. \A d \in Caller : caller[d].at = "store" => caller'[d].at = "store"
      BY <1>2 DEF EnsureLane, CallerOK, NoTask
    <2> QED
      BY <1>2, <2>1, <2>2, <2>3
      DEF EnsureLane, TaskOK, PinnedKept, OfferOutgrown, OwedAnew, NoLaneChangeLost, Owed
  <1> QED
    BY <1>1, <1>2 DEF EnsureLane

(* attach_track: the track is on the connection, and its caller will queue *)
(* the event.                                                              *)
LEMMA AttachKeeps ==
    ASSUME MediaInv, NEW c \in Caller, AttachTrack(c)
    PROVE  MediaInv'
  <1> USE DEF MediaInv, AttachTrack, pool, sdp, reneg
  <1>1. caller[c] \in [at : {"attach", "store"}, track : Track]
    BY DEF CallerOK, NoTask
  <1>2. CallerOK' /\ caller'[c].at = "store"
    BY <1>1 DEF CallerOK
  <1>3. MediaTypeOK'
    BY <1>1 DEF MediaTypeOK
  <1>4. PinnedKept'
    BY DEF PinnedKept
  <1> QED
    BY <1>2, <1>3, <1>4 DEF TaskOK, OfferOutgrown, OwedAnew, NoLaneChangeLost, Owed

(* The second critical section of ensure_lane queues the event, whichever  *)
(* of the racing callers gets there first.                                 *)
LEMMA StoreKeeps ==
    ASSUME MediaInv, NEW c \in Caller, StoreTrack(c)
    PROVE  MediaInv'
  <1> USE DEF MediaInv, pool, sdp, reneg
  <1> DEFINE l == caller[c].track.lane
             t == caller[c].track
  <1>1. t \in Track /\ l \in Lane
    BY DEF StoreTrack, CallerOK, NoTask, Track
  <1>2. \/ slot[l] = "none" /\ Keep(l, t)
        \/ slot[l] = "draining" /\ Keep(l, laneTrack[l])
        \/ UNCHANGED <<slot, laneTrack, due>>
    BY DEF StoreTrack
  <1> HIDE DEF l, t
  <1>3. /\ UNCHANGED <<senders, negotiated, offered, signaling, remote, pending, inflight, task, made>>
        /\ caller' = [caller EXCEPT ![c] = NoTask] /\ events' = TRUE
    BY DEF StoreTrack
  <1>4. MediaTypeOK'
    BY <1>1, <1>2, <1>3 DEF MediaTypeOK, Keep
  <1>5. PinnedKept'
    BY <1>1, <1>2, <1>3 DEF MediaTypeOK, PinnedKept, Keep
  <1>6. CallerOK' /\ TaskOK'
    BY <1>3 DEF CallerOK, TaskOK
  <1> QED
    BY <1>3, <1>4, <1>5, <1>6 DEF OfferOutgrown, OwedAnew, NoLaneChangeLost, Owed

(* close_media_lane and the passing of the grace touch slots only.         *)
LEMMA DrainKeeps ==
    ASSUME MediaInv, NEW l \in Lane, CloseMediaLane(l) \/ DrainAges(l)
    PROVE  MediaInv'
  <1> USE DEF MediaInv, CloseMediaLane, DrainAges, sdp, reneg
  <1>1. MediaTypeOK'
    BY DEF MediaTypeOK
  <1>2. PinnedKept'
    BY DEF MediaTypeOK, PinnedKept
  <1> QED
    BY <1>1, <1>2 DEF CallerOK, TaskOK, OfferOutgrown, OwedAnew, NoLaneChangeLost, Owed

(* The driver and the renegotiation task pass on what is owed: from the    *)
(* event to the flag, from the flag to the task, from the task to an offer *)
(* or back to the flag.                                                    *)
LEMMA RenegotiationKeeps ==
    ASSUME MediaInv,
           RenegotiationNeeded \/ Tick \/ TaskNotStable \/ TaskFreesSlots \/ TaskRemovesTracks
             \/ TaskOffers \/ TaskFails
    PROVE  MediaInv'
  <1> USE DEF MediaInv, pool, sdp, reneg, Defer
  <1>1. CASE RenegotiationNeeded
    BY ZenonT(60), <1>1 DEF RenegotiationNeeded, MediaTypeOK, CallerOK, TaskOK, PinnedKept, OfferOutgrown,
                OwedAnew, NoLaneChangeLost, Owed
  <1>2. CASE Tick
    BY ZenonT(60), <1>2 DEF Tick, MediaTypeOK, CallerOK, TaskOK, NoTask, PinnedKept, OfferOutgrown,
                OwedAnew, NoLaneChangeLost, Owed
  <1>3. CASE TaskNotStable
    BY ZenonT(60), <1>3 DEF TaskNotStable, MediaTypeOK, CallerOK, TaskOK, PinnedKept, OfferOutgrown,
                OwedAnew, NoLaneChangeLost, Owed
  <1>4. CASE TaskFreesSlots
    <2>1. Reapable \in SUBSET {l \in Lane : l >= Pinned}
      BY DEF Reapable, MediaTypeOK
    <2>2. TaskOK' /\ task' # NoTask
      BY <1>4, <2>1 DEF TaskFreesSlots, TaskOK, NoTask
    <2>3. MediaTypeOK'
      BY <1>4, <2>1 DEF TaskFreesSlots, MediaTypeOK, Reapable
    <2>4. PinnedKept'
      <3>1. \A l \in Lane : l < Pinned => l \notin Reapable
        BY <2>1, MediaLanesAssumption DEF Lane
      <3> QED
        BY <1>4, <3>1 DEF TaskFreesSlots, MediaTypeOK, PinnedKept
    <2> QED
      BY <1>4, <2>2, <2>3, <2>4
      DEF TaskFreesSlots, CallerOK, OfferOutgrown, OwedAnew, NoLaneChangeLost, Owed
  <1>5. CASE TaskRemovesTracks
    <2>1. task.victims \in SUBSET {l \in Lane : l >= Pinned}
      BY <1>5 DEF TaskRemovesTracks, TaskOK, NoTask
    <2>2. TaskOK' /\ task' # NoTask
      BY <1>5 DEF TaskRemovesTracks, TaskOK, NoTask
    <2>3. MediaTypeOK'
      BY <1>5 DEF TaskRemovesTracks, MediaTypeOK
    <2>4. PinnedKept'
      <3>1. \A l \in Lane : l < Pinned => l \notin task.victims
        BY <2>1, MediaLanesAssumption DEF Lane
      <3> QED
        BY <1>5, <3>1 DEF TaskRemovesTracks, PinnedKept
    <2> QED
      BY <1>5, <2>2, <2>3, <2>4
      DEF TaskRemovesTracks, CallerOK, OfferOutgrown, OwedAnew, NoLaneChangeLost, Owed
  <1>6. CASE TaskOffers
    BY ZenonT(60), <1>6 DEF TaskOffers, MediaTypeOK, CallerOK, TaskOK, PinnedKept, OfferOutgrown,
                OwedAnew, NoLaneChangeLost, Owed
  <1>7. CASE TaskFails
    <2>1. MediaTypeOK'
      <3>1. remote' \in 0..MaxRemote
        BY <1>7, MediaLanesAssumption DEF TaskFails, MediaTypeOK
      <3> QED
        BY ZenonT(60), <1>7, <3>1 DEF TaskFails, MediaTypeOK
    <2> QED
      BY <1>7, <2>1 DEF TaskFails, CallerOK, TaskOK, PinnedKept, OfferOutgrown, OwedAnew,
                        NoLaneChangeLost, Owed
  <1> QED
    BY <1>1, <1>2, <1>3, <1>4, <1>5, <1>6, <1>7

(* An answer settles what was offered; the far side's offers settle        *)
(* nothing of ours.                                                        *)
LEMMA AnswersKeep ==
    ASSUME MediaInv, Answered \/ RemoteOffer \/ RemoteOfferAnswered
    PROVE  MediaInv'
  <1> USE MediaLanesAssumption DEF MediaInv, pool, reneg
  <1>1. CASE Answered
    BY <1>1 DEF Answered, MediaTypeOK, CallerOK, TaskOK, PinnedKept, OfferOutgrown,
                OwedAnew, NoLaneChangeLost, Owed
  <1>2. CASE RemoteOffer \/ RemoteOfferAnswered
    BY <1>2 DEF RemoteOffer, RemoteOfferAnswered, MediaTypeOK, CallerOK, TaskOK, PinnedKept,
                OfferOutgrown, OwedAnew, NoLaneChangeLost, Owed
  <1> QED
    BY <1>1, <1>2

(* For any number of callers and lanes: what is on the connection is what  *)
(* was last negotiated or the difference is owed, and the pre-provisioned  *)
(* lanes keep their tracks (ensure_lane, reap_drained_lanes and            *)
(* service_media_renegotiations).                                          *)
THEOREM LanesAlwaysKept == MediaSpec => []LanesKept
  <1>1. MediaInv /\ [MediaNext]_mediaVars => MediaInv'
    <2> SUFFICES ASSUME MediaInv, [MediaNext]_mediaVars PROVE MediaInv'
      OBVIOUS
    <2>1. ASSUME NEW c \in Caller, SendSample(c) \/ OpenMediaLane(c) PROVE MediaInv'
      <3>1. PICK l \in Lane : EnsureLane(c, l)
        BY <2>1 DEF SendSample, OpenMediaLane
      <3> QED
        BY <3>1, EnsureKeeps
    <2>2. CASE UNCHANGED mediaVars
      BY <2>2 DEF mediaVars, MediaInv, MediaTypeOK, CallerOK, TaskOK, PinnedKept, OfferOutgrown,
                  OwedAnew, NoLaneChangeLost, Owed
    <2> QED
      BY <2>1, <2>2, AttachKeeps, StoreKeeps, DrainKeeps, RenegotiationKeeps, AnswersKeep
      DEF MediaNext, Task
  <1>2. MediaInv => LanesKept
    BY DEF MediaInv, LanesKept, PinnedKept, PinnedLanesStayAttached
  <1> QED
    BY MediaStarts, <1>1, <1>2, PTL DEF MediaSpec

-----------------------------------------------------------------------------
(* Custody, for any number of tasks inside it at once, any networks and    *)
(* any number of recovery codes.  Every call works on its own copy of the  *)
(* file: the copy of a call that nobody raced is still the file when the   *)
(* call acts on it, so that what it strikes, adds or removes was there.    *)

AnyCode == {NoCode} \cup ({"totp"} \X Nat \X Nat) \cup ({"recovery"} \X Nat \X Codes)
Enrollment == [secret : Nat, codes : SUBSET Codes]
Slot == {<<>>} \cup {<<e>> : e \in Enrollment}
File == [NetworkId -> Slot]

Working == {"enroll", "require", "disable", "consume", "clear"}
Call == [op : {"none", "enroll", "require", "disable"}, net : NetworkId \cup {<<>>}, code : AnyCode,
         at : Working \cup {"load", "reload", "accepted", "refused"},
         copy : File \cup {<<>>}, raced : BOOLEAN]

CustTypes ==
    /\ store \in File
    /\ call \in [Requester -> Call]
    /\ custpast \in [calls : Nat, secrets : Nat, faults : Nat, uses : Seq(AnyCode), raced : BOOLEAN]

(* A secret of a file belongs to one network, and was given out.           *)
SoundFile(f, given) ==
    \A n \in NetworkId : f[n] # <<>> =>
        /\ f[n][1].secret <= given
        /\ \A m \in NetworkId : f[m] # <<>> /\ f[m][1].secret = f[n][1].secret => m = n

(* A call has a network, and a sound copy once it has loaded one.          *)
Equipped(k, given) ==
    /\ k.op # "none" => k.net \in NetworkId
    /\ k.at \in Working \cup {"reload"} => k.op # "none" /\ k.copy \in File /\ k.copy # <<>>
    /\ k.copy # <<>> => SoundFile(k.copy, given)

(* A recovery code that is about to be struck is in the copy.              *)
Striking(k) ==
    k.at = "consume" => /\ k.copy[k.net] # <<>>
                        /\ k.code[1] = "recovery"
                        /\ k.code[2] = k.copy[k.net][1].secret
                        /\ k.code[3] \in k.copy[k.net][1].codes

(* What a call that nobody raced works on is the file.                     *)
Current(k, file) == k.at \in Working /\ ~k.raced => k.copy = file

(* A disable that goes on was let through by a code of the enrollment that *)
(* it is about to remove, if there is one.                                 *)
LetThrough(k, file) ==
    k.at \in {"reload", "clear"} /\ ~k.raced /\ file[k.net] # <<>> =>
        k.code # NoCode /\ k.code[2] = file[k.net][1].secret

GoodCall(k, file, given) ==
    Equipped(k, given) /\ Striking(k) /\ Current(k, file) /\ LetThrough(k, file)

(* An accepted recovery code is struck: no enrollment has it any more.     *)
Struck(uses, file) ==
    \A i \in DOMAIN uses, n \in NetworkId :
        file[n] # <<>> /\ file[n][1].secret = uses[i][2] => uses[i][3] \notin file[n][1].codes

UsesGiven(uses, given) == \A i \in DOMAIN uses : uses[i][2] \in Nat /\ uses[i][2] <= given

CustInv ==
    /\ CustTypes
    /\ SoundFile(store, custpast.secrets) /\ UsesGiven(custpast.uses, custpast.secrets)
    /\ \A c \in Requester : GoodCall(call[c], store, custpast.secrets)
    /\ RecoveryOnce
    /\ ~custpast.raced => Struck(custpast.uses, store)

-----------------------------------------------------------------------------
(* Files and calls                                                         *)

(* What the place of a network in a file is.                               *)
LEMMA SlotFacts ==
    ASSUME NEW f \in File, NEW n \in NetworkId
    PROVE  /\ f # <<>>
           /\ f[n] # <<>> => f[n][1] \in Enrollment /\ f[n] = <<f[n][1]>>
  <1>1. DOMAIN f = NetworkId /\ f[n] \in Slot
    BY DEF File
  <1>2. DOMAIN <<>> = {}
    OBVIOUS
  <1>3. f # <<>>
    BY <1>1, <1>2
  <1>4. f[n] # <<>> => \E e \in Enrollment : f[n] = <<e>>
    BY <1>1 DEF Slot
  <1> QED
    BY <1>3, <1>4

(* A file is as sound when more secrets were given out.                    *)
LEMMA SoundLater ==
    ASSUME NEW f \in File, NEW s \in Nat, NEW t \in Nat, s <= t, SoundFile(f, s)
    PROVE  SoundFile(f, t)
  <1>1. \A n \in NetworkId : f[n] # <<>> => f[n][1].secret \in Nat
    BY SlotFacts DEF Enrollment
  <1> QED
    BY <1>1 DEF SoundFile

(* A call that rests or has ended asks for nothing.                        *)
LEMMA RestingIsGood ==
    ASSUME NEW f, NEW s
    PROVE  Resting \in Call /\ GoodCall(Resting, f, s)
  <1>1. Resting \in Call
    BY DEF Resting, Call, AnyCode, Working
  <1> QED
    BY <1>1 DEF Resting, Working, GoodCall, Equipped, Striking, Current, LetThrough

(* A save races every other call that has loaded.                          *)
LEMMA OthersStayGood ==
    ASSUME NEW k \in Call, NEW f \in File, NEW g \in File, NEW s \in Nat, NEW t \in Nat, s <= t,
           GoodCall(k, f, s)
    PROVE  LET j == [k EXCEPT !.raced = @ \/ k.copy # <<>>]
           IN  j \in Call /\ GoodCall(j, g, t)
  <1> DEFINE j == [k EXCEPT !.raced = @ \/ k.copy # <<>>]
  <1>1. /\ j \in Call /\ j.op = k.op /\ j.net = k.net /\ j.code = k.code /\ j.at = k.at
        /\ j.copy = k.copy /\ (j.raced <=> k.raced \/ k.copy # <<>>)
    BY ZenonT(60) DEF Call
  <1> HIDE DEF j
  <1>2. k.copy # <<>> => SoundFile(k.copy, t)
    BY SoundLater DEF GoodCall, Equipped, Call
  <1>3. Equipped(j, t) /\ Striking(j)
    BY <1>1, <1>2 DEF GoodCall, Equipped, Striking
  <1>4. Current(j, g) /\ LetThrough(j, g)
    BY <1>1 DEF GoodCall, Equipped, Current, LetThrough, Working
  <1> QED
    BY <1>1, <1>3, <1>4 DEF j, GoodCall

-----------------------------------------------------------------------------
(* The two shapes of a step                                                *)

Past == [calls : Nat, secrets : Nat, faults : Nat, uses : Seq(AnyCode), raced : BOOLEAN]
Distinct(uses) == \A i, j \in DOMAIN uses : uses[i] = uses[j] => i = j

(* A step of one call that leaves the file alone.                          *)
LEMMA CallStep ==
    ASSUME CustInv, NEW c \in Requester, NEW k \in Call, GoodCall(k, store, custpast.secrets),
           call' = [call EXCEPT ![c] = k], store' = store, custpast' \in Past,
           custpast'.secrets = custpast.secrets, custpast'.uses = custpast.uses,
           custpast'.raced = custpast.raced
    PROVE  CustInv'
  <1>1. CustTypes'
    BY DEF CustInv, CustTypes, Past
  <1>2. \A d \in Requester : GoodCall(call'[d], store', custpast'.secrets)
    BY DEF CustInv, CustTypes
  <1>3. RecoveryOnce'
    BY DEF CustInv, RecoveryOnce
  <1> QED
    BY <1>1, <1>2, <1>3 DEF CustInv

(* A step of one call that writes the file.                                *)
LEMMA SaveStep ==
    ASSUME CustInv, NEW c \in Requester, NEW f \in File, NEW k \in Call, NEW h \in Past,
           save_at(c, f, k, h), custpast.secrets <= h.secrets, SoundFile(f, h.secrets),
           GoodCall(k, f, h.secrets), UsesGiven(h.uses, h.secrets),
           ~h.raced /\ ~call[c].raced => Struck(h.uses, f) /\ Distinct(h.uses)
    PROVE  CustInv'
  <1>1. /\ store' = f /\ custpast' \in Past
        /\ custpast'.secrets = h.secrets /\ custpast'.uses = h.uses
        /\ (custpast'.raced <=> h.raced \/ call[c].raced)
    BY DEF save_at, Past, CustInv, CustTypes, Call
  <1>2. ASSUME NEW d \in Requester
        PROVE  call'[d] \in Call /\ GoodCall(call'[d], f, h.secrets)
    <2>1. CASE d = c
      BY <2>1 DEF save_at
    <2>2. CASE d # c
      <3>1. call'[d] = [call[d] EXCEPT !.raced = @ \/ call[d].copy # <<>>]
        BY <2>2 DEF save_at
      <3>2. /\ call[d] \in Call /\ store \in File /\ GoodCall(call[d], store, custpast.secrets)
            /\ custpast.secrets \in Nat /\ h.secrets \in Nat
        BY DEF CustInv, CustTypes, Past
      <3> QED
        BY <3>1, <3>2, OthersStayGood
    <2> QED
      BY <2>1, <2>2
  <1>3. call' \in [Requester -> Call]
    <2>1. call' = [d \in Requester |-> call'[d]]
      BY DEF save_at
    <2> QED
      BY <1>2, <2>1
  <1>4. CustTypes'
    BY <1>1, <1>3 DEF CustTypes, Past
  <1>5. RecoveryOnce' /\ (~custpast'.raced => Struck(custpast'.uses, store'))
    BY <1>1 DEF RecoveryOnce, Distinct
  <1> QED
    BY <1>1, <1>2, <1>4, <1>5 DEF CustInv

-----------------------------------------------------------------------------
(* The steps                                                               *)

(* The first state satisfies the invariant.                                *)
LEMMA CustStarts == CustInit => CustInv
  <1> SUFFICES ASSUME CustInit PROVE CustInv
    OBVIOUS
  <1>1. CustTypes
    <2>1. store \in File
      BY DEF CustInit, File, Slot
    <2>2. call \in [Requester -> Call]
      BY RestingIsGood DEF CustInit
    <2> QED
      BY <2>1, <2>2 DEF CustInit, CustTypes
  <1>2. \A c \in Requester : GoodCall(call[c], store, custpast.secrets)
    BY RestingIsGood DEF CustInit
  <1>3. SoundFile(store, custpast.secrets)
    BY DEF CustInit, SoundFile
  <1>4. UsesGiven(custpast.uses, custpast.secrets) /\ RecoveryOnce /\ Struck(custpast.uses, store)
    BY DEF CustInit, UsesGiven, RecoveryOnce, Struck
  <1> QED
    BY <1>1, <1>2, <1>3, <1>4 DEF CustInv

(* A call begins.                                                          *)
LEMMA BeginKeeps ==
    ASSUME CustInv, NEW c \in Requester, NEW n \in NetworkId, NEW op \in {"enroll", "require", "disable"},
           NEW code \in Code, Begin(c, op, n, code)
    PROVE  CustInv'
  <1> DEFINE k == [Resting EXCEPT !.op = op, !.net = n, !.code = code]
  <1>1. code \in AnyCode
    <2>1. custpast.secrets \in Nat /\ 1..custpast.secrets \subseteq Nat /\ 0..MaxSteps \subseteq Nat
      BY CustodyAssumption DEF CustInv, CustTypes
    <2> QED
      BY <2>1 DEF Code, AnyCode, Totp, Recovery
  <1>2. k \in Call /\ GoodCall(k, store, custpast.secrets)
    BY ZenonT(60), <1>1 DEF Resting, Call, Working, GoodCall, Equipped, Striking, Current, LetThrough
  <1>3. /\ custpast' \in Past /\ custpast'.secrets = custpast.secrets
        /\ custpast'.uses = custpast.uses /\ custpast'.raced = custpast.raced
    BY DEF Begin, CustInv, CustTypes, Past
  <1>4. call' = [call EXCEPT ![c] = k] /\ store' = store
    BY DEF Begin
  <1> HIDE DEF k
  <1> QED
    BY ZenonT(60), <1>2, <1>3, <1>4, CallStep

(* A call returns, or fails to load or to save.                            *)
LEMMA RestKeeps ==
    ASSUME CustInv, NEW c \in Requester, Rest(c), store' = store,
           custpast' = custpast \/ custpast' = [custpast EXCEPT !.faults = @ + 1]
    PROVE  CustInv'
  <1>1. /\ custpast' \in Past /\ custpast'.secrets = custpast.secrets
        /\ custpast'.uses = custpast.uses /\ custpast'.raced = custpast.raced
    BY DEF CustInv, CustTypes, Past
  <1> QED
    BY ZenonT(60), <1>1, RestingIsGood, CallStep DEF Rest

(* load_at: the copy is the file.                                          *)
LEMMA LoadKeeps ==
    ASSUME CustInv, NEW c \in Requester, load_at(c)
    PROVE  CustInv'
  <1> DEFINE k == [call[c] EXCEPT !.copy = store,
                                  !.at = IF @ = "reload" THEN "clear" ELSE call[c].op]
  <1>1. /\ call[c] \in Call /\ store \in File /\ call[c].op # "none"
        /\ call[c].at \in {"load", "reload"} /\ GoodCall(call[c], store, custpast.secrets)
    BY DEF load_at, CustInv, CustTypes
  <1>2. /\ k \in Call /\ k.copy = store /\ k.op = call[c].op /\ k.net = call[c].net
        /\ k.code = call[c].code /\ k.raced = call[c].raced
        /\ k.at # "consume" /\ k.at # "reload"
        /\ k.at = "clear" => call[c].at = "reload"
    BY ZenonT(60), <1>1 DEF Call, Working
  <1>3. call' = [call EXCEPT ![c] = k] /\ store' = store /\ custpast' = custpast
    BY ZenonT(60) DEF load_at
  <1> HIDE DEF k
  <1>4. store # <<>> /\ SoundFile(store, custpast.secrets)
    BY <1>1, SlotFacts DEF CustInv, GoodCall, Equipped
  <1>5. GoodCall(k, store, custpast.secrets)
    BY <1>1, <1>2, <1>4 DEF GoodCall, Equipped, Striking, Current, LetThrough
  <1>6. custpast' \in Past
    BY <1>3 DEF CustInv, CustTypes, Past
  <1> QED
    BY ZenonT(60), <1>2, <1>3, <1>5, <1>6, CallStep

(* require_at: a code that is let through is one of the enrollment in the  *)
(* copy, or the copy has none.                                             *)
LEMMA RequireKeeps ==
    ASSUME CustInv, NEW c \in Requester, require_at(c)
    PROVE  CustInv'
  <1> DEFINE v == Verdict(c, "refused")
             k == [call[c] EXCEPT !.at = v]
  <1>1. /\ call[c] \in Call /\ store \in File /\ call[c].at \in {"require", "disable"}
        /\ GoodCall(call[c], store, custpast.secrets)
    BY DEF require_at, CustInv, CustTypes
  <1>2. /\ v \in {"reload", "accepted", "consume", "refused"}
        /\ v = "consume" => Has(c) /\ Strikable(c)
        /\ v = "reload" => ~Has(c) \/ verify_totp_at(Mine(c).secret, call[c].code)
    BY DEF Verdict, Accepted
  <1>3. call' = [call EXCEPT ![c] = k] /\ store' = store /\ custpast' = custpast
    BY DEF require_at
  <1> HIDE DEF v
  <1>4. /\ k \in Call /\ k.copy = call[c].copy /\ k.op = call[c].op /\ k.net = call[c].net
        /\ k.code = call[c].code /\ k.raced = call[c].raced /\ k.at = v
    BY <1>1, <1>2 DEF Call, Working
  <1> HIDE DEF k
  <1>5. Equipped(k, custpast.secrets)
    BY <1>1, <1>2, <1>4 DEF GoodCall, Equipped, Working
  <1>6. Striking(k)
    BY <1>1, <1>2, <1>4 DEF Striking, Has, Strikable, Mine
  <1>7. Current(k, store)
    BY <1>1, <1>2, <1>4 DEF GoodCall, Current, Working
  <1>8. LetThrough(k, store)
    <2>1. NoCode[1] = "none"
      BY DEF NoCode
    <2> QED
      BY <1>1, <1>2, <1>4, <2>1
      DEF GoodCall, Current, Working, LetThrough, Has, Mine, verify_totp_at
  <1>9. custpast' \in Past
    BY <1>3 DEF CustInv, CustTypes, Past
  <1> QED
    BY ZenonT(60), <1>3, <1>4, <1>5, <1>6, <1>7, <1>8, <1>9, CallStep DEF GoodCall

(* enroll_at: the secret is new, so no code of it was ever accepted.       *)
LEMMA EnrollKeeps ==
    ASSUME CustInv, NEW c \in Requester, enroll_at(c)
    PROVE  CustInv'
  <1>1. CASE Has(c)
    BY <1>1, RestKeeps DEF enroll_at
  <1>2. CASE ~Has(c)
    <2> DEFINE s == custpast.secrets + 1
               e == [secret |-> s, codes |-> Codes]
               n == call[c].net
               f == [call[c].copy EXCEPT ![n] = <<e>>]
               h == [custpast EXCEPT !.secrets = @ + 1]
    <2>1. /\ call[c].copy \in File /\ n \in NetworkId /\ SoundFile(call[c].copy, custpast.secrets)
          /\ custpast.secrets \in Nat
          /\ ~call[c].raced => call[c].copy = store
      BY DEF enroll_at, CustInv, CustTypes, GoodCall, Equipped, Current, Working
    <2>2. save_at(c, f, Resting, h)
      BY <1>2 DEF enroll_at
    <2>3. /\ h \in Past /\ h.secrets = s /\ h.uses = custpast.uses /\ h.raced = custpast.raced
          /\ s \in Nat /\ custpast.secrets < s
      BY DEF CustInv, CustTypes, Past
    <2>4. e \in Enrollment /\ e.secret = s /\ e.codes = Codes
      BY <2>3 DEF Enrollment
    <2> HIDE DEF e, h, s
    <2>5. /\ f \in File /\ f[n] = <<e>> /\ f[n] # <<>> /\ f[n][1] = e
          /\ \A m \in NetworkId \ {n} : f[m] = call[c].copy[m]
      BY <2>1, <2>4 DEF File, Slot
    <2> HIDE DEF f
    <2>6. \A m \in NetworkId : call[c].copy[m] # <<>> => /\ call[c].copy[m][1].secret \in Nat
                                                       /\ call[c].copy[m][1].secret <= custpast.secrets
      BY <2>1, SlotFacts DEF Enrollment, SoundFile
    <2>7. SoundFile(f, s)
      BY <2>1, <2>3, <2>4, <2>5, <2>6 DEF SoundFile
    <2>8. UsesGiven(h.uses, s)
      BY <2>1, <2>3 DEF CustInv, UsesGiven
    <2>9. ~h.raced /\ ~call[c].raced => Struck(h.uses, f) /\ Distinct(h.uses)
      <3> SUFFICES ASSUME ~h.raced, ~call[c].raced PROVE Struck(h.uses, f) /\ Distinct(h.uses)
        OBVIOUS
      <3>1. Struck(custpast.uses, store) /\ UsesGiven(custpast.uses, custpast.secrets)
        BY <2>3 DEF CustInv
      <3>2. Struck(h.uses, f)
        BY <2>1, <2>3, <2>4, <2>5, <3>1 DEF Struck, UsesGiven
      <3> QED
        BY <2>3, <3>2 DEF CustInv, RecoveryOnce, Distinct
    <2>10. /\ custpast.secrets <= h.secrets /\ SoundFile(f, h.secrets) /\ UsesGiven(h.uses, h.secrets)
           /\ Resting \in Call /\ GoodCall(Resting, f, h.secrets)
      BY <2>1, <2>3, <2>7, <2>8, RestingIsGood
    <2> QED
      BY ZenonT(30), <2>2, <2>3, <2>5, <2>9, <2>10, SaveStep
  <1> QED
    BY <1>1, <1>2

(* The recovery code is struck before it counts.                           *)
LEMMA ConsumeKeeps ==
    ASSUME CustInv, NEW c \in Requester, consume(c)
    PROVE  CustInv'
  <1> DEFINE n == call[c].net
             old == Mine(c)
             e == [old EXCEPT !.codes = @ \ {call[c].code[3]}]
             f == [call[c].copy EXCEPT ![n] = <<e>>]
             k == [call[c] EXCEPT !.at = Accepted(c)]
             h == [custpast EXCEPT !.uses = Append(@, call[c].code)]
  <1>1. /\ call[c] \in Call /\ n \in NetworkId /\ call[c].op # "none"
        /\ call[c].copy \in File /\ SoundFile(call[c].copy, custpast.secrets)
        /\ call[c].at = "consume" /\ call[c].code \in AnyCode
        /\ ~call[c].raced => call[c].copy = store
    BY DEF consume, CustInv, CustTypes, GoodCall, Equipped, Current, Working, Call
  <1>2. /\ call[c].copy[n] # <<>> /\ call[c].code[1] = "recovery"
        /\ call[c].code[2] = old.secret /\ call[c].code[3] \in old.codes
    BY <1>1 DEF CustInv, GoodCall, Striking, Mine
  <1>3. old \in Enrollment
    BY <1>1, <1>2, SlotFacts DEF Mine
  <1>4. save_at(c, f, k, h)
    BY DEF consume
  <1> HIDE DEF old
  <1>5. e \in Enrollment /\ e.secret = old.secret /\ e.codes = old.codes \ {call[c].code[3]}
    BY <1>3 DEF Enrollment
  <1> HIDE DEF e
  <1>6. /\ f \in File /\ f[n] # <<>> /\ f[n][1] = e
        /\ \A m \in NetworkId \ {n} : f[m] = call[c].copy[m]
    BY <1>1, <1>5 DEF File, Slot
  <1>7. /\ k \in Call /\ k.op = call[c].op /\ k.net = n /\ k.code = call[c].code
        /\ k.copy = call[c].copy /\ k.at \in {"reload", "accepted"}
    BY <1>1 DEF Call, Accepted
  <1>8. /\ h \in Past /\ h.secrets = custpast.secrets /\ h.raced = custpast.raced
        /\ h.uses = Append(custpast.uses, call[c].code)
        /\ custpast.uses \in Seq(AnyCode) /\ custpast.secrets \in Nat
    BY <1>1 DEF CustInv, CustTypes, Past
  <1> HIDE DEF f, k, h, n
  <1>9. DOMAIN h.uses = DOMAIN custpast.uses \cup {Len(h.uses)}
        /\ h.uses[Len(h.uses)] = call[c].code
        /\ \A i \in DOMAIN custpast.uses : h.uses[i] = custpast.uses[i] /\ i # Len(h.uses)
    BY <1>1, <1>8
  <1>10. \A m \in NetworkId : call[c].copy[m] # <<>> => call[c].copy[m][1].secret \in Nat
    BY <1>1, SlotFacts DEF Enrollment
  <1>11. old = call[c].copy[n][1]
    BY DEF old, n, Mine
  <1>12. SoundFile(f, custpast.secrets)
    BY <1>1, <1>2, <1>5, <1>6, <1>10, <1>11 DEF SoundFile
  <1>13. GoodCall(k, f, custpast.secrets)
    <2>1. k.code # NoCode
      BY <1>2, <1>7 DEF NoCode
    <2>2. Equipped(k, custpast.secrets)
      BY <1>1, <1>7, SlotFacts DEF Equipped, Working
    <2>3. LetThrough(k, f)
      BY <1>2, <1>5, <1>6, <1>7, <2>1 DEF LetThrough
    <2> QED
      BY <1>7, <2>2, <2>3 DEF GoodCall, Striking, Current, Working
  <1>14. UsesGiven(h.uses, custpast.secrets)
    BY <1>1, <1>2, <1>3, <1>9, <1>11 DEF UsesGiven, CustInv, SoundFile, Enrollment
  <1>15. ~h.raced /\ ~call[c].raced => Struck(h.uses, f) /\ Distinct(h.uses)
    <2> SUFFICES ASSUME ~h.raced, ~call[c].raced PROVE Struck(h.uses, f) /\ Distinct(h.uses)
      OBVIOUS
    <2>1. Struck(custpast.uses, call[c].copy) /\ Distinct(custpast.uses)
      BY <1>1, <1>8 DEF CustInv, RecoveryOnce, Distinct
    <2>2. Distinct(h.uses)
      <3>1. \A i \in DOMAIN custpast.uses : custpast.uses[i] # call[c].code
        BY <1>1, <1>2, <1>11, <2>1 DEF Struck
      <3> QED
        BY <1>9, <2>1, <3>1 DEF Distinct
    <2>3. ASSUME NEW i \in DOMAIN h.uses, NEW m \in NetworkId, f[m] # <<>>,
                 f[m][1].secret = h.uses[i][2]
          PROVE  h.uses[i][3] \notin f[m][1].codes
      <3>1. f[m][1].secret = call[c].copy[m][1].secret /\ call[c].copy[m] # <<>>
            /\ (f[m][1].codes \subseteq call[c].copy[m][1].codes)
        BY <1>2, <1>5, <1>6, <1>11, <2>3
      <3>2. CASE i \in DOMAIN custpast.uses
        BY ZenonT(60), <1>9, <2>1, <2>3, <3>1, <3>2 DEF Struck
      <3>3. CASE i = Len(h.uses)
        <4>1. m = n
          <5>1. call[c].copy[m][1].secret = call[c].copy[n][1].secret
            BY ZenonT(60), <1>2, <1>9, <1>11, <2>3, <3>1, <3>3
          <5> QED
            BY ZenonT(30), <1>1, <1>2, <3>1, <5>1 DEF SoundFile
        <4> QED
          BY <1>5, <1>6, <1>9, <3>3, <4>1
      <3> QED
        BY <1>9, <3>2, <3>3
    <2> QED
      BY <2>2, <2>3 DEF Struck
  <1>16. /\ custpast.secrets <= h.secrets /\ SoundFile(f, h.secrets) /\ UsesGiven(h.uses, h.secrets)
         /\ GoodCall(k, f, h.secrets)
    BY <1>8, <1>12, <1>13, <1>14
  <1> QED
    BY ZenonT(30), <1>4, <1>6, <1>7, <1>8, <1>15, <1>16, SaveStep

(* disable_at removes an enrollment and strikes nothing.                   *)
LEMMA ClearKeeps ==
    ASSUME CustInv, NEW c \in Requester, Clear(c)
    PROVE  CustInv'
  <1> DEFINE n == call[c].net
             f == [call[c].copy EXCEPT ![n] = <<>>]
  <1>1. /\ n \in NetworkId /\ call[c].copy \in File /\ SoundFile(call[c].copy, custpast.secrets)
        /\ ~call[c].raced => call[c].copy = store
    BY DEF Clear, CustInv, CustTypes, GoodCall, Equipped, Current, Working
  <1>2. save_at(c, f, Resting, custpast) /\ custpast \in Past
    BY DEF Clear, CustInv, CustTypes, Past
  <1>3. /\ f \in File /\ f[n] = <<>> /\ \A m \in NetworkId \ {n} : f[m] = call[c].copy[m]
    BY <1>1 DEF File, Slot
  <1> HIDE DEF f, n
  <1>4. SoundFile(f, custpast.secrets)
    BY <1>1, <1>3 DEF SoundFile
  <1>5. ~custpast.raced /\ ~call[c].raced => Struck(custpast.uses, f) /\ Distinct(custpast.uses)
    BY <1>1, <1>3 DEF CustInv, RecoveryOnce, Struck, Distinct
  <1>6. /\ custpast.secrets <= custpast.secrets /\ UsesGiven(custpast.uses, custpast.secrets)
        /\ Resting \in Call /\ GoodCall(Resting, f, custpast.secrets)
    BY <1>2, RestingIsGood DEF CustInv, Past
  <1> QED
    BY ZenonT(30), <1>2, <1>3, <1>4, <1>5, <1>6, SaveStep

(* A step of LockKept.                                                     *)
Locked ==
    \A n \in NetworkId :
        (store[n] # <<>> /\ (store'[n] = <<>> \/ store'[n][1].secret # store[n][1].secret))
          => \/ custpast'.raced
             \/ \E c \in Requester : /\ call[c].at = "clear" /\ call[c].net = n
                                  /\ call[c].code # NoCode
                                  /\ call[c].code[2] = store[n][1].secret

(* Only a save changes the file, and a save by a call that nobody raced    *)
(* changes one network of it.                                              *)
LEMMA SavesLock ==
    ASSUME CustInv, NEW c \in Requester, enroll_at(c) \/ consume(c) \/ Clear(c)
    PROVE  Locked
  <1> SUFFICES ASSUME NEW n \in NetworkId, store[n] # <<>>,
                      store'[n] = <<>> \/ store'[n][1].secret # store[n][1].secret,
                      ~custpast'.raced
               PROVE  \E d \in Requester : /\ call[d].at = "clear" /\ call[d].net = n
                                        /\ call[d].code # NoCode
                                        /\ call[d].code[2] = store[n][1].secret
    BY DEF Locked
  <1> DEFINE m == call[c].net
  <1>1. /\ call[c].at \in Working /\ call[c] \in Call /\ store \in File
        /\ GoodCall(call[c], store, custpast.secrets) /\ custpast \in Past
    BY DEF enroll_at, consume, Clear, Working, CustInv, CustTypes, Past
  <1>2. m \in NetworkId /\ call[c].copy \in File
    BY <1>1 DEF GoodCall, Equipped, Working
  <1>3. ASSUME NEW f, NEW k, NEW h \in Past, save_at(c, f, k, h)
        PROVE  store' = f /\ call[c].copy = store
    <2>1. ~call[c].raced /\ store' = f
      BY <1>3, <1>1 DEF save_at, Past, Call
    <2> QED
      BY <1>1, <2>1 DEF GoodCall, Current
  <1>4. CASE enroll_at(c)
    <2>1. ~Has(c) /\ store' = [call[c].copy EXCEPT ![m] =
                                   <<[secret |-> custpast.secrets + 1, codes |-> Codes]>>]
          /\ call[c].copy = store
      <3>1. [custpast EXCEPT !.secrets = @ + 1] \in Past
        BY <1>1 DEF Past
      <3> QED
        BY <1>3, <1>4, <3>1 DEF enroll_at
    <2> QED
      BY <1>2, <2>1 DEF Has, File
  <1>5. CASE consume(c)
    <2>1. /\ store' = [call[c].copy EXCEPT ![m] = <<[Mine(c) EXCEPT !.codes = @ \ {call[c].code[3]}]>>]
          /\ call[c].copy = store
      <3>1. [custpast EXCEPT !.uses = Append(@, call[c].code)] \in Past
        BY <1>1 DEF Past, Call
      <3> QED
        BY ZenonT(60), <1>3, <1>5, <3>1 DEF consume
    <2>2. store[m] # <<>> /\ Mine(c) = store[m][1] /\ Mine(c) \in Enrollment
      BY <1>1, <1>2, <1>5, <2>1, SlotFacts DEF consume, GoodCall, Striking, Mine
    <2>3. [Mine(c) EXCEPT !.codes = @ \ {call[c].code[3]}].secret = Mine(c).secret
      BY <2>2 DEF Enrollment
    <2> QED
      BY <1>2, <2>1, <2>2, <2>3 DEF File
  <1>6. CASE Clear(c)
    <2>1. store' = [call[c].copy EXCEPT ![m] = <<>>] /\ call[c].copy = store
      BY <1>1, <1>3, <1>6 DEF Clear
    <2>2. n = m
      BY <1>2, <2>1 DEF File
    <2>3. ~call[c].raced
      BY <1>1, <1>6 DEF Clear, save_at, Past, Call
    <2> QED
      BY <1>1, <1>6, <2>2, <2>3 DEF Clear, GoodCall, LetThrough
  <1> QED
    BY <1>4, <1>5, <1>6

(* For any number of tasks, networks and recovery codes: unless a call     *)
(* wrote back an old copy of the file, a recovery code is accepted at most *)
(* once, and an enrollment goes only by a disable that presented a code    *)
(* accepted for it (require_at, enroll_at, disable_at and the whole-file   *)
(* load_at and save_at).                                                   *)
THEOREM LockAlwaysHolds == CustSpec => LockHolds
  <1>1. CustInv /\ [CustNext]_custVars => CustInv' /\ Locked
    <2> SUFFICES ASSUME CustInv, [CustNext]_custVars PROVE CustInv' /\ Locked
      OBVIOUS
    <2>1. store' = store => Locked
      BY DEF Locked
    <2>2. ASSUME NEW c \in Requester, NEW n \in NetworkId, NEW op \in {"enroll", "require", "disable"},
                 NEW code \in Code, Begin(c, op, n, code)
          PROVE  CustInv' /\ store' = store
      BY ZenonT(60), <2>2, BeginKeeps DEF Begin
    <2>3. ASSUME NEW c \in Requester, load_at(c) PROVE CustInv' /\ store' = store
      BY ZenonT(60), <2>3, LoadKeeps DEF load_at
    <2>4. ASSUME NEW c \in Requester, LoadFails(c) \/ SaveFails(c) \/ Returns(c)
          PROVE  CustInv' /\ store' = store
      BY <2>4, RestKeeps DEF LoadFails, SaveFails, Returns
    <2>5. ASSUME NEW c \in Requester, require_at(c) PROVE CustInv' /\ store' = store
      BY ZenonT(60), <2>5, RequireKeeps DEF require_at
    <2>6. ASSUME NEW c \in Requester, enroll_at(c) \/ consume(c) \/ Clear(c) PROVE CustInv' /\ Locked
      BY <2>6, EnrollKeeps, ConsumeKeeps, ClearKeeps, SavesLock
    <2>7. CASE CustTick \/ UNCHANGED custVars
      <3>1. store' = store /\ call' = call /\ custpast' = custpast
        BY <2>7 DEF CustTick, custVars
      <3> QED
        BY <2>1, <3>1 DEF CustInv, CustTypes, RecoveryOnce
    <2> QED
      BY ZenonT(60), <2>1, <2>2, <2>3, <2>4, <2>5, <2>6, <2>7 DEF CustNext
  <1>2. CustSpec => []CustInv
    BY CustStarts, <1>1, PTL DEF CustSpec
  <1>3. CustInv => RecoveryOnce
    BY DEF CustInv
  <1>4. CustInv /\ [CustNext]_custVars => [Locked]_custVars
    BY <1>1
  <1>5. CustSpec => LockKept
    BY <1>2, <1>4, PTL DEF CustSpec, LockKept, Locked
  <1> QED
    BY <1>2, <1>3, <1>5, PTL DEF LockHolds
=============================================================================
