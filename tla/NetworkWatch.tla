---------------------------- MODULE NetworkWatch ----------------------------
(***************************************************************************)
(* The network-change watcher of one network (engine/network_watch.rs): on *)
(* every state-watch tick it samples the host's addresses, decides whether *)
(* the change matters, latches the offline flag the ICE machinery reads,   *)
(* and has signaling redialed and every peer restarted.  The restart waits *)
(* in a task of its own for the first relay session that comes up after    *)
(* the redial was asked for.                                               *)
(***************************************************************************)
EXTENDS Naturals

CONSTANTS
    Address,     \* primary outbound addresses
    Fingerprint  \* sets of local addresses, "empty" for none

(* A NetworkSnapshot: the primary address, and the local fingerprint.  The *)
(* two probes (IPv4, IPv6) are one field here.                             *)
NoAddress == "none"
Snapshot == [primary : Address \cup {NoAddress}, local : Fingerprint \cup {"empty"}]
Unseen == [primary |-> "unseen", local |-> "empty"]

VARIABLES
    host,         \* the host's addresses
    last,        \* the snapshot the watcher holds, Unseen before the first poll
    offline,     \* NetworkState::offline
    cooling,     \* a restart was fired within NETWORK_CHANGE_RESTART_COOLDOWN_MS
    waiting,     \* a fan-out task waits for a relay session
    baseline     \* last is still what the first poll adopted

netVars == <<host, last, offline, cooling, waiting, baseline>>

(* NetworkSnapshot::offline                                                *)
Down(s) == s.primary = NoAddress /\ s.local = "empty"

NetTypeOK ==
    /\ host \in Snapshot
    /\ last \in Snapshot \cup {Unseen}
    /\ {offline, cooling, waiting, baseline} \subseteq BOOLEAN

NetInit ==
    /\ host \in Snapshot
    /\ last = Unseen
    /\ offline = FALSE /\ cooling = FALSE /\ waiting = FALSE /\ baseline = FALSE

(* The addresses of the host change.                                       *)
NetworkMoves(s) ==
    /\ s # host
    /\ host' = s
    /\ UNCHANGED <<last, offline, cooling, waiting, baseline>>

BenignChurn(prev, now) == now.primary = prev.primary /\ now.primary # NoAddress

(* cooldown_coalesces: an edge into or out of offline is never coalesced.  *)
Coalesces(edge) == ~edge /\ cooling

(* NetworkWatch::poll with on_network_change and redial_then_fan_out.      *)
Poll ==
    /\ host # last
    /\ last' = host
    /\ \/ /\ last = Unseen
          /\ baseline' = TRUE
          /\ UNCHANGED <<offline, cooling, waiting>>
       \/ /\ last # Unseen
          /\ BenignChurn(last, host) \/ Coalesces(Down(host) \/ offline)
          /\ baseline' = (baseline /\ BenignChurn(last, host))
          /\ UNCHANGED <<offline, cooling, waiting>>
       \/ /\ last # Unseen /\ ~BenignChurn(last, host) /\ ~Coalesces(Down(host) \/ offline)
          /\ baseline' = FALSE
          /\ offline' = Down(host)
          /\ cooling' = (cooling \/ ~Down(host))
          /\ waiting' = (waiting \/ ~Down(host))
    /\ UNCHANGED host

CooldownEnds ==
    /\ cooling
    /\ cooling' = FALSE
    /\ UNCHANGED <<host, last, offline, waiting, baseline>>

(* The redial brings a relay session up; the waiting task restarts every   *)
(* peer (fan_out_restart).                                                 *)
RelayReturns ==
    /\ waiting /\ ~Down(host)
    /\ waiting' = FALSE
    /\ UNCHANGED <<host, last, offline, cooling, baseline>>

(* reconnect_all_in_place                                                  *)
ReconnectAll ==
    /\ ~offline /\ ~waiting
    /\ waiting' = TRUE
    /\ UNCHANGED <<host, last, offline, cooling, baseline>>

NetNext ==
    \/ \E s \in Snapshot : NetworkMoves(s)
    \/ Poll \/ CooldownEnds \/ RelayReturns \/ ReconnectAll

NetSpec == NetInit /\ [][NetNext]_netVars

-----------------------------------------------------------------------------
(* The flag that holds every ICE restart agrees with the snapshot the      *)
(* watcher holds, through any burst of changes and any cooldown, once one  *)
(* change was seen; a return swallowed by the cooldown would leave the     *)
(* network held for good.                                                  *)
OfflineFollows == last # Unseen /\ ~baseline => offline = Down(last)

(* The hold is on although the host is connected.                          *)
HeldUp == offline /\ ~Down(host)
=============================================================================
