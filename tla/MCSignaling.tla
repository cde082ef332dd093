----------------------------- MODULE MCSignaling -----------------------------
(***************************************************************************)
(* The three machines of the signaling layer on small instances: the       *)
(* driver and bridge of one device, the self-hosted relay, and the LAN     *)
(* driver.  They share no state in one process, so a behaviour runs one of *)
(* them while the others stay in their initial states.                     *)
(***************************************************************************)
EXTENDS Signaling, RelayServer, Mdns

VARIABLE machine
mcVars == <<machine, sigVars, relayVars, mdnsVars>>

(* The events of two peers: one that tags its directed messages, one that  *)
(* does not; an offer published twice, and one replayed from history.      *)
AnEvent(i, type, kind, from, tagged, content) ==
    [id |-> i, type |-> type, kind |-> kind, from |-> from, tags |-> from = "new",
     tagged |-> tagged, content |-> content]
Hi == AnEvent(1, "announce", "stored", "new", FALSE, 1)
OldHi == AnEvent(2, "announce", "stored", "old", FALSE, 2)
Offer == AnEvent(3, "directed", "live", "old", FALSE, 3)
OfferAgain == AnEvent(4, "directed", "live", "old", TRUE, 3)
Past == AnEvent(5, "directed", "stored", "old", TRUE, 4)
Bye == AnEvent(6, "leave", "live", "old", TRUE, 5)
MCInbound == {Hi, OldHi, Offer, OfferAgain, Past, Bye}

Quiet == [primary |-> {"p"}, inbound |-> {}, directed |-> {}, forces |-> 0,
          outage |-> FALSE, stop |-> FALSE, announce |-> FALSE, listen_only |-> FALSE]
MCScenes ==
    {Quiet,
     [Quiet EXCEPT !.primary = {"p", "q"}, !.inbound = {Hi, Offer, OfferAgain}],
     [Quiet EXCEPT !.inbound = {Past, OldHi, Bye}],
     [Quiet EXCEPT !.outage = TRUE, !.stop = TRUE],
     [Quiet EXCEPT !.primary = {"p", "q"}, !.forces = 1],
     [Quiet EXCEPT !.primary = {"p", "q"}, !.directed = {"m", "n"}],
     [Quiet EXCEPT !.announce = TRUE],
     [Quiet EXCEPT !.announce = TRUE, !.listen_only = TRUE]}

MCKeyPeer == [k \in Key |-> "p"]
MCDelay == <<1>>

(* The LAN is looked at from the first resolution on (all keys and ports   *)
(* are alike), and from before it.                                         *)
LanResolved ==
    /\ keys = {"k1"}
    /\ \E A \in (SUBSET Addr) \ {{}} :
          entry = [p \in Peer |-> merge_peer_entry(Absent, A, CHOOSE o \in Port : TRUE)]
    /\ MdnsFresh

MCInit ==
    /\ machine \in {"driver", "relay", "lan"}
    /\ SigInit /\ RelayInit
    /\ MdnsInit \/ (machine = "lan" /\ LanResolved)
    /\ machine # "driver" => scene = Quiet

MCNext ==
    \/ machine = "driver" /\ SigNext /\ UNCHANGED <<machine, relayVars, mdnsVars>>
    \/ machine = "relay" /\ RelayNext /\ UNCHANGED <<machine, sigVars, mdnsVars>>
    \/ machine = "lan" /\ MdnsNext /\ UNCHANGED <<machine, sigVars, relayVars>>

MCFairness ==
    /\ \A t \in Task : /\ WF_sigVars(machine = "driver" /\ Progress(t))
                       /\ WF_sigVars(machine = "driver" /\ SessionCancelled(t))
    /\ WF_sigVars(machine = "driver" /\ Poll)
    /\ WF_mdnsVars(machine = "lan" /\ Tick)
    /\ \A p \in Peer : SF_mdnsVars(machine = "lan" /\ Dial(p))

MCSpec == MCInit /\ [][MCNext]_mcVars /\ MCFairness

(* Signaling settles: a stopped driver winds down, the fallback stands     *)
(* down while a primary is up, and a live LAN address is found.            *)
SignalingSettles == StopsEverything /\ FallbackStandsDown /\ LiveAddressFound
=============================================================================
