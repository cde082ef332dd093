-------------------------------- MODULE Mdns --------------------------------
(***************************************************************************)
(* The LAN signaling driver (mdns/driver.rs) of one device: what DNS-SD    *)
(* resolved, which endpoints of a peer may be dialled, and the table of    *)
(* exchange connections, which either side opens and whose reader and      *)
(* writer tasks end on their own.                                          *)
(*                                                                         *)
(* Times are the waits that remain, in ticks.  A frame is what its sender  *)
(* is; the DNS-SD backend, the sockets and the peers are external.         *)
(***************************************************************************)
EXTENDS Integers, FiniteSets

CONSTANTS
    Peer,
    Key, KeyPeer,    \* discovery keys, one per service instance and interface
    Addr, Port,
    Delay,           \* ENDPOINT_BACKOFF: [1..n -> ticks]
    Parallel,        \* MAX_PARALLEL_DIALS
    MaxConns,        \* connections, and ...
    MaxEvents        \* ... changes in the LAN, in a run

Endpoint == Addr \X Port
Absent == [addrs |-> {}, port |-> CHOOSE p \in Port : TRUE]
Fit == [failures |-> 0, wait |-> 0]

VARIABLES
    keys,            \* key_to_peer: the keys that are resolved
    entry,           \* [Peer -> PeerEntry]
    health,          \* [Peer -> [Endpoint -> EndpointHealth]], Fit where none
    exchange,        \* conns: [Peer -> the generation registered, 0 for none]
    conn,            \* [generation -> [as, reader, writer]]
    gens,            \* conn_gen
    alive,           \* endpoints somebody listens on
    events

mdnsVars == <<keys, entry, health, exchange, conn, gens, alive, events>>

Known(p) == entry[p].addrs # {}
EndpointsOf(p) == entry[p].addrs \X {entry[p].port}
More == events < MaxEvents /\ events' = events + 1
NoConn == [as |-> "nobody", reader |-> FALSE, writer |-> FALSE]

(***************************************************************************)
(* Discovery                                                               *)
(***************************************************************************)
(* merge_peer_entry.                                                       *)
merge_peer_entry(e, addrs, port) ==
    IF e.addrs # {} /\ e.port = port THEN [e EXCEPT !.addrs = @ \cup addrs]
    ELSE [addrs |-> addrs, port |-> port]

Resolved(k, addrs, port) ==
    /\ addrs # {}
    /\ keys' = keys \cup {k}
    /\ entry' = [entry EXCEPT ![KeyPeer[k]] = merge_peer_entry(@, addrs, port)]
    /\ More /\ UNCHANGED <<health, exchange, conn, gens, alive>>

Removed(k) ==
    LET p == KeyPeer[k]
        last == \A o \in keys \ {k} : KeyPeer[o] # p
    IN  /\ k \in keys
        /\ keys' = keys \ {k}
        /\ entry' = IF last THEN [entry EXCEPT ![p] = Absent] ELSE entry
        /\ health' = IF last THEN [health EXCEPT ![p] = [e \in Endpoint |-> Fit]] ELSE health
        /\ More /\ UNCHANGED <<exchange, conn, gens, alive>>

(***************************************************************************)
(* Connections                                                             *)
(***************************************************************************)
(* adopt_stream.                                                           *)
adopt_stream(as) ==
    /\ gens < MaxConns
    /\ gens' = gens + 1
    /\ conn' = [conn EXCEPT ![gens + 1] = [as |-> as, reader |-> TRUE, writer |-> TRUE]]

(* The due endpoints, or else one of those due soonest.                    *)
select_dial_candidates(p) ==
    LET due == {e \in EndpointsOf(p) : health[p][e].wait = 0}
        Before(e, f) == \/ health[p][e].wait < health[p][f].wait
                        \/ /\ health[p][e].wait = health[p][f].wait
                           /\ health[p][e].failures <= health[p][f].failures
        soonest == {e \in EndpointsOf(p) : \A f \in EndpointsOf(p) : Before(e, f)}
    IN  IF due # {} THEN due
        ELSE IF soonest = {} THEN {} ELSE {CHOOSE e \in soonest : TRUE}

(* note_endpoint_failures.                                                 *)
Failed(h) ==
    LET n == h.failures + 1
        last == Cardinality(DOMAIN Delay)
    IN  [failures |-> IF n > last THEN last ELSE n, wait |-> Delay[IF n > last THEN last ELSE n]]

(* send_directed over a connection that has a writer ...                   *)
SendOnConn(p) ==
    /\ exchange[p] # 0 /\ conn[exchange[p]].writer
    /\ UNCHANGED mdnsVars

(* ... and by a dial: the batches before the one that has an endpoint      *)
(* alive all fail; with none alive all do.  Batches follow the order of    *)
(* the waits, which leaves ties open.                                      *)
Dial(p) ==
    LET due == select_dial_candidates(p)
    IN  /\ ~(exchange[p] # 0 /\ conn[exchange[p]].writer)
        /\ Known(p) /\ gens < MaxConns
        /\ \/ /\ due \cap alive = {}
              /\ health' = [health EXCEPT ![p] =
                     [e \in Endpoint |-> IF e \in due THEN Failed(@[e]) ELSE @[e]]]
              /\ UNCHANGED <<exchange, conn, gens>>
           \/ \E e \in due \cap alive : \E tried \in SUBSET (due \ alive) :
                 /\ Cardinality(tried) % Parallel = 0
                 /\ health' = [health EXCEPT ![p] =
                        [x \in Endpoint |-> IF x = e THEN Fit
                                            ELSE IF x \in tried THEN Failed(@[x]) ELSE @[x]]]
                 /\ adopt_stream(p)
                 /\ exchange' = [exchange EXCEPT ![p] = gens + 1]
        /\ UNCHANGED <<keys, entry, alive, events>>

(* run_accept: nobody yet.                                                 *)
Accept ==
    /\ adopt_stream("nobody")
    /\ UNCHANGED <<keys, entry, health, exchange, alive, events>>

(* run_reader: the first frame for us registers an accepted connection     *)
(* under its sender, whatever was there and whether or not the writer is   *)
(* still running.                                                          *)
Frame(g, p) ==
    /\ conn[g].reader /\ conn[g].as = "nobody"
    /\ conn' = [conn EXCEPT ![g].as = p]
    /\ exchange' = [exchange EXCEPT ![p] = g]
    /\ UNCHANGED <<keys, entry, health, gens, alive, events>>

(* Whatever is registered for the peer goes.                               *)
Deregistered_Any(g) ==
    [p \in Peer |-> IF conn[g].as = p THEN 0 ELSE exchange[p]]

(* Only our own generation.                                                *)
Deregistered(g) ==
    [p \in Peer |-> IF conn[g].as = p /\ exchange[p] = g THEN 0 ELSE exchange[p]]

(* Once both tasks are gone nothing is left of a connection.               *)
Closed(c) == IF c.reader \/ c.writer THEN c ELSE NoConn

(* The writer idles out or fails, the reader meets the end, a frame it     *)
(* cannot parse or its timeout; each deregisters.                          *)
WriterEnds(g) ==
    /\ conn[g].writer
    /\ conn' = [conn EXCEPT ![g] = Closed([@ EXCEPT !.writer = FALSE])]
    /\ exchange' = Deregistered(g)
    /\ UNCHANGED <<keys, entry, health, gens, alive, events>>
ReaderEnds(g) ==
    /\ conn[g].reader
    /\ conn' = [conn EXCEPT ![g] = Closed([@ EXCEPT !.reader = FALSE])]
    /\ exchange' = Deregistered(g)
    /\ UNCHANGED <<keys, entry, health, gens, alive, events>>

(* Time passes.                                                            *)
Tick ==
    /\ \E p \in Peer, e \in Endpoint : health[p][e].wait > 0
    /\ health' = [p \in Peer |-> [e \in Endpoint |->
                    [health[p][e] EXCEPT !.wait = IF @ > 0 THEN @ - 1 ELSE 0]]]
    /\ UNCHANGED <<keys, entry, exchange, conn, gens, alive, events>>

(* A listener moves.                                                       *)
Moves(e) ==
    /\ alive' = {e} /\ alive # {e}
    /\ More /\ UNCHANGED <<keys, entry, health, exchange, conn, gens>>

MdnsFresh ==
    /\ health = [p \in Peer |-> [e \in Endpoint |-> Fit]]
    /\ exchange = [p \in Peer |-> 0] /\ conn = [g \in 1..MaxConns |-> NoConn] /\ gens = 0
    /\ alive = {CHOOSE e \in Endpoint : TRUE} /\ events = 0
MdnsInit == keys = {} /\ entry = [p \in Peer |-> Absent] /\ MdnsFresh

MdnsNext ==
    \/ \E k \in Key : Removed(k) \/ \E A \in SUBSET Addr, o \in Port : Resolved(k, A, o)
    \/ Accept \/ Tick
    \/ \E p \in Peer : Dial(p) \/ SendOnConn(p)
    \/ \E g \in 1..MaxConns : WriterEnds(g) \/ ReaderEnds(g) \/ \E p \in Peer : Frame(g, p)
    \/ \E e \in Endpoint : Moves(e)

(* The engine keeps sending to a peer it knows and cannot reach; time      *)
(* passes.                                                                 *)
MdnsFairness == WF_mdnsVars(Tick) /\ \A p \in Peer : SF_mdnsVars(Dial(p))
MdnsSpec == MdnsInit /\ [][MdnsNext]_mdnsVars /\ MdnsFairness

(***************************************************************************)
(* Properties                                                              *)
(***************************************************************************)
MdnsTypeOK ==
    /\ gens \in 0..MaxConns /\ \A p \in Peer : exchange[p] \in 0..gens
    /\ \A p \in Peer, e \in Endpoint : health[p][e].failures \in 0..Cardinality(DOMAIN Delay)

(* A peer is known exactly as long as some interface still resolves it:    *)
(* the goodbye seen on one adapter does not erase what its siblings know.  *)
KnownWhileResolved ==
    \A p \in Peer : Known(p) <=> \E k \in keys : KeyPeer[k] = p

(* The table names a connection only under the peer it is registered for   *)
(* and only while its reader runs, so an entry never outlives its socket.  *)
EntriesAreLive ==
    \A p \in Peer : exchange[p] # 0 => conn[exchange[p]].as = p /\ conn[exchange[p]].reader

(* "only our own generation; a newer connection may have replaced this     *)
(* entry already": the end of one connection leaves the others registered. *)
EndsAlone ==
    [][\A g \in 1..MaxConns : WriterEnds(g) \/ ReaderEnds(g) =>
          \A p \in Peer : exchange[p] # g => exchange'[p] = exchange[p]]_mdnsVars

(* A dead adapter cannot starve a live one: while a peer stays resolved    *)
(* and one of its endpoints stays up, a connection to it is opened.        *)
LiveAddressFound ==
    \A p \in Peer, e \in Endpoint :
        <>[](e \in EndpointsOf(p) \cap alive /\ gens < MaxConns) => []<>(exchange[p] # 0)

(* The LAN tables agree with what runs: a peer is known while an interface *)
(* resolves it, an entry lives as long as its reader, and goes with no     *)
(* other connection.                                                       *)
LanTablesFit ==
    /\ [](MdnsTypeOK /\ KnownWhileResolved /\ EntriesAreLive)
    /\ EndsAlone
=============================================================================
