----------------------------- MODULE RelayServer -----------------------------
(***************************************************************************)
(* The self-hosted signaling relay (signaling/server.rs): registration of  *)
(* connections with the per-address cap, strikes against floods,           *)
(* subscriptions with their replay, live presence with its owner, the      *)
(* store, the fan-out, and the leave it emits when a member's socket       *)
(* closes.  Every client message is handled under the hub's lock, so it is *)
(* one step; what the relay sends waits in the connection's queue.         *)
(*                                                                         *)
(* The clients are mesh devices in one room: a device may hold several     *)
(* connections (the socket it lost and the one it redialled), announces    *)
(* itself on them, and reads who is there.                                 *)
(***************************************************************************)
EXTENDS Naturals, Sequences, FiniteSets, SequencesExt

CONSTANTS
    Member,       \* devices of the room
    Listener,     \* the devices whose view is followed: they subscribe
    Address,      \* source addresses
    ConnId,       \* bound: connections open at a time
    MaxPerIp,     \* max_connections_per_ip
    StrikeLimit,  \* STRIKE_LIMIT
    StoreCap,     \* MAX_STORED_EVENTS
    ReplayCapReq, \* MAX_REPLAY_PER_REQ
    OutBound      \* bound: frames waiting for one connection

ASSUME RelayServerAssumption ==
    /\ {MaxPerIp, StrikeLimit, StoreCap, ReplayCapReq, OutBound} \subseteq Nat \ {0}
    /\ Listener \subseteq Member

VARIABLES
    conns,     \* connection |-> its ConnEntry, for the registered ones
    presence,  \* device |-> the connection that owns its latest announce
    stored,    \* the devices of the replayable announces, oldest first
    ipCount,   \* address |-> connections counted for it
    view       \* connection |-> the devices its client knows to be there
relayVars == <<conns, presence, stored, ipCount, view>>

AnnounceFrame(d) == [type |-> "announce", dev |-> d]
LeaveFrame(d) == [type |-> "leave", dev |-> d]
Restricted(f, S) == [x \in S |-> f[x]]
Put(f, k, v) == [x \in DOMAIN f \cup {k} |-> IF x = k THEN v ELSE f[x]]

RelayInit ==
    /\ conns = << >> /\ presence = << >> /\ stored = <<>>
    /\ ipCount = [a \in Address |-> 0]
    /\ view = [c \in ConnId |-> {}]

-----------------------------------------------------------------------------
(* fanout: to every connection with a matching subscription.  Presence and *)
(* leaves match every room filter a driver sends.                          *)
Fanout(cs, frame) ==
    [c \in DOMAIN cs |-> IF ~cs[c].sub THEN cs[c]
                         ELSE [cs[c] EXCEPT !.out = Append(@, frame)]]
Room(cs, n) == \A c \in DOMAIN cs : Len(cs[c].out) + n <= OutBound

(* register: refused at the cap, otherwise counted and entered.            *)
Register(c, d, a) ==
    /\ c \notin DOMAIN conns /\ \A x \in ConnId : x < c => x \in DOMAIN conns
    /\ ipCount[a] < MaxPerIp
    /\ ipCount' = [ipCount EXCEPT ![a] = @ + 1]
    /\ conns' = Put(conns, c, [dev |-> d, ip |-> a, sub |-> FALSE, present |-> {},
                               strikes |-> 0, out |-> <<>>])
    /\ view' = [view EXCEPT ![c] = {}]
    /\ UNCHANGED <<presence, stored>>

(* unregister: the counts, and for each device this connection still owns  *)
(* the presence, its stored announces and a leave to the room.             *)
Owned(c) == {d \in conns[c].present : d \in DOMAIN presence /\ presence[d] = c}

Unregister(c) ==
    LET gone == Owned(c)
        rest == Restricted(conns, DOMAIN conns \ {c})
    IN  /\ c \in DOMAIN conns
        /\ Room(rest, Cardinality(gone))
        /\ ipCount' = [ipCount EXCEPT ![conns[c].ip] = @ - 1]
        /\ presence' = Restricted(presence, DOMAIN presence \ gone)
        /\ stored' = SelectSeq(stored, LAMBDA e : e \notin gone)
        /\ conns' = FoldSet(LAMBDA d, cs : Fanout(cs, LeaveFrame(d)), rest, gone)
        /\ view' = [view EXCEPT ![c] = {}]

(* strike: a frame over the size cap, or one the connection's token bucket *)
(* does not cover, is dropped; over the limit so is the connection.        *)
Strike(c) ==
    /\ c \in DOMAIN conns
    /\ IF conns[c].strikes + 1 > StrikeLimit THEN Unregister(c)
       ELSE /\ conns' = [conns EXCEPT ![c].strikes = @ + 1]
            /\ UNCHANGED <<presence, stored, ipCount, view>>

(* handle_req: the replay of the store and of the live members not in it,  *)
(* the latest kept at the cap.  (EOSE names no member; it is left out.)    *)
Req_StoredOnly(c) ==                  \* live presence is not replayed
    LET frames == [i \in 1..Len(stored) |-> AnnounceFrame(stored[i])]
    IN  /\ c \in DOMAIN conns /\ conns[c].dev \in Listener
        /\ Len(conns[c].out) + Len(frames) <= OutBound
        /\ conns' = [conns EXCEPT ![c].sub = TRUE, ![c].out = @ \o frames]
        /\ UNCHANGED <<presence, stored, ipCount, view>>
Req(c) ==
    LET all == stored \o SetToSeq(DOMAIN presence \ Range(stored))
        sent == IF Len(all) > ReplayCapReq
                THEN SubSeq(all, Len(all) - ReplayCapReq + 1, Len(all)) ELSE all
        frames == [i \in 1..Len(sent) |-> AnnounceFrame(sent[i])]
    IN  /\ c \in DOMAIN conns /\ conns[c].dev \in Listener
        /\ Len(conns[c].out) + Len(frames) <= OutBound
        /\ conns' = [conns EXCEPT ![c].sub = TRUE, ![c].out = @ \o frames]
        /\ UNCHANGED <<presence, stored, ipCount, view>>

(* handle_event for an announce: this connection becomes the owner, the    *)
(* event is stored (prune), and fanned out.                                *)
StoreEvent(q, e) == LET s == Append(q, e)
                    IN  IF Len(s) > StoreCap THEN Tail(s) ELSE s
Event(c) ==
    LET d == conns[c].dev
        marked == [conns EXCEPT ![c].present = @ \cup {d}]
    IN  /\ c \in DOMAIN conns
        /\ Room(conns, 1)
        /\ presence' = Put(presence, d, c)
        /\ stored' = StoreEvent(stored, d)
        /\ conns' = Fanout(marked, AnnounceFrame(d))
        /\ UNCHANGED <<ipCount, view>>

(* The store forgets its oldest event.                                     *)
Retire ==
    /\ stored # <<>>
    /\ stored' = Tail(stored)
    /\ UNCHANGED <<conns, presence, ipCount, view>>

(* The client reads its next frame.                                        *)
ClientReads(c) ==
    /\ c \in DOMAIN conns /\ conns[c].out # <<>>
    /\ LET f == Head(conns[c].out)
       IN  view' = [view EXCEPT ![c] = IF f.type = "announce" THEN @ \cup {f.dev}
                                       ELSE IF f.type = "leave" THEN @ \ {f.dev} ELSE @]
    /\ conns' = [conns EXCEPT ![c].out = Tail(@)]
    /\ UNCHANGED <<presence, stored, ipCount>>

RelayNext ==
    \/ \E c \in ConnId, d \in Member, a \in Address : Register(c, d, a)
    \/ \E c \in ConnId : \/ Unregister(c) \/ Strike(c) \/ Req(c) \/ Event(c)
                         \/ ClientReads(c)
    \/ Retire
RelaySpec == RelayInit /\ [][RelayNext]_relayVars

-----------------------------------------------------------------------------
RelayTypeOK ==
    /\ DOMAIN conns \subseteq ConnId /\ DOMAIN presence \subseteq Member
    /\ \A c \in DOMAIN conns : conns[c].strikes \in 0..StrikeLimit
    /\ Len(stored) <= StoreCap

(* Admission counts exactly the connections that are open.                 *)
CountsAreExact == \A a \in Address :
    ipCount[a] = Cardinality({c \in DOMAIN conns : conns[c].ip = a})

(* Whoever is shown as present is owned by an open connection that knows   *)
(* it, so that its close emits the leave.                                  *)
PresenceIsOwned == \A d \in DOMAIN presence :
    /\ presence[d] \in DOMAIN conns
    /\ d \in conns[presence[d]].present

(* The store replays no ghosts: a departed device's announces are gone.    *)
NoGhosts == \A i \in 1..Len(stored) : stored[i] \in DOMAIN presence

(* Once a subscriber has read what was sent to it, it knows exactly the    *)
(* live members of the room, in whatever order they came and went.         *)
ViewIsCurrent == \A c \in DOMAIN conns :
    conns[c].sub /\ conns[c].out = <<>> => view[c] = DOMAIN presence

(* The relay's tables agree: connections with their counts, members with   *)
(* the connections that own them, and what is stored or shown with the     *)
(* members.                                                                *)
RelayFits == RelayTypeOK /\ CountsAreExact /\ PresenceIsOwned /\ NoGhosts /\ ViewIsCurrent
=============================================================================
