-------------------------------- MODULE Ipc ---------------------------------
(***************************************************************************)
(* The clients of the control socket and what the daemon routes to them    *)
(* (ipc/clients.rs, ipc/bridge.rs and the Rpc*/Channel* arms of            *)
(* control.rs), for one method and one channel of one network.  Every      *)
(* socket is served by a task of its own and the indices are separate      *)
(* concurrent maps, so a request takes as many steps as it touches maps,   *)
(* and a disconnect takes its own.                                         *)
(***************************************************************************)
EXTENDS Integers, Sequences, FiniteSets, SequencesExt

CONSTANTS
    Socket,        \* command sockets with a request in progress
    Call,          \* request ids of inbound calls
    MaxClients, MaxFrames

VARIABLES
    reg,           \* the registry: conn, claims, cached, owner, subs, next
    leaving,       \* [client -> the step unregister is at]
    sock,          \* [Socket -> the request dispatch is working on]
    engine,        \* gen, handler: the network's Rpc table; frames published
    pumps,         \* the channel pumps, in spawn order
    got,           \* [client -> the frames its writer was given]
    calls,         \* [Call -> an inbound call and the handler's task]
    pending,       \* pending_inbound
    ipcpast        \* requests, disconnects and rejoins still to come, and what the
                   \* properties need to know

ipcVars == <<reg, leaving, sock, engine, pumps, got, calls, pending, ipcpast>>

Client == 0..(MaxClients - 1)
NoOne  == -1
Mode   == {"single", "stream"}
SockReady == [op |-> "none", c |-> NoOne, mode |-> "single", at |-> "ready", prev |-> NoOne, gen |-> 0]

IpcInit(asks, leaves, rejoins) ==
    /\ reg = [conn |-> {}, claims |-> {}, cached |-> {}, owner |-> NoOne, mode |-> "single",
              subs |-> <<>>, next |-> 0]
    /\ leaving = [c \in Client |-> "no"]
    /\ sock = [s \in Socket |-> SockReady]
    /\ engine = [gen |-> 0, handler |-> "none", frames |-> 0]
    /\ pumps = <<>>
    /\ got = [c \in Client |-> <<>>]
    /\ calls = [r \in Call |-> [at |-> "new", mode |-> "single", to |-> NoOne]]
    /\ pending = [r \in Call |-> "none"]
    /\ ipcpast = [asks |-> asks, leaves |-> leaves, rejoins |-> rejoins, heard |-> [c \in Client |-> 0], due |-> {}, odd |-> {}]

NoteIpc(what) == ipcpast' = [ipcpast EXCEPT !.odd = @ \cup what]

(***************************************************************************)
(* Event sockets: register and unregister                                  *)
(***************************************************************************)

(* EventsSubscribe: a fresh id, never used again.                          *)
register ==
    /\ reg.next < MaxClients
    /\ reg' = [reg EXCEPT !.conn = @ \cup {reg.next}, !.next = @ + 1]
    /\ UNCHANGED <<leaving, sock, engine, pumps, got, calls, pending, ipcpast>>

(* unregister, first step: the entry of clients.                           *)
Disconnect(c) ==
    /\ c \in reg.conn
    /\ ipcpast.leaves > 0
    /\ reg' = [reg EXCEPT !.conn = @ \ {c}]
    /\ leaving' = [leaving EXCEPT ![c] = "claims"]
    /\ ipcpast' = [ipcpast EXCEPT !.leaves = @ - 1]
    /\ UNCHANGED <<sock, engine, pumps, got, calls, pending>>

(* The claims in its cache go, whoever owns them by now.                   *)
DropClaims_Any(c) ==
    /\ leaving[c] = "claims"
    /\ reg' = [reg EXCEPT !.owner = IF c \in reg.claims THEN NoOne ELSE @]
    /\ leaving' = [leaving EXCEPT ![c] = "subs"]
    /\ UNCHANGED <<sock, engine, pumps, got, calls, pending, ipcpast>>

(* ... then the claims in its cache that it still owns ...                 *)
DropClaims(c) ==
    /\ leaving[c] = "claims"
    /\ reg' = [reg EXCEPT !.owner = IF c \in reg.claims /\ @ = c THEN NoOne ELSE @]
    /\ leaving' = [leaving EXCEPT ![c] = "subs"]
    /\ UNCHANGED <<sock, engine, pumps, got, calls, pending, ipcpast>>

(* ... then the subscriptions in its cache.                                *)
DropSubs(c) ==
    /\ leaving[c] = "subs"
    /\ reg' = [reg EXCEPT !.subs = IF c \in reg.cached THEN SelectSeq(@, LAMBDA d : d # c) ELSE @]
    /\ leaving' = [leaving EXCEPT ![c] = "gone"]
    /\ UNCHANGED <<sock, engine, pumps, got, calls, pending, ipcpast>>

(***************************************************************************)
(* Command sockets: dispatch                                               *)
(***************************************************************************)
(* A request names a client; register and subscribe refuse an unknown one, *)
(* and take the network as it is now.  Sockets are interchangeable: the    *)
(* request comes on the first free one.                                    *)
Dispatch(op, c, m) ==
    /\ \E s \in Socket : sock[s].op = "none"
    /\ ipcpast.asks > 0
    /\ c < reg.next
    /\ op \in {"register", "subscribe"} => c \in reg.conn
    /\ LET s == CHOOSE t \in Socket : sock[t].op = "none" IN
       sock' = [sock EXCEPT ![s] = [op |-> op, c |-> c, mode |-> m, at |-> "cache", prev |-> NoOne,
                                    gen |-> engine.gen]]
    /\ ipcpast' = [ipcpast EXCEPT !.asks = @ - 1]
    /\ UNCHANGED <<reg, leaving, engine, pumps, got, calls, pending>>

SockAt(s, op, at)  == sock[s].op = op /\ sock[s].at = at
SockGoto(s, at)    == sock' = [sock EXCEPT ![s].at = at]
Reply(s)      == sock' = [sock EXCEPT ![s] = SockReady]

(* claim_method: the client's own cache, if it is still there, ...         *)
CacheClaim(s) ==
    /\ SockAt(s, "register", "cache")
    /\ reg' = [reg EXCEPT !.claims = IF sock[s].c \in reg.conn THEN @ \cup {sock[s].c} ELSE @]
    /\ SockGoto(s, "claim")
    /\ UNCHANGED <<leaving, engine, pumps, got, calls, pending, ipcpast>>

(* ... the claim itself (last one wins) ...                                *)
Claim(s) ==
    /\ SockAt(s, "register", "claim")
    /\ reg' = [reg EXCEPT !.owner = sock[s].c, !.mode = sock[s].mode]
    /\ sock' = [sock EXCEPT ![s].at = "uncache", ![s].prev = reg.owner]
    /\ NoteIpc((IF leaving[sock[s].c] \in {"subs", "gone"} \/ sock[s].c \notin reg.claims
              THEN {"late"} ELSE {})
           \cup (IF \E t \in Socket \ {s} : sock[t].op = "register" THEN {"crossed"} ELSE {}))
    /\ UNCHANGED <<leaving, engine, pumps, got, calls, pending>>

(* ... and the former owner's cache.                                       *)
UncachePrev(s) ==
    /\ SockAt(s, "register", "uncache")
    /\ LET p == sock[s].prev
           other == p # NoOne /\ p # sock[s].c /\ p \in reg.conn
       IN /\ reg' = [reg EXCEPT !.claims = IF other THEN @ \ {p} ELSE @]
          /\ NoteIpc(IF other /\ reg.owner = p THEN {"late"} ELSE {})
    /\ SockGoto(s, "install")
    /\ UNCHANGED <<leaving, engine, pumps, got, calls, pending>>

(* install_handler_for_mode: replaces what the network's Rpc serves; the   *)
(* network is the one looked up before the claim.                          *)
install_handler_for_mode(s) ==
    /\ SockAt(s, "register", "install")
    /\ engine' = [engine EXCEPT !.handler = IF sock[s].gen = engine.gen THEN sock[s].mode ELSE @]
    /\ Reply(s)
    /\ UNCHANGED <<reg, leaving, pumps, got, calls, pending, ipcpast>>

(* release_method *)
release_method(s) ==
    /\ SockAt(s, "release", "cache")
    /\ reg' = [reg EXCEPT !.claims = @ \ {sock[s].c},
                          !.owner = IF @ = sock[s].c THEN NoOne ELSE @]
    /\ Reply(s)
    /\ UNCHANGED <<leaving, engine, pumps, got, calls, pending, ipcpast>>

(* subscribe_channel: the client's cache ...                               *)
CacheSub(s) ==
    /\ SockAt(s, "subscribe", "cache")
    /\ reg' = [reg EXCEPT !.cached = IF sock[s].c \in reg.conn THEN @ \cup {sock[s].c} ELSE @]
    /\ SockGoto(s, "push")
    /\ UNCHANGED <<leaving, engine, pumps, got, calls, pending, ipcpast>>

(* ... then the list, under its lock; the first one in spawns the pump.    *)
subscribe_channel(s) ==
    /\ SockAt(s, "subscribe", "push")
    /\ LET c == sock[s].c
           new == ~Contains(reg.subs, c)
           first == reg.subs = <<>>
       IN /\ reg' = [reg EXCEPT !.subs = IF new THEN Append(@, c) ELSE @]
          /\ IF first THEN SockGoto(s, "spawn") ELSE Reply(s)
          /\ ipcpast' = [ipcpast EXCEPT !.heard[c] = IF new THEN 0 ELSE @,
                !.due = IF new THEN {d \in @ : d[1] # c} ELSE @,
                !.odd = @ \cup (IF first /\ (\/ \E p \in Range(pumps) : p.at # "exited"
                                             \/ \E t \in Socket : SockAt(t, "subscribe", "spawn"))
                                  THEN {"doubled"} ELSE {})]
    /\ UNCHANGED <<leaving, engine, pumps, got, calls, pending>>

(* spawn_channel_pump: a receiver of its own, from here on.                *)
spawn_channel_pump(s) ==
    /\ SockAt(s, "subscribe", "spawn")
    /\ pumps' = Append(pumps, [gen |-> sock[s].gen, at |-> "head", subs |-> <<>>, queue |-> <<>>])
    /\ Reply(s)
    /\ UNCHANGED <<reg, leaving, engine, got, calls, pending, ipcpast>>

unsubscribe_channel(s) ==
    /\ SockAt(s, "unsubscribe", "cache")
    /\ reg' = [reg EXCEPT !.cached = @ \ {sock[s].c},
                          !.subs = SelectSeq(@, LAMBDA d : d # sock[s].c)]
    /\ Reply(s)
    /\ UNCHANGED <<leaving, engine, pumps, got, calls, pending, ipcpast>>

(***************************************************************************)
(* The pump                                                                *)
(***************************************************************************)
(* Loop head: the subscribers as they are now; none, and it ends.          *)
PumpHead(i) ==
    /\ pumps[i].at = "head"
    /\ pumps' = [pumps EXCEPT ![i].at = IF reg.subs = <<>> THEN "exited" ELSE "waiting",
                              ![i].subs = reg.subs,
                              ![i].queue = IF reg.subs = <<>> THEN <<>> ELSE @]
    /\ UNCHANGED <<reg, leaving, sock, engine, got, calls, pending, ipcpast>>

(* The list is read once, before the loop.                                 *)
PumpRecv_OldList(i) ==
    /\ pumps[i].at = "waiting"
    /\ IF pumps[i].queue = <<>>
         THEN /\ pumps[i].gen # engine.gen
              /\ pumps' = [pumps EXCEPT ![i].at = "exited", ![i].subs = <<>>]
              /\ UNCHANGED got
         ELSE /\ pumps' = [pumps EXCEPT ![i].queue = Tail(@)]
              /\ got' = [c \in Client |-> IF c \in Range(pumps[i].subs) /\ c \in reg.conn
                                            THEN Append(got[c], Head(pumps[i].queue)) ELSE got[c]]
    /\ UNCHANGED <<reg, leaving, sock, engine, calls, pending, ipcpast>>

(* A frame goes to the subscribers read at the head that are still         *)
(* registered; a closed channel ends the pump.                             *)
PumpRecv(i) ==
    /\ pumps[i].at = "waiting"
    /\ IF pumps[i].queue = <<>>
         THEN /\ pumps[i].gen # engine.gen
              /\ pumps' = [pumps EXCEPT ![i].at = "exited", ![i].subs = <<>>]
              /\ UNCHANGED got
         ELSE /\ pumps' = [pumps EXCEPT ![i].at = "head", ![i].queue = Tail(@), ![i].subs = <<>>]
              /\ got' = [c \in Client |-> IF c \in Range(pumps[i].subs) /\ c \in reg.conn
                                            THEN Append(got[c], Head(pumps[i].queue)) ELSE got[c]]
    /\ UNCHANGED <<reg, leaving, sock, engine, calls, pending, ipcpast>>

(* The engine publishes a frame of the channel: every receiver of this     *)
(* network gets it.  `due`: to whom it is owed.  A member is owed all      *)
(* frames but the first one after it joined (the pump may be waiting for   *)
(* that one with an older list), and none while a pump is being spawned.   *)
ChannelSend ==
    /\ engine.frames < MaxFrames
    /\ LET f == engine.frames + 1
           spawning == \E s \in Socket : SockAt(s, "subscribe", "spawn")
       IN /\ engine' = [engine EXCEPT !.frames = f]
          /\ pumps' = [i \in DOMAIN pumps |->
                 IF pumps[i].gen = engine.gen /\ pumps[i].at # "exited"
                   THEN [pumps[i] EXCEPT !.queue = Append(@, f)] ELSE pumps[i]]
          /\ ipcpast' = IF spawning THEN ipcpast
                ELSE [ipcpast EXCEPT
                  !.heard = [c \in Client |-> IF Contains(reg.subs, c) THEN 1 ELSE @[c]],
                  !.due = @ \cup {<<c, f>> : c \in {d \in Range(reg.subs) : ipcpast.heard[d] = 1}}]
    /\ UNCHANGED <<reg, leaving, sock, got, calls, pending>>

(* network_update's restart: the network is joined anew, with an empty     *)
(* Rpc table and channels of its own; the registry of clients is kept.     *)
Rejoin ==
    /\ ipcpast.rejoins > 0
    /\ engine' = [engine EXCEPT !.gen = @ + 1, !.handler = "none"]
    /\ ipcpast' = [ipcpast EXCEPT !.rejoins = @ - 1, !.odd = @ \cup {"rejoined"}]
    /\ UNCHANGED <<reg, leaving, sock, pumps, got, calls, pending>>

(***************************************************************************)
(* An inbound call (the synthetic handler, and the client's answers)       *)
(***************************************************************************)
(* The handler is invoked and reads the owner of the method.               *)
handler_owner(r) ==
    /\ calls[r].at = "new"
    /\ engine.handler # "none"
    /\ calls' = [calls EXCEPT ![r] = [at |-> IF reg.owner = NoOne THEN "failed" ELSE "routed",
                                      mode |-> engine.handler, to |-> reg.owner]]
    /\ UNCHANGED <<reg, leaving, sock, engine, pumps, got, pending, ipcpast>>

(* The owner is looked up; the entry is put before the client is told.     *)
put_pending_inbound(r) ==
    /\ calls[r].at = "routed"
    /\ IF calls[r].to \in reg.conn
         THEN /\ pending' = [pending EXCEPT ![r] = calls[r].mode]
              /\ calls' = [calls EXCEPT ![r].at = "parked"]
         ELSE /\ calls' = [calls EXCEPT ![r].at = "failed"]
              /\ UNCHANGED pending
    /\ UNCHANGED <<reg, leaving, sock, engine, pumps, got, ipcpast>>

SendInbound(r) ==
    /\ calls[r].at = "parked"
    /\ calls' = [calls EXCEPT ![r].at = "sent"]
    /\ UNCHANGED <<reg, leaving, sock, engine, pumps, got, pending, ipcpast>>

(* RpcRespond: takes the entry whatever it is; a stream's sender dropped   *)
(* ends the stream.  RpcStreamEnd likewise: a single call's dropped sender *)
(* fails it.  Any client that knows the id may answer; an unknown id is    *)
(* refused.                                                                *)
Answer(r, how) ==
    /\ calls[r].at = "sent"
    /\ calls[r].to \in reg.conn
    /\ pending' = [pending EXCEPT ![r] = "none"]
    /\ calls' = [calls EXCEPT ![r].at =
          CASE pending[r] = "none" -> "forgotten"
            [] pending[r] = how    -> "done"
            [] pending[r] = "stream" -> "done"
            [] OTHER -> "failed"]
    /\ UNCHANGED <<reg, leaving, sock, engine, pumps, got, ipcpast>>

(***************************************************************************)
DispatchStep(s) ==
    \/ CacheClaim(s)
    \/ Claim(s)
    \/ UncachePrev(s)
    \/ install_handler_for_mode(s)
    \/ release_method(s)
    \/ CacheSub(s)
    \/ subscribe_channel(s)
    \/ spawn_channel_pump(s)
    \/ unsubscribe_channel(s)

PumpStep == \E i \in 1..Len(pumps) : PumpHead(i) \/ PumpRecv(i)

Sockets ==
    \/ register
    \/ \E c \in Client : Disconnect(c) \/ DropClaims(c) \/ DropSubs(c)
    \/ \E s \in Socket : DispatchStep(s)
    \/ Rejoin

RpcTraffic ==
    \/ \E c \in Client, m \in Mode : Dispatch("register", c, m)
    \/ \E c \in Client : Dispatch("release", c, "single")
    \/ \E r \in Call : handler_owner(r) \/ put_pending_inbound(r) \/ SendInbound(r)
    \/ \E r \in Call, how \in Mode : Answer(r, how)

ChannelTraffic ==
    \/ \E c \in Client, op \in {"subscribe", "unsubscribe"} : Dispatch(op, c, "single")
    \/ ChannelSend
    \/ PumpStep

(***************************************************************************)
(* Properties                                                              *)
(***************************************************************************)
SocketsQuiet == \A s \in Socket : sock[s].op = "none"

IpcTypeOK ==
    /\ reg.conn \subseteq Client /\ reg.claims \subseteq Client /\ reg.cached \subseteq Client
    /\ reg.owner \in Client \cup {NoOne}
    /\ IsInjective(reg.subs)
    /\ \A c \in Client : c >= reg.next => c \notin reg.conn
    /\ \A c \in reg.conn : leaving[c] = "no"

(* A claim is lost only to another claim or by its own holder: the         *)
(* disconnect or the release of a client that was displaced leaves the     *)
(* displacing claim alone (unregister's and release_method's remove_if).   *)
ClaimKept ==
    [][(reg.owner # NoOne /\ reg'.owner = NoOne)
         => \/ leaving[reg.owner] = "claims"
            \/ \E s \in Socket : sock[s].op = "release" /\ sock[s].c = reg.owner]_ipcVars

(* Once a client is gone it holds no claim, unless a registration in its   *)
(* name was still being worked on, or two registrations crossed, while it  *)
(* went (the handler then answers that its owner is disconnected).         *)
OwnersConnected ==
    reg.owner # NoOne /\ "late" \notin ipcpast.odd => leaving[reg.owner] \in {"no", "claims"}

(* What the engine serves has the shape the method's owner registered,     *)
(* unless two registrations crossed between their claim and their install  *)
(* or the network was joined anew (install_handler_for_mode).              *)
HandlerFits ==
    SocketsQuiet /\ reg.owner # NoOne /\ ipcpast.odd \cap {"crossed", "rejoined"} = {}
      => engine.handler = reg.mode

(* A list with members has a pump, or one about to be spawned: no          *)
(* interleaving of unsubscribe, subscribe and a pump that ends leaves      *)
(* subscribers without one, as long as the network is not joined anew.     *)
SubscribersServed ==
    reg.subs # <<>> /\ "rejoined" \notin ipcpast.odd
      => \/ \E p \in Range(pumps) : p.at # "exited"
         \/ \E s \in Socket : SockAt(s, "subscribe", "spawn")

(* A client is given a frame once, unless a subscriber joined an emptied   *)
(* list before the former pump had noticed (two pumps then run).           *)
FrameOnce ==
    "doubled" \notin ipcpast.odd => \A c \in Client : IsInjective(got[c])

(* A frame owed to a member reaches it, or it leaves.  Frames are finitely *)
(* many, so this is said of all of them at once.                           *)
FramesArrive ==
    []<>("rejoined" \notin ipcpast.odd =>
            \A p \in ipcpast.due : LET c == p[1] IN
                \/ p[2] \in Range(got[c])
                \/ c \notin reg.conn \/ ~Contains(reg.subs, c))

(* An inbound call given to a client that stays and answers is answered to *)
(* the peer, even when the answer has the other shape: the entry is there  *)
(* before the client hears of the call.                                    *)
CallsAnswered ==
    \A r \in Call : (calls[r].at = "routed")
        ~> (calls[r].at \in {"done", "failed"} \/ calls[r].to \notin reg.conn)

(* The clients' tables agree with the engine's: claims are their holders'  *)
(* alone and served in the shape registered, and subscribers have one      *)
(* pump.                                                                   *)
ClientsFit ==
    /\ [](IpcTypeOK /\ OwnersConnected /\ HandlerFits /\ SubscribersServed /\ FrameOnce)
    /\ ClaimKept
=============================================================================
