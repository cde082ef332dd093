----------------------------- MODULE Handshake -----------------------------
(***************************************************************************)
(* The authentication and approval handshake that every data channel of    *)
(* the mesh goes through (crates/myownmesh-core/src/engine/handshake.rs),  *)
(* for one link between two members, with the parts of engine/mod.rs and   *)
(* engine/governance.rs that act on the same per-peer state: the admission *)
(* gate, the teardown path, the eviction gate and the log adoption that    *)
(* approves or denies a peer.                                              *)
(*                                                                         *)
(* A member keeps one PeerConnection for the other end.  `sess` is the     *)
(* transport generation it belongs to (0: no entry in `peers`), so that    *)
(* sess = sess' plays the role of the `epoch` comparison of the code.      *)
(* Handlers run on the engine's driver task and are one action each.  What *)
(* runs on another task - hello retries, the handshake watchdog, the       *)
(* deny janitor, the caller of roster_approve - takes steps of its own.    *)
(* The topology is the full mesh, which never shelves a link.              *)
(***************************************************************************)
EXTENDS Integers, Sequences

CONSTANTS
    A, B,            \* the two members; A has the lower id and sends the offers
    AutoApprove,     \* members whose network config says auto_approve
    MaxGen,          \* bound: transport generations explored
    Retries,         \* length of HANDSHAKE_HELLO_RETRY_SCHEDULE_MS
    MaxFaults,       \* bound: sends that fail on an open channel
    MaxGov,          \* bound: signed governance changes concerning the peer
    MaxApp,          \* bound: application frames in flight to one end
    Operators,       \* members whose user calls roster_approve and roster_remove
    EarlyApprove     \* whether an approval may reach an unauthenticated session

Node == {A, B}

ASSUME TwoMembers == A # B
ASSUME BoundsAreNaturals ==
    /\ MaxGen \in Nat
    /\ Retries \in Nat
    /\ MaxFaults \in Nat
    /\ MaxGov \in Nat
    /\ MaxApp \in Nat
ASSUME SwitchIsBoolean == EarlyApprove \in BOOLEAN
ASSUME SetsOfMembers == AutoApprove \subseteq Node /\ Operators \subseteq Node

Other(n) == IF n = A THEN B ELSE A
Offerer == A

Gen == 1..MaxGen
Gen0 == 0..MaxGen

(* The status values of PeerStatus that a full-mesh handshake goes through *)
Status == {"Sighted", "Handshaking", "PendingApproval", "Active"}
Reason == {"None", "AuthFailed", "IceFailed", "HeartbeatTimeout", "Denied"}
Recoverable == {"IceFailed", "HeartbeatTimeout"}

(* MeshMessage: the four protocol frames, and "app" for every other frame. *)
(* A nonce is named by the generation whose handshake drew it.             *)
Frame == [type : {"hello", "auth", "approve", "deny", "app"}, nonce : Gen0]
HelloMutant(g) == [type |-> "hello", nonce |-> g + 1]
Hello(g) == [type |-> "hello", nonce |-> g]
AuthResponse(g) == [type |-> "auth", nonce |-> g]
Approve == [type |-> "approve", nonce |-> 0]
Deny == [type |-> "deny", nonce |-> 0]
App == [type |-> "app", nonce |-> 0]

(* Who asked for a drop without naming an epoch, and the reason given.     *)
DropTask == [gen : Gen0, by : {"watchdog", "janitor", "user"}]
ReasonOf(t) == IF t.by = "watchdog" THEN "HeartbeatTimeout" ELSE "Denied"
Dropped == [gen : Gen0, decided : Gen0, reason : Reason]

(* Where the caller of roster_approve is (see ApproveLatch and after).     *)
ApprovePc == {"idle", "approved", "sending", "settling", "rostering", "clearing"}

VARIABLES
    gen,                \* generations negotiated so far
    wire,               \* wire[n]: frames in flight to n on its current session
    faults,             \* failed sends so far
    gov,                \* governance changes so far
    sess,               \* the generation of n's PeerConnection, 0 if none
    status,             \* PeerStateData.status
    authenticated,      \* PeerStateData.authenticated
    nonceSent,          \* PeerStateData.nonce_sent, 0 for None
    localApproveSent,   \* PeerStateData.local_approve_sent
    remoteApproveSeen,  \* PeerStateData.remote_approve_seen
    refused,            \* PeerStateData.admission_rejected > 0
    rostered,           \* the peer is in n's roster
    verdict,            \* what n's signed log says of the peer
    selfEvicted,        \* n knows it is tombstoned itself
    intent,             \* n holds a reconnect intent for the peer
    retries,            \* hello retries left in the task spawned for a generation
    dropTasks,          \* pending calls of drop_peer, which take no epoch
    approving,          \* the caller of roster_approve: its step and generation
    lastDrop,           \* the last PeerEvent::Dropped
    approved,           \* history: generations on which n's Approve left
    signed              \* history: nonces of the peer that n signed

link == <<gen, wire, faults>>
peerState == <<sess, status, authenticated, nonceSent, localApproveSent,
               remoteApproveSeen, refused>>
trust == <<rostered, verdict, selfEvicted, intent>>
tasks == <<retries, dropTasks, approving>>
history == <<lastDrop, approved, signed>>
vars == <<gen, wire, faults, gov, sess, status, authenticated, nonceSent,
          localApproveSent, remoteApproveSeen, refused, rostered, verdict,
          selfEvicted, intent, retries, dropTasks, approving, lastDrop,
          approved, signed>>

TypeOK ==
    /\ gen \in Gen0
    /\ wire \in [Node -> Seq(Frame)]
    /\ faults \in Nat
    /\ gov \in Nat
    /\ sess \in [Node -> Gen0]
    /\ status \in [Node -> Status]
    /\ authenticated \in [Node -> BOOLEAN]
    /\ nonceSent \in [Node -> Gen0]
    /\ localApproveSent \in [Node -> BOOLEAN]
    /\ remoteApproveSeen \in [Node -> BOOLEAN]
    /\ refused \in [Node -> BOOLEAN]
    /\ rostered \in [Node -> BOOLEAN]
    /\ verdict \in [Node -> {"none", "member", "evicted"}]
    /\ selfEvicted \in [Node -> BOOLEAN]
    /\ intent \in [Node -> BOOLEAN]
    /\ retries \in [Node -> [Gen -> 0..Retries]]
    /\ dropTasks \in [Node -> SUBSET DropTask]
    /\ approving \in [Node -> [pc : ApprovePc, gen : Gen0]]
    /\ lastDrop \in [Node -> Dropped]
    /\ approved \in [Node -> SUBSET Gen]
    /\ signed \in [Node -> SUBSET Gen0]

(* Both members have just joined; either may know the other from before.   *)
InitAfter(changes) ==
    /\ gen = 0
    /\ wire = [n \in Node |-> <<>>]
    /\ faults = 0
    /\ gov = changes
    /\ sess = [n \in Node |-> 0]
    /\ status = [n \in Node |-> "Sighted"]
    /\ authenticated = [n \in Node |-> FALSE]
    /\ nonceSent = [n \in Node |-> 0]
    /\ localApproveSent = [n \in Node |-> FALSE]
    /\ remoteApproveSeen = [n \in Node |-> FALSE]
    /\ refused = [n \in Node |-> FALSE]
    /\ rostered \in [Node -> BOOLEAN]
    /\ verdict = [n \in Node |-> "none"]
    /\ selfEvicted = [n \in Node |-> FALSE]
    /\ intent = [n \in Node |-> FALSE]
    /\ retries = [n \in Node |-> [g \in Gen |-> 0]]
    /\ dropTasks = [n \in Node |-> {}]
    /\ approving = [n \in Node |-> [pc |-> "idle", gen |-> 0]]
    /\ lastDrop = [n \in Node |-> [gen |-> 0, decided |-> 0, reason |-> "None"]]
    /\ approved = [n \in Node |-> {}]
    /\ signed = [n \in Node |-> {}]
Init == InitAfter(0)
-----------------------------------------------------------------------------
(* PeerStateData::is_admitted: application frames are processed.           *)
Admitted(n) == sess[n] # 0 /\ authenticated[n] /\ status[n] = "Active"

(* log_evicted.                                                            *)
Evicted(n) == verdict[n] = "evicted"

SameSession == sess[A] # 0 /\ sess[A] = sess[B]

(* send_to_peer.  A frame reaches the other end only if that end is still  *)
(* on the same transport generation.  w is the wire before the send.       *)
Put(w, n, f) ==
    IF sess[Other(n)] = sess[n]
    THEN [w EXCEPT ![Other(n)] = Append(@, f)]
    ELSE w

(* The send returned Ok.                                                   *)
SendOk(w, n, f) ==
    /\ wire' = Put(w, n, f)
    /\ UNCHANGED faults

(* The send returned Err: the frame never left.  Before the channel opens  *)
(* this is the expected outcome, afterwards it is a timeout.               *)
SendErr(w, n) ==
    /\ wire' = w
    /\ \/ status[n] = "Sighted" /\ UNCHANGED faults
       \/ status[n] # "Sighted" /\ faults < MaxFaults /\ faults' = faults + 1

(* The wire after n takes the first frame in flight to it.                 *)
Taken(n) == [wire EXCEPT ![n] = Tail(@)]

(* The pump forwards the events of a session in order: the channel-open    *)
(* event of n has been handled before any frame is.                        *)
Receives(n, type) ==
    /\ sess[n] # 0
    /\ nonceSent[n] # 0
    /\ wire[n] # <<>>
    /\ Head(wire[n]).type = type

(* The auth_response at the head of the wire signs the nonce n sent.       *)
VerifiesMutant(n) == Head(wire[n]).nonce # 0
Verifies(n) == Head(wire[n]).nonce = nonceSent[n]

BecomesOneSided(auth, stat, l, r) == auth /\ l /\ stat # "Active"
BecomesLate(auth, stat, l, r) == auth /\ l /\ r /\ stat = "Handshaking"

(* settle_activation: the three conjuncts, and the transition edge.        *)
BecomesActive(auth, stat, l, r) == auth /\ l /\ r /\ stat # "Active"

RosterableMutant(n) == TRUE

(* approve_roster refuses a peer that the signed log evicts.               *)
Rosterable(n) == ~Evicted(n)

(* settle_activation as the driver runs it: `auth`, `stat`, `l` and `r`    *)
(* are the values the fields of PeerStateData have when it runs, `ros` the *)
(* roster.                                                                 *)
Settle(n, auth, stat, l, r, ros) ==
    LET becameActive == BecomesActive(auth, stat, l, r)
    IN  /\ status' = [status EXCEPT ![n] = IF becameActive THEN "Active" ELSE stat]
        /\ rostered' = [ros EXCEPT ![n] = @ \/ (becameActive /\ Rosterable(n))]
        /\ intent' = [intent EXCEPT ![n] = @ /\ ~becameActive]

(* send_local_approve as the driver runs it, on a wire w.                  *)
SendLocalApprove(n, w, auth, stat, ros) ==
    \/ /\ localApproveSent[n]
       /\ wire' = w
       /\ status' = [status EXCEPT ![n] = stat]
       /\ rostered' = ros
       /\ UNCHANGED <<faults, localApproveSent, intent, approved>>
    \/ /\ ~localApproveSent[n]
       /\ SendOk(w, n, Approve)
       /\ localApproveSent' = [localApproveSent EXCEPT ![n] = TRUE]
       /\ approved' = [approved EXCEPT ![n] = @ \cup {sess[n]}]
       /\ Settle(n, auth, stat, TRUE, remoteApproveSeen[n], ros)
    \/ /\ ~localApproveSent[n]
       /\ SendErr(w, n)
       /\ status' = [status EXCEPT ![n] = stat]
       /\ rostered' = ros
       /\ UNCHANGED <<localApproveSent, intent, approved>>

(* deny_if_evicted, once it has found the peer evicted: deny with proof,   *)
(* and leave the teardown to a task that drops the peer later.             *)
DenyEvicted(n, w) ==
    /\ SendOk(w, n, Deny) \/ SendErr(w, n)
    /\ dropTasks' = [dropTasks EXCEPT ![n] = @ \cup {[gen |-> sess[n], by |-> "janitor"]}]

(* drop_peer_inner: the entry goes, and with it every latch.  `decided` is *)
(* the generation the decision to drop was taken on, w the wire.           *)
Drop(n, w, reason, decided) ==
    /\ sess' = [sess EXCEPT ![n] = 0]
    /\ wire' = [w EXCEPT ![n] = <<>>]
    /\ status' = [status EXCEPT ![n] = "Sighted"]
    /\ authenticated' = [authenticated EXCEPT ![n] = FALSE]
    /\ nonceSent' = [nonceSent EXCEPT ![n] = 0]
    /\ localApproveSent' = [localApproveSent EXCEPT ![n] = FALSE]
    /\ remoteApproveSeen' = [remoteApproveSeen EXCEPT ![n] = FALSE]
    /\ refused' = [refused EXCEPT ![n] = FALSE]
    /\ intent' = [intent EXCEPT ![n] =
                     IF reason \in Recoverable /\ ~Evicted(n)
                     THEN @ \/ n = Offerer
                     ELSE FALSE]
    /\ lastDrop' = [lastDrop EXCEPT ![n] =
                      [gen |-> sess[n], decided |-> decided, reason |-> reason]]
    /\ UNCHANGED <<gen, faults, signed>>
-----------------------------------------------------------------------------
(* The transport: connecting, opening, losing a link.                      *)

(* A dial: the lower id offers on the peer's announce (a member that knows *)
(* it is evicted neither announces nor reacts) or for a reconnect intent,  *)
(* and both ends get a PeerConnection.  Offer, answer and ICE are external.*)
Connect ==
    /\ gen < MaxGen
    /\ \A n \in Node : sess[n] = 0
    /\ (\A n \in Node : ~selfEvicted[n]) \/ intent[Offerer]
    /\ gen' = gen + 1
    /\ sess' = [n \in Node |-> gen + 1]
    /\ wire' = [n \in Node |-> <<>>]
    /\ UNCHANGED <<faults, gov, status, authenticated, nonceSent, localApproveSent,
                   remoteApproveSeen, refused, trust, tasks, history>>

(* DataChannelOpen: the intent is retired and handshake::initiate draws a  *)
(* nonce, says hello and spawns the retry task.                            *)
DataChannelOpen(n) ==
    /\ sess[n] # 0
    /\ nonceSent[n] = 0
    /\ intent' = [intent EXCEPT ![n] = FALSE]
    /\ status' = [status EXCEPT ![n] = "Handshaking"]
    /\ nonceSent' = [nonceSent EXCEPT ![n] = sess[n]]
    /\ retries' = [retries EXCEPT ![n][sess[n]] = Retries]
    /\ \/ SendOk(wire, n, Hello(sess[n]))
       \/ wire' = wire /\ faults < MaxFaults /\ faults' = faults + 1
    /\ UNCHANGED <<gen, gov, sess, authenticated, localApproveSent,
                   remoteApproveSeen, refused, rostered, verdict, selfEvicted,
                   dropTasks, approving, history>>

(* DataChannelClosed, for the current epoch.                               *)
ChannelClosed(n) ==
    /\ sess[n] # 0
    /\ Drop(n, wire, IF Evicted(n) THEN "Denied" ELSE "IceFailed", sess[n])
    /\ UNCHANGED <<gov, rostered, verdict, selfEvicted, tasks, approved>>

(* The other end has closed its session (the close, or the rebuild offer   *)
(* that the other end sends next, takes ours down), or ...                 *)
RemoteClosed(n) == sess[Other(n)] # sess[n] /\ ChannelClosed(n)

(* ... the path is lost (explored while a further generation is left).     *)
PathLost(n) == SameSession /\ gen < MaxGen /\ ChannelClosed(n)

(* heartbeat::tick: no frame within the window.  Frames of a peer that     *)
(* does not admit us are neither processed nor answered.                   *)
HeartbeatTimeout(n) ==
    /\ Admitted(n)
    /\ wire[n] = <<>>
    /\ sess[Other(n)] # sess[n] \/ ~Admitted(Other(n))
    /\ Drop(n, wire, "HeartbeatTimeout", sess[n])
    /\ UNCHANGED <<gov, rostered, verdict, selfEvicted, tasks, approved>>
-----------------------------------------------------------------------------
(* The frame handlers, on the driver task (handle_inbound_frame).          *)

(* on_hello: sign the nonce of the hello and reply, whatever the status.   *)
OnHello(n) ==
    /\ Receives(n, "hello")
    /\ LET nonce == Head(wire[n]).nonce
       IN  \/ /\ SendOk(Taken(n), n, AuthResponse(nonce))
              /\ signed' = [signed EXCEPT ![n] = @ \cup {nonce}]
           \/ /\ SendErr(Taken(n), n)
              /\ UNCHANGED signed
    /\ UNCHANGED <<gen, gov, peerState, trust, tasks, lastDrop, approved>>

(* on_auth_response, signature over another nonce than the one we sent.    *)
(* (No frame precedes our hello, so `nonce_sent` is always there.)         *)
OnAuthBad(n) ==
    /\ Receives(n, "auth")
    /\ ~Verifies(n)
    /\ Drop(n, wire, "AuthFailed", sess[n])
    /\ UNCHANGED <<gov, rostered, verdict, selfEvicted, tasks, approved>>

(* on_auth_response, verified, but the signed log evicts the peer.         *)
OnAuthEvicted(n) ==
    /\ Receives(n, "auth")
    /\ Verifies(n)
    /\ Evicted(n)
    /\ DenyEvicted(n, Taken(n))
    /\ UNCHANGED <<gen, gov, peerState, trust, retries, approving, history>>

(* on_auth_response, verified: authenticated, and approved at once if the  *)
(* config or the roster says so.  The status is overwritten in any case.   *)
OnAuthOk(n) ==
    /\ Receives(n, "auth")
    /\ Verifies(n)
    /\ ~Evicted(n)
    /\ authenticated' = [authenticated EXCEPT ![n] = TRUE]
    /\ IF n \in AutoApprove \/ rostered[n]
       THEN SendLocalApprove(n, Taken(n), TRUE, "PendingApproval", rostered)
       ELSE /\ status' = [status EXCEPT ![n] = "PendingApproval"]
            /\ wire' = Taken(n)
            /\ UNCHANGED <<faults, localApproveSent, rostered, intent, approved>>
    /\ UNCHANGED <<gen, gov, sess, nonceSent, remoteApproveSeen, refused,
                   verdict, selfEvicted, tasks, lastDrop, signed>>

(* on_approve: latch the peer's approval and settle.                       *)
OnApprove(n) ==
    /\ Receives(n, "approve")
    /\ wire' = Taken(n)
    /\ remoteApproveSeen' = [remoteApproveSeen EXCEPT ![n] = TRUE]
    /\ Settle(n, authenticated[n], status[n], localApproveSent[n], TRUE, rostered)
    /\ UNCHANGED <<gen, faults, gov, sess, authenticated, nonceSent,
                   localApproveSent, refused, verdict, selfEvicted, tasks, history>>

(* on_deny: adopt the attached logs, then drop.  They tell n that it is    *)
(* evicted unless it holds a later re-admission, and they may seat the     *)
(* denier, whom the adoption then approves on the session about to close.  *)
OnDeny(n) ==
    /\ Receives(n, "deny")
    /\ \E out, seated, left \in BOOLEAN :
          /\ left => seated /\ ~localApproveSent[n]
          /\ selfEvicted' = [selfEvicted EXCEPT ![n] = out]
          /\ verdict' = [verdict EXCEPT ![n] = IF seated THEN "member" ELSE @]
          /\ rostered' = [rostered EXCEPT ![n] = @ \/ seated]
          /\ approved' = [approved EXCEPT ![n] = IF left THEN @ \cup {sess[n]} ELSE @]
          /\ Drop(n, IF left THEN Put(wire, n, Approve) ELSE wire, "Denied", sess[n])
    /\ UNCHANGED <<gov, tasks>>

(* The admission gate: any other frame is processed if the peer is         *)
(* admitted and is dropped without a trace otherwise.                      *)
OnApp(n) ==
    /\ Receives(n, "app")
    /\ wire' = Taken(n)
    /\ refused' = [refused EXCEPT ![n] = @ \/ ~Admitted(n)]
    /\ UNCHANGED <<gen, faults, gov, sess, status, authenticated, nonceSent,
                   localApproveSent, remoteApproveSeen, trust, tasks, history>>

(* broadcast_channel_frame, the heartbeat and gossip send on ACTIVE links. *)
SendApp(n) ==
    /\ Admitted(n)
    /\ Len(SelectSeq(wire[Other(n)], LAMBDA f : f = App)) < MaxApp
    /\ wire' = Put(wire, n, App)
    /\ UNCHANGED <<gen, faults, gov, peerState, trust, tasks, history>>
-----------------------------------------------------------------------------
(* Tasks beside the driver.                                                *)

(* schedule_hello_retries: the task of generation g wakes up.  It looks at *)
(* whatever session the peer has now, and says its own, old hello on it.   *)
HelloRetry(n, g) ==
    /\ retries[n][g] > 0
    /\ IF sess[n] # 0 /\ status[n] = "Handshaking" /\ ~authenticated[n]
       THEN /\ retries' = [retries EXCEPT ![n][g] = @ - 1]
            /\ SendOk(wire, n, Hello(g)) \/ SendErr(wire, n)
       ELSE /\ retries' = [retries EXCEPT ![n][g] = 0]
            /\ UNCHANGED <<wire, faults>>
    /\ UNCHANGED <<gen, gov, peerState, trust, dropTasks, approving, history>>

(* schedule_watchdog: the handshake took too long; the task has decided to *)
(* drop the peer and has not done so yet.                                  *)
WatchdogDecides(n) ==
    /\ sess[n] # 0
    /\ status[n] = "Handshaking"
    /\ ~authenticated[n]
    /\ [gen |-> sess[n], by |-> "watchdog"] \notin dropTasks[n]
    /\ dropTasks' = [dropTasks EXCEPT ![n] = @ \cup {[gen |-> sess[n], by |-> "watchdog"]}]
    /\ UNCHANGED <<link, gov, peerState, trust, retries, approving, history>>

(* drop_peer called by the watchdog, the deny janitor or the DropPeer      *)
(* command: it drops whatever session the peer has by now.                 *)
RunDropTask(n, t) ==
    /\ t \in dropTasks[n]
    /\ dropTasks' = [dropTasks EXCEPT ![n] = @ \ {t}]
    /\ IF sess[n] # 0
       THEN Drop(n, wire, ReasonOf(t), t.gen)
       ELSE UNCHANGED <<link, peerState, intent, lastDrop, signed>>
    /\ UNCHANGED <<gov, rostered, verdict, selfEvicted, retries, approving, approved>>

(* An approval reaches a session that has authenticated its peer, or any   *)
(* session if EarlyApprove.                                                *)
MayApprove(n) == EarlyApprove \/ sess[n] = 0 \/ authenticated[n]

(* roster_approve, the driver's part: approve_roster refuses an evicted    *)
(* peer, and the call then ends.                                           *)
RosterApprove(n) ==
    /\ n \in Operators
    /\ approving[n].pc = "idle"
    /\ ~Evicted(n)
    /\ rostered' = [rostered EXCEPT ![n] = TRUE]
    /\ approving' = [approving EXCEPT ![n] = [pc |-> "approved", gen |-> 0]]
    /\ UNCHANGED <<link, gov, peerState, verdict, selfEvicted, intent, retries,
                   dropTasks, history>>

(* roster_remove: a signed member stays; anyone else leaves the roster and *)
(* the DropPeer command is queued.                                         *)
RosterRemove(n) ==
    /\ n \in Operators
    /\ rostered[n]
    /\ verdict[n] # "member"
    /\ rostered' = [rostered EXCEPT ![n] = FALSE]
    /\ dropTasks' = [dropTasks EXCEPT ![n] = @ \cup {[gen |-> sess[n], by |-> "user"]}]
    /\ UNCHANGED <<link, gov, peerState, verdict, selfEvicted, intent, retries,
                   approving, history>>

(* roster_approve, the caller's part: send_local_approve runs on the       *)
(* caller's task.  It latches, sends, and un-latches or goes on to settle. *)
ApproveLatch(n) ==
    /\ approving[n].pc = "approved"
    /\ MayApprove(n)
    /\ IF sess[n] = 0 \/ localApproveSent[n]
       THEN /\ approving' = [approving EXCEPT ![n] = [pc |-> "idle", gen |-> 0]]
            /\ UNCHANGED localApproveSent
       ELSE /\ approving' = [approving EXCEPT ![n] = [pc |-> "sending", gen |-> sess[n]]]
            /\ localApproveSent' = [localApproveSent EXCEPT ![n] = TRUE]
    /\ UNCHANGED <<link, gov, sess, status, authenticated, nonceSent,
                   remoteApproveSeen, refused, trust, retries, dropTasks, history>>

(* send_to_peer looks the session up after the latch: the frame leaves on  *)
(* the session that was latched or on the one that has replaced it.        *)
ApproveSent(n) ==
    /\ approving[n].pc = "sending"
    /\ \E g \in {approving[n].gen, sess[n]} \ {0} :
          /\ wire' = IF sess[n] = g THEN Put(wire, n, Approve) ELSE wire
          /\ approved' = [approved EXCEPT ![n] = @ \cup {g}]
    /\ approving' = [approving EXCEPT ![n] = [pc |-> "settling", gen |-> 0]]
    /\ UNCHANGED <<gen, faults, gov, peerState, trust, retries, dropTasks,
                   lastDrop, signed>>

ApproveNotSent(n) ==
    /\ approving[n].pc = "sending"
    /\ \/ sess[n] # approving[n].gen /\ UNCHANGED <<wire, faults>>
       \/ sess[n] = approving[n].gen /\ SendErr(wire, n)
    /\ localApproveSent' = [localApproveSent EXCEPT ![n] = FALSE]
    /\ approving' = [approving EXCEPT ![n] = [pc |-> "idle", gen |-> 0]]
    /\ UNCHANGED <<gen, gov, sess, status, authenticated, nonceSent,
                   remoteApproveSeen, refused, trust, retries, dropTasks, history>>

(* settle_activation on the caller's task.  The status is set under the    *)
(* peer's lock; the verdict is read under the governance lock, which is    *)
(* released before ...                                                     *)
ApproveSettles(n) ==
    /\ approving[n].pc = "settling"
    /\ IF /\ sess[n] # 0
          /\ BecomesActive(authenticated[n], status[n], localApproveSent[n],
                           remoteApproveSeen[n])
       THEN /\ status' = [status EXCEPT ![n] = "Active"]
            /\ approving' = [approving EXCEPT ![n].pc =
                                IF Rosterable(n) THEN "rostering" ELSE "clearing"]
       ELSE /\ approving' = [approving EXCEPT ![n].pc = "idle"]
            /\ UNCHANGED status
    /\ UNCHANGED <<link, gov, sess, authenticated, nonceSent, localApproveSent,
                   remoteApproveSeen, refused, trust, retries, dropTasks, history>>

(* ... the roster is written, and the reconnect intent cleared.            *)
ApproveFinishes(n) ==
    /\ approving[n].pc \in {"rostering", "clearing"}
    /\ rostered' = [rostered EXCEPT ![n] = @ \/ approving[n].pc = "rostering"]
    /\ intent' = [intent EXCEPT ![n] = FALSE]
    /\ approving' = [approving EXCEPT ![n].pc = "idle"]
    /\ UNCHANGED <<link, gov, peerState, verdict, selfEvicted, retries, dropTasks,
                   history>>
-----------------------------------------------------------------------------
(* The tail of adopt_transition_log, by what the adopted log says.         *)

(* The peer is newly tombstoned: out of the roster, its session denied.    *)
AdoptEvict(n) ==
    /\ gov < MaxGov
    /\ ~Evicted(n)
    /\ gov' = gov + 1
    /\ verdict' = [verdict EXCEPT ![n] = "evicted"]
    /\ rostered' = [rostered EXCEPT ![n] = FALSE]
    /\ IF sess[n] # 0
       THEN DenyEvicted(n, wire)
       ELSE UNCHANGED <<wire, faults, dropTasks>>
    /\ UNCHANGED <<gen, peerState, selfEvicted, intent, retries, approving, history>>

(* The peer holds a role: into the roster, and approved if it has a session*)
AdoptAdmit(n) ==
    /\ gov < MaxGov
    /\ MayApprove(n)
    /\ gov' = gov + 1
    /\ verdict' = [verdict EXCEPT ![n] = "member"]
    /\ LET ros == [rostered EXCEPT ![n] = TRUE]
       IN  IF sess[n] # 0
           THEN SendLocalApprove(n, wire, authenticated[n], status[n], ros)
           ELSE /\ rostered' = ros
                /\ UNCHANGED <<wire, faults, status, localApproveSent, intent, approved>>
    /\ UNCHANGED <<gen, sess, authenticated, nonceSent, remoteApproveSeen, refused,
                   selfEvicted, tasks, lastDrop, signed>>

(* The log evicts or re-admits this very member (refresh_self_evicted): an *)
(* eviction clears its standing dials.                                     *)
AdoptSelf(n) ==
    /\ gov < MaxGov
    /\ gov' = gov + 1
    /\ selfEvicted' = [selfEvicted EXCEPT ![n] = ~@]
    /\ intent' = [intent EXCEPT ![n] = @ /\ selfEvicted[n]]
    /\ UNCHANGED <<link, peerState, rostered, verdict, tasks, history>>
-----------------------------------------------------------------------------
(* Every frame handler of the driver.                                      *)
Deliver(n) ==
    \/ OnHello(n)
    \/ OnAuthBad(n)
    \/ OnAuthEvicted(n)
    \/ OnAuthOk(n)
    \/ OnApprove(n)
    \/ OnDeny(n)
    \/ OnApp(n)

Next ==
    \/ Connect
    \/ \E n \in Node :
          \/ DataChannelOpen(n)
          \/ RemoteClosed(n)
          \/ PathLost(n)
          \/ HeartbeatTimeout(n)
          \/ Deliver(n)
          \/ SendApp(n)
          \/ \E g \in Gen : HelloRetry(n, g)
          \/ WatchdogDecides(n)
          \/ \E t \in dropTasks[n] : RunDropTask(n, t)
          \/ RosterApprove(n)
          \/ RosterRemove(n)
          \/ ApproveLatch(n)
          \/ ApproveSent(n)
          \/ ApproveNotSent(n)
          \/ ApproveSettles(n)
          \/ ApproveFinishes(n)
          \/ AdoptEvict(n)
          \/ AdoptAdmit(n)
          \/ AdoptSelf(n)

Spec == Init /\ [][Next]_vars

(* The driver drains its queue and its ticks, and spawned tasks run.  No   *)
(* fairness is assumed of dials, losses, users or governance.              *)
Fairness ==
    \A n \in Node :
        /\ WF_vars(DataChannelOpen(n))
        /\ WF_vars(RemoteClosed(n))
        /\ WF_vars(HeartbeatTimeout(n))
        /\ WF_vars(Deliver(n))
        /\ WF_vars(\E g \in Gen : HelloRetry(n, g))
        /\ WF_vars(WatchdogDecides(n))
        /\ WF_vars(\E t \in dropTasks[n] : RunDropTask(n, t))
        /\ WF_vars(ApproveLatch(n))
        /\ WF_vars(ApproveSent(n) \/ ApproveNotSent(n))
        /\ WF_vars(ApproveSettles(n) \/ ApproveFinishes(n))

FairSpec == Spec /\ Fairness
-----------------------------------------------------------------------------
(* Safety, for every schedule.                                             *)

(* A member treats the link as ACTIVE only if the other end's Approve left *)
(* on this very transport session: approving is never taken for having     *)
(* been approved, and an approval never outlives its session               *)
(* (on_approve, settle_activation).                                        *)
ActiveIsBilateral ==
    \A n \in Node : Admitted(n) => sess[n] \in approved[Other(n)]

(* A peer counts as authenticated only if it signed the nonce that was     *)
(* drawn for this very session, not that of an earlier one                 *)
(* (on_auth_response).                                                     *)
AuthenticationIsFresh ==
    \A n \in Node : authenticated[n] => sess[n] \in signed[Other(n)]

(* The inductive invariant behind the two: whatever is in flight to n, or  *)
(* latched at n, is backed by a step the other end took on this session.   *)
InFlight(q) == {q[i] : i \in 1..Len(q)}

ResetWithoutSession ==
    \A n \in Node :
        sess[n] = 0 => /\ status[n] = "Sighted"
                       /\ ~authenticated[n]
                       /\ ~remoteApproveSeen[n]
                       /\ nonceSent[n] = 0

NonceOfSession == \A n \in Node : nonceSent[n] \in {0, sess[n]}

FramesBacked ==
    \A n \in Node : \A f \in InFlight(wire[n]) :
        /\ f.type = "approve" => sess[n] \in approved[Other(n)]
        /\ f.type = "auth" => f.nonce \in signed[Other(n)]

LatchesBacked ==
    \A n \in Node :
        /\ remoteApproveSeen[n] => sess[n] \in approved[Other(n)]
        /\ authenticated[n] => sess[n] \in signed[Other(n)]
        /\ status[n] = "Active" => remoteApproveSeen[n]

BackedInv ==
    /\ ResetWithoutSession
    /\ NonceOfSession
    /\ FramesBacked
    /\ LatchesBacked

(* No path puts a peer that the signed log evicts back into the roster:    *)
(* not mutual ACTIVE, not a late manual approval (approve_roster).         *)
EvictedNotRostered ==
    \A n \in Node : Evicted(n) => ~rostered[n]

(* No eviction is adopted between the check and the write of approve_roster*)
(* on the caller's task.                                                   *)
NoRosterRace ==
    \A n \in Node : approving[n].pc = "rostering" => ~Evicted(n)

(* The two ends agree on the link: no frame sent on an ACTIVE link meets   *)
(* the admission gate of an end that is still waiting (handle_inbound_frame*)
(* drops such frames silently).                                            *)
TwoEndsAgree ==
    \A n \in Node : ~refused[n]

(* The three conjuncts of settle_activation together mean ACTIVE: an early *)
(* latch only defers the transition.                                       *)
EarlyLatchCompletes ==
    \A n \in Node :
        authenticated[n] /\ localApproveSent[n] /\ remoteApproveSeen[n]
            => Admitted(n)

(* An ACTIVE member has itself approved the peer on this session, on the   *)
(* wire and not only in its own flag (send_local_approve).                 *)
ActiveHasApproved ==
    \A n \in Node : Admitted(n) => sess[n] \in approved[n]

(* Two members that follow the protocol never fail each other's            *)
(* authentication: a replayed hello is harmless (schedule_hello_retries).  *)
ReplayedHelloNeverFailsAuth ==
    \A n \in Node : lastDrop[n].reason # "AuthFailed"

(* An ACTIVE session stays ACTIVE until it is dropped: a duplicate reply   *)
(* to a replayed hello changes nothing (on_auth_response).                 *)
ActiveUntilDropped ==
    [][\A n \in Node : Admitted(n) /\ sess'[n] = sess[n] => Admitted(n)']_vars

(* Liveness.                                                               *)

(* A link between two members that both approve comes up or is torn down;  *)
(* it is never parked half-way, unless a send failed meanwhile (initiate,  *)
(* watchdog, auto-approve).                                                *)
NoWedgedLink ==
    \A n \in Node :
        sess[n] # 0 /\ faults = 0 ~> Admitted(n) \/ sess[n] = 0 \/ faults > 0

(* The session of an evicted peer does not survive the eviction: the       *)
(* janitor guarantees teardown (deny_if_evicted).                          *)
EvictedLinkGoesDown ==
    \A n \in Node : []<>(~Evicted(n) \/ sess[n] = 0)

(* What the two ends of a link know of each other fits, on every session:  *)
(* neither takes the link as up before the other, whatever order approve,  *)
(* answer and retries of the hello come in (settle_activation).            *)
LinkAgreed ==
    TwoEndsAgree /\ EarlyLatchCompletes /\ ActiveHasApproved /\ ReplayedHelloNeverFailsAuth

(* Every link comes to its end: up between members that approve, down      *)
(* after an eviction.                                                      *)
LinkResolves == NoWedgedLink /\ EvictedLinkGoesDown
=============================================================================
