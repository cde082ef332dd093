-------------------------- MODULE HandshakeProofs --------------------------
(***************************************************************************)
(* Proofs about Handshake, for every number of generations, retries,       *)
(* faults and governance changes.                                          *)
(***************************************************************************)
EXTENDS Handshake, TLAPS

(* What a leaf is tried with, in this order, and for how many seconds.     *)
USE ZenonT(3), SMTT(25), ZenonT(40)

(* What appending a frame does to a queue.                                 *)
LEMMA AppendFrame ==
    ASSUME NEW q \in Seq(Frame), NEW f \in Frame
    PROVE  /\ Append(q, f) \in Seq(Frame)
           /\ InFlight(Append(q, f)) = InFlight(q) \cup {f}
  <1> DEFINE r == Append(q, f)
  <1>1. r \in Seq(Frame) /\ Len(r) = Len(q) + 1 /\ r[Len(r)] = f
    OBVIOUS
  <1>2. \A i \in 1..Len(q) : r[i] = q[i]
    OBVIOUS
  <1>3. Len(q) \in Nat
    OBVIOUS
  <1> HIDE DEF r
  <1>4. ASSUME NEW x \in InFlight(r) PROVE x \in InFlight(q) \cup {f}
    <2>1. PICK i \in 1..Len(r) : x = r[i]
      BY DEF InFlight
    <2>2. CASE i = Len(r)
      BY <1>1, <2>1, <2>2
    <2>3. CASE i # Len(r)
      <3>1. i \in 1..Len(q)
        BY <1>1, <1>3, <2>1, <2>3
      <3> QED
        BY <1>2, <2>1, <3>1 DEF InFlight
    <2> QED
      BY <2>2, <2>3
  <1>5. ASSUME NEW x \in InFlight(q) \cup {f} PROVE x \in InFlight(r)
    <2>1. CASE x = f
      <3>1. Len(r) \in 1..Len(r)
        BY <1>1, <1>3
      <3> QED
        BY <1>1, <2>1, <3>1 DEF InFlight
    <2>2. CASE x \in InFlight(q)
      <3>1. PICK i \in 1..Len(q) : x = q[i]
        BY <2>2 DEF InFlight
      <3>2. i \in 1..Len(r)
        BY <1>1, <1>3
      <3> QED
        BY <1>2, <3>1, <3>2 DEF InFlight
    <2> QED
      BY <1>5, <2>1, <2>2
  <1> QED
    BY <1>1, <1>4, <1>5 DEF r

(* What taking the first frame does to a queue.                            *)
LEMMA TakeFrame ==
    ASSUME NEW q \in Seq(Frame), q # <<>>
    PROVE  /\ Tail(q) \in Seq(Frame)
           /\ InFlight(Tail(q)) \subseteq InFlight(q)
           /\ Head(q) \in InFlight(q)
           /\ Head(q) \in Frame
  <1>1. /\ Tail(q) \in Seq(Frame)
        /\ Len(Tail(q)) = Len(q) - 1
        /\ Len(q) \in Nat \ {0}
        /\ Head(q) = q[1]
        /\ Head(q) \in Frame
    OBVIOUS
  <1>2. \A i \in 1..Len(Tail(q)) : Tail(q)[i] = q[i + 1]
    OBVIOUS
  <1>3. \A i \in 1..Len(Tail(q)) : i + 1 \in 1..Len(q)
    BY <1>1
  <1>4. InFlight(Tail(q)) \subseteq InFlight(q)
    BY <1>2, <1>3 DEF InFlight
  <1>5. Head(q) \in InFlight(q)
    BY <1>1 DEF InFlight
  <1> QED
    BY <1>1, <1>4, <1>5

(* An empty queue holds no frame.                                          *)
LEMMA EmptyQueue == <<>> \in Seq(Frame) /\ InFlight(<<>>) = {}
  BY DEF InFlight
-----------------------------------------------------------------------------
(* Type correctness.                                                       *)

(* There are two ends, and each is the other's other end.                  *)
LEMMA OtherMember == \A n \in Node : Other(n) \in Node /\ Other(n) # n /\ Other(Other(n)) = n
  BY TwoMembers DEF Node, Other

(* The frames that members send are frames.                                *)
LEMMA FrameTypes ==
    /\ \A g \in Gen0 : Hello(g) \in Frame /\ AuthResponse(g) \in Frame
    /\ Approve \in Frame
    /\ Deny \in Frame
    /\ App \in Frame
  BY BoundsAreNaturals DEF Frame, Gen0, Hello, AuthResponse, Approve, Deny, App

(* Putting a frame on a wire keeps the wires well-typed.                   *)
LEMMA PutType ==
    ASSUME TypeOK, NEW w \in [Node -> Seq(Frame)], NEW n \in Node, NEW f \in Frame
    PROVE  Put(w, n, f) \in [Node -> Seq(Frame)]
  <1>1. w[Other(n)] \in Seq(Frame)
    BY OtherMember
  <1>2. Append(w[Other(n)], f) \in Seq(Frame)
    BY <1>1, AppendFrame
  <1> QED
    BY <1>2, OtherMember DEF Put

(* So does taking one, and the frame taken carries a known nonce.          *)
LEMMA TakenType ==
    ASSUME TypeOK, NEW n \in Node, wire[n] # <<>>
    PROVE  /\ Taken(n) \in [Node -> Seq(Frame)]
           /\ Head(wire[n]).nonce \in Gen0
  <1>1. wire[n] \in Seq(Frame)
    BY DEF TypeOK
  <1>2. Tail(wire[n]) \in Seq(Frame) /\ Head(wire[n]) \in Frame
    BY <1>1, TakeFrame
  <1>3. Head(wire[n]).nonce \in Gen0
    BY <1>2 DEF Frame
  <1>4. wire \in [Node -> Seq(Frame)]
    BY DEF TypeOK
  <1> QED
    BY <1>2, <1>3, <1>4 DEF Taken

(* A send, successful or not, keeps wires and fault count well-typed.      *)
LEMMA SendType ==
    ASSUME TypeOK, NEW w \in [Node -> Seq(Frame)], NEW n \in Node, NEW f \in Frame,
           SendOk(w, n, f) \/ SendErr(w, n)
    PROVE  wire' \in [Node -> Seq(Frame)] /\ faults' \in Nat
  <1>1. faults \in Nat /\ Put(w, n, f) \in [Node -> Seq(Frame)]
    BY ZenonT(30), PutType DEF TypeOK
  <1>2. CASE SendOk(w, n, f)
    BY <1>1, <1>2 DEF SendOk
  <1>3. CASE SendErr(w, n)
    BY <1>1, <1>3 DEF SendErr
  <1> QED
    BY <1>2, <1>3

(* settle_activation keeps status, roster and intent well-typed.           *)
LEMMA SettleType ==
    ASSUME TypeOK, NEW n \in Node, NEW auth \in BOOLEAN, NEW stat \in Status,
           NEW l \in BOOLEAN, NEW r \in BOOLEAN, NEW ros \in [Node -> BOOLEAN],
           Settle(n, auth, stat, l, r, ros)
    PROVE  /\ status' \in [Node -> Status]
           /\ rostered' \in [Node -> BOOLEAN]
           /\ intent' \in [Node -> BOOLEAN]
  BY DEF Settle, BecomesActive, Rosterable, Evicted, TypeOK, Status

(* So does send_local_approve, with the latch and the history.             *)
LEMMA SendLocalApproveType ==
    ASSUME TypeOK, NEW n \in Node, sess[n] # 0, NEW w \in [Node -> Seq(Frame)],
           NEW auth \in BOOLEAN, NEW stat \in Status, NEW ros \in [Node -> BOOLEAN],
           SendLocalApprove(n, w, auth, stat, ros)
    PROVE  /\ wire' \in [Node -> Seq(Frame)] /\ faults' \in Nat
           /\ status' \in [Node -> Status]
           /\ rostered' \in [Node -> BOOLEAN]
           /\ intent' \in [Node -> BOOLEAN]
           /\ localApproveSent' \in [Node -> BOOLEAN]
           /\ approved' \in [Node -> SUBSET Gen]
  <1>0. sess[n] \in Gen
    BY BoundsAreNaturals DEF TypeOK, Gen, Gen0
  <1>1. CASE localApproveSent[n] /\ wire' = w /\ UNCHANGED faults
             /\ status' = [status EXCEPT ![n] = stat] /\ rostered' = ros
             /\ UNCHANGED <<localApproveSent, intent, approved>>
    BY <1>1 DEF TypeOK
  <1>2. CASE /\ SendOk(w, n, Approve)
             /\ localApproveSent' = [localApproveSent EXCEPT ![n] = TRUE]
             /\ approved' = [approved EXCEPT ![n] = @ \cup {sess[n]}]
             /\ Settle(n, auth, stat, TRUE, remoteApproveSeen[n], ros)
    <2>1. wire' \in [Node -> Seq(Frame)] /\ faults' \in Nat
      BY <1>2, SendType, FrameTypes
    <2>2. remoteApproveSeen[n] \in BOOLEAN
      BY DEF TypeOK
    <2>3. status' \in [Node -> Status] /\ rostered' \in [Node -> BOOLEAN] /\ intent' \in [Node -> BOOLEAN]
      BY ZenonT(30), <1>2, <2>2, SettleType
    <2> QED
      BY ZenonT(30), <1>0, <1>2, <2>1, <2>3 DEF TypeOK
  <1>3. CASE /\ SendErr(w, n)
             /\ status' = [status EXCEPT ![n] = stat] /\ rostered' = ros
             /\ UNCHANGED <<localApproveSent, intent, approved>>
    <2>1. wire' \in [Node -> Seq(Frame)] /\ faults' \in Nat
      BY <1>3, SendType, FrameTypes
    <2> QED
      BY ZenonT(30), <1>3, <2>1 DEF TypeOK
  <1> QED
    BY ZenonT(30), <1>1, <1>2, <1>3 DEF SendLocalApprove

(* drop_peer_inner keeps everything it resets well-typed.                  *)
LEMMA DropType ==
    ASSUME TypeOK, NEW n \in Node, NEW w \in [Node -> Seq(Frame)], NEW reason \in Reason,
           NEW decided \in Gen0, Drop(n, w, reason, decided)
    PROVE  /\ wire' \in [Node -> Seq(Frame)]
           /\ sess' \in [Node -> Gen0]
           /\ status' \in [Node -> Status]
           /\ authenticated' \in [Node -> BOOLEAN]
           /\ nonceSent' \in [Node -> Gen0]
           /\ localApproveSent' \in [Node -> BOOLEAN]
           /\ remoteApproveSeen' \in [Node -> BOOLEAN]
           /\ refused' \in [Node -> BOOLEAN]
           /\ intent' \in [Node -> BOOLEAN]
           /\ lastDrop' \in [Node -> Dropped]
           /\ gen' \in Gen0 /\ faults' \in Nat /\ signed' \in [Node -> SUBSET Gen0]
  <1>1. 0 \in Gen0
    BY BoundsAreNaturals DEF Gen0
  <1>2. [gen |-> sess[n], decided |-> decided, reason |-> reason] \in Dropped
    BY DEF TypeOK, Dropped
  <1>3. wire' \in [Node -> Seq(Frame)]
    BY EmptyQueue DEF Drop
  <1>4. intent' \in [Node -> BOOLEAN]
    BY ZenonT(30) DEF Drop, TypeOK
  <1>5. status' \in [Node -> Status]
    BY DEF Drop, TypeOK, Status
  <1> QED
    BY ZenonT(30), <1>1, <1>2, <1>3, <1>4, <1>5 DEF Drop, TypeOK

(* Every action keeps every variable in its type.                          *)
LEMMA TypeStep == TypeOK /\ [Next]_vars => TypeOK'
  <1> SUFFICES ASSUME TypeOK, [Next]_vars PROVE TypeOK'
    OBVIOUS
  <1>0. /\ 0 \in Gen0 /\ Gen \subseteq Gen0
        /\ \A n \in Node : sess[n] # 0 => sess[n] \in Gen
        /\ \A n \in Node : Other(n) \in Node
        /\ wire \in [Node -> Seq(Frame)]
    BY BoundsAreNaturals, OtherMember DEF TypeOK, Gen, Gen0
  <1>1. CASE Connect
    <2>1. gen + 1 \in Gen0 /\ gen' \in Gen0
      BY <1>1, BoundsAreNaturals DEF Connect, TypeOK, Gen0
    <2>2. sess' \in [Node -> Gen0] /\ wire' \in [Node -> Seq(Frame)]
      BY <1>1, <2>1, EmptyQueue DEF Connect
    <2> QED
      BY <1>1, <2>1, <2>2 DEF Connect, TypeOK, trust, tasks, history
  <1>2. ASSUME NEW n \in Node, DataChannelOpen(n) PROVE TypeOK'
    <2>1. sess[n] \in Gen /\ Hello(sess[n]) \in Frame
      BY <1>0, <1>2, FrameTypes DEF DataChannelOpen
    <2>2. Put(wire, n, Hello(sess[n])) \in [Node -> Seq(Frame)]
      BY <1>0, <2>1, PutType
    <2>3. wire' \in [Node -> Seq(Frame)] /\ faults' \in Nat
      BY <1>0, <1>2, <2>2 DEF DataChannelOpen, SendOk, TypeOK
    <2>4. retries' \in [Node -> [Gen -> 0..Retries]]
      BY <1>2, <2>1, BoundsAreNaturals DEF DataChannelOpen, TypeOK
    <2>5. status' \in [Node -> Status]
      BY <1>2 DEF DataChannelOpen, TypeOK, Status
    <2> QED
      BY <1>0, <1>2, <2>1, <2>3, <2>4, <2>5 DEF DataChannelOpen, TypeOK, history
  <1>3. ASSUME NEW n \in Node, ChannelClosed(n) PROVE TypeOK'
    <2>1. PICK reason \in Reason : Drop(n, wire, reason, sess[n])
      BY <1>3 DEF ChannelClosed, Reason
    <2> QED
      BY ZenonT(30), <1>0, <1>3, <2>1, DropType DEF ChannelClosed, TypeOK, tasks
  <1>4. ASSUME NEW n \in Node, HeartbeatTimeout(n) PROVE TypeOK'
    <2>1. "HeartbeatTimeout" \in Reason /\ sess[n] \in Gen0
      BY DEF Reason, TypeOK
    <2> QED
      BY ZenonT(30), <1>0, <1>4, <2>1, DropType DEF HeartbeatTimeout, TypeOK, tasks
  <1>5. ASSUME NEW n \in Node, OnHello(n) PROVE TypeOK'
    <2> DEFINE nonce == Head(wire[n]).nonce
    <2>1. Taken(n) \in [Node -> Seq(Frame)] /\ nonce \in Gen0
      BY ZenonT(60), <1>5, TakenType DEF OnHello, Receives
    <2>3. wire' \in [Node -> Seq(Frame)] /\ faults' \in Nat
      BY <1>5, <2>1, SendType, FrameTypes DEF OnHello
    <2>4. signed' = signed \/ signed' = [signed EXCEPT ![n] = @ \cup {nonce}]
      BY <1>5 DEF OnHello
    <2>5. signed' \in [Node -> SUBSET Gen0]
      <3> HIDE DEF nonce
      <3>1. signed \in [Node -> SUBSET Gen0]
        BY DEF TypeOK
      <3>2. signed[n] \cup {nonce} \in SUBSET Gen0
        BY <2>1, <3>1
      <3> QED
        BY <2>4, <3>1, <3>2
    <2>6. UNCHANGED <<gen, gov, peerState, trust, tasks, lastDrop, approved>>
      BY <1>5 DEF OnHello
    <2> QED
      BY <2>3, <2>5, <2>6 DEF TypeOK, peerState, trust, tasks
  <1>6. ASSUME NEW n \in Node, OnAuthBad(n) PROVE TypeOK'
    <2>1. "AuthFailed" \in Reason /\ sess[n] \in Gen0
      BY DEF Reason, TypeOK
    <2> QED
      BY ZenonT(30), <1>0, <1>6, <2>1, DropType DEF OnAuthBad, TypeOK, tasks
  <1>7. ASSUME NEW n \in Node, NEW w \in [Node -> Seq(Frame)], DenyEvicted(n, w)
        PROVE  /\ wire' \in [Node -> Seq(Frame)] /\ faults' \in Nat
               /\ dropTasks' \in [Node -> SUBSET DropTask]
    <2>1. wire' \in [Node -> Seq(Frame)] /\ faults' \in Nat
      BY <1>7, SendType, FrameTypes DEF DenyEvicted
    <2>2. [gen |-> sess[n], by |-> "janitor"] \in DropTask
      BY DEF DropTask, TypeOK
    <2> QED
      BY ZenonT(30), <1>7, <2>1, <2>2 DEF DenyEvicted, TypeOK
  <1>8. ASSUME NEW n \in Node, OnAuthEvicted(n) PROVE TypeOK'
    <2>1. Taken(n) \in [Node -> Seq(Frame)]
      BY <1>8, TakenType DEF OnAuthEvicted, Receives
    <2>2. DenyEvicted(n, Taken(n))
      BY <1>8 DEF OnAuthEvicted
    <2>3. /\ wire' \in [Node -> Seq(Frame)] /\ faults' \in Nat
          /\ dropTasks' \in [Node -> SUBSET DropTask]
      BY <1>7, <2>1, <2>2
    <2> QED
      BY <1>8, <2>3 DEF OnAuthEvicted, TypeOK, peerState, trust, history
  <1>9. ASSUME NEW n \in Node, OnAuthOk(n) PROVE TypeOK'
    <2>1. Taken(n) \in [Node -> Seq(Frame)] /\ sess[n] # 0
      BY <1>9, TakenType DEF OnAuthOk, Receives
    <2>2. "PendingApproval" \in Status /\ rostered \in [Node -> BOOLEAN]
      BY DEF Status, TypeOK
    <2>3. /\ wire' \in [Node -> Seq(Frame)] /\ faults' \in Nat
          /\ status' \in [Node -> Status]
          /\ rostered' \in [Node -> BOOLEAN]
          /\ intent' \in [Node -> BOOLEAN]
          /\ localApproveSent' \in [Node -> BOOLEAN]
          /\ approved' \in [Node -> SUBSET Gen]
      <3>1. CASE n \in AutoApprove \/ rostered[n]
        <4>1. SendLocalApprove(n, Taken(n), TRUE, "PendingApproval", rostered)
          BY ZenonT(30), <1>9, <3>1 DEF OnAuthOk
        <4> QED
          BY ZenonT(30), <2>1, <2>2, <4>1, SendLocalApproveType
      <3>2. CASE ~(n \in AutoApprove \/ rostered[n])
        <4>1. /\ status' = [status EXCEPT ![n] = "PendingApproval"]
              /\ wire' = Taken(n)
              /\ UNCHANGED <<faults, localApproveSent, rostered, intent, approved>>
          BY <1>9, <3>2 DEF OnAuthOk
        <4> QED
          BY <2>1, <2>2, <4>1 DEF TypeOK
      <3> QED
        BY <3>1, <3>2
    <2> QED
      BY ZenonT(30), <1>9, <2>3 DEF OnAuthOk, TypeOK, tasks
  <1>10. ASSUME NEW n \in Node, OnApprove(n) PROVE TypeOK'
    <2>1. Taken(n) \in [Node -> Seq(Frame)]
      BY ZenonT(30), <1>10, TakenType DEF OnApprove, Receives
    <2>2. Settle(n, authenticated[n], status[n], localApproveSent[n], TRUE, rostered)
      BY ZenonT(30), <1>10 DEF OnApprove
    <2>3. /\ authenticated[n] \in BOOLEAN /\ status[n] \in Status
          /\ localApproveSent[n] \in BOOLEAN /\ rostered \in [Node -> BOOLEAN]
      BY DEF TypeOK
    <2>4. status' \in [Node -> Status] /\ rostered' \in [Node -> BOOLEAN] /\ intent' \in [Node -> BOOLEAN]
      BY ZenonT(30), <2>2, <2>3, SettleType
    <2> QED
      BY ZenonT(30), <1>10, <2>1, <2>4 DEF OnApprove, TypeOK, tasks, history
  <1>11. ASSUME NEW n \in Node, OnDeny(n) PROVE TypeOK'
    <2>1. PICK out \in BOOLEAN, seated \in BOOLEAN, left \in BOOLEAN :
            /\ selfEvicted' = [selfEvicted EXCEPT ![n] = out]
            /\ verdict' = [verdict EXCEPT ![n] = IF seated THEN "member" ELSE @]
            /\ rostered' = [rostered EXCEPT ![n] = @ \/ seated]
            /\ approved' = [approved EXCEPT ![n] = IF left THEN @ \cup {sess[n]} ELSE @]
            /\ Drop(n, IF left THEN Put(wire, n, Approve) ELSE wire, "Denied", sess[n])
      BY ZenonT(30), <1>11 DEF OnDeny
    <2>2. (IF left THEN Put(wire, n, Approve) ELSE wire) \in [Node -> Seq(Frame)]
      BY <1>0, PutType, FrameTypes
    <2>3. "Denied" \in Reason /\ sess[n] \in Gen0
      BY DEF Reason, TypeOK
    <2>4. rostered' \in [Node -> BOOLEAN] /\ selfEvicted' \in [Node -> BOOLEAN]
          /\ verdict' \in [Node -> {"none", "member", "evicted"}]
      BY <2>1 DEF TypeOK
    <2>5. approved' \in [Node -> SUBSET Gen]
      BY <1>0, <1>11, <2>1 DEF TypeOK, OnDeny, Receives
    <2> QED
      BY ZenonT(30), <1>11, <2>1, <2>2, <2>3, <2>4, <2>5, DropType DEF OnDeny, TypeOK, tasks
  <1>12. ASSUME NEW n \in Node, OnApp(n) PROVE TypeOK'
    <2>1. Taken(n) \in [Node -> Seq(Frame)]
      BY ZenonT(30), <1>12, TakenType DEF OnApp, Receives
    <2>2. refused' \in [Node -> BOOLEAN]
      BY <1>12 DEF OnApp, TypeOK
    <2> QED
      BY <1>12, <2>1, <2>2 DEF OnApp, TypeOK, trust, tasks, history
  <1>13. ASSUME NEW n \in Node, SendApp(n) PROVE TypeOK'
    <2>1. Put(wire, n, App) \in [Node -> Seq(Frame)]
      BY <1>0, PutType, FrameTypes
    <2> QED
      BY <1>13, <2>1 DEF SendApp, TypeOK, peerState, trust, tasks, history
  <1>14. ASSUME NEW n \in Node, NEW g \in Gen, HelloRetry(n, g) PROVE TypeOK'
    <2>1. retries[n][g] \in 0..Retries /\ retries[n] \in [Gen -> 0..Retries]
      BY DEF TypeOK
    <2>2. retries' \in [Node -> [Gen -> 0..Retries]]
      <3>1. retries[n][g] > 0
            /\ \/ retries' = [retries EXCEPT ![n][g] = @ - 1]
               \/ retries' = [retries EXCEPT ![n][g] = 0]
        BY <1>14 DEF HelloRetry
      <3>2. retries[n][g] - 1 \in 0..Retries /\ 0 \in 0..Retries
        BY <2>1, <3>1, BoundsAreNaturals
      <3>3. PICK k \in 0..Retries : retries' = [retries EXCEPT ![n][g] = k]
        BY <3>1, <3>2
      <3>4. [retries[n] EXCEPT ![g] = k] \in [Gen -> 0..Retries]
        BY <2>1
      <3>5. retries \in [Node -> [Gen -> 0..Retries]]
        BY DEF TypeOK
      <3> QED
        BY <3>3, <3>4, <3>5
    <2>3. wire' \in [Node -> Seq(Frame)] /\ faults' \in Nat
      <3>1. CASE UNCHANGED <<wire, faults>>
        BY <3>1 DEF TypeOK
      <3>2. CASE SendOk(wire, n, Hello(g)) \/ SendErr(wire, n)
        BY <1>0, <3>2, SendType, FrameTypes
      <3> QED
        BY <1>14, <3>1, <3>2 DEF HelloRetry
    <2> QED
      BY <1>14, <2>2, <2>3 DEF HelloRetry, TypeOK, peerState, trust, history
  <1>15. ASSUME NEW n \in Node, WatchdogDecides(n) PROVE TypeOK'
    <2>1. [gen |-> sess[n], by |-> "watchdog"] \in DropTask
      BY DEF DropTask, TypeOK
    <2> QED
      BY <1>15, <2>1 DEF WatchdogDecides, TypeOK, link, peerState, trust, history
  <1>16. ASSUME NEW n \in Node, NEW t \in dropTasks[n], RunDropTask(n, t) PROVE TypeOK'
    <2>1. t \in DropTask
      BY DEF TypeOK
    <2>2. ReasonOf(t) \in Reason /\ t.gen \in Gen0
      BY <2>1 DEF ReasonOf, Reason, DropTask
    <2>3. dropTasks' \in [Node -> SUBSET DropTask]
      BY <1>16 DEF RunDropTask, TypeOK
    <2>4. CASE sess[n] # 0
      BY ZenonT(30), <1>0, <1>16, <2>2, <2>3, <2>4, DropType DEF RunDropTask, TypeOK
    <2>5. CASE sess[n] = 0
      BY <1>16, <2>3, <2>5 DEF RunDropTask, TypeOK, link, peerState
    <2> QED
      BY <2>4, <2>5
  <1>17. ASSUME NEW n \in Node, RosterApprove(n) PROVE TypeOK'
    <2>1. rostered' \in [Node -> BOOLEAN]
      BY <1>17 DEF RosterApprove, TypeOK
    <2> QED
      BY <1>0, <1>17, <2>1 DEF RosterApprove, ApprovePc, TypeOK, link, peerState, history
  <1>18. ASSUME NEW n \in Node, RosterRemove(n) PROVE TypeOK'
    <2>1. [gen |-> sess[n], by |-> "user"] \in DropTask
      BY DEF DropTask, TypeOK
    <2>2. rostered' \in [Node -> BOOLEAN]
      BY <1>18 DEF RosterRemove, TypeOK
    <2> QED
      BY <1>18, <2>1, <2>2 DEF RosterRemove, TypeOK, link, peerState, history
  <1>19. ASSUME NEW n \in Node, ApproveLatch(n) PROVE TypeOK'
    <2>1. localApproveSent' \in [Node -> BOOLEAN]
      BY ZenonT(30), <1>19 DEF ApproveLatch, TypeOK
    <2>2. approving' \in [Node -> [pc : ApprovePc, gen : Gen0]]
      <3>1. \/ approving' = [approving EXCEPT ![n] = [pc |-> "idle", gen |-> 0]]
            \/ approving' = [approving EXCEPT ![n] = [pc |-> "sending", gen |-> sess[n]]]
        BY ZenonT(30), <1>19 DEF ApproveLatch
      <3> DEFINE Step == [pc : ApprovePc, gen : Gen0]
      <3>2. sess[n] \in Gen0 /\ approving \in [Node -> Step]
        BY DEF TypeOK
      <3>3. [pc |-> "idle", gen |-> 0] \in Step /\ [pc |-> "sending", gen |-> sess[n]] \in Step
        BY <1>0, <3>2 DEF ApprovePc
      <3> HIDE DEF Step
      <3>4. approving' \in [Node -> Step]
        BY <3>1, <3>2, <3>3
      <3> QED
        BY <3>4 DEF Step
    <2> QED
      BY <1>19, <2>1, <2>2 DEF ApproveLatch, TypeOK, link, trust, history
  <1>20. ASSUME NEW n \in Node, ApproveSent(n) PROVE TypeOK'
    <2>1. approving[n].gen \in Gen0 /\ sess[n] \in Gen0
      BY DEF TypeOK
    <2>2. PICK g \in {approving[n].gen, sess[n]} \ {0} :
            /\ wire' = IF sess[n] = g THEN Put(wire, n, Approve) ELSE wire
            /\ approved' = [approved EXCEPT ![n] = @ \cup {g}]
      BY ZenonT(30), <1>20 DEF ApproveSent
    <2>3. g \in Gen
      BY <2>1, <2>2, BoundsAreNaturals DEF Gen, Gen0
    <2>4. wire' \in [Node -> Seq(Frame)] /\ approved' \in [Node -> SUBSET Gen]
      BY ZenonT(30), <1>0, <2>2, <2>3, PutType, FrameTypes DEF TypeOK
    <2>5. approving' \in [Node -> [pc : ApprovePc, gen : Gen0]]
      BY <1>0, <1>20 DEF ApproveSent, ApprovePc, TypeOK
    <2> QED
      BY <1>20, <2>4, <2>5 DEF ApproveSent, TypeOK, peerState, trust
  <1>21. ASSUME NEW n \in Node, ApproveNotSent(n) PROVE TypeOK'
    <2>1. wire' \in [Node -> Seq(Frame)] /\ faults' \in Nat
      BY <1>0, <1>21 DEF ApproveNotSent, SendErr, TypeOK
    <2>2. approving' \in [Node -> [pc : ApprovePc, gen : Gen0]]
      BY <1>0, <1>21 DEF ApproveNotSent, ApprovePc, TypeOK
    <2>3. localApproveSent' \in [Node -> BOOLEAN]
      BY ZenonT(30), <1>21 DEF ApproveNotSent, TypeOK
    <2> QED
      BY ZenonT(30), <1>21, <2>1, <2>2, <2>3 DEF ApproveNotSent, TypeOK, trust, history
  <1>22. ASSUME NEW n \in Node, AdoptEvict(n) PROVE TypeOK'
    <2>1. /\ wire' \in [Node -> Seq(Frame)] /\ faults' \in Nat
          /\ dropTasks' \in [Node -> SUBSET DropTask]
      <3>1. CASE sess[n] # 0
        BY <1>0, <1>7, <1>22, <3>1 DEF AdoptEvict
      <3>2. CASE sess[n] = 0
        BY <1>22, <3>2 DEF AdoptEvict, TypeOK
      <3> QED
        BY <3>1, <3>2
    <2>2. rostered' \in [Node -> BOOLEAN]
      BY <1>22 DEF AdoptEvict, TypeOK
    <2> QED
      BY <1>22, <2>1, <2>2 DEF AdoptEvict, TypeOK, peerState, history
  <1>23. ASSUME NEW n \in Node, AdoptAdmit(n) PROVE TypeOK'
    <2> DEFINE ros == [rostered EXCEPT ![n] = TRUE]
    <2>1. /\ ros \in [Node -> BOOLEAN] /\ authenticated[n] \in BOOLEAN
          /\ status[n] \in Status
      BY DEF TypeOK
    <2>2. /\ wire' \in [Node -> Seq(Frame)] /\ faults' \in Nat
          /\ status' \in [Node -> Status]
          /\ rostered' \in [Node -> BOOLEAN]
          /\ intent' \in [Node -> BOOLEAN]
          /\ localApproveSent' \in [Node -> BOOLEAN]
          /\ approved' \in [Node -> SUBSET Gen]
      <3>1. CASE sess[n] # 0
        <4>1. SendLocalApprove(n, wire, authenticated[n], status[n], ros)
          BY ZenonT(30), <1>23, <3>1 DEF AdoptAdmit
        <4> HIDE DEF ros
        <4> QED
          BY ZenonT(30), <1>0, <2>1, <3>1, <4>1, SendLocalApproveType
      <3>2. CASE sess[n] = 0
        BY ZenonT(30), <1>23, <2>1, <3>2 DEF AdoptAdmit, TypeOK
      <3> QED
        BY <3>1, <3>2
    <2>3. gov' \in Nat /\ verdict' \in [Node -> {"none", "member", "evicted"}]
      BY <1>23 DEF AdoptAdmit, TypeOK
    <2>4. UNCHANGED <<gen, sess, authenticated, nonceSent, remoteApproveSeen, refused,
                      selfEvicted, tasks, lastDrop, signed>>
      BY ZenonT(30), <1>23 DEF AdoptAdmit
    <2> QED
      BY <2>2, <2>3, <2>4 DEF TypeOK, tasks
  <1>24. ASSUME NEW n \in Node, AdoptSelf(n) PROVE TypeOK'
    <2>1. selfEvicted' \in [Node -> BOOLEAN] /\ intent' \in [Node -> BOOLEAN]
      BY <1>24 DEF AdoptSelf, TypeOK
    <2> QED
      BY <1>24, <2>1 DEF AdoptSelf, TypeOK, link, peerState, tasks, history
  <1>25. CASE UNCHANGED vars
    BY <1>25 DEF vars, TypeOK
  <1>26. ASSUME NEW n \in Node, ApproveSettles(n) PROVE TypeOK'
    <2>1. status' \in [Node -> Status]
      BY ZenonT(30), <1>26 DEF ApproveSettles, TypeOK, Status
    <2>2. PICK pc \in ApprovePc : approving' = [approving EXCEPT ![n].pc = pc]
      BY <1>26 DEF ApproveSettles, ApprovePc
    <2>3. approving' \in [Node -> [pc : ApprovePc, gen : Gen0]]
      BY ZenonT(30), <2>2 DEF TypeOK
    <2> QED
      BY <1>26, <2>1, <2>3 DEF ApproveSettles, TypeOK, link, trust, history
  <1>27. ASSUME NEW n \in Node, ApproveFinishes(n) PROVE TypeOK'
    <2>1. approving' \in [Node -> [pc : ApprovePc, gen : Gen0]]
      <3>1. "idle" \in ApprovePc /\ approving' = [approving EXCEPT ![n].pc = "idle"]
        BY <1>27 DEF ApproveFinishes, ApprovePc
      <3> QED
        BY ZenonT(30), <3>1 DEF TypeOK
    <2>2. rostered' \in [Node -> BOOLEAN] /\ intent' \in [Node -> BOOLEAN]
      BY <1>27 DEF ApproveFinishes, TypeOK
    <2> QED
      BY <1>27, <2>1, <2>2 DEF ApproveFinishes, TypeOK, link, peerState, history
  <1> QED
    BY <1>1, <1>2, <1>3, <1>4, <1>5, <1>6, <1>8, <1>9, <1>10, <1>11, <1>12, <1>13,
       <1>14, <1>15, <1>16, <1>17, <1>18, <1>19, <1>20, <1>21, <1>22, <1>23, <1>24,
       <1>25, <1>26, <1>27 DEF Next, Deliver, RemoteClosed, PathLost

(* The state after Init is well-typed.                                     *)
LEMMA TypeInit == Init => TypeOK
  BY BoundsAreNaturals, EmptyQueue DEF Init, InitAfter, TypeOK, Gen, Gen0, Status, Reason, Dropped,
                                          ApprovePc

(* Every variable of the handshake keeps its type, whatever the number of  *)
(* sessions, retries, faults and governance changes.                       *)
THEOREM TypeCorrect == Spec => []TypeOK
  BY TypeInit, TypeStep, PTL DEF Spec
-----------------------------------------------------------------------------
(* The bilateral invariant.                                                *)

(* x is backed for n by what the other end has done, in the next state.    *)
BackedNext(k, x) ==
    /\ x.type = "approve" => sess'[k] \in approved'[Other(k)]
    /\ x.type = "auth" => x.nonce \in signed'[Other(k)]

(* No approval and no signature is ever taken back.                        *)
Grows == \A k \in Node : approved[k] \subseteq approved'[k] /\ signed[k] \subseteq signed'[k]

(* The frames a send adds to a wire.                                       *)
Wires == [Node -> Seq(Frame)]
AddsOnly(v, w, n, f) ==
    \A k \in Node : \A x \in InFlight(v[k]) :
        x \in InFlight(w[k]) \/ (x = f /\ k = Other(n) /\ sess[k] = sess[n])
LEMMA PutFrames ==
    ASSUME NEW w \in Wires, NEW n \in Node, NEW f \in Frame
    PROVE  AddsOnly(Put(w, n, f), w, n, f)
  <1> SUFFICES ASSUME NEW k \in Node, NEW x \in InFlight(Put(w, n, f)[k])
               PROVE  x \in InFlight(w[k]) \/ (x = f /\ k = Other(n) /\ sess[k] = sess[n])
    BY ZenonT(30) DEF AddsOnly
  <1>0. w \in [Node -> Seq(Frame)] /\ w[k] \in Seq(Frame)
    BY DEF Wires
  <1>1. CASE sess[Other(n)] = sess[n] /\ k = Other(n)
    <2>1. Put(w, n, f)[k] = Append(w[k], f)
      BY <1>0, <1>1, OtherMember DEF Put
    <2>2. InFlight(Append(w[k], f)) = InFlight(w[k]) \cup {f}
      BY <1>0, AppendFrame
    <2> QED
      BY <1>1, <2>1, <2>2
  <1>2. CASE ~(sess[Other(n)] = sess[n] /\ k = Other(n))
    BY <1>0, <1>2, OtherMember DEF Put
  <1> QED
    BY <1>1, <1>2

(* Taking a frame adds none.                                               *)
LEMMA TakenFrames ==
    ASSUME TypeOK, NEW n \in Node, wire[n] # <<>>
    PROVE  \A k \in Node : InFlight(Taken(n)[k]) \subseteq InFlight(wire[k])
  <1>1. wire \in [Node -> Seq(Frame)]
    BY DEF TypeOK
  <1>2. InFlight(Tail(wire[n])) \subseteq InFlight(wire[n])
    BY <1>1, TakeFrame
  <1> QED
    BY <1>1, <1>2 DEF Taken

(* Frames stay backed if the sessions stay and only backed ones are added. *)
LEMMA FramesStayBacked ==
    ASSUME FramesBacked, Grows, sess' = sess,
           \A k \in Node : \A x \in InFlight(wire'[k]) :
               x \in InFlight(wire[k]) \/ BackedNext(k, x)
    PROVE  FramesBacked'
  <1> SUFFICES ASSUME NEW k \in Node, NEW x \in InFlight(wire'[k])
               PROVE  BackedNext(k, x)
    BY DEF FramesBacked, BackedNext
  <1>1. CASE x \in InFlight(wire[k])
    BY <1>1, OtherMember DEF FramesBacked, Grows, BackedNext
  <1> QED
    BY <1>1

(* Latches stay backed if the sessions and the latches stay.               *)
LEMMA LatchesStayBacked ==
    ASSUME TypeOK, ResetWithoutSession, NonceOfSession, LatchesBacked, Grows,
           UNCHANGED <<sess, status, authenticated, nonceSent, remoteApproveSeen>>
    PROVE  ResetWithoutSession' /\ NonceOfSession' /\ LatchesBacked'
  BY OtherMember DEF ResetWithoutSession, NonceOfSession, LatchesBacked, Grows

(* A drop leaves nothing of the session behind.                            *)
LEMMA DropKeepsBacked ==
    ASSUME TypeOK, BackedInv, NEW n \in Node, NEW w \in [Node -> Seq(Frame)],
           NEW reason, NEW decided, Drop(n, w, reason, decided), Grows,
           \A k \in Node \ {n} : \A x \in InFlight(w[k]) :
               x \in InFlight(wire[k]) \/ BackedNext(k, x)
    PROVE  BackedInv'
  <1>1. /\ sess' = [sess EXCEPT ![n] = 0]
        /\ wire' = [w EXCEPT ![n] = <<>>]
        /\ status' = [status EXCEPT ![n] = "Sighted"]
        /\ authenticated' = [authenticated EXCEPT ![n] = FALSE]
        /\ nonceSent' = [nonceSent EXCEPT ![n] = 0]
        /\ remoteApproveSeen' = [remoteApproveSeen EXCEPT ![n] = FALSE]
    BY ZenonT(30) DEF Drop
  <1>2. \A k \in Node \ {n} : sess'[k] = sess[k] /\ wire'[k] = w[k]
    BY <1>1 DEF TypeOK
  <1>3. InFlight(wire'[n]) = {}
    BY ZenonT(30), <1>1, EmptyQueue
  <1>4. FramesBacked'
    <2> SUFFICES ASSUME NEW k \in Node, NEW x \in InFlight(wire'[k])
                 PROVE  BackedNext(k, x)
      BY DEF FramesBacked, BackedNext
    <2>1. k # n /\ x \in InFlight(w[k])
      BY ZenonT(30), <1>2, <1>3
    <2>2. CASE x \in InFlight(wire[k])
      BY ZenonT(30), <1>2, <2>1, <2>2, OtherMember DEF BackedInv, FramesBacked, BackedNext, Grows
    <2>3. x \in InFlight(wire[k]) \/ BackedNext(k, x)
      BY ZenonT(30), <2>1
    <2> QED
      BY ZenonT(30), <2>2, <2>3
  <1>5. ResetWithoutSession' /\ NonceOfSession'
    BY <1>1 DEF TypeOK, BackedInv, ResetWithoutSession, NonceOfSession
  <1>6. LatchesBacked'
    BY ZenonT(30), <1>1, <1>2, OtherMember DEF TypeOK, BackedInv, LatchesBacked, Grows
  <1> QED
    BY <1>4, <1>5, <1>6 DEF BackedInv

(* A drop of the wire as it is.                                            *)
LEMMA PlainDropKeepsBacked ==
    ASSUME TypeOK, BackedInv, NEW n \in Node, NEW reason, NEW decided,
           Drop(n, wire, reason, decided), UNCHANGED approved
    PROVE  BackedInv'
  <1>1. wire \in [Node -> Seq(Frame)]
    BY DEF TypeOK
  <1>2. Grows
    BY ZenonT(30) DEF Drop, Grows
  <1> QED
    BY <1>1, <1>2, DropKeepsBacked

(* Settling makes a link ACTIVE only if the peer's approval is recorded.   *)
LEMMA SettleStatus ==
    ASSUME TypeOK, NEW n \in Node, NEW auth, NEW stat, NEW l, NEW r, NEW ros,
           Settle(n, auth, stat, l, r, ros)
    PROVE  /\ \A k \in Node \ {n} : status'[k] = status[k]
           /\ status'[n] = stat \/ (status'[n] = "Active" /\ auth /\ r)
  BY DEF Settle, BecomesActive, TypeOK

(* send_local_approve adds at most a backed approval and settles.          *)
LEMMA SendLocalApproveEffect ==
    ASSUME TypeOK, NEW n \in Node, NEW w \in [Node -> Seq(Frame)],
           \A k \in Node : InFlight(w[k]) \subseteq InFlight(wire[k]),
           NEW auth, NEW stat, NEW ros, SendLocalApprove(n, w, auth, stat, ros),
           UNCHANGED <<sess, signed>>
    PROVE  /\ Grows
           /\ \A k \in Node : \A x \in InFlight(wire'[k]) :
                  x \in InFlight(wire[k]) \/ BackedNext(k, x)
           /\ \A k \in Node \ {n} : status'[k] = status[k]
           /\ status'[n] = stat \/ (status'[n] = "Active" /\ auth /\ remoteApproveSeen[n])
  <1>1. CASE /\ wire' = w
             /\ status' = [status EXCEPT ![n] = stat]
             /\ UNCHANGED approved
    BY <1>1 DEF TypeOK, Grows
  <1>2. CASE /\ SendOk(w, n, Approve)
             /\ approved' = [approved EXCEPT ![n] = @ \cup {sess[n]}]
             /\ Settle(n, auth, stat, TRUE, remoteApproveSeen[n], ros)
    <2>1. Grows
      BY <1>2 DEF TypeOK, Grows
    <2>0. \A k \in Node : \A x \in InFlight(wire'[k]) :
               \/ x \in InFlight(w[k])
               \/ x = Approve /\ k = Other(n) /\ sess[k] = sess[n]
      <3>1. wire' = Put(w, n, Approve)
        BY ZenonT(30), <1>2 DEF SendOk
      <3>2. Approve \in Frame
        BY FrameTypes
      <3>3. \A k \in Node : \A x \in InFlight(Put(w, n, Approve)[k]) :
               \/ x \in InFlight(w[k])
               \/ x = Approve /\ k = Other(n) /\ sess[k] = sess[n]
        <4>1. w \in Wires
          BY DEF Wires
        <4>2. AddsOnly(Put(w, n, Approve), w, n, Approve)
          BY <3>2, <4>1, PutFrames
        <4> QED
          BY <4>2 DEF AddsOnly
      <3> QED
        BY ZenonT(30), <3>1, <3>3
    <2>2. ASSUME NEW k \in Node, NEW x \in InFlight(wire'[k])
          PROVE  x \in InFlight(wire[k]) \/ BackedNext(k, x)
      <3>1. \/ x \in InFlight(wire[k])
            \/ x = Approve /\ k = Other(n) /\ sess[k] = sess[n]
        BY ZenonT(30), <2>0
      <3>2. CASE x = Approve /\ k = Other(n) /\ sess[k] = sess[n]
        <4>1. Other(k) = n /\ sess'[k] \in approved'[n]
          BY ZenonT(30), <1>2, <3>2, OtherMember DEF TypeOK
        <4> QED
          BY <3>2, <4>1 DEF BackedNext, Approve
      <3> QED
        BY ZenonT(30), <3>1, <3>2
    <2> QED
      BY ZenonT(30), <1>2, <2>1, <2>2, SettleStatus
  <1>3. CASE /\ SendErr(w, n)
             /\ status' = [status EXCEPT ![n] = stat]
             /\ UNCHANGED approved
    BY <1>3 DEF TypeOK, Grows, SendErr
  <1> QED
    BY ZenonT(30), <1>1, <1>2, <1>3 DEF SendLocalApprove

(* A send adds only backed frames, if its own frame is backed.             *)
LEMMA SentFramesBacked ==
    ASSUME NEW n \in Node, NEW w \in [Node -> Seq(Frame)], NEW f \in Frame,
           \A k \in Node : InFlight(w[k]) \subseteq InFlight(wire[k]),
           wire' = Put(w, n, f) \/ wire' = w,
           wire' = Put(w, n, f) /\ sess[Other(n)] = sess[n] => BackedNext(Other(n), f)
    PROVE  \A k \in Node : \A x \in InFlight(wire'[k]) :
               x \in InFlight(wire[k]) \/ BackedNext(k, x)
  <1>1. CASE wire' = w
    BY ZenonT(30), <1>1
  <1>2. CASE wire' = Put(w, n, f)
    <2>1. \A k \in Node : \A x \in InFlight(Put(w, n, f)[k]) :
               x \in InFlight(w[k]) \/ (x = f /\ k = Other(n) /\ sess[k] = sess[n])
      <3>1. w \in Wires
        BY DEF Wires
      <3>2. AddsOnly(Put(w, n, f), w, n, f)
        BY <3>1, PutFrames
      <3> QED
        BY <3>2 DEF AddsOnly
    <2> SUFFICES ASSUME NEW k \in Node, NEW x \in InFlight(wire'[k])
                 PROVE  x \in InFlight(wire[k]) \/ BackedNext(k, x)
      OBVIOUS
    <2>2. x \in InFlight(w[k]) \/ (x = f /\ k = Other(n) /\ sess[k] = sess[n])
      BY <1>2, <2>1
    <2>3. CASE x = f /\ k = Other(n) /\ sess[k] = sess[n]
      <3>1. BackedNext(Other(n), f)
        BY <1>2, <2>3
      <3> QED
        BY <2>3, <3>1 DEF BackedNext
    <2> QED
      BY <2>2, <2>3
  <1> QED
    BY ZenonT(30), <1>1, <1>2

(* Every action keeps frames and latches backed.                           *)
LEMMA BackedStep == TypeOK /\ BackedInv /\ [Next]_vars => BackedInv'
  <1> SUFFICES ASSUME TypeOK, BackedInv, [Next]_vars PROVE BackedInv'
    OBVIOUS
  <1> USE DEF BackedInv
  <1>0. /\ wire \in [Node -> Seq(Frame)]
        /\ \A k \in Node : InFlight(wire[k]) \subseteq InFlight(wire[k])
    BY DEF TypeOK
  <1>1. CASE Connect
    <2>1. \A k \in Node : InFlight(wire'[k]) = {}
      BY ZenonT(30), <1>1, EmptyQueue DEF Connect
    <2>2. FramesBacked'
      BY ZenonT(30), <2>1 DEF FramesBacked
    <2>3. \A k \in Node : /\ sess[k] = 0
                          /\ ~authenticated'[k] /\ ~remoteApproveSeen'[k]
                          /\ nonceSent'[k] = 0 /\ status'[k] = "Sighted"
      BY <1>1 DEF Connect, ResetWithoutSession
    <2> QED
      BY ZenonT(30), <2>2, <2>3 DEF ResetWithoutSession, NonceOfSession, LatchesBacked
  <1>2. ASSUME NEW n \in Node, DataChannelOpen(n) PROVE BackedInv'
    <2>1. Grows /\ sess' = sess
      BY <1>2 DEF DataChannelOpen, Grows, history
    <2>2. sess[n] \in Gen0 /\ Hello(sess[n]) \in Frame
      BY FrameTypes DEF TypeOK
    <2>3. wire' = Put(wire, n, Hello(sess[n])) \/ wire' = wire
      BY <1>2 DEF DataChannelOpen, SendOk
    <2>4. BackedNext(Other(n), Hello(sess[n]))
      BY ZenonT(30) DEF BackedNext, Hello
    <2>5. \A k \in Node : \A x \in InFlight(wire'[k]) :
               x \in InFlight(wire[k]) \/ BackedNext(k, x)
      BY ZenonT(30), <1>0, <2>2, <2>3, <2>4, SentFramesBacked
    <2>6. FramesBacked'
      BY <2>1, <2>5, FramesStayBacked
    <2>7. /\ status' = [status EXCEPT ![n] = "Handshaking"]
          /\ nonceSent' = [nonceSent EXCEPT ![n] = sess[n]]
          /\ UNCHANGED <<authenticated, remoteApproveSeen>>
          /\ sess[n] # 0
      BY <1>2 DEF DataChannelOpen
    <2>8. ResetWithoutSession' /\ NonceOfSession' /\ LatchesBacked'
      BY ZenonT(30), <2>1, <2>7, OtherMember
         DEF TypeOK, ResetWithoutSession, NonceOfSession, LatchesBacked, Grows
    <2> QED
      BY <2>6, <2>8
  <1>3. ASSUME NEW n \in Node, ChannelClosed(n) PROVE BackedInv'
    <2>1. PICK reason : Drop(n, wire, reason, sess[n]) /\ UNCHANGED approved
      BY <1>3 DEF ChannelClosed
    <2> QED
      BY <2>1, PlainDropKeepsBacked
  <1>4. ASSUME NEW n \in Node, HeartbeatTimeout(n) PROVE BackedInv'
    BY ZenonT(30), <1>4, PlainDropKeepsBacked DEF HeartbeatTimeout
  <1>5. ASSUME NEW n \in Node, OnHello(n) PROVE BackedInv'
    <2> DEFINE nonce == Head(wire[n]).nonce
    <2>1. /\ Taken(n) \in [Node -> Seq(Frame)] /\ nonce \in Gen0
          /\ \A k \in Node : InFlight(Taken(n)[k]) \subseteq InFlight(wire[k])
      BY ZenonT(30), <1>5, TakenType, TakenFrames DEF OnHello, Receives
    <2>2. AuthResponse(nonce) \in Frame
      BY <2>1, FrameTypes
    <2>3. \/ /\ wire' = Put(Taken(n), n, AuthResponse(nonce))
             /\ signed' = [signed EXCEPT ![n] = @ \cup {nonce}]
          \/ wire' = Taken(n) /\ UNCHANGED signed
      BY <1>5 DEF OnHello, SendOk, SendErr
    <2>4. UNCHANGED <<sess, status, authenticated, nonceSent, remoteApproveSeen, approved>>
      BY <1>5 DEF OnHello, peerState
    <2> HIDE DEF nonce
    <2>5. Grows
      <3>1. signed' = signed \/ signed' = [signed EXCEPT ![n] = @ \cup {nonce}]
        BY <2>3
      <3>2. \A k \in Node : signed[k] \subseteq signed'[k]
        <4>1. CASE signed' = signed
          BY <4>1
        <4>2. CASE signed' = [signed EXCEPT ![n] = @ \cup {nonce}]
          BY <4>2 DEF TypeOK
        <4> QED
          BY <3>1, <4>1, <4>2
      <3> QED
        BY <2>4, <3>2 DEF Grows
    <2>6. FramesBacked'
      <3>1. CASE /\ wire' = Put(Taken(n), n, AuthResponse(nonce))
                 /\ signed' = [signed EXCEPT ![n] = @ \cup {nonce}]
        <4>1. nonce \in signed'[n] /\ Other(Other(n)) = n
          BY <3>1, OtherMember DEF TypeOK
        <4>2. BackedNext(Other(n), AuthResponse(nonce))
          BY <4>1 DEF BackedNext, AuthResponse
        <4>3. \A k \in Node : \A x \in InFlight(wire'[k]) :
                   x \in InFlight(wire[k]) \/ BackedNext(k, x)
          BY ZenonT(30), <2>1, <2>2, <3>1, <4>2, SentFramesBacked
        <4> QED
          BY <2>4, <2>5, <4>3, FramesStayBacked
      <3>2. CASE wire' = Taken(n)
        BY <2>1, <2>4, <2>5, <3>2, FramesStayBacked
      <3> QED
        BY <2>3, <3>1, <3>2
    <2> QED
      BY <2>4, <2>5, <2>6, LatchesStayBacked
  <1>6. ASSUME NEW n \in Node, OnAuthBad(n) PROVE BackedInv'
    BY <1>6, PlainDropKeepsBacked DEF OnAuthBad
  <1>7. ASSUME NEW n \in Node, NEW w \in [Node -> Seq(Frame)], DenyEvicted(n, w),
               \A k \in Node : InFlight(w[k]) \subseteq InFlight(wire[k]),
               UNCHANGED <<peerState, history>>
        PROVE  BackedInv'
    <2>1. wire' = Put(w, n, Deny) \/ wire' = w
      BY <1>7 DEF DenyEvicted, SendOk, SendErr
    <2>2. BackedNext(Other(n), Deny) /\ Deny \in Frame
      BY FrameTypes DEF BackedNext, Deny
    <2>3. \A k \in Node : \A x \in InFlight(wire'[k]) :
               x \in InFlight(wire[k]) \/ BackedNext(k, x)
      BY ZenonT(30), <1>7, <2>1, <2>2, SentFramesBacked
    <2>4. /\ UNCHANGED <<sess, status, authenticated, nonceSent, remoteApproveSeen>>
          /\ Grows
      BY ZenonT(30), <1>7 DEF peerState, history, Grows
    <2> QED
      BY <2>3, <2>4, FramesStayBacked, LatchesStayBacked
  <1>8. ASSUME NEW n \in Node, OnAuthEvicted(n) PROVE BackedInv'
    <2>1. /\ Taken(n) \in [Node -> Seq(Frame)]
          /\ \A k \in Node : InFlight(Taken(n)[k]) \subseteq InFlight(wire[k])
      BY ZenonT(30), <1>8, TakenType, TakenFrames DEF OnAuthEvicted, Receives
    <2>2. DenyEvicted(n, Taken(n)) /\ UNCHANGED <<peerState, history>>
      BY <1>8 DEF OnAuthEvicted
    <2> QED
      BY <1>7, <2>1, <2>2
  <1>9. ASSUME NEW n \in Node, OnAuthOk(n) PROVE BackedInv'
    <2>1. /\ Taken(n) \in [Node -> Seq(Frame)]
          /\ \A k \in Node : InFlight(Taken(n)[k]) \subseteq InFlight(wire[k])
      BY ZenonT(30), <1>9, TakenType, TakenFrames DEF OnAuthOk, Receives
    <2>2. sess[n] \in signed[Other(n)] /\ sess[n] # 0
      <3>1. /\ wire[n] \in Seq(Frame) /\ wire[n] # <<>> /\ Head(wire[n]).type = "auth"
            /\ Head(wire[n]).nonce = nonceSent[n] /\ nonceSent[n] # 0 /\ sess[n] # 0
        BY ZenonT(30), <1>0, <1>9 DEF OnAuthOk, Receives, Verifies
      <3>2. Head(wire[n]) \in InFlight(wire[n])
        BY ZenonT(30), <3>1, TakeFrame
      <3>3. nonceSent[n] = sess[n]
        BY ZenonT(30), <3>1 DEF NonceOfSession
      <3> QED
        BY ZenonT(30), <3>1, <3>2, <3>3 DEF FramesBacked
    <2>3. /\ authenticated' = [authenticated EXCEPT ![n] = TRUE]
          /\ UNCHANGED <<sess, nonceSent, remoteApproveSeen, signed>>
      BY <1>9 DEF OnAuthOk
    <2>4. /\ Grows
          /\ \A k \in Node : \A x \in InFlight(wire'[k]) :
                 x \in InFlight(wire[k]) \/ BackedNext(k, x)
          /\ \A k \in Node \ {n} : status'[k] = status[k]
          /\ status'[n] = "PendingApproval" \/ (status'[n] = "Active" /\ remoteApproveSeen[n])
      <3>1. CASE n \in AutoApprove \/ rostered[n]
        <4>1. SendLocalApprove(n, Taken(n), TRUE, "PendingApproval", rostered)
          BY ZenonT(30), <1>9, <3>1 DEF OnAuthOk
        <4> QED
          BY ZenonT(30), <2>1, <2>3, <4>1, SendLocalApproveEffect
      <3>2. CASE ~(n \in AutoApprove \/ rostered[n])
        <4>1. /\ status' = [status EXCEPT ![n] = "PendingApproval"]
              /\ wire' = Taken(n) /\ UNCHANGED approved
          BY <1>9, <3>2 DEF OnAuthOk
        <4> QED
          BY <2>1, <2>3, <4>1 DEF TypeOK, Grows
      <3> QED
        BY ZenonT(30), <3>1, <3>2
    <2>5. FramesBacked'
      BY ZenonT(30), <2>3, <2>4, FramesStayBacked
    <2>6. ResetWithoutSession' /\ NonceOfSession'
      BY ZenonT(30), <2>2, <2>3, <2>4 DEF TypeOK, ResetWithoutSession, NonceOfSession
    <2>7. LatchesBacked'
      BY ZenonT(30), <2>2, <2>3, <2>4, OtherMember DEF TypeOK, LatchesBacked, Grows
    <2> QED
      BY <2>5, <2>6, <2>7
  <1>10. ASSUME NEW n \in Node, OnApprove(n) PROVE BackedInv'
    <2>1. /\ \A k \in Node : InFlight(Taken(n)[k]) \subseteq InFlight(wire[k])
          /\ wire' = Taken(n)
      BY ZenonT(30), <1>10, TakenFrames DEF OnApprove, Receives
    <2>2. sess[n] \in approved[Other(n)] /\ sess[n] # 0
      <3>1. /\ wire[n] \in Seq(Frame) /\ wire[n] # <<>> /\ Head(wire[n]).type = "approve"
            /\ sess[n] # 0
        BY ZenonT(30), <1>0, <1>10 DEF OnApprove, Receives
      <3>2. Head(wire[n]) \in InFlight(wire[n])
        BY ZenonT(30), <3>1, TakeFrame
      <3> QED
        BY <3>1, <3>2 DEF FramesBacked
    <2>3. /\ remoteApproveSeen' = [remoteApproveSeen EXCEPT ![n] = TRUE]
          /\ UNCHANGED <<sess, nonceSent, authenticated, approved, signed>>
      BY <1>10 DEF OnApprove, history
    <2>4. /\ \A k \in Node \ {n} : status'[k] = status[k]
          /\ status'[n] = status[n] \/ status'[n] = "Active"
      BY ZenonT(30), <1>10, SettleStatus DEF OnApprove
    <2>5. Grows
      BY <2>3 DEF Grows
    <2>6. FramesBacked'
      BY <2>1, <2>3, <2>5, FramesStayBacked
    <2>7. ResetWithoutSession' /\ NonceOfSession'
      BY <2>2, <2>3, <2>4 DEF TypeOK, ResetWithoutSession, NonceOfSession
    <2>8. LatchesBacked'
      BY <2>2, <2>3, <2>4 DEF TypeOK, LatchesBacked
    <2> QED
      BY <2>6, <2>7, <2>8
  <1>11. ASSUME NEW n \in Node, OnDeny(n) PROVE BackedInv'
    <2>1. PICK left \in BOOLEAN :
            /\ approved' = [approved EXCEPT ![n] = IF left THEN @ \cup {sess[n]} ELSE @]
            /\ Drop(n, IF left THEN Put(wire, n, Approve) ELSE wire, "Denied", sess[n])
      BY ZenonT(30), <1>11 DEF OnDeny
    <2> DEFINE w == IF left THEN Put(wire, n, Approve) ELSE wire
    <2>2. Approve \in Frame /\ w \in [Node -> Seq(Frame)]
      BY <1>0, PutType, FrameTypes
    <2>3. Grows
      BY ZenonT(30), <2>1 DEF Drop, Grows, TypeOK
    <2>4. \A k \in Node \ {n} : \A x \in InFlight(w[k]) :
               x \in InFlight(wire[k]) \/ BackedNext(k, x)
      <3>1. CASE left
        <4>1. \A k \in Node : \A x \in InFlight(Put(wire, n, Approve)[k]) :
                 \/ x \in InFlight(wire[k])
                 \/ x = Approve /\ k = Other(n) /\ sess[k] = sess[n]
          <5>1. Approve \in Frame /\ wire \in [Node -> Seq(Frame)]
            BY <1>0, FrameTypes
          <5>2. ASSUME NEW k \in Node, k = Other(n), sess[k] = sess[n]
                PROVE  InFlight(Put(wire, n, Approve)[k]) = InFlight(wire[k]) \cup {Approve}
            <6>1. Put(wire, n, Approve)[k] = Append(wire[k], Approve)
              BY <5>1, <5>2 DEF Put
            <6> QED
              BY <5>1, <6>1, AppendFrame
          <5>3. ASSUME NEW k \in Node, ~(k = Other(n) /\ sess[k] = sess[n])
                PROVE  Put(wire, n, Approve)[k] = wire[k]
            BY <5>1, <5>3, OtherMember DEF Put
          <5> QED
            BY <5>2, <5>3
        <4>2. ASSUME NEW k \in Node \ {n}, k = Other(n), sess[k] = sess[n]
              PROVE  BackedNext(k, Approve)
          <5>1. Other(k) = n
            BY <4>2, OtherMember
          <5>2. sess'[k] = sess[k] /\ sess[n] \in approved'[n]
            BY ZenonT(30), <2>1, <3>1 DEF Drop, TypeOK
          <5> QED
            BY <4>2, <5>1, <5>2 DEF BackedNext, Approve
        <4> QED
          BY <3>1, <4>1, <4>2 DEF BackedNext
      <3>2. CASE ~left
        BY <3>2
      <3> QED
        BY <3>1, <3>2
    <2>5. Drop(n, w, "Denied", sess[n])
      BY <2>1
    <2> HIDE DEF w
    <2> QED
      BY <2>2, <2>3, <2>4, <2>5, DropKeepsBacked
  <1>12. ASSUME NEW n \in Node, OnApp(n) PROVE BackedInv'
    <2>1. /\ \A k \in Node : InFlight(Taken(n)[k]) \subseteq InFlight(wire[k])
          /\ wire' = Taken(n)
      BY ZenonT(30), <1>12, TakenFrames DEF OnApp, Receives
    <2>2. /\ UNCHANGED <<sess, status, authenticated, nonceSent, remoteApproveSeen>>
          /\ Grows
      BY <1>12 DEF OnApp, history, Grows
    <2> QED
      BY <2>1, <2>2, FramesStayBacked, LatchesStayBacked
  <1>13. ASSUME NEW n \in Node, SendApp(n) PROVE BackedInv'
    <2>1. BackedNext(Other(n), App) /\ App \in Frame
      BY FrameTypes DEF BackedNext, App
    <2>2. \A k \in Node : \A x \in InFlight(wire'[k]) :
               x \in InFlight(wire[k]) \/ BackedNext(k, x)
      BY ZenonT(30), <1>0, <1>13, <2>1, SentFramesBacked DEF SendApp
    <2>3. /\ UNCHANGED <<sess, status, authenticated, nonceSent, remoteApproveSeen>>
          /\ Grows
      BY <1>13 DEF SendApp, peerState, history, Grows
    <2> QED
      BY <2>2, <2>3, FramesStayBacked, LatchesStayBacked
  <1>14. ASSUME NEW n \in Node, NEW g \in Gen, HelloRetry(n, g) PROVE BackedInv'
    <2>1. BackedNext(Other(n), Hello(g))
      BY DEF BackedNext, Hello
    <2>2. Hello(g) \in Frame
      BY BoundsAreNaturals, FrameTypes DEF Gen, Gen0
    <2>3. wire' = Put(wire, n, Hello(g)) \/ wire' = wire
      BY <1>14 DEF HelloRetry, SendOk, SendErr
    <2>4. \A k \in Node : \A x \in InFlight(wire'[k]) :
               x \in InFlight(wire[k]) \/ BackedNext(k, x)
      BY <1>0, <2>1, <2>2, <2>3, SentFramesBacked
    <2>5. /\ UNCHANGED <<sess, status, authenticated, nonceSent, remoteApproveSeen>>
          /\ Grows
      BY <1>14 DEF HelloRetry, peerState, history, Grows
    <2> QED
      BY ZenonT(60), <2>4, <2>5, FramesStayBacked, LatchesStayBacked
  <1>15. ASSUME UNCHANGED <<wire, sess, status, authenticated, nonceSent, remoteApproveSeen,
                            approved, signed>>
         PROVE  BackedInv'
    <2>1. Grows
      BY ZenonT(30), <1>15 DEF Grows
    <2> QED
      BY <1>15, <2>1, FramesStayBacked, LatchesStayBacked
  <1>16. ASSUME NEW n \in Node, NEW t \in dropTasks[n], RunDropTask(n, t) PROVE BackedInv'
    <2>1. CASE sess[n] # 0
      BY ZenonT(30), <1>16, <2>1, PlainDropKeepsBacked DEF RunDropTask
    <2>2. CASE sess[n] = 0
      BY <1>15, <1>16, <2>2 DEF RunDropTask, link, peerState
    <2> QED
      BY <2>1, <2>2
  <1>17. ASSUME NEW n \in Node, ApproveSent(n) PROVE BackedInv'
    <2>1. PICK g \in {approving[n].gen, sess[n]} \ {0} :
            /\ wire' = IF sess[n] = g THEN Put(wire, n, Approve) ELSE wire
            /\ approved' = [approved EXCEPT ![n] = @ \cup {g}]
      BY ZenonT(30), <1>17 DEF ApproveSent
    <2>2. UNCHANGED <<sess, status, authenticated, nonceSent, remoteApproveSeen, signed>>
      BY ZenonT(30), <1>17 DEF ApproveSent, peerState
    <2>3. Grows
      BY <2>1, <2>2 DEF Grows, TypeOK
    <2>4. \A k \in Node : \A x \in InFlight(wire'[k]) :
               x \in InFlight(wire[k]) \/ BackedNext(k, x)
      <3>1. CASE sess[n] = g
        <4>1. Approve \in Frame
          BY FrameTypes
        <4>2. sess[Other(n)] = sess[n] => BackedNext(Other(n), Approve)
          BY <2>1, <2>2, <3>1, OtherMember DEF BackedNext, Approve, TypeOK
        <4> QED
          BY ZenonT(30), <1>0, <2>1, <3>1, <4>1, <4>2, SentFramesBacked
      <3>2. CASE sess[n] # g
        BY ZenonT(30), <2>1, <3>2
      <3> QED
        BY ZenonT(30), <3>1, <3>2
    <2>5. FramesBacked'
      BY ZenonT(30), <2>2, <2>3, <2>4, FramesStayBacked
    <2> QED
      BY <2>2, <2>3, <2>5, LatchesStayBacked
  <1>18. ASSUME NEW n \in Node, ApproveNotSent(n) PROVE BackedInv'
    BY ZenonT(30), <1>15, <1>18 DEF ApproveNotSent, SendErr, history
  <1>19. ASSUME NEW n \in Node, AdoptEvict(n) PROVE BackedInv'
    <2>1. CASE sess[n] # 0
      BY <1>0, <1>7, <1>19, <2>1 DEF AdoptEvict
    <2>2. CASE sess[n] = 0
      BY <1>15, <1>19, <2>2 DEF AdoptEvict, peerState, history
    <2> QED
      BY <2>1, <2>2
  <1>20. ASSUME NEW n \in Node, AdoptAdmit(n) PROVE BackedInv'
    <2>1. UNCHANGED <<sess, authenticated, nonceSent, remoteApproveSeen, signed>>
      BY ZenonT(30), <1>20 DEF AdoptAdmit
    <2>2. CASE sess[n] # 0
      <3>1. PICK ros : SendLocalApprove(n, wire, authenticated[n], status[n], ros)
        BY ZenonT(30), <1>20, <2>2 DEF AdoptAdmit
      <3>2. /\ Grows
            /\ \A k \in Node : \A x \in InFlight(wire'[k]) :
                   x \in InFlight(wire[k]) \/ BackedNext(k, x)
            /\ \A k \in Node \ {n} : status'[k] = status[k]
            /\ \/ status'[n] = status[n]
               \/ status'[n] = "Active" /\ remoteApproveSeen[n]
        BY ZenonT(30), <1>0, <2>1, <3>1, SendLocalApproveEffect
      <3>3. FramesBacked'
        BY ZenonT(30), <2>1, <3>2, FramesStayBacked
      <3>4. ResetWithoutSession' /\ NonceOfSession'
        BY ZenonT(30), <2>1, <2>2, <3>2 DEF TypeOK, ResetWithoutSession, NonceOfSession
      <3>5. LatchesBacked'
        BY ZenonT(30), <2>1, <3>2, OtherMember DEF TypeOK, LatchesBacked, Grows
      <3> QED
        BY <3>3, <3>4, <3>5
    <2>3. CASE sess[n] = 0
      BY ZenonT(30), <1>15, <1>20, <2>1, <2>3 DEF AdoptAdmit
    <2> QED
      BY <2>2, <2>3
  <1>21. ASSUME NEW n \in Node,
                \/ WatchdogDecides(n) \/ RosterApprove(n) \/ RosterRemove(n)
                \/ ApproveLatch(n) \/ ApproveFinishes(n) \/ AdoptSelf(n)
         PROVE  BackedInv'
    BY <1>15, <1>21 DEF WatchdogDecides, RosterApprove, RosterRemove, ApproveLatch,
                        ApproveFinishes, AdoptSelf, link, peerState, history
  <1>22. CASE UNCHANGED vars
    BY <1>15, <1>22 DEF vars
  <1>23. ASSUME NEW n \in Node, ApproveSettles(n) PROVE BackedInv'
    <2>1. UNCHANGED <<wire, sess, authenticated, nonceSent, remoteApproveSeen, approved, signed>>
      BY <1>23 DEF ApproveSettles, link, history
    <2>2. Grows
      BY <2>1 DEF Grows
    <2>3. FramesBacked'
      BY <2>1, <2>2, FramesStayBacked
    <2>4. /\ \A k \in Node \ {n} : status'[k] = status[k]
          /\ \/ status'[n] = status[n]
             \/ status'[n] = "Active" /\ remoteApproveSeen[n] /\ sess[n] # 0
      BY <1>23 DEF ApproveSettles, BecomesActive, TypeOK
    <2>5. ResetWithoutSession' /\ NonceOfSession'
      BY <2>1, <2>4 DEF TypeOK, ResetWithoutSession, NonceOfSession
    <2>6. LatchesBacked'
      BY ZenonT(30), <2>1, <2>4 DEF TypeOK, LatchesBacked
    <2> QED
      BY <2>3, <2>5, <2>6
  <1> QED
    BY ZenonT(30), <1>1, <1>2, <1>3, <1>4, <1>5, <1>6, <1>8, <1>9, <1>10, <1>11, <1>12, <1>13,
       <1>14, <1>16, <1>17, <1>18, <1>19, <1>20, <1>21, <1>22, <1>23
       DEF Next, Deliver, RemoteClosed, PathLost

(* Nothing is in flight or latched at the start.                           *)
LEMMA BackedInit == Init => BackedInv
  BY EmptyQueue DEF Init, InitAfter, BackedInv, ResetWithoutSession, NonceOfSession, FramesBacked,
                    LatchesBacked

(* The inductive invariant holds throughout.                               *)
LEMMA AlwaysBacked == Spec => []BackedInv
  BY BackedInit, BackedStep, TypeCorrect, PTL DEF Spec

(* A link is never ACTIVE at one end without the other end having approved *)
(* it on this very session, whatever is retried, lost, restarted, approved *)
(* by hand or evicted meanwhile.                                           *)
THEOREM BilateralActivation == Spec => []ActiveIsBilateral
  <1>1. BackedInv => ActiveIsBilateral
    BY DEF BackedInv, LatchesBacked, ActiveIsBilateral, Admitted
  <1> QED
    BY <1>1, AlwaysBacked, PTL

(* A peer is never taken as authenticated on the strength of a signature   *)
(* made for another session.                                               *)
THEOREM FreshAuthentication == Spec => []AuthenticationIsFresh
  <1>1. BackedInv => AuthenticationIsFresh
    BY DEF BackedInv, LatchesBacked, AuthenticationIsFresh
  <1> QED
    BY <1>1, AlwaysBacked, PTL
-----------------------------------------------------------------------------
(* The roster and the signed log.                                          *)

(* Settling adds to the roster only a peer that is not evicted.            *)
LEMMA SettleRoster ==
    ASSUME TypeOK, NEW n \in Node, NEW auth, NEW stat, NEW l, NEW r,
           NEW ros \in [Node -> BOOLEAN], Settle(n, auth, stat, l, r, ros)
    PROVE  /\ \A k \in Node \ {n} : rostered'[k] = ros[k]
           /\ rostered'[n] = ros[n] \/ ~Evicted(n)
  BY DEF Settle, Rosterable, TypeOK

(* Every action keeps evicted peers out of the roster, unless an eviction  *)
(* falls into the window of a caller's approve_roster.                     *)
LEMMA EvictedStep ==
    TypeOK /\ NoRosterRace /\ EvictedNotRostered /\ [Next]_vars => EvictedNotRostered'
  <1> SUFFICES ASSUME TypeOK, NoRosterRace, EvictedNotRostered, [Next]_vars
               PROVE  EvictedNotRostered'
    OBVIOUS
  <1> USE DEF EvictedNotRostered, Evicted
  <1>0. rostered \in [Node -> BOOLEAN] /\ verdict \in [Node -> {"none", "member", "evicted"}]
    BY DEF TypeOK
  <1>1. ASSUME UNCHANGED <<rostered, verdict>> PROVE EvictedNotRostered'
    BY ZenonT(30), <1>1
  <1>2. CASE \/ Connect
             \/ UNCHANGED vars
             \/ \E n \in Node :
                   \/ DataChannelOpen(n) \/ ChannelClosed(n) \/ HeartbeatTimeout(n)
                   \/ OnHello(n) \/ OnAuthBad(n) \/ OnAuthEvicted(n) \/ OnApp(n) \/ SendApp(n)
                   \/ (\E g \in Gen : HelloRetry(n, g)) \/ WatchdogDecides(n)
                   \/ (\E t \in dropTasks[n] : RunDropTask(n, t))
                   \/ ApproveLatch(n) \/ ApproveSent(n) \/ ApproveNotSent(n)
                   \/ ApproveSettles(n) \/ AdoptSelf(n)
    <2>1. UNCHANGED <<rostered, verdict>>
      BY ZenonT(30), <1>2 DEF Connect, vars, DataChannelOpen, ChannelClosed, HeartbeatTimeout, OnHello,
             OnAuthBad, OnAuthEvicted, OnApp, SendApp, HelloRetry, WatchdogDecides,
             RunDropTask, ApproveLatch, ApproveSent, ApproveNotSent, ApproveSettles,
             AdoptSelf, trust
    <2> QED
      BY <1>1, <2>1
  <1>3. ASSUME NEW n \in Node, OnAuthOk(n) PROVE EvictedNotRostered'
    <2>1. verdict' = verdict /\ ~Evicted(n)
      BY ZenonT(30), <1>3 DEF OnAuthOk
    <2>2. \A k \in Node \ {n} : rostered'[k] = rostered[k]
      <3>1. CASE rostered' = rostered
        BY <3>1
      <3>2. CASE SendLocalApprove(n, Taken(n), TRUE, "PendingApproval", rostered)
        <4>1. \/ rostered' = rostered
              \/ Settle(n, TRUE, "PendingApproval", TRUE, remoteApproveSeen[n], rostered)
          BY ZenonT(30), <3>2 DEF SendLocalApprove
        <4>2. CASE rostered' = rostered
          BY <4>2
        <4>3. CASE Settle(n, TRUE, "PendingApproval", TRUE, remoteApproveSeen[n], rostered)
          BY <1>0, <4>3 DEF Settle
        <4> QED
          BY ZenonT(30), <4>1, <4>2, <4>3
      <3> QED
        BY ZenonT(30), <1>3, <3>1, <3>2 DEF OnAuthOk
    <2> QED
      BY <2>1, <2>2
  <1>4. ASSUME NEW n \in Node, OnApprove(n) PROVE EvictedNotRostered'
    <2>1. verdict' = verdict
      BY ZenonT(30), <1>4 DEF OnApprove
    <2>2. /\ \A k \in Node \ {n} : rostered'[k] = rostered[k]
          /\ rostered'[n] = rostered[n] \/ ~Evicted(n)
      BY ZenonT(30), <1>0, <1>4, SettleRoster DEF OnApprove
    <2> QED
      BY <2>1, <2>2
  <1>5. ASSUME NEW n \in Node, OnDeny(n) PROVE EvictedNotRostered'
    <2>1. PICK seated \in BOOLEAN :
            /\ verdict' = [verdict EXCEPT ![n] = IF seated THEN "member" ELSE @]
            /\ rostered' = [rostered EXCEPT ![n] = @ \/ seated]
      BY ZenonT(30), <1>5 DEF OnDeny
    <2> QED
      BY <1>0, <2>1
  <1>6. ASSUME NEW n \in Node, RosterApprove(n) PROVE EvictedNotRostered'
    BY <1>0, <1>6 DEF RosterApprove
  <1>7. ASSUME NEW n \in Node, RosterRemove(n) PROVE EvictedNotRostered'
    BY <1>0, <1>7 DEF RosterRemove
  <1>8. ASSUME NEW n \in Node, ApproveFinishes(n) PROVE EvictedNotRostered'
    <2>1. rostered' = [rostered EXCEPT ![n] = @ \/ approving[n].pc = "rostering"]
      BY <1>8 DEF ApproveFinishes
    <2>2. verdict' = verdict
      BY <1>8 DEF ApproveFinishes
    <2> QED
      BY <1>0, <2>1, <2>2 DEF NoRosterRace
  <1>9. ASSUME NEW n \in Node, AdoptEvict(n) PROVE EvictedNotRostered'
    BY <1>0, <1>9 DEF AdoptEvict
  <1>10. ASSUME NEW n \in Node, AdoptAdmit(n) PROVE EvictedNotRostered'
    <2>1. verdict' = [verdict EXCEPT ![n] = "member"]
      BY ZenonT(30), <1>10 DEF AdoptAdmit
    <2>2. PICK ros \in [Node -> BOOLEAN] :
            /\ ros = [rostered EXCEPT ![n] = TRUE]
            /\ \/ rostered' = ros
               \/ Settle(n, authenticated[n], status[n], TRUE, remoteApproveSeen[n], ros)
      BY ZenonT(30), <1>0, <1>10 DEF AdoptAdmit, SendLocalApprove
    <2>3. \A k \in Node \ {n} : rostered'[k] = ros[k]
      <3>1. CASE rostered' = ros
        BY ZenonT(30), <3>1
      <3>2. CASE Settle(n, authenticated[n], status[n], TRUE, remoteApproveSeen[n], ros)
        BY ZenonT(30), <2>2, <3>2 DEF Settle
      <3> QED
        BY ZenonT(30), <2>2, <3>1, <3>2
    <2> QED
      BY <1>0, <2>1, <2>2, <2>3
  <1> QED
    BY ZenonT(30), <1>2, <1>3, <1>4, <1>5, <1>6, <1>7, <1>8, <1>9, <1>10
       DEF Next, Deliver, RemoteClosed, PathLost

(* Once the signed log evicts a peer, nothing but a re-admission in the    *)
(* log puts the peer back into the roster, in every behaviour in which no  *)
(* eviction is adopted between the check and the write of approve_roster   *)
(* on a caller's task: that window is the only way back.                   *)
THEOREM EvictionSticks == Spec /\ []NoRosterRace => []EvictedNotRostered
  <1>1. Init => EvictedNotRostered
    BY DEF Init, InitAfter, EvictedNotRostered, Evicted
  <1> QED
    BY <1>1, EvictedStep, TypeCorrect, PTL DEF Spec
=============================================================================
