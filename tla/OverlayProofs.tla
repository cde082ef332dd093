---------------------------- MODULE OverlayProofs ----------------------------
(***************************************************************************)
(* Proofs about the overlay: that both ends of a link agree on who has     *)
(* shelved it (Shape), and that a frame is handed over once, whatever      *)
(* paths it takes (Routing).                                               *)
(*                                                                         *)
(* Nothing is used of the selectors: the results hold whatever set         *)
(* select_preferred, edge and next_hops return.                            *)
(***************************************************************************)
EXTENDS Shape, Routing, TLAPS

(* What a leaf is tried with, in this order, and for how many seconds.     *)
USE ZenonT(3), SMTT(25), ZenonT(40)

(***************************************************************************)
(* Connection shaping                                                      *)
(***************************************************************************)
Entry ==
    [sess : BOOLEAN, status : {"sighted", "pending", "active", "shelved"},
     ls : BOOLEAN, rs : BOOLEAN]

(* The status of an entry is the local verdict.                            *)
GoodEntry(r) == r \in Entry /\ (r.ls <=> r.status = "shelved")
GoodMap(d, f) ==
    /\ f = [p \in DOMAIN f |-> f[p]]
    /\ DOMAIN f \subseteq Member \ {d}
    /\ \A p \in DOMAIN f : GoodEntry(f[p])
GoodNet(P) ==
    /\ P = [d \in Member |-> P[d]]
    /\ \A d \in Member : GoodMap(d, P[d])
GoodWire(w) == w \in [Pair -> Seq(BOOLEAN)]

(* ShelvingAgrees, of any map of peers and any wire.                       *)
Up(P, d, p) == p \in DOMAIN P[d] /\ P[d][p].sess
Agree(a, b, w) == a.ls = IF w = <<>> THEN b.rs ELSE Newest(w)
AgreeAll(P, w) ==
    \A d, p \in Member :
        d # p /\ Up(P, d, p) /\ Up(P, p, d) => Agree(P[p][d], P[d][p], w[<<p, d>>])

(* The inductive invariant.                                                *)
ShapeInv ==
    /\ GoodNet(peers)
    /\ GoodWire(wire)
    /\ timeouts \in 0..MaxTimeouts
    /\ failures \in 0..MaxFailures
    /\ timeouts = 0 => AgreeAll(peers, wire)

LEMMA EntriesTyped == GoodEntry(Sighted) /\ GoodEntry(Opened)
BY DEF GoodEntry, Entry, Sighted, Opened

LEMMA AgreeIsShelvingAgrees == AgreeAll(peers, wire) => ShelvingAgrees
BY DEF AgreeAll, ShelvingAgrees, Agree, Up, Holds, Pair

(* The last of a queue of flags after one is put in or taken out.          *)
LEMMA QueueEnds ==
    ASSUME NEW q \in Seq(BOOLEAN)
    PROVE  /\ \A b \in BOOLEAN : /\ Append(q, b) \in Seq(BOOLEAN)
                                 /\ Append(q, b) # <<>>
                                 /\ Newest(Append(q, b)) = b
           /\ q # <<>> => /\ Head(q) \in BOOLEAN
                          /\ Tail(q) \in Seq(BOOLEAN)
                          /\ Tail(q) = <<>> => Newest(q) = Head(q)
                          /\ Tail(q) # <<>> => Newest(Tail(q)) = Newest(q)
<1>1. ASSUME NEW b \in BOOLEAN
      PROVE  Append(q, b) \in Seq(BOOLEAN) /\ Append(q, b) # <<>> /\ Newest(Append(q, b)) = b
  <2>1. Append(q, b) \in Seq(BOOLEAN) /\ Len(Append(q, b)) = Len(q) + 1
    OBVIOUS
  <2>2. Append(q, b)[Len(q) + 1] = b
    OBVIOUS
  <2> QED
    BY <2>1, <2>2 DEF Newest
<1>2. ASSUME q # <<>>
      PROVE  /\ Head(q) \in BOOLEAN /\ Tail(q) \in Seq(BOOLEAN)
             /\ Tail(q) = <<>> => Newest(q) = Head(q)
             /\ Tail(q) # <<>> => Newest(Tail(q)) = Newest(q)
  <2>1. Len(q) \in Nat \ {0} /\ Head(q) = q[1] /\ q[1] \in BOOLEAN
    BY <1>2
  <2>2. /\ Tail(q) \in Seq(BOOLEAN) /\ Len(Tail(q)) = Len(q) - 1
        /\ \A i \in 1..Len(q) - 1 : Tail(q)[i] = q[i + 1]
    BY <1>2
  <2>3. Tail(q) = <<>> => Len(q) = 1
    BY <2>1, <2>2
  <2>4. Tail(q) # <<>> => Len(q) - 1 \in 1..Len(q) - 1
    BY <2>1, <2>2
  <2> QED
    BY <2>1, <2>2, <2>3, <2>4 DEF Newest
<1> QED
  BY <1>1, <1>2

(* The verdicts of a pass: only the status and the local flag of an entry  *)
(* move, together.                                                         *)
LEMMA ShelveTyped ==
    ASSUME NEW m, NEW d \in Member, NEW pins, NEW ps, GoodMap(d, ps)
    PROVE  /\ GoodMap(d, Shelve(m, d, pins, ps))
           /\ DOMAIN Shelve(m, d, pins, ps) = DOMAIN ps
           /\ \A p \in DOMAIN ps : /\ Shelve(m, d, pins, ps)[p].sess = ps[p].sess
                                   /\ Shelve(m, d, pins, ps)[p].rs = ps[p].rs
<1> DEFINE live == {p \in DOMAIN ps : Carries(ps[p])}
           preferred == select_preferred(m, d, live)
           off(p) == p \notin preferred /\ p \notin pins
           new(p) == IF p \notin live THEN ps[p]
                     ELSE [ps[p] EXCEPT !.ls = off(p),
                                        !.status = IF off(p) THEN "shelved" ELSE "active"]
<1>1. Shelve(m, d, pins, ps) = [p \in DOMAIN ps |-> new(p)]
  BY DEF Shelve
<1> HIDE DEF preferred
<1>2. ASSUME NEW p \in DOMAIN ps
      PROVE  GoodEntry(new(p)) /\ new(p).sess = ps[p].sess /\ new(p).rs = ps[p].rs
  BY ZenonT(60) DEF GoodMap, GoodEntry, Entry
<1> HIDE DEF new
<1> QED
  BY <1>1, <1>2 DEF GoodMap

(* A pass, from d's map as ps and the wire as w: a verdict that moved is   *)
(* on the wire unless its send timed out, so what agreed before agrees     *)
(* after.                                                                  *)
LEMMA ReevaluateKeeps ==
    ASSUME GoodNet(peers), timeouts \in 0..MaxTimeouts,
           NEW m, NEW d \in Member, NEW pins, NEW ps, GoodMap(d, ps),
           NEW w, GoodWire(w),
           Reevaluate(m, d, pins, ps, w)
    PROVE  /\ GoodNet(peers') /\ GoodWire(wire')
           /\ timeouts' \in 0..MaxTimeouts
           /\ timeouts' = 0 =>
                 /\ timeouts = 0
                 /\ AgreeAll([peers EXCEPT ![d] = ps], w) => AgreeAll(peers', wire')
<1> DEFINE new == Shelve(m, d, pins, ps)
           told == {p \in DOMAIN ps : new[p].ls # ps[p].ls}
<1>1. PICK lost \in SUBSET told :
         /\ lost # {} => timeouts < MaxTimeouts
         /\ timeouts' = IF lost = {} THEN timeouts ELSE timeouts + 1
         /\ peers' = [peers EXCEPT ![d] = new]
         /\ wire' = [x \in Pair |-> IF x[1] = d /\ x[2] \in told \ lost
                                    THEN Append(w[x], new[x[2]].ls) ELSE w[x]]
  BY DEF Reevaluate
<1>2. /\ GoodMap(d, new) /\ DOMAIN new = DOMAIN ps
      /\ \A p \in DOMAIN ps : new[p].sess = ps[p].sess /\ new[p].rs = ps[p].rs
  BY ShelveTyped
<1> HIDE DEF new
<1>4. timeouts' \in 0..MaxTimeouts /\ (timeouts' = 0 => timeouts = 0 /\ lost = {})
  BY <1>1, ShapeAssumption
<1>5. GoodNet(peers')
  BY <1>1, <1>2 DEF GoodNet
<1>6. \A p \in DOMAIN ps : new[p].ls \in BOOLEAN
  BY <1>2 DEF GoodMap, GoodEntry, Entry
<1>7. GoodWire(wire')
  <2>1. ASSUME NEW x \in Pair
        PROVE  (IF x[1] = d /\ x[2] \in told \ lost
                THEN Append(w[x], new[x[2]].ls) ELSE w[x]) \in Seq(BOOLEAN)
    <3>1. w[x] \in Seq(BOOLEAN)
      BY DEF GoodWire
    <3>2. x[2] \in told => new[x[2]].ls \in BOOLEAN
      BY <1>6
    <3> QED
      BY ZenonT(60), <3>1, <3>2, QueueEnds
  <2> QED
    BY <2>1, <1>1 DEF GoodWire
<1>8. ASSUME timeouts' = 0, AgreeAll([peers EXCEPT ![d] = ps], w)
      PROVE  AgreeAll(peers', wire')
  <2> DEFINE P == [peers EXCEPT ![d] = ps]
  <2>1. wire' = [x \in Pair |-> IF x[1] = d /\ x[2] \in told
                                THEN Append(w[x], new[x[2]].ls) ELSE w[x]]
    BY <1>1, <1>4, <1>8
  <2>2. SUFFICES ASSUME NEW a \in Member, NEW b \in Member, a # b,
                        Up(peers', a, b), Up(peers', b, a)
                 PROVE  Agree(peers'[b][a], peers'[a][b], wire'[<<b, a>>])
    BY DEF AgreeAll
  <2>3. /\ P[d] = ps /\ peers'[d] = new
        /\ \A e \in Member \ {d} : P[e] = peers[e] /\ peers'[e] = peers[e]
    BY <1>1 DEF GoodNet
  <2> HIDE DEF P
  <2>4. Up(P, a, b) /\ Up(P, b, a)
    BY <2>2, <2>3, <1>2 DEF Up
  <2>5. Agree(P[b][a], P[a][b], w[<<b, a>>])
    BY ZenonT(60), <2>2, <2>4, <1>8 DEF AgreeAll, P
  <2>6. peers'[a][b].rs = P[a][b].rs
    BY <2>2, <2>3, <1>2 DEF Up
  <2>7. <<b, a>> \in Pair /\ w[<<b, a>>] \in Seq(BOOLEAN)
    BY <2>2 DEF Pair, GoodWire
  <2>8. CASE b = d /\ a \in told
    <3>1. wire'[<<b, a>>] = Append(w[<<b, a>>], new[a].ls)
      BY <2>1, <2>7, <2>8
    <3>2. new[a].ls \in BOOLEAN
      BY <2>8, <1>6
    <3>3. wire'[<<b, a>>] # <<>> /\ Newest(wire'[<<b, a>>]) = new[a].ls
      BY <3>1, <3>2, <2>7, QueueEnds
    <3>4. peers'[b][a].ls = new[a].ls
      BY <2>3, <2>8
    <3> QED
      BY <3>3, <3>4 DEF Agree
  <2>9. CASE ~(b = d /\ a \in told)
    <3>1. wire'[<<b, a>>] = w[<<b, a>>]
      BY <2>1, <2>7, <2>9
    <3>2. peers'[b][a].ls = P[b][a].ls
      BY <2>2, <2>3, <2>9, <1>2 DEF Up
    <3> QED
      BY <3>1, <3>2, <2>5, <2>6 DEF Agree
  <2> QED
    BY <2>8, <2>9
<1> QED
  BY <1>4, <1>5, <1>7, <1>8

(* A new session agrees with itself: neither end has shelved.              *)
LEMMA DialKeeps ==
    ASSUME GoodNet(peers), GoodWire(wire),
           NEW d \in Member, NEW p \in Member \ {d}, ensure_peer_session(d, p)
    PROVE  /\ GoodNet(peers') /\ GoodWire(wire')
           /\ AgreeAll(peers, wire) => AgreeAll(peers', wire')
<1>1. CASE Holds(d, p)
  BY <1>1 DEF ensure_peer_session
<1>2. CASE ~Holds(d, p)
  <2>1. /\ peers' = [peers EXCEPT ![d] = With(@, p, Opened), ![p] = With(@, d, Opened)]
        /\ wire' = [wire EXCEPT ![<<d, p>>] = <<>>, ![<<p, d>>] = <<>>]
    BY <1>2 DEF ensure_peer_session, Dialled
  <2>2. /\ peers'[d] = With(peers[d], p, Opened) /\ peers'[p] = With(peers[p], d, Opened)
        /\ \A e \in Member \ {d, p} : peers'[e] = peers[e]
        /\ peers' = [e \in Member |-> peers'[e]]
    BY ZenonT(60), <2>1 DEF GoodNet
  <2>3. GoodMap(d, peers'[d]) /\ GoodMap(p, peers'[p])
    BY <2>2, EntriesTyped DEF GoodNet, GoodMap, With
  <2>4. GoodNet(peers')
    BY <2>2, <2>3 DEF GoodNet
  <2>5. <<>> \in Seq(BOOLEAN) /\ <<d, p>> \in Pair /\ <<p, d>> \in Pair
    BY DEF Pair
  <2>6. /\ GoodWire(wire') /\ wire'[<<d, p>>] = <<>> /\ wire'[<<p, d>>] = <<>>
        /\ \A x \in Pair : x # <<d, p>> /\ x # <<p, d>> => wire'[x] = wire[x]
    BY ZenonT(60), <2>1, <2>5 DEF GoodWire
  <2>7. peers'[d][p] = Opened /\ peers'[p][d] = Opened
    BY <2>2 DEF With
  <2>8. ASSUME AgreeAll(peers, wire), NEW a \in Member, NEW b \in Member, a # b,
               Up(peers', a, b), Up(peers', b, a)
        PROVE  Agree(peers'[b][a], peers'[a][b], wire'[<<b, a>>])
    <3>1. CASE (a = d /\ b = p) \/ (a = p /\ b = d)
      <4>1. wire'[<<b, a>>] = <<>> /\ peers'[b][a] = Opened /\ peers'[a][b] = Opened
        BY <3>1, <2>6, <2>7
      <4>2. Opened.ls = Opened.rs
        BY DEF Opened
      <4> QED
        BY <4>1, <4>2 DEF Agree
    <3>2. CASE ~((a = d /\ b = p) \/ (a = p /\ b = d))
      <4>1. /\ Up(peers, a, b) /\ Up(peers, b, a)
            /\ peers'[a][b] = peers[a][b] /\ peers'[b][a] = peers[b][a]
        BY <3>2, <2>2, <2>8 DEF Up, With
      <4>2. wire'[<<b, a>>] = wire[<<b, a>>]
        BY <3>2, <2>6, <2>8 DEF Pair
      <4> QED
        BY <4>1, <4>2, <2>8 DEF AgreeAll
    <3> QED
      BY <3>1, <3>2
  <2> QED
    BY <2>4, <2>6, <2>8 DEF AgreeAll
<1> QED
  BY <1>1, <1>2

(***************************************************************************)
(* The actions, one lemma each                                             *)
(***************************************************************************)
LEMMA ShapeInitOK == ShapeInit => ShapeInv
<1> SUFFICES ASSUME ShapeInit PROVE ShapeInv
  OBVIOUS
<1> DEFINE ps(d) == [p \in Member \ {d} |-> [Opened EXCEPT !.status = "active"]]
<1>1. ASSUME NEW d \in Member PROVE GoodMap(d, ps(d)) /\ DOMAIN ps(d) = Member \ {d}
  BY ZenonT(60) DEF GoodMap, GoodEntry, Entry, Opened
<1> HIDE DEF ps
<1>2. ASSUME NEW d \in Member
      PROVE  GoodMap(d, Settled(d)) /\ DOMAIN Settled(d) = Member \ {d}
  BY <1>1, ShelveTyped DEF Settled, ps
<1>3. ASSUME NEW d \in Member, NEW p \in Member \ {d}
      PROVE  GoodEntry(Settled(d)[p]) /\ Settled(d)[p].ls \in BOOLEAN
  BY ZenonT(60), <1>2 DEF GoodMap, GoodEntry, Entry
<1>4. peers = [d \in Member |->
                 [p \in Member \ {d} |-> [Settled(d)[p] EXCEPT !.rs = Settled(p)[d].ls]]]
  BY DEF ShapeInit
<1>5. ASSUME NEW d \in Member, NEW p \in Member \ {d}
      PROVE  /\ peers[d][p] = [Settled(d)[p] EXCEPT !.rs = Settled(p)[d].ls]
             /\ GoodEntry(peers[d][p])
             /\ peers[d][p].rs = Settled(p)[d].ls /\ peers[d][p].ls = Settled(d)[p].ls
  <2>1. peers[d][p] = [Settled(d)[p] EXCEPT !.rs = Settled(p)[d].ls]
    BY <1>4
  <2>2. GoodEntry(Settled(d)[p]) /\ Settled(p)[d].ls \in BOOLEAN
    BY <1>3
  <2> QED
    BY <2>1, <2>2 DEF GoodEntry, Entry
<1>6. GoodNet(peers)
  BY <1>4, <1>5 DEF GoodNet, GoodMap
<1>7. wire = [x \in Pair |-> <<>>] /\ timeouts = 0 /\ failures = 0
  BY DEF ShapeInit
<1>8. GoodWire(wire)
  BY <1>7 DEF GoodWire
<1>9. ASSUME NEW a \in Member, NEW b \in Member, a # b
      PROVE  Agree(peers[b][a], peers[a][b], wire[<<b, a>>])
  <2>1. <<b, a>> \in Pair
    BY <1>9 DEF Pair
  <2>2. wire[<<b, a>>] = <<>>
    BY <1>7, <2>1
  <2>3. peers[b][a].ls = peers[a][b].rs
    <3>1. b \in Member \ {a} /\ a \in Member \ {b}
      BY <1>9
    <3>2. peers[b][a].ls = Settled(b)[a].ls
      BY ZenonT(60), <3>1, <1>5
    <3>3. peers[a][b].rs = Settled(b)[a].ls
      BY ZenonT(60), <3>1, <1>5
    <3> QED
      BY <3>2, <3>3
  <2> QED
    BY <2>2, <2>3 DEF Agree
<1> QED
  BY <1>6, <1>7, <1>8, <1>9, ShapeAssumption DEF ShapeInv, AgreeAll

LEMMA SetTopologyKeeps ==
    ASSUME ShapeInv, NEW d \in Member, SetTopology(d)
    PROVE  ShapeInv'
<1>1. GoodMap(d, peers[d]) /\ peers = [peers EXCEPT ![d] = peers[d]]
  BY DEF ShapeInv, GoodNet
<1>2. /\ Reevaluate(After, d, sticky[d], peers[d], wire) /\ failures' = failures
      /\ GoodNet(peers) /\ GoodWire(wire) /\ timeouts \in 0..MaxTimeouts
  BY DEF SetTopology, ShapeInv
<1> QED
  BY <1>1, <1>2, ReevaluateKeeps DEF ShapeInv

LEMMA ActivateKeeps ==
    ASSUME ShapeInv, NEW d \in Member, NEW p \in Member \ {d}, Activate(d, p)
    PROVE  ShapeInv'
<1> DEFINE ps == [peers[d] EXCEPT ![p].status = "active"]
<1>1. /\ Reevaluate(topo[d], d, sticky[d], ps, wire) /\ failures' = failures
      /\ GoodNet(peers) /\ GoodWire(wire) /\ timeouts \in 0..MaxTimeouts
      /\ p \in DOMAIN peers[d] /\ peers[d][p].status = "pending"
  BY DEF Activate, ShapeInv, Holds
<1>2. GoodMap(d, peers[d])
  BY <1>1 DEF GoodNet
<1>3. GoodEntry([peers[d][p] EXCEPT !.status = "active"])
  BY <1>1, <1>2 DEF GoodMap, GoodEntry, Entry
<1>4. /\ DOMAIN ps = DOMAIN peers[d] /\ ps[p] = [peers[d][p] EXCEPT !.status = "active"]
      /\ \A q \in DOMAIN peers[d] \ {p} : ps[q] = peers[d][q]
  BY <1>1
<1>5. GoodMap(d, ps)
  BY <1>2, <1>3, <1>4 DEF GoodMap
<1>6. \A q \in DOMAIN ps : /\ ps[q].sess = peers[d][q].sess /\ ps[q].ls = peers[d][q].ls
                           /\ ps[q].rs = peers[d][q].rs
  BY <1>1, <1>2, <1>4 DEF GoodMap, GoodEntry, Entry
<1> HIDE DEF ps
<1>7. AgreeAll(peers, wire) => AgreeAll([peers EXCEPT ![d] = ps], wire)
  BY <1>1, <1>4, <1>6 DEF AgreeAll, Agree, Up, GoodNet
<1> QED
  BY <1>1, <1>5, <1>7, ReevaluateKeeps DEF ShapeInv

LEMMA OnShelveKeeps ==
    ASSUME ShapeInv, NEW d \in Member, NEW p \in Member \ {d}, OnShelve(d, p)
    PROVE  ShapeInv'
<1> DEFINE q == wire[<<p, d>>]
           new == [peers[d][p] EXCEPT !.rs = Head(q)]
<1>1. /\ GoodNet(peers) /\ GoodWire(wire) /\ q # <<>>
      /\ p \in DOMAIN peers[d] /\ peers[d][p].sess
      /\ peers' = [peers EXCEPT ![d][p].rs = Head(q)]
      /\ wire' = [wire EXCEPT ![<<p, d>>] = Tail(q)]
      /\ timeouts' = timeouts /\ failures' = failures
  BY DEF OnShelve, ShapeInv, Holds
<1>2. <<p, d>> \in Pair /\ <<d, p>> \in Pair /\ q \in Seq(BOOLEAN)
  BY <1>1 DEF Pair, GoodWire
<1>3. /\ Head(q) \in BOOLEAN /\ Tail(q) \in Seq(BOOLEAN)
      /\ Tail(q) = <<>> => Newest(q) = Head(q)
      /\ Tail(q) # <<>> => Newest(Tail(q)) = Newest(q)
  BY ZenonT(60), <1>1, <1>2, QueueEnds
<1>4. GoodMap(d, peers[d]) /\ GoodEntry(peers[d][p])
  BY <1>1 DEF GoodNet, GoodMap
<1>5. GoodEntry(new) /\ new.sess = peers[d][p].sess /\ new.ls = peers[d][p].ls /\ new.rs = Head(q)
  BY <1>3, <1>4 DEF GoodEntry, Entry
<1>6. /\ peers' = [peers EXCEPT ![d] = [peers[d] EXCEPT ![p] = new]]
  BY <1>1
<1> HIDE DEF new
<1>7. /\ DOMAIN peers'[d] = DOMAIN peers[d] /\ peers'[d][p] = new
      /\ \A e \in DOMAIN peers[d] \ {p} : peers'[d][e] = peers[d][e]
      /\ \A e \in Member \ {d} : peers'[e] = peers[e]
  BY <1>1, <1>6 DEF GoodNet
<1>8. GoodMap(d, [peers[d] EXCEPT ![p] = new])
  BY <1>1, <1>4, <1>5 DEF GoodMap
<1>9. GoodNet(peers')
  BY ZenonT(60), <1>1, <1>6, <1>8 DEF GoodNet
<1>10. /\ GoodWire(wire') /\ wire'[<<p, d>>] = Tail(q)
       /\ \A x \in Pair \ {<<p, d>>} : wire'[x] = wire[x]
  BY <1>1, <1>2, <1>3 DEF GoodWire
<1>11. ASSUME AgreeAll(peers, wire), NEW a \in Member, NEW b \in Member, a # b,
              Up(peers', a, b), Up(peers', b, a)
       PROVE  Agree(peers'[b][a], peers'[a][b], wire'[<<b, a>>])
  <2>1. Up(peers, a, b) /\ Up(peers, b, a)
    BY <1>1, <1>5, <1>7, <1>11 DEF Up
  <2>2. Agree(peers[b][a], peers[a][b], wire[<<b, a>>])
    BY <2>1, <1>11 DEF AgreeAll
  <2>3. peers'[b][a].ls = peers[b][a].ls
    BY <2>1, <1>5, <1>7 DEF Up
  <2>4. CASE a = d /\ b = p
    <3>1. peers[b][a].ls = Newest(q)
      BY <2>2, <2>4, <1>1 DEF Agree
    <3>2. peers'[a][b].rs = Head(q) /\ wire'[<<b, a>>] = Tail(q)
      BY <2>4, <1>5, <1>7, <1>10
    <3> QED
      BY ZenonT(60), <3>1, <3>2, <2>3, <1>3 DEF Agree
  <2>5. CASE ~(a = d /\ b = p)
    <3>1. <<b, a>> \in Pair /\ <<b, a>> # <<p, d>>
      BY <2>5, <1>11 DEF Pair
    <3>2. wire'[<<b, a>>] = wire[<<b, a>>]
      BY <3>1, <1>10
    <3>3. peers'[a][b].rs = peers[a][b].rs
      BY <2>1, <2>5, <1>7 DEF Up
    <3> QED
      BY <3>2, <3>3, <2>2, <2>3 DEF Agree
  <2> QED
    BY <2>4, <2>5
<1> QED
  BY ZenonT(60), <1>1, <1>9, <1>10, <1>11 DEF ShapeInv, AgreeAll

(* A link taken down at one end leaves nothing to agree on.                *)
LEMMA DownKeeps ==
    ASSUME GoodNet(peers), GoodWire(wire), NEW d \in Member, NEW ps, NEW w, GoodMap(d, ps),
           \A p \in DOMAIN ps : (Up(peers, d, p) /\ ps[p] = peers[d][p]) \/ ~ps[p].sess,
           \A p \in DOMAIN ps : ps[p].sess => /\ w[<<p, d>>] = wire[<<p, d>>]
                                              /\ w[<<d, p>>] = wire[<<d, p>>],
           \A x \in Pair : x[1] # d /\ x[2] # d => w[x] = wire[x]
    PROVE  AgreeAll(peers, wire) => AgreeAll([peers EXCEPT ![d] = ps], w)
<1> DEFINE P == [peers EXCEPT ![d] = ps]
<1> SUFFICES ASSUME AgreeAll(peers, wire), NEW a \in Member, NEW b \in Member, a # b,
                    Up(P, a, b), Up(P, b, a)
             PROVE  Agree(P[b][a], P[a][b], w[<<b, a>>])
  BY DEF AgreeAll
<1>1. P[d] = ps /\ \A e \in Member \ {d} : P[e] = peers[e]
  BY DEF GoodNet
<1> HIDE DEF P
<1>2. /\ Up(peers, a, b) /\ Up(peers, b, a)
      /\ P[b][a] = peers[b][a] /\ P[a][b] = peers[a][b]
  BY <1>1 DEF Up
<1>3. <<b, a>> \in Pair
  BY DEF Pair
<1>4. w[<<b, a>>] = wire[<<b, a>>]
  <2>1. CASE a # d /\ b # d
    BY <2>1, <1>3
  <2>2. CASE a = d
    BY ZenonT(60), <2>2, <1>1 DEF Up
  <2>3. CASE b = d
    BY ZenonT(60), <2>3, <1>1 DEF Up
  <2> QED
    BY <2>1, <2>2, <2>3
<1> QED
  BY <1>2, <1>4 DEF AgreeAll

LEMMA LinkLostKeeps ==
    ASSUME ShapeInv, NEW d \in Member, NEW p \in Member \ {d}, LinkLost(d, p)
    PROVE  ShapeInv'
<1> DEFINE ps == Without(peers[d], p)
           w == [wire EXCEPT ![<<p, d>>] = <<>>, ![<<d, p>>] = <<>>]
<1>1. /\ GoodNet(peers) /\ GoodWire(wire) /\ timeouts \in 0..MaxTimeouts
      /\ Reevaluate(topo[d], d, sticky[d], ps, w)
  BY DEF LinkLost, ShapeInv
<1>2. failures' \in 0..MaxFailures
  BY ShapeAssumption DEF LinkLost, ShapeInv
<1>3. GoodMap(d, ps) /\ \A q \in DOMAIN ps : q # p /\ q \in DOMAIN peers[d] /\ ps[q] = peers[d][q]
  BY <1>1 DEF GoodNet, GoodMap, Without
<1>4. GoodWire(w) /\ \A x \in Pair : x # <<p, d>> /\ x # <<d, p>> => w[x] = wire[x]
  <2>1. <<>> \in Seq(BOOLEAN)
    OBVIOUS
  <2> QED
    BY ZenonT(60), <2>1, <1>1 DEF GoodWire
<1> HIDE DEF ps, w
<1>5. AgreeAll(peers, wire) => AgreeAll([peers EXCEPT ![d] = ps], w)
  <2>1. \A q \in DOMAIN ps : (Up(peers, d, q) /\ ps[q] = peers[d][q]) \/ ~ps[q].sess
    BY <1>3 DEF Up
  <2>2. \A q \in DOMAIN ps : w[<<q, d>>] = wire[<<q, d>>] /\ w[<<d, q>>] = wire[<<d, q>>]
    <3> TAKE q \in DOMAIN ps
    <3>1. q # p /\ <<q, d>> \in Pair /\ <<d, q>> \in Pair
      BY <1>3 DEF GoodMap, Pair
    <3> QED
      BY <3>1, <1>4
  <2>3. \A x \in Pair : x[1] # d /\ x[2] # d => w[x] = wire[x]
    BY <1>4
  <2> QED
    BY <2>1, <2>2, <2>3, <1>1, <1>3, DownKeeps
<1> QED
  BY <1>1, <1>2, <1>3, <1>4, <1>5, ReevaluateKeeps DEF ShapeInv

LEMMA PruneKeeps ==
    ASSUME ShapeInv, NEW d \in Member, Prune(d)
    PROVE  ShapeInv'
<1> DEFINE out == {p \in DOMAIN peers[d] : Prunable(d, p)}
           ps == [p \in DOMAIN peers[d] |-> IF p \in out THEN Sighted ELSE peers[d][p]]
           w == [x \in Pair |-> IF x \in ({d} \X out) \cup (out \X {d}) THEN <<>> ELSE wire[x]]
<1>1. /\ GoodNet(peers) /\ GoodWire(wire) /\ timeouts \in 0..MaxTimeouts
      /\ Reevaluate(topo[d], d, sticky[d], ps, w) /\ failures' = failures
  BY DEF Prune, ShapeInv
<1> HIDE DEF out
<1>2. GoodMap(d, peers[d])
  BY <1>1 DEF GoodNet
<1>3. GoodMap(d, ps)
  BY <1>2, EntriesTyped DEF GoodMap
<1>4. GoodWire(w)
  <2>1. <<>> \in Seq(BOOLEAN)
    OBVIOUS
  <2> QED
    BY ZenonT(60), <2>1, <1>1 DEF GoodWire
<1>5. \A p \in DOMAIN ps : (Up(peers, d, p) /\ ps[p] = peers[d][p]) \/ ~ps[p].sess
  BY DEF Up, Sighted
<1>6. \A p \in DOMAIN ps : ps[p].sess => p \notin out
  BY DEF Sighted
<1>7. \A p \in DOMAIN ps : ps[p].sess => w[<<p, d>>] = wire[<<p, d>>] /\ w[<<d, p>>] = wire[<<d, p>>]
  <2> SUFFICES ASSUME NEW p \in DOMAIN ps, ps[p].sess
               PROVE  w[<<p, d>>] = wire[<<p, d>>] /\ w[<<d, p>>] = wire[<<d, p>>]
    OBVIOUS
  <2>1. p # d /\ p \notin out /\ <<p, d>> \in Pair /\ <<d, p>> \in Pair
    BY <1>2, <1>6 DEF GoodMap, Pair
  <2> QED
    BY <2>1
<1>8. \A x \in Pair : x[1] # d /\ x[2] # d => w[x] = wire[x]
  OBVIOUS
<1> HIDE DEF ps, w
<1>9. AgreeAll(peers, wire) => AgreeAll([peers EXCEPT ![d] = ps], w)
  BY <1>1, <1>3, <1>5, <1>7, <1>8, DownKeeps
<1> QED
  BY <1>1, <1>3, <1>4, <1>9, ReevaluateKeeps DEF ShapeInv

LEMMA OnAnnounceKeeps ==
    ASSUME ShapeInv, NEW d \in Member, NEW p \in Member \ {d}, OnAnnounce(d, p)
    PROVE  ShapeInv'
<1>1. GoodNet(peers) /\ GoodWire(wire) /\ timeouts' = timeouts /\ failures' = failures
  BY DEF OnAnnounce, ShapeInv
<1>2. CASE ensure_peer_session(d, p)
  BY <1>1, <1>2, DialKeeps DEF ShapeInv
<1>3. CASE peers' = [peers EXCEPT ![d] = With(@, p, Sighted)] /\ wire' = wire
  <2> DEFINE ps == With(peers[d], p, Sighted)
  <2>1. GoodMap(d, ps)
    BY <1>1, EntriesTyped DEF GoodNet, GoodMap, With
  <2>2. peers' = [peers EXCEPT ![d] = ps]
    BY <1>3
  <2>3. GoodNet(peers')
    BY <1>1, <2>1, <2>2 DEF GoodNet
  <2>4. \A q \in DOMAIN ps : (Up(peers, d, q) /\ ps[q] = peers[d][q]) \/ ~ps[q].sess
    BY DEF With, Up, Sighted
  <2> HIDE DEF ps
  <2>5. AgreeAll(peers, wire) => AgreeAll([peers EXCEPT ![d] = ps], wire)
    BY ZenonT(60), <1>1, <2>1, <2>4, DownKeeps
  <2> QED
    BY ZenonT(60), <1>1, <1>3, <2>2, <2>3, <2>5 DEF ShapeInv
<1> QED
  BY <1>2, <1>3 DEF OnAnnounce

(* Every step of the devices keeps the invariant.                          *)
LEMMA ShapeInductive == ShapeInv /\ [ShapeNext]_shapeVars => ShapeInv'
<1> SUFFICES ASSUME ShapeInv, [ShapeNext]_shapeVars PROVE ShapeInv'
  OBVIOUS
<1>1. CASE UNCHANGED shapeVars
  BY <1>1 DEF shapeVars, ShapeInv
<1>2. ASSUME NEW d \in Member, SetTopology(d) PROVE ShapeInv'
  BY <1>2, SetTopologyKeeps
<1>3. ASSUME NEW d \in Member, Prune(d) PROVE ShapeInv'
  BY <1>3, PruneKeeps
<1>4. ASSUME NEW d \in Member, NEW p \in Member \ {d},
             \/ Activate(d, p) \/ OnShelve(d, p) \/ LinkLost(d, p) \/ OnAnnounce(d, p)
      PROVE  ShapeInv'
  BY <1>4, ActivateKeeps, OnShelveKeeps, LinkLostKeeps, OnAnnounceKeeps
<1>5. ASSUME NEW d \in Member, NEW p \in Member \ {d}, Pin(d, p) \/ Retry(d, p) \/ ShapeDial(d, p)
      PROVE  ShapeInv'
  <2>1. ensure_peer_session(d, p) /\ timeouts' = timeouts /\ failures' = failures
    BY <1>5 DEF Pin, Retry, ShapeDial
  <2> QED
    BY <2>1, DialKeeps DEF ShapeInv
<1>6. ASSUME NEW d \in Member, NEW p \in Member \ {d}, Expire(d, p) PROVE ShapeInv'
  BY <1>6 DEF Expire, ShapeInv
<1> QED
  BY <1>1, <1>2, <1>3, <1>4, <1>5, <1>6 DEF ShapeNext

(* ShapingFits, for every network, every pair of modes and whatever the    *)
(* selectors return: the maps fit, and as long as no control send has      *)
(* timed out each end's belief of the other is, once the frames in flight  *)
(* have landed, what the other decided (ladder.rs).                        *)
THEOREM ShelvingAlwaysAgrees == ShapeSpec => [](ShapeTypeOK /\ (timeouts = 0 => ShapingFits))
<1>1. ShapeInv => ShapeTypeOK /\ (timeouts = 0 => ShapingFits)
  <2> SUFFICES ASSUME ShapeInv PROVE ShapeTypeOK /\ (timeouts = 0 => ShelvingAgrees)
    BY DEF ShapingFits
  <2>1. ShapeTypeOK
    BY DEF ShapeInv, ShapeTypeOK, GoodNet, GoodMap, GoodEntry
  <2> QED
    BY <2>1, AgreeIsShelvingAgrees DEF ShapeInv
<1> QED
  BY <1>1, ShapeInitOK, ShapeInductive, PTL DEF ShapeSpec

(***************************************************************************)
(* Routing                                                                 *)
(***************************************************************************)
Ids == {f.id : f \in Sends}
FrameRec ==
    [id : Ids, kind : {"directed", "broadcast", "relayed", "relayAll"}, org : Router, dst : Router]
FrameIds(S) == {f.id : f \in {g \in S : Frame(g)}}

(* No ring ever overflows: a script floods no more frames than it holds,   *)
(* so that a list without repetition of their ids fits.                    *)
RingHolds ==
    \A S \in Scripts : \A q \in Seq(FrameIds(S)) : IsInjective(q) => Len(q) <= SeenCap

Saw(sn, d, id) == id \in Range(sn[d])
Nobody(sn, id) == \A d \in Router : ~Saw(sn, d, id)

(* A ring holds ids of frames that were sent, each once.                   *)
GoodRing(q, S, td) ==
    /\ q \in Seq(Ids)
    /\ IsInjective(q)
    /\ \A id \in Range(q) : \E f \in S \ td : Frame(f) /\ f.id = id
GoodSeen(sn, S, td) ==
    /\ sn = [d \in Router |-> sn[d]]
    /\ \A d \in Router : GoodRing(sn[d], S, td)

(* What was delivered of f at d: nothing, or the frame once, under its     *)
(* origin's name.  Either d's ring has it or f never entered a ring: it    *)
(* went straight.                                                          *)
GoodDelivery(g, f, d, sn, S, td) ==
    \/ g[<<d, f.id>>] = <<>>
    \/ /\ g[<<d, f.id>>] = <<f.org>>
       /\ d # f.org /\ (f.kind = "directed" => d = f.dst)
       /\ f \in S \ td
       /\ Saw(sn, d, f.id) \/ Nobody(sn, f.id)
GoodGot(g, sn, S, td) ==
    /\ g = [x \in Router \X Ids |-> g[x]]
    /\ \A f \in Sends : Frame(f) => \A d \in Router : GoodDelivery(g, f, d, sn, S, td)

(* An envelope under the wrapper was entered in its origin's ring; a frame *)
(* on its way straight to its destination was entered in none, and has not *)
(* arrived; what a relay forwards is not an application frame.             *)
GoodRouted(e, sn, S, td) ==
    /\ e.frame \in S \ td /\ Frame(e.frame)
    /\ e.src = e.frame.org
    /\ Saw(sn, e.frame.org, e.frame.id)
GoodStraight(e, sn, g, S, td) ==
    /\ e.frame \in S \ td /\ e.frame.kind = "directed"
    /\ e.frame.dst # e.frame.org
    /\ e = [from |-> e.frame.org, to |-> e.frame.dst, frame |-> e.frame,
            ttl |-> -1, src |-> e.frame.org]
    /\ Nobody(sn, e.frame.id)
    /\ g[<<e.frame.dst, e.frame.id>>] = <<>>
GoodService(e) == \E f \in Sends : ~Frame(f) /\ f.id = e.frame.id
GoodEnvelope(e, sn, g, S, td) ==
    /\ e.frame \in FrameRec /\ e.ttl \in Int
    /\ Wrapped(e) => GoodRouted(e, sn, S, td)
    /\ ~Wrapped(e) => IF Frame(e.frame) THEN GoodStraight(e, sn, g, S, td) ELSE GoodService(e)

RouteInv(S) ==
    /\ todo \subseteq S
    /\ GoodSeen(seen, S, todo)
    /\ GoodGot(got, seen, S, todo)
    /\ \A e \in air : GoodEnvelope(e, seen, got, S, todo)
RoutingInv == \E S \in Scripts : RouteInv(S)

(* Ids name frames.                                                        *)
LEMMA FramesTyped ==
    /\ Sends \subseteq FrameRec
    /\ \A f, g \in Sends : f.id = g.id => f = g
    /\ \A S \in Scripts : S \subseteq Sends
BY RoutingAssumption DEF FrameRec, Ids, Sends

LEMMA BudgetIsNat == ASSUME NEW m PROVE flood_ttl(m) \in Nat
BY DEF flood_ttl

(* A frame its sender has entered into its ring travels in an envelope of  *)
(* any number of hops.                                                     *)
LEMMA RoutedEnvelope ==
    ASSUME NEW d, NEW p, NEW t \in Nat, NEW sn, NEW g, NEW S, NEW td,
           NEW f \in FrameRec, f \in S \ td, Frame(f), Saw(sn, f.org, f.id)
    PROVE  GoodEnvelope(Envelope(d, p, f, t, f.org), sn, g, S, td)
<1> DEFINE e == Envelope(d, p, f, t, f.org)
<1>1. e.frame = f /\ e.src = f.org /\ e.ttl = t
  BY DEF Envelope
<1> HIDE DEF e
<1>2. Wrapped(e) /\ e.ttl \in Int
  BY <1>1 DEF Wrapped
<1>3. GoodRouted(e, sn, S, td)
  BY <1>1 DEF GoodRouted
<1>4. GoodEnvelope(e, sn, g, S, td)
  BY ZenonT(60), <1>1, <1>2, <1>3 DEF GoodEnvelope
<1> QED
  BY <1>4 DEF e

(* Entering a fresh id into a ring that has room: nothing is forgotten.    *)
LEMMA RingTakes ==
    ASSUME RingHolds, NEW S \in Scripts, NEW td, NEW td2, NEW q, GoodRing(q, S, td),
           td2 \subseteq td,
           NEW f \in S \ td2, Frame(f), f.id \notin Range(q)
    PROVE  /\ GoodRing(SeenPut(q, f.id), S, td2)
           /\ Range(SeenPut(q, f.id)) = Range(q) \cup {f.id}
<1> DEFINE s == Append(q, f.id)
           n == Len(q)
<1>1. f.id \in Ids /\ q \in Seq(Ids) /\ n \in Nat /\ IsInjective(q)
  BY FramesTyped DEF GoodRing, Ids
<1>2. /\ s \in Seq(Ids) /\ Len(s) = n + 1 /\ s[n + 1] = f.id
      /\ \A i \in 1..n : s[i] = q[i]
  BY <1>1
<1>3. DOMAIN q = 1..n /\ DOMAIN s = 1..(n + 1)
  BY <1>1, <1>2
<1> HIDE DEF s
<1>4. Range(s) = Range(q) \cup {f.id}
  <2>1. ASSUME NEW y \in Range(s) PROVE y \in Range(q) \cup {f.id}
    <3>1. PICK i \in 1..(n + 1) : y = s[i]
      BY <1>3, <2>1 DEF Range
    <3>2. CASE i = n + 1
      BY <3>1, <3>2, <1>2
    <3>3. CASE i \in 1..n
      BY <3>1, <3>3, <1>2, <1>3 DEF Range
    <3> QED
      BY <3>2, <3>3, <1>1
  <2>2. ASSUME NEW y \in Range(q) PROVE y \in Range(s)
    <3>1. PICK i \in 1..n : y = q[i]
      BY <1>3, <2>2 DEF Range
    <3>2. i \in 1..(n + 1) /\ y = s[i]
      BY <3>1, <1>1, <1>2
    <3> QED
      BY <3>2, <1>3 DEF Range
  <2>3. f.id \in Range(s)
    <3>1. n + 1 \in DOMAIN s
      BY <1>1, <1>3
    <3> QED
      BY <3>1, <1>2 DEF Range
  <2> QED
    BY <2>1, <2>2, <2>3
<1>5. IsInjective(s)
  <2> SUFFICES ASSUME NEW a \in 1..(n + 1), NEW b \in 1..(n + 1), s[a] = s[b]
               PROVE  a = b
    BY <1>3 DEF IsInjective
  <2>1. CASE a \in 1..n /\ b \in 1..n
    BY <2>1, <1>1, <1>2, <1>3 DEF IsInjective
  <2>2. ASSUME NEW i \in 1..n PROVE s[i] # f.id
    BY <2>2, <1>2, <1>3 DEF Range
  <2>3. CASE a = n + 1
    BY <2>2, <2>3, <1>1, <1>2
  <2>4. CASE b = n + 1
    BY <2>2, <2>4, <1>1, <1>2
  <2> QED
    BY <2>1, <2>3, <2>4, <1>1
<1>6. \A id \in Range(s) : \E h \in S \ td2 : Frame(h) /\ h.id = id
  BY <1>4 DEF GoodRing
<1>7. Len(s) <= SeenCap
  <2>1. \A i \in 1..(n + 1) : s[i] \in FrameIds(S)
    BY <1>3, <1>6 DEF Range, FrameIds
  <2>2. s \in Seq(FrameIds(S))
    BY <1>2, <2>1
  <2> QED
    BY <2>2, <1>5 DEF RingHolds
<1>8. SeenPut(q, f.id) = s
  BY <1>1, <1>2, <1>7, RoutingAssumption DEF SeenPut, s
<1> QED
  BY <1>2, <1>4, <1>5, <1>6, <1>8 DEF GoodRing

(* Sending only takes frames out of todo.                                  *)
LEMMA TodoShrinks ==
    ASSUME NEW S, NEW td, NEW td2, td2 \subseteq td, NEW sn, NEW g
    PROVE  /\ GoodSeen(sn, S, td) => GoodSeen(sn, S, td2)
           /\ GoodGot(g, sn, S, td) => GoodGot(g, sn, S, td2)
           /\ \A e : GoodEnvelope(e, sn, g, S, td) => GoodEnvelope(e, sn, g, S, td2)
<1>1. S \ td \subseteq S \ td2
  OBVIOUS
<1>2. GoodSeen(sn, S, td) => GoodSeen(sn, S, td2)
  BY <1>1 DEF GoodSeen, GoodRing
<1>3. GoodGot(g, sn, S, td) => GoodGot(g, sn, S, td2)
  BY ZenonT(60), <1>1 DEF GoodGot, GoodDelivery
<1>4. ASSUME NEW e, GoodEnvelope(e, sn, g, S, td) PROVE GoodEnvelope(e, sn, g, S, td2)
  BY <1>1, <1>4 DEF GoodEnvelope, GoodRouted, GoodStraight
<1> QED
  BY <1>2, <1>3, <1>4

(* A frame that was not sent is in no ring, was delivered nowhere and is   *)
(* on no link.                                                             *)
LEMMA Unsent ==
    ASSUME NEW S \in Scripts, NEW td \in SUBSET S, NEW sn, NEW g, NEW f \in td, Frame(f),
           GoodSeen(sn, S, td), GoodGot(g, sn, S, td)
    PROVE  Nobody(sn, f.id) /\ \A d \in Router : g[<<d, f.id>>] = <<>>
<1>1. f \in Sends
  BY FramesTyped
<1>2. ASSUME NEW d \in Router, Saw(sn, d, f.id) PROVE FALSE
  <2>1. PICK h \in S \ td : h.id = f.id
    BY <1>2 DEF Saw, GoodSeen, GoodRing
  <2> QED
    BY <2>1, <1>1, FramesTyped
<1>3. \A d \in Router : g[<<d, f.id>>] = <<>>
  BY ZenonT(60), <1>1 DEF GoodGot, GoodDelivery
<1> QED
  BY <1>2, <1>3 DEF Nobody

(* An id enters a ring: at its origin when the frame is sent, elsewhere    *)
(* after it entered the origin's.  No delivery and no envelope minds.      *)
LEMMA Entering ==
    ASSUME RingHolds, NEW S \in Scripts, NEW td, NEW td2, td2 \subseteq td,
           NEW sn, NEW g, NEW x \in Router, NEW h \in S \ td2, Frame(h),
           GoodSeen(sn, S, td), GoodGot(g, sn, S, td),
           ~Saw(sn, x, h.id), h \in td \/ ~Nobody(sn, h.id)
    PROVE  LET sn2 == [sn EXCEPT ![x] = SeenPut(sn[x], h.id)]
           IN  /\ GoodSeen(sn2, S, td2) /\ Saw(sn2, x, h.id)
               /\ \A d \in Router, id \in Ids : Saw(sn, d, id) => Saw(sn2, d, id)
               /\ GoodGot(g, sn2, S, td2)
               /\ \A e : GoodEnvelope(e, sn, g, S, td) => GoodEnvelope(e, sn2, g, S, td2)
<1> DEFINE sn2 == [sn EXCEPT ![x] = SeenPut(sn[x], h.id)]
<1>1. /\ GoodRing(SeenPut(sn[x], h.id), S, td2)
      /\ Range(SeenPut(sn[x], h.id)) = Range(sn[x]) \cup {h.id}
  BY RingTakes DEF GoodSeen, Saw
<1>2. GoodSeen(sn, S, td2) /\ GoodGot(g, sn, S, td2)
  BY TodoShrinks
<1>3. sn2[x] = SeenPut(sn[x], h.id) /\ \A d \in Router \ {x} : sn2[d] = sn[d]
  BY DEF GoodSeen
<1>4. GoodSeen(sn2, S, td2)
  BY <1>1, <1>2 DEF GoodSeen
<1> HIDE DEF sn2
<1>5. \A d \in Router : \A id : Saw(sn2, d, id) <=> Saw(sn, d, id) \/ (d = x /\ id = h.id)
  BY <1>1, <1>3 DEF Saw
<1>6. h \in Sends /\ h.id \in Ids
  BY FramesTyped DEF Ids
<1>7. \A id : Nobody(sn, id) /\ id # h.id => Nobody(sn2, id)
  BY <1>5 DEF Nobody
<1>8. GoodGot(g, sn2, S, td2)
  <2>1. ASSUME NEW f \in Sends, Frame(f), NEW d \in Router
        PROVE  GoodDelivery(g, f, d, sn2, S, td2)
    <3>1. GoodDelivery(g, f, d, sn, S, td)
      BY <2>1 DEF GoodGot
    <3>2. CASE f = h
      BY <3>1, <3>2, <1>5 DEF GoodDelivery
    <3>3. CASE f # h
      <4>1. f.id # h.id
        BY <3>3, <1>6, FramesTyped
      <4> QED
        BY <3>1, <4>1, <1>5, <1>7 DEF GoodDelivery
    <3> QED
      BY <3>2, <3>3
  <2> QED
    BY <2>1 DEF GoodGot
<1>9. ASSUME NEW e, GoodEnvelope(e, sn, g, S, td) PROVE GoodEnvelope(e, sn2, g, S, td2)
  <2>1. CASE Wrapped(e)
    <3>1. GoodRouted(e, sn, S, td) /\ e.frame.org \in Router
      BY <2>1, <1>9 DEF GoodEnvelope, FrameRec
    <3>2. GoodRouted(e, sn2, S, td2)
      BY <3>1, <1>5 DEF GoodRouted
    <3> QED
      BY <3>2, <2>1, <1>9 DEF GoodEnvelope
  <2>2. CASE ~Wrapped(e) /\ Frame(e.frame)
    <3>1. GoodStraight(e, sn, g, S, td)
      BY <2>2, <1>9 DEF GoodEnvelope
    <3>2. e.frame.id # h.id
      <4>1. SUFFICES ASSUME e.frame.id = h.id PROVE FALSE
        OBVIOUS
      <4>2. e.frame = h
        BY <4>1, <3>1, <1>6, FramesTyped DEF GoodStraight
      <4> QED
        BY <4>2, <3>1 DEF GoodStraight
    <3>3. GoodStraight(e, sn2, g, S, td2)
      BY <3>1, <3>2, <1>7 DEF GoodStraight
    <3> QED
      BY <3>3, <2>2, <1>9 DEF GoodEnvelope
  <2>3. CASE ~Wrapped(e) /\ ~Frame(e.frame)
    BY <2>3, <1>9 DEF GoodEnvelope
  <2> QED
    BY <2>1, <2>2, <2>3
<1>10. Saw(sn2, x, h.id) /\ \A d \in Router, id \in Ids : Saw(sn, d, id) => Saw(sn2, d, id)
  BY <1>5
<1> QED
  BY ZenonT(60), <1>4, <1>8, <1>9, <1>10 DEF sn2

(* A delivery of one frame at one place leaves the others alone.           *)
LEMMA Handing ==
    ASSUME NEW S \in Scripts, NEW td, NEW sn, NEW g, GoodGot(g, sn, S, td),
           NEW f \in S \ td, Frame(f), NEW d \in Router, g[<<d, f.id>>] = <<>>,
           d # f.org, f.kind = "directed" => d = f.dst,
           Saw(sn, d, f.id) \/ Nobody(sn, f.id)
    PROVE  LET g2 == [g EXCEPT ![<<d, f.id>>] = IF Len(@) < 2 THEN Append(@, f.org) ELSE @]
           IN  /\ GoodGot(g2, sn, S, td)
               /\ \A e : /\ GoodEnvelope(e, sn, g, S, td)
                         /\ Wrapped(e) \/ ~Frame(e.frame) \/ e.frame # f
                         => GoodEnvelope(e, sn, g2, S, td)
<1> DEFINE g2 == [g EXCEPT ![<<d, f.id>>] = IF Len(@) < 2 THEN Append(@, f.org) ELSE @]
<1>1. f \in Sends /\ f.id \in Ids /\ f.org \in Router
  BY FramesTyped DEF Ids, FrameRec
<1>2. Append(<<>>, f.org) = <<f.org>> /\ Len(<<>>) < 2
  OBVIOUS
<1>3. /\ g2 = [x \in Router \X Ids |-> g2[x]]
      /\ g2[<<d, f.id>>] = <<f.org>>
      /\ \A x \in Router \X Ids : x # <<d, f.id>> => g2[x] = g[x]
  BY ZenonT(60), <1>1, <1>2 DEF GoodGot
<1> HIDE DEF g2
<1>4. ASSUME NEW h \in Sends, Frame(h), NEW a \in Router PROVE GoodDelivery(g2, h, a, sn, S, td)
  <2>1. CASE h = f /\ a = d
    BY ZenonT(60), <2>1, <1>3 DEF GoodDelivery
  <2>2. CASE ~(h = f /\ a = d)
    <3>1. h.id \in Ids /\ <<a, h.id>> # <<d, f.id>>
      BY <2>2, <1>1, FramesTyped DEF Ids
    <3>2. g2[<<a, h.id>>] = g[<<a, h.id>>]
      BY <3>1, <1>3
    <3>3. GoodDelivery(g, h, a, sn, S, td)
      BY ZenonT(60), <1>4 DEF GoodGot
    <3> QED
      BY <3>2, <3>3 DEF GoodDelivery
  <2> QED
    BY <2>1, <2>2
<1>5. GoodGot(g2, sn, S, td)
  BY ZenonT(60), <1>3, <1>4 DEF GoodGot
<1>6. ASSUME NEW e, GoodEnvelope(e, sn, g, S, td), Wrapped(e) \/ ~Frame(e.frame) \/ e.frame # f
      PROVE  GoodEnvelope(e, sn, g2, S, td)
  <2>1. CASE Wrapped(e) \/ ~Frame(e.frame)
    BY <2>1, <1>6 DEF GoodEnvelope
  <2>2. CASE ~Wrapped(e) /\ Frame(e.frame)
    <3>1. GoodStraight(e, sn, g, S, td) /\ e.frame.dst \in Router /\ e.frame \in Sends
      BY <2>2, <1>6, FramesTyped DEF GoodEnvelope, GoodStraight, FrameRec
    <3>2. e.frame.id \in Ids /\ e.frame.id # f.id
      BY ZenonT(60), <2>2, <3>1, <1>1, <1>6, FramesTyped DEF Ids
    <3>3. g2[<<e.frame.dst, e.frame.id>>] = g[<<e.frame.dst, e.frame.id>>]
      BY <3>1, <3>2, <1>3
    <3>4. GoodStraight(e, sn, g2, S, td)
      BY <3>1, <3>3 DEF GoodStraight
    <3> QED
      BY <3>4, <2>2, <1>6 DEF GoodEnvelope
  <2> QED
    BY <2>1, <2>2
<1> QED
  BY ZenonT(60), <1>5, <1>6 DEF g2

(***************************************************************************)
(* The steps of a router                                                   *)
(***************************************************************************)
LEMMA RoutingInitOK == RoutingInit => RoutingInv
<1> SUFFICES ASSUME RoutingInit PROVE RouteInv(todo)
  BY DEF RoutingInit, RoutingInv
<1>1. /\ todo \in Scripts /\ air = {} /\ seen = [d \in Router |-> <<>>]
      /\ got = [x \in Router \X Ids |-> <<>>]
  BY DEF RoutingInit, Ids
<1>2. <<>> \in Seq(Ids) /\ Range(<<>>) = {} /\ IsInjective(<<>>)
  BY DEF Range, IsInjective
<1>3. GoodSeen(seen, todo, todo)
  BY <1>1, <1>2 DEF GoodSeen, GoodRing
<1>4. ASSUME NEW f \in Sends, NEW d \in Router PROVE got[<<d, f.id>>] = <<>>
  BY <1>1 DEF Ids
<1>5. GoodGot(got, seen, todo, todo)
  <2>1. got = [x \in Router \X Ids |-> got[x]]
    BY <1>1
  <2> QED
    BY ZenonT(60), <2>1, <1>4 DEF GoodGot, GoodDelivery
<1> QED
  BY <1>1, <1>3, <1>5 DEF RouteInv

LEMMA SendDirectedKeeps ==
    ASSUME RingHolds, NEW S \in Scripts, RouteInv(S), NEW f \in Sends, SendDirected(f)
    PROVE  RouteInv(S)'
<1> DEFINE d == f.org
<1>1. /\ f \in todo /\ f.kind = "directed" /\ todo' = todo \ {f} /\ got' = got
      /\ todo \in SUBSET S /\ GoodSeen(seen, S, todo) /\ GoodGot(got, seen, S, todo)
      /\ \A e \in air : GoodEnvelope(e, seen, got, S, todo)
  BY DEF SendDirected, RouteInv
<1>2. /\ f \in FrameRec /\ d \in Router /\ f.dst \in Router /\ Frame(f) /\ f \in S \ todo'
      /\ todo' \subseteq todo
  BY <1>1, FramesTyped DEF FrameRec, Frame
<1>3. Nobody(seen, f.id) /\ \A x \in Router : got[<<x, f.id>>] = <<>>
  <2>1. /\ f \in todo /\ Frame(f) /\ todo \in SUBSET S
        /\ GoodSeen(seen, S, todo) /\ GoodGot(got, seen, S, todo)
    BY <1>1, <1>2
  <2> HIDE DEF d
  <2> QED
    BY ZenonT(60), <2>1, Unsent
<1>4. /\ GoodSeen(seen, S, todo') /\ GoodGot(got, seen, S, todo')
      /\ \A e \in air : GoodEnvelope(e, seen, got, S, todo')
  BY <1>1, <1>2, TodoShrinks
<1>5. CASE f.dst \in Conn(d)
  <2> DEFINE n == [from |-> d, to |-> f.dst, frame |-> f, ttl |-> -1, src |-> d]
  <2>1. air' = air \cup {n} /\ seen' = seen
    BY <1>5 DEF SendDirected, Envelope
  <2>2. f.dst # d
    BY <1>5 DEF Conn
  <2>3. GoodEnvelope(n, seen, got, S, todo')
    <3>1. n.frame = f /\ n.ttl = -1 /\ n.ttl \in Int /\ ~Wrapped(n)
      BY DEF Wrapped
    <3>2. GoodStraight(n, seen, got, S, todo')
      BY ZenonT(60), <1>1, <1>2, <1>3, <2>2 DEF GoodStraight
    <3> HIDE DEF n
    <3> QED
      BY <3>1, <3>2, <1>2 DEF GoodEnvelope
  <2> HIDE DEF n
  <2> QED
    BY <1>1, <1>4, <2>1, <2>3 DEF RouteInv
<1>6. CASE seen' = seen /\ air' = air
  BY <1>1, <1>4, <1>6 DEF RouteInv
<1>7. ASSUME NEW h, seen' = [seen EXCEPT ![d] = SeenPut(@, f.id)],
             air' = air \cup {Envelope(d, h, f, flood_ttl(mode), d)}
      PROVE  RouteInv(S)'
  <2>1. ~Saw(seen, d, f.id)
    BY <1>2, <1>3 DEF Nobody
  <2>2. seen' = [seen EXCEPT ![d] = SeenPut(seen[d], f.id)]
    BY <1>7
  <2>3. /\ GoodSeen(seen', S, todo') /\ Saw(seen', d, f.id) /\ GoodGot(got, seen', S, todo')
        /\ \A e : GoodEnvelope(e, seen, got, S, todo) => GoodEnvelope(e, seen', got, S, todo')
    BY ZenonT(60), <1>1, <1>2, <2>1, <2>2, Entering
  <2>4. GoodEnvelope(Envelope(d, h, f, flood_ttl(mode), d), seen', got, S, todo')
    BY ZenonT(60), <1>2, <2>3, BudgetIsNat, RoutedEnvelope
  <2> QED
    BY ZenonT(60), <1>1, <1>7, <2>3, <2>4 DEF RouteInv
<1>8. \/ f.dst \in Conn(d)
      \/ seen' = seen /\ air' = air
      \/ \E h : /\ seen' = [seen EXCEPT ![d] = SeenPut(@, f.id)]
                /\ air' = air \cup {Envelope(d, h, f, flood_ttl(mode), d)}
  <2>1. SUFFICES ASSUME f.dst \notin Conn(d)
                 PROVE  \/ seen' = seen /\ air' = air
                        \/ \E h : /\ seen' = [seen EXCEPT ![d] = SeenPut(@, f.id)]
                                  /\ air' = air \cup {Envelope(d, h, f, flood_ttl(mode), d)}
    OBVIOUS
  <2>2. \E hops \in next_hops(mode, f.org, f.dst, Conn(f.org)) :
           IF hops = {}
           THEN refused' = refused \cup {f} /\ UNCHANGED <<air, seen>>
           ELSE /\ seen' = [seen EXCEPT ![f.org] = SeenPut(@, f.id)]
                /\ \E h \in hops :
                      air' = air \cup {Envelope(f.org, h, f, flood_ttl(mode), f.org)}
                /\ UNCHANGED refused
    BY <2>1 DEF SendDirected
  <2> QED
    BY <2>2
<1> QED
  BY <1>5, <1>6, <1>7, <1>8

LEMMA BroadcastKeeps ==
    ASSUME RingHolds, NEW S \in Scripts, RouteInv(S), NEW f \in Sends, Broadcast(f)
    PROVE  RouteInv(S)'
<1> DEFINE d == f.org
           targets == {p \in Conn(d) : Unshelved(d, p)}
<1>1. /\ f \in todo /\ f.kind = "broadcast" /\ todo' = todo \ {f} /\ got' = got
      /\ todo \in SUBSET S /\ GoodSeen(seen, S, todo) /\ GoodGot(got, seen, S, todo)
      /\ \A e \in air : GoodEnvelope(e, seen, got, S, todo)
      /\ seen' = [seen EXCEPT ![d] = SeenPut(seen[d], f.id)]
      /\ air' = air \cup {Envelope(d, p, f, flood_ttl(mode), d) : p \in targets}
  BY DEF Broadcast, RouteInv
<1>2. /\ f \in FrameRec /\ d \in Router /\ Frame(f) /\ f \in S \ todo' /\ todo' \subseteq todo
  BY <1>1, FramesTyped DEF FrameRec, Frame
<1>3. ~Saw(seen, d, f.id)
  BY ZenonT(60), <1>1, <1>2, Unsent DEF Nobody
<1>4. /\ GoodSeen(seen', S, todo') /\ Saw(seen', d, f.id) /\ GoodGot(got, seen', S, todo')
      /\ \A e : GoodEnvelope(e, seen, got, S, todo) => GoodEnvelope(e, seen', got, S, todo')
  BY ZenonT(60), <1>1, <1>2, <1>3, Entering
<1>5. ASSUME NEW p PROVE GoodEnvelope(Envelope(d, p, f, flood_ttl(mode), d), seen', got, S, todo')
  BY ZenonT(60), <1>2, <1>4, BudgetIsNat, RoutedEnvelope
<1> HIDE DEF targets
<1> QED
  BY ZenonT(60), <1>1, <1>4, <1>5 DEF RouteInv

LEMMA SendToRelayKeeps ==
    ASSUME NEW S \in Scripts, RouteInv(S), NEW f \in Sends, NEW r, SendToRelay(f, r)
    PROVE  RouteInv(S)'
<1> DEFINE n == [from |-> f.org, to |-> r, frame |-> f, ttl |-> -1, src |-> f.org]
<1>1. /\ f \in todo /\ ~Frame(f) /\ todo' = todo \ {f} /\ got' = got /\ seen' = seen
      /\ air' = air \cup {n} /\ todo' \subseteq todo
  BY DEF SendToRelay, Envelope, Frame
<1>2. /\ todo \subseteq S
      /\ GoodSeen(seen, S, todo') /\ GoodGot(got, seen, S, todo')
      /\ \A e \in air : GoodEnvelope(e, seen, got, S, todo')
  BY <1>1, TodoShrinks DEF RouteInv
<1>3. GoodEnvelope(n, seen, got, S, todo')
  BY <1>1, FramesTyped DEF GoodEnvelope, GoodService, Wrapped
<1> HIDE DEF n
<1> QED
  BY <1>1, <1>2, <1>3 DEF RouteInv

LEMMA LinkDownKeeps ==
    ASSUME NEW S, RouteInv(S), NEW l, LinkDown(l)
    PROVE  RouteInv(S)'
BY ZenonT(60) DEF LinkDown, RouteInv

LEMMA OnPlainKeeps ==
    ASSUME NEW S \in Scripts, RouteInv(S), NEW e \in air, OnPlain(e)
    PROVE  RouteInv(S)'
<1> DEFINE f == e.frame
<1>1. /\ ~Wrapped(e) /\ Frame(f) /\ air' = air \ {e} /\ got' = Delivered(e.to, f, e.from)
      /\ todo' = todo /\ seen' = seen /\ todo \subseteq S
      /\ GoodSeen(seen, S, todo) /\ GoodGot(got, seen, S, todo)
      /\ \A x \in air : GoodEnvelope(x, seen, got, S, todo)
  BY DEF OnPlain, RouteInv
<1>2. GoodStraight(e, seen, got, S, todo) /\ f.dst \in Router
  BY ZenonT(60), <1>1 DEF GoodEnvelope, FrameRec
<1>3. /\ e.to = f.dst /\ e.from = f.org /\ f \in S \ todo /\ got[<<f.dst, f.id>>] = <<>>
      /\ f.dst # f.org /\ Nobody(seen, f.id)
  BY <1>2 DEF GoodStraight
<1>4. got' = [got EXCEPT ![<<f.dst, f.id>>] = IF Len(@) < 2 THEN Append(@, f.org) ELSE @]
  BY <1>1, <1>3 DEF Delivered
<1>5. /\ GoodGot(got', seen, S, todo)
      /\ \A x : /\ GoodEnvelope(x, seen, got, S, todo)
                /\ Wrapped(x) \/ ~Frame(x.frame) \/ x.frame # f
                => GoodEnvelope(x, seen, got', S, todo)
  <2>1. /\ f \in S \ todo /\ Frame(f) /\ f.dst \in Router /\ f.dst # f.org
        /\ got[<<f.dst, f.id>>] = <<>>
        /\ (f.kind = "directed" => f.dst = f.dst) /\ GoodGot(got, seen, S, todo)
        /\ Saw(seen, f.dst, f.id) \/ Nobody(seen, f.id)
    BY ZenonT(60), <1>1, <1>2, <1>3
  <2> HIDE DEF f
  <2> QED
    BY ZenonT(60), <2>1, <1>4, Handing
<1>6. ASSUME NEW x \in air, x # e PROVE GoodEnvelope(x, seen, got', S, todo)
  <2>1. Wrapped(x) \/ ~Frame(x.frame) \/ x.frame # f
    <3>1. SUFFICES ASSUME ~Wrapped(x), Frame(x.frame), x.frame = f PROVE x = e
      BY <1>6
    <3>2. GoodStraight(x, seen, got, S, todo)
      BY <3>1, <1>1, <1>6 DEF GoodEnvelope
    <3> QED
      BY <3>1, <3>2, <1>2 DEF GoodStraight
  <2> QED
    BY <2>1, <1>1, <1>5, <1>6
<1> QED
  BY <1>1, <1>5, <1>6 DEF RouteInv

(* What a hop passes on keeps the frame and its source.                    *)
LEMMA OnwardKeeps ==
    ASSUME NEW S, NEW td, NEW sn, NEW g, NEW e, GoodEnvelope(e, sn, g, S, td), Wrapped(e),
           e.ttl > 0, NEW new \in Onward(e), NEW x \in new
    PROVE  GoodEnvelope(x, sn, g, S, td)
<1>1. PICK p : x = Envelope(e.to, p, e.frame, e.ttl - 1, e.src)
  BY DEF Onward
<1>2. x.frame = e.frame /\ x.src = e.src /\ x.ttl \in Int /\ Wrapped(x)
  BY <1>1 DEF Envelope, GoodEnvelope, Wrapped
<1> QED
  BY ZenonT(60), <1>2 DEF GoodEnvelope, GoodRouted

LEMMA OnRelayFrameKeeps ==
    ASSUME RingHolds, NEW S \in Scripts, RouteInv(S), NEW e \in air, OnRelayFrame(e)
    PROVE  RouteInv(S)'
<1> DEFINE f == e.frame
           me == e.to
<1>1. /\ Wrapped(e) /\ todo' = todo /\ todo \subseteq S
      /\ GoodSeen(seen, S, todo) /\ GoodGot(got, seen, S, todo)
      /\ \A x \in air : GoodEnvelope(x, seen, got, S, todo)
  BY ZenonT(60) DEF OnRelayFrame, RouteInv
<1>2. GoodRouted(e, seen, S, todo) /\ f \in FrameRec /\ f.org \in Router
  BY ZenonT(60), <1>1 DEF GoodEnvelope, FrameRec
<1>3. CASE air' = air \ {e} /\ seen' = seen /\ got' = got
  BY <1>1, <1>3 DEF RouteInv
<1>4. ASSUME FirstSighting(me, f.id),
             seen' = [seen EXCEPT ![me] = SeenPut(@, f.id)],
             got' = IF f.kind = "broadcast" \/ f.dst = me THEN Delivered(me, f, e.src) ELSE got
      PROVE  /\ GoodSeen(seen', S, todo) /\ GoodGot(got', seen', S, todo)
             /\ \A x \in air : GoodEnvelope(x, seen', got', S, todo)
  <2>1. CASE me \notin Router
    <3>1. seen' = seen
      BY <2>1, <1>1, <1>4 DEF GoodSeen
    <3>2. got' = got
      <4>1. <<me, f.id>> \notin Router \X Ids
        BY <2>1
      <4>2. Delivered(me, f, e.src) = got
        BY ZenonT(60), <4>1, <1>1 DEF GoodGot, Delivered
      <4> QED
        BY <4>2, <1>4
    <3> QED
      BY <3>1, <3>2, <1>1
  <2>2. CASE me \in Router
    <3>1. /\ ~Saw(seen, me, f.id) /\ Saw(seen, f.org, f.id) /\ e.src = f.org
          /\ f \in S \ todo /\ Frame(f) /\ me # f.org
      BY <1>2, <1>4 DEF FirstSighting, Saw, GoodRouted
    <3>2. ~Nobody(seen, f.id)
      BY <3>1, <1>2 DEF Nobody
    <3>3. seen' = [seen EXCEPT ![me] = SeenPut(seen[me], f.id)]
      BY <1>4
    <3>4. /\ GoodSeen(seen', S, todo) /\ Saw(seen', me, f.id) /\ GoodGot(got, seen', S, todo)
          /\ \A x : GoodEnvelope(x, seen, got, S, todo) => GoodEnvelope(x, seen', got, S, todo)
      <4>1. todo \subseteq todo
        OBVIOUS
      <4> QED
        BY ZenonT(60), <4>1, <2>2, <3>1, <3>2, <3>3, <1>1, Entering
    <3>5. CASE ~(f.kind = "broadcast" \/ f.dst = me)
      BY ZenonT(60), <3>4, <3>5, <1>1, <1>4
    <3>6. CASE f.kind = "broadcast" \/ f.dst = me
      <4>1. got[<<me, f.id>>] = <<>>
        <5>1. GoodDelivery(got, f, me, seen, S, todo)
          BY ZenonT(60), <2>2, <3>1, <1>1, FramesTyped DEF GoodGot
        <5> QED
          BY <5>1, <3>1, <3>2 DEF GoodDelivery
      <4>2. got' = [got EXCEPT ![<<me, f.id>>] = IF Len(@) < 2 THEN Append(@, f.org) ELSE @]
        BY ZenonT(60), <3>1, <3>6, <1>4 DEF Delivered
      <4>3. f.kind = "directed" => me = f.dst
        BY <3>6
      <4>4. /\ GoodGot(got', seen', S, todo)
            /\ \A x : /\ GoodEnvelope(x, seen', got, S, todo)
                      /\ Wrapped(x) \/ ~Frame(x.frame) \/ x.frame # f
                      => GoodEnvelope(x, seen', got', S, todo)
        BY ZenonT(60), <4>1, <4>2, <4>3, <2>2, <3>1, <3>4, Handing
      <4>5. ASSUME NEW x \in air PROVE GoodEnvelope(x, seen', got', S, todo)
        <5>1. Wrapped(x) \/ ~Frame(x.frame) \/ x.frame # f
          BY ZenonT(60), <3>2, <1>1 DEF GoodEnvelope, GoodStraight
        <5> QED
          BY <5>1, <4>4, <3>4, <1>1
      <4> QED
        BY <4>4, <4>5, <3>4
    <3> QED
      BY <3>5, <3>6
  <2> QED
    BY <2>1, <2>2
<1>5. ASSUME FirstSighting(me, f.id),
             seen' = [seen EXCEPT ![me] = SeenPut(@, f.id)],
             got' = IF f.kind = "broadcast" \/ f.dst = me THEN Delivered(me, f, e.src) ELSE got,
             \/ air' = air \ {e}
             \/ e.ttl > 0 /\ \E new \in Onward(e) : air' = (air \ {e}) \cup new
      PROVE  RouteInv(S)'
  <2>1. /\ GoodSeen(seen', S, todo) /\ GoodGot(got', seen', S, todo)
        /\ \A x \in air : GoodEnvelope(x, seen', got', S, todo)
    BY ZenonT(60), <1>4, <1>5
  <2>2. \A x \in air' : GoodEnvelope(x, seen', got', S, todo)
    BY ZenonT(60), <2>1, <1>1, <1>5, OnwardKeeps
  <2> QED
    BY <2>1, <2>2, <1>1 DEF RouteInv
<1>6. \/ air' = air \ {e} /\ seen' = seen /\ got' = got
      \/ /\ FirstSighting(me, f.id)
         /\ seen' = [seen EXCEPT ![me] = SeenPut(@, f.id)]
         /\ got' = IF f.kind = "broadcast" \/ f.dst = me THEN Delivered(me, f, e.src) ELSE got
         /\ \/ air' = air \ {e}
            \/ e.ttl > 0 /\ \E new \in Onward(e) : air' = (air \ {e}) \cup new
  BY ZenonT(60) DEF OnRelayFrame
<1> QED
  BY ZenonT(60), <1>3, <1>5, <1>6

LEMMA OnServiceFrameKeeps ==
    ASSUME NEW S \in Scripts, RouteInv(S), NEW e \in air, OnServiceFrame(e)
    PROVE  RouteInv(S)'
<1> DEFINE f == e.frame
           flat == [f EXCEPT !.kind = "relayAll"]
           fwd(p) == [from |-> e.to, to |-> p, frame |-> flat, ttl |-> -1, src |-> e.from]
<1>1. /\ ~Wrapped(e) /\ ~Frame(f) /\ todo' = todo /\ seen' = seen /\ todo \subseteq S
      /\ GoodSeen(seen, S, todo) /\ GoodGot(got, seen, S, todo)
      /\ \A x \in air : GoodEnvelope(x, seen, got, S, todo)
      /\ got' = Delivered(e.to, f, e.src)
  BY DEF OnServiceFrame, RouteInv
<1>2. f \in FrameRec /\ \E h \in Sends : ~Frame(h) /\ h.id = f.id
  BY <1>1 DEF GoodEnvelope, GoodService
<1>3. \A h \in Sends : Frame(h) => h.id # f.id
  BY <1>2, FramesTyped
<1>4. /\ got' = [x \in Router \X Ids |-> got'[x]]
      /\ \A x \in Router \X Ids : x[2] # f.id => got'[x] = got[x]
  <2> DEFINE k == <<e.to, f.id>>
             v == IF Len(got[k]) < 2 THEN Append(got[k], e.src) ELSE got[k]
  <2>1. got' = [got EXCEPT ![k] = v] /\ got = [x \in Router \X Ids |-> got[x]]
    BY <1>1 DEF Delivered, GoodGot
  <2>2. \A x \in Router \X Ids : x[2] # f.id => x # k
    OBVIOUS
  <2> HIDE DEF k, v
  <2> QED
    BY ZenonT(60), <2>1, <2>2
<1>5. \A h \in Sends : h.id \in Ids
  BY DEF Ids
<1>6. ASSUME NEW h \in Sends, Frame(h), NEW d \in Router PROVE got'[<<d, h.id>>] = got[<<d, h.id>>]
  BY <1>3, <1>4, <1>5, <1>6
<1>7. GoodGot(got', seen, S, todo)
  BY ZenonT(60), <1>1, <1>4, <1>6 DEF GoodGot, GoodDelivery
<1>8. ASSUME NEW x \in air PROVE GoodEnvelope(x, seen, got', S, todo)
  <2>1. CASE Wrapped(x) \/ ~Frame(x.frame)
    BY <2>1, <1>1 DEF GoodEnvelope
  <2>2. CASE ~Wrapped(x) /\ Frame(x.frame)
    <3>1. GoodStraight(x, seen, got, S, todo) /\ x.frame.dst \in Router /\ x.frame \in Sends
      BY <2>2, <1>1, FramesTyped DEF GoodEnvelope, GoodStraight, FrameRec
    <3>2. GoodStraight(x, seen, got', S, todo)
      BY <3>1, <2>2, <1>6 DEF GoodStraight
    <3> QED
      BY <3>2, <2>2, <1>1 DEF GoodEnvelope
  <2> QED
    BY <2>1, <2>2
<1>9. ASSUME NEW p PROVE GoodEnvelope(fwd(p), seen, got', S, todo)
  <2>1. flat \in FrameRec /\ flat.id = f.id /\ ~Frame(flat)
    BY <1>2 DEF FrameRec, Frame
  <2> HIDE DEF flat
  <2>2. fwd(p).frame = flat /\ fwd(p).ttl \in Int /\ ~Wrapped(fwd(p))
    BY DEF Wrapped
  <2> HIDE DEF fwd
  <2> QED
    BY ZenonT(60), <2>1, <2>2, <1>2 DEF GoodEnvelope, GoodService
<1>10. PICK out : air' = (air \ {e}) \cup {fwd(p) : p \in out}
  <2> DEFINE dst == IF f.kind = "relayed" THEN f.dst ELSE e.from
             to == IF e.to \in Relays THEN relay_targets(e.to, e.from, dst) ELSE {}
  <2>1. air' = (air \ {e}) \cup {[Envelope(e.to, p, flat, 0, e.from) EXCEPT !.ttl = -1] : p \in to}
    BY ZenonT(60) DEF OnServiceFrame
  <2>2. \A p : [Envelope(e.to, p, flat, 0, e.from) EXCEPT !.ttl = -1] = fwd(p)
    BY DEF Envelope
  <2> HIDE DEF to, fwd
  <2>3. air' = (air \ {e}) \cup {fwd(p) : p \in to}
    BY <2>1, <2>2
  <2> QED
    BY <2>3
<1> HIDE DEF fwd
<1> QED
  BY <1>1, <1>7, <1>8, <1>9, <1>10 DEF RouteInv

LEMMA RoutingInductive ==
    ASSUME RingHolds
    PROVE  RoutingInv /\ [RoutingNext]_routingVars => RoutingInv'
<1> SUFFICES ASSUME RoutingInv, [RoutingNext]_routingVars PROVE RoutingInv'
  OBVIOUS
<1>1. PICK S \in Scripts : RouteInv(S)
  BY DEF RoutingInv
<1>2. RouteInv(S)'
  <2>1. CASE UNCHANGED routingVars
    BY <2>1, <1>1 DEF routingVars, RouteInv
  <2>2. CASE Originate
    BY <2>2, <1>1, SendDirectedKeeps, BroadcastKeeps DEF Originate
  <2>3. CASE Receive
    BY <2>3, <1>1, OnPlainKeeps, OnRelayFrameKeeps, OnServiceFrameKeeps DEF Receive
  <2>4. ASSUME NEW f \in Sends, NEW r \in Router, SendToRelay(f, r) PROVE RouteInv(S)'
    BY <2>4, <1>1, SendToRelayKeeps
  <2>5. ASSUME NEW l \in links, LinkDown(l) PROVE RouteInv(S)'
    BY <2>5, <1>1, LinkDownKeeps
  <2> QED
    BY <2>1, <2>2, <2>3, <2>4, <2>5 DEF RoutingNext
<1> QED
  BY <1>2 DEF RoutingInv

(* RoutedOnce, for every shape, every set of links that go down and every  *)
(* script whose frames fit the ring of recent ids: a frame is handed to an *)
(* application at most once and under its origin's name, never back at its *)
(* origin, and a directed one only at its destination (routing.rs).        *)
THEOREM FramesRoutedOnce ==
    ASSUME RingHolds
    PROVE  RoutingSpec => []RoutedOnce
<1>1. RoutingInv => RoutedOnce
  <2> SUFFICES ASSUME NEW S \in Scripts, RouteInv(S), NEW f \in Sends, Frame(f), NEW d \in Router
               PROVE  /\ Len(got[<<d, f.id>>]) <= IF d = f.org THEN 0 ELSE 1
                      /\ Range(got[<<d, f.id>>]) \subseteq {f.org}
                      /\ f.kind = "directed" /\ d # f.dst => got[<<d, f.id>>] = <<>>
    BY DEF RoutingInv, RoutedOnce, DeliveredAtMostOnce, OriginIsShown
  <2>1. GoodDelivery(got, f, d, seen, S, todo)
    BY DEF RouteInv, GoodGot
  <2>2. Len(<<>>) = 0 /\ Range(<<>>) = {} /\ Len(<<f.org>>) = 1 /\ Range(<<f.org>>) = {f.org}
    BY DEF Range
  <2> QED
    BY <2>1, <2>2 DEF GoodDelivery
<1>2. RoutingInit => RoutingInv
  BY RoutingInitOK
<1>3. RoutingInv /\ [RoutingNext]_routingVars => RoutingInv'
  BY RoutingInductive
<1> QED
  BY <1>1, <1>2, <1>3, PTL DEF RoutingSpec
=============================================================================
