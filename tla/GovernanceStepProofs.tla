------------------------ MODULE GovernanceStepProofs ------------------------
(***************************************************************************)
(* What the steps of governance do to a member and to what travels, for    *)
(* every set of devices and members, every genesis log that verifies and   *)
(* every agenda.  GovernanceProofs draws the theorems from it.             *)
(*                                                                         *)
(* First the types of what travels, and the invariant about signers with   *)
(* what keeps it.  Then the logs: their latest entry, replay and quorum,   *)
(* and what a ratification, an adoption and the handlers do to a member.   *)
(* The heart is CoherentAppend: a transition ratified under the cached     *)
(* kind and roles is one that the replay of the longer log accepts, since  *)
(* the caches name the authorities that the replay names.                  *)
(***************************************************************************)
EXTENDS Governance, TLAPS

(* What a leaf is tried with, in this order, and for how many seconds.     *)
USE ZenonT(3), SMTT(25), ZenonT(40)

-----------------------------------------------------------------------------
(* What the steps need to know of finite sets: the latest of some entries, *)
(* and the member logs.  GovernanceProofs proves it.                       *)

LogFacts ==
    /\ \A i \in Nat : \A S \in SUBSET (1..i) : S # {} => Latest(S) \in S
    /\ \A M \in MemberLog : \A E \in SUBSET M :
          E # {} => Latest({e.at : e \in E}) \in Nat
    /\ {} \in MemberLog
    /\ \A M \in MemberLog : Cardinality(M) \in Nat
    /\ \A M \in MemberLog, t \in Transition : M \cup {t} \in MemberLog
    /\ \A M, N \in MemberLog : MergeMemberLogs(M, N) \in MemberLog

-----------------------------------------------------------------------------
(* Frames and channels.                                                    *)

(* What an empty member log, one entry more and a merge leave finite.      *)
LEMMA MemberLogs ==
    ASSUME LogFacts
    PROVE  /\ {} \in MemberLog
           /\ \A M \in MemberLog : Cardinality(M) \in Nat
           /\ \A M \in MemberLog, t \in Transition : M \cup {t} \in MemberLog
           /\ \A M, N \in MemberLog : MergeMemberLogs(M, N) \in MemberLog
PROOF
  BY ZenonT(30) DEF LogFacts

(* The frames the handlers build.                                          *)
LEMMA FramesBuilt ==
    ASSUME LogFacts
    PROVE  /\ \A p \in Proposal, at \in Nat : ProposeFrame(p, at) \in Frame
           /\ \A id \in Nat, sign \in BOOLEAN : AckFrame(id, sign) \in Frame
           /\ \A ros \in SUBSET Device : SummaryFrame(ros) \in Frame
           /\ RequestFrame \in Frame
           /\ \A L \in Seq(Transition), M \in MemberLog, ros \in SUBSET Device :
                 EntriesFrame(L, M, ros) \in Frame
           /\ \A L \in Seq(Transition), M \in MemberLog : DenyFrame(L, M) \in Frame
           /\ \A L \in Seq(Transition), M \in MemberLog, extra \in Nat,
                 ros \in SUBSET Device : StateFrame(L, M, extra, ros) \in Frame
PROOF
  <1>1. \A p \in Proposal, at \in Nat : ProposeFrame(p, at) \in Frame
    BY DEF Proposal, ProposeFrame, Frame
  <1>2. \A id \in Nat, sign \in BOOLEAN : AckFrame(id, sign) \in Frame
    BY DEF AckFrame, Frame
  <1>3. \A ros \in SUBSET Device : SummaryFrame(ros) \in Frame
    BY DEF SummaryFrame, Frame
  <1>4. RequestFrame \in Frame
    BY DEF RequestFrame, Frame
  <1>5. \A L \in Seq(Transition), M \in MemberLog, ros \in SUBSET Device :
           EntriesFrame(L, M, ros) \in Frame
    BY DEF EntriesFrame, Frame
  <1>6. \A L \in Seq(Transition), M \in MemberLog : DenyFrame(L, M) \in Frame
    BY DEF DenyFrame, Frame
  <1>7. ASSUME NEW L \in Seq(Transition), NEW M \in MemberLog, NEW extra \in Nat,
               NEW ros \in SUBSET Device
        PROVE  StateFrame(L, M, extra, ros) \in Frame
    <2>1. Len(L) \in Nat /\ Cardinality(M) + extra \in Nat
      BY MemberLogs
    <2> QED
      BY <2>1 DEF StateFrame, Frame
  <1> QED
    BY <1>1, <1>2, <1>3, <1>4, <1>5, <1>6, <1>7

(* The frames the handlers read.                                           *)
LEMMA FramesRead ==
    ASSUME NEW f \in Frame
    PROVE  /\ f.type = "propose" => f.id \in Nat /\ f.variant \in Variant /\ f.at \in Nat
           /\ f.type = "ack" => f.id \in Nat /\ f.sign \in BOOLEAN
           /\ f.type = "entries" => /\ f.log \in Seq(Transition)
                                    /\ f.mlog \in MemberLog
                                    /\ f.roster \in SUBSET Device
           /\ f.type = "deny" => f.log \in Seq(Transition) /\ f.mlog \in MemberLog
PROOF
  BY DEF Frame

(* Sending, broadcasting and cutting keep the channels' type.              *)
LEMMA ChannelOps ==
    ASSUME NEW c \in Channels, NEW n \in Node
    PROVE  /\ \A fs \in Seq(Frame) : Broadcast(c, n, fs) \in Channels
           /\ \A m \in Node, f \in Frame : Send(c, n, m, f) \in Channels
           /\ \A lost : Cut(c, n, lost) \in Channels
PROOF
  <1>1. \A x, y \in Node : c[x][y] \in Seq(Frame)
    BY DEF Channels
  <1>2. ASSUME NEW fs \in Seq(Frame) PROVE Broadcast(c, n, fs) \in Channels
    <2>1. \A m \in Node : c[n][m] \o fs \in Seq(Frame)
      BY <1>1
    <2>2. [m \in Node |-> IF Linked(n, m) THEN c[n][m] \o fs ELSE c[n][m]]
             \in [Node -> Seq(Frame)]
      BY <1>1, <2>1
    <2> QED
      BY <2>2 DEF Broadcast, Channels
  <1>3. ASSUME NEW m \in Node, NEW f \in Frame PROVE Send(c, n, m, f) \in Channels
    <2>1. Append(c[n][m], f) \in Seq(Frame)
      BY <1>1
    <2> QED
      BY <2>1 DEF Send, Channels
  <1>4. \A lost : Cut(c, n, lost) \in Channels
    BY <1>1 DEF Cut, Channels
  <1> QED
    BY <1>2, <1>3, <1>4

(* Taking a frame off its channel.                                         *)
LEMMA FrameTaken ==
    ASSUME TypeOK, NEW n \in Node, NEW m \in Node, NEW type, Arrives(n, m, type)
    PROVE  /\ Head(chan[m][n]) \in Frame /\ Head(chan[m][n]).type = type
           /\ Taken(n, m) \in Channels
PROOF
  <1>1. chan[m][n] \in Seq(Frame) /\ chan[m][n] # <<>>
    BY DEF TypeOK, WireOK, Channels, Arrives
  <1>2. Head(chan[m][n]) \in Frame /\ Tail(chan[m][n]) \in Seq(Frame)
    BY <1>1
  <1> QED
    BY <1>2 DEF Taken, TypeOK, WireOK, Channels, Arrives

(* What the variants carry.                                                *)
LEMMA VariantFields ==
    ASSUME NEW v \in Variant
    PROVE  /\ v.op \in {"close", "reopen", "grant", "revoke", "evict"}
           /\ v.op = "grant" => v.target \in Device /\ v.role \in Roles \ {"none"}
           /\ v.op \in {"revoke", "evict"} => v.target \in Device
PROOF
  BY DEF Variant

(* The roster ratification leaves is a set of devices.                     *)
LEMMA RatifiedRosterType ==
    ASSUME TypeOK, NEW n \in Node, NEW v \in Variant
    PROVE  RatifiedRoster(n, v) \in SUBSET Device
PROOF
  <1>1. roster[n] \in SUBSET Device /\ n \in Device
    BY GovernanceAssumption DEF TypeOK, StateOK
  <1> QED
    BY <1>1, VariantFields DEF RatifiedRoster

-----------------------------------------------------------------------------
(* Signers: the inductive invariant.                                       *)

Items(s) == {s[i] : i \in 1..Len(s)}

(* Entries or proposals whose signers have signed.                         *)
Genuine(es) == \A t \in es : \A d \in t.signers : <<d, t.variant>> \in endorsed

(* Somewhere, held or on its way, there is a proposal i of v.              *)
Claim(i, v) ==
    \/ \E n \in Node : \E p \in pending[n] : p.id = i /\ p.variant = v
    \/ \E m, n \in Node : \E f \in Items(chan[m][n]) :
          f.type = "propose" /\ f.id = i /\ f.variant = v

(* A frame of m says of m no more than is so.  A vote names a proposal by  *)
(* its id only, so it must fit every proposal of that id.                  *)
FrameFits(m, f) ==
    /\ f.type = "propose" => f.id <= proposals /\ <<m, f.variant>> \in endorsed
    /\ f.type = "ack" =>
          /\ f.id <= proposals
          /\ f.sign => \A v : Claim(f.id, v) => <<m, v>> \in endorsed
    /\ f.type \in {"entries", "deny"} => Genuine(Items(f.log)) /\ Genuine(f.mlog)

SignInv ==
    /\ \A n \in Node :
          Genuine(Items(log[n])) /\ Genuine(mlog[n]) /\ Genuine(pending[n])
    /\ \A n \in Node : \A p \in pending[n] : p.id <= proposals
    /\ \A m, n \in Node : \A f \in Items(chan[m][n]) : FrameFits(m, f)
    /\ \A i, v, w : Claim(i, v) /\ Claim(i, w) => v = w

(* A step that gives out at most the next id, and whose new frames fit.    *)
LEMMA SignKeeps ==
    ASSUME TypeOK, SignInv, NEW nv,
           endorsed \subseteq endorsed', proposals' \in {proposals, proposals + 1},
           \A n \in Node : /\ Genuine(Items(log[n]))' /\ Genuine(mlog[n])'
                           /\ Genuine(pending[n])',
           \A n \in Node : \A p \in pending'[n] : p.id <= proposals',
           \A m, n \in Node : \A f \in Items(chan'[m][n]) :
              f \in Items(chan[m][n]) \/ FrameFits(m, f)',
           \A i, v : Claim(i, v)' =>
              Claim(i, v) \/ (i = proposals + 1 /\ v = nv)
    PROVE  SignInv'
PROOF
  <1>1. proposals \in Nat /\ chan \in Channels /\ pending \in [Node -> SUBSET Proposal]
    BY DEF TypeOK, WireOK, HistoryOK
  <1>2. ASSUME NEW i, NEW v, Claim(i, v) PROVE i <= proposals
    <2>1. CASE \E n \in Node : \E p \in pending[n] : p.id = i /\ p.variant = v
      BY <2>1 DEF SignInv
    <2>2. CASE \E m, n \in Node : \E f \in Items(chan[m][n]) :
                  f.type = "propose" /\ f.id = i /\ f.variant = v
      <3>0. PICK m \in Node, n \in Node :
               \E f \in Items(chan[m][n]) : f.type = "propose" /\ f.id = i
        BY <2>2
      <3>1. PICK f \in Items(chan[m][n]) : f.type = "propose" /\ f.id = i
        BY <3>0
      <3>2. FrameFits(m, f)
        BY <3>1 DEF SignInv
      <3> QED
        BY <3>1, <3>2 DEF FrameFits
    <2> QED
      BY <1>2, <2>1, <2>2 DEF Claim
  <1>3. \A es : Genuine(es) => Genuine(es)'
    BY ZenonT(60) DEF Genuine
  <1>4. ASSUME NEW m \in Node, NEW n \in Node, NEW f \in Items(chan[m][n])
        PROVE  FrameFits(m, f)'
    <2>1. FrameFits(m, f)
      BY <1>4 DEF SignInv
    <2>2. f \in Frame
      BY <1>1 DEF Items, Channels
    <2>3. f.type = "propose" => f.id <= proposals' /\ <<m, f.variant>> \in endorsed'
      <3>1. f.type = "propose" => f.id \in Nat
        BY <2>2, FramesRead
      <3> QED
        BY <1>1, <2>1, <3>1 DEF FrameFits
    <2>4. f.type = "ack" => f.id \in Nat /\ f.id <= proposals /\ f.id <= proposals'
      <3>1. f.type = "ack" => f.id \in Nat
        BY <2>2, FramesRead
      <3> QED
        BY <1>1, <2>1, <3>1 DEF FrameFits
    <2>5. ASSUME f.type = "ack", f.sign, NEW v, Claim(f.id, v)'
          PROVE  <<m, v>> \in endorsed'
      <3>1. f.id # proposals + 1
        BY <1>1, <2>4, <2>5
      <3>2. Claim(f.id, v)
        BY <2>5, <3>1
      <3> QED
        BY <2>1, <2>5, <3>2 DEF FrameFits
    <2>6. f.type \in {"entries", "deny"} => Genuine(Items(f.log))' /\ Genuine(f.mlog)'
      BY <1>3, <2>1 DEF FrameFits, Genuine
    <2> QED
      BY <2>3, <2>4, <2>5, <2>6 DEF FrameFits
  <1>5. ASSUME NEW i, NEW v, NEW w, Claim(i, v)', Claim(i, w)'
        PROVE  v = w
    <2>1. CASE i = proposals + 1
      <3>1. ~Claim(i, v) /\ ~Claim(i, w)
        BY <1>1, <1>2, <2>1
      <3> QED
        BY <1>5, <3>1
    <2>2. CASE i # proposals + 1
      <3>1. Claim(i, v) /\ Claim(i, w)
        BY <1>5, <2>2
      <3> QED
        BY <3>1 DEF SignInv
    <2> QED
      BY <2>1, <2>2
  <1> QED
    BY <1>4, <1>5 DEF SignInv

-----------------------------------------------------------------------------
(* What the operations on channels put on the way.                         *)

(* broadcast adds the frames fs to what n sends.                           *)
LEMMA BroadcastItems ==
    ASSUME NEW c \in Channels, NEW n \in Node, NEW fs \in Seq(Frame),
           NEW x \in Node, NEW y \in Node, NEW f \in Items(Broadcast(c, n, fs)[x][y])
    PROVE  f \in Items(c[x][y]) \/ (x = n /\ f \in Items(fs))
PROOF
  <1>1. c[x][y] \in Seq(Frame) /\ c \in [Node -> [Node -> Seq(Frame)]]
    BY DEF Channels
  <1>2. \/ Broadcast(c, n, fs)[x][y] = c[x][y]
        \/ x = n /\ Broadcast(c, n, fs)[x][y] = c[x][y] \o fs
    BY ZenonT(60), <1>1 DEF Broadcast
  <1>3. ASSUME NEW g \in Items(c[x][y] \o fs) PROVE g \in Items(c[x][y]) \/ g \in Items(fs)
    <2> DEFINE s == c[x][y]
    <2>1. PICK i \in 1..Len(s \o fs) : g = (s \o fs)[i]
      BY <1>3 DEF Items
    <2>2. Len(s \o fs) = Len(s) + Len(fs) /\ Len(s) \in Nat /\ Len(fs) \in Nat
      BY <1>1
    <2>3. CASE i \in 1..Len(s)
      <3>1. g = s[i]
        BY <1>1, <2>1, <2>2, <2>3
      <3> HIDE DEF s
      <3>2. g \in Items(s)
        BY <2>3, <3>1 DEF Items
      <3> QED
        BY <3>2 DEF s
    <2>4. CASE i \notin 1..Len(s)
      <3>1. i - Len(s) \in 1..Len(fs)
        BY <2>1, <2>2, <2>4
      <3>2. g = fs[i - Len(s)]
        BY <1>1, <2>1, <2>2, <2>4
      <3> QED
        BY <3>1, <3>2 DEF Items
    <2> QED
      BY <2>3, <2>4
  <1> QED
    BY ZenonT(60), <1>2, <1>3

(* A single frame.                                                         *)
LEMMA OneItem ==
    ASSUME NEW S, NEW e \in S
    PROVE  <<e>> \in Seq(S) /\ Items(<<e>>) = {e}
PROOF
  <1>1. <<e>> \in Seq(S) /\ Len(<<e>>) = 1 /\ <<e>>[1] = e
    OBVIOUS
  <1>2. 1..1 = {1}
    OBVIOUS
  <1> QED
    BY <1>1, <1>2 DEF Items

(* A frame appended.                                                       *)
LEMMA AppendItems ==
    ASSUME NEW S, NEW s \in Seq(S), NEW e \in S
    PROVE  Items(Append(s, e)) = Items(s) \cup {e}
PROOF
  <1> DEFINE r == Append(s, e)
             n == Len(s)
  <1>1. n \in Nat /\ Len(r) = n + 1 /\ r[n + 1] = e /\ \A i \in 1..n : r[i] = s[i]
    OBVIOUS
  <1> HIDE DEF r, n
  <1>2. \A i \in 1..(n + 1) : i \in 1..n \/ i = n + 1
    BY <1>1
  <1>3. 1..n \subseteq 1..(n + 1) /\ n + 1 \in 1..(n + 1)
    BY <1>1
  <1>4. Items(r) = Items(s) \cup {e}
    BY <1>1, <1>2, <1>3 DEF Items, n
  <1> QED
    BY <1>4 DEF r

(* A frame sent.                                                           *)
LEMMA SendItems ==
    ASSUME NEW c \in Channels, NEW n \in Node, NEW m \in Node, NEW g \in Frame,
           NEW x \in Node, NEW y \in Node, NEW f \in Items(Send(c, n, m, g)[x][y])
    PROVE  f \in Items(c[x][y]) \/ (x = n /\ f = g)
PROOF
  <1>1. c \in [Node -> [Node -> Seq(Frame)]] /\ c[x][y] \in Seq(Frame)
    BY DEF Channels
  <1>2. \/ Send(c, n, m, g)[x][y] = c[x][y]
        \/ x = n /\ Send(c, n, m, g)[x][y] = Append(c[x][y], g)
    BY <1>1 DEF Send
  <1>3. Items(Append(c[x][y], g)) = Items(c[x][y]) \cup {g}
    BY <1>1, AppendItems
  <1> QED
    BY ZenonT(60), <1>2, <1>3

(* A link cut.                                                             *)
LEMMA CutItems ==
    ASSUME NEW c \in Channels, NEW n \in Node, NEW lost,
           NEW x \in Node, NEW y \in Node, NEW f \in Items(Cut(c, n, lost)[x][y])
    PROVE  f \in Items(c[x][y])
PROOF
  <1>1. Cut(c, n, lost)[x][y] = <<>> \/ Cut(c, n, lost)[x][y] = c[x][y]
    BY DEF Cut
  <1>2. Items(<<>>) = {}
    BY DEF Items
  <1> QED
    BY <1>1, <1>2

(* The frame taken was on its way, and those left were.                    *)
LEMMA TakenItems ==
    ASSUME TypeOK, NEW n \in Node, NEW m \in Node, NEW type, Arrives(n, m, type)
    PROVE  /\ Head(chan[m][n]) \in Items(chan[m][n])
           /\ \A x, y \in Node : Items(Taken(n, m)[x][y]) \subseteq Items(chan[x][y])
PROOF
  <1>1. /\ chan \in [Node -> [Node -> Seq(Frame)]]
        /\ chan[m][n] \in Seq(Frame) /\ chan[m][n] # <<>>
    BY DEF TypeOK, WireOK, Channels, Arrives
  <1> DEFINE s == chan[m][n]
  <1>2. s \in Seq(Frame) /\ s # <<>>
    BY <1>1
  <1>3. \A x, y \in Node : Taken(n, m)[x][y] = IF x = m /\ y = n THEN Tail(s) ELSE chan[x][y]
    BY <1>1 DEF Taken
  <1> HIDE DEF s
  <1>4. Len(s) \in Nat \ {0} /\ Len(Tail(s)) = Len(s) - 1 /\ Head(s) = s[1]
        /\ \A i \in 1..(Len(s) - 1) : Tail(s)[i] = s[i + 1]
    BY <1>2
  <1>5. 1 \in 1..Len(s) /\ \A i \in 1..(Len(s) - 1) : i + 1 \in 1..Len(s)
    BY <1>4
  <1>6. Head(s) \in Items(s) /\ Items(Tail(s)) \subseteq Items(s)
    BY <1>4, <1>5 DEF Items
  <1> QED
    BY <1>3, <1>6 DEF s

-----------------------------------------------------------------------------
(* Where signers come from.                                                *)

(* try_ratify takes the signers of an entry from a proposal.               *)
LEMMA TryRatifySigns ==
    ASSUME LogFacts, TypeOK, NEW n \in Node, NEW id, NEW P \in SUBSET Proposal,
           NEW c \in Channels, TryRatify(n, id, P, c)
    PROVE  /\ pending' \in [Node -> SUBSET Proposal] /\ pending'[n] \subseteq P
           /\ \A x \in Node : x # n => /\ log'[x] = log[x] /\ mlog'[x] = mlog[x]
                                       /\ pending'[x] = pending[x]
           /\ \A t \in Items(log'[n]) \cup mlog'[n] :
                 \/ t \in Items(log[n]) \cup mlog[n]
                 \/ \E p \in P : t.variant = p.variant /\ t.signers = p.signers
           /\ \A x, y \in Node : \A f \in Items(chan'[x][y]) :
                 f \in Items(c[x][y]) \/ f.type = "state"
PROOF
  <1> DEFINE found == {p \in P : p.id = id}
             kept(Q) == pending' = [pending EXCEPT ![n] = Q]
                           /\ chan' = c /\ UNCHANGED state
  <1>1. \/ kept(P) \/ kept(P \ found)
        \/ \E p \in found : Ratified(n, p, P \ found, c)
    BY DEF TryRatify
  <1>2. /\ pending \in [Node -> SUBSET Proposal] /\ log \in [Node -> Seq(Transition)]
        /\ mlog \in [Node -> MemberLog]
    BY DEF TypeOK, WireOK, StateOK
  <1>3. ASSUME NEW Q \in SUBSET P, kept(Q)
        PROVE  /\ pending' \in [Node -> SUBSET Proposal] /\ pending'[n] \subseteq P
               /\ \A x \in Node : x # n => pending'[x] = pending[x]
               /\ log' = log /\ mlog' = mlog /\ chan' = c
    BY <1>2, <1>3 DEF state
  <1>4. ASSUME NEW p \in found, Ratified(n, p, P \ found, c)
        PROVE  /\ pending' \in [Node -> SUBSET Proposal] /\ pending'[n] \subseteq P
               /\ \A x \in Node : x # n => /\ log'[x] = log[x] /\ mlog'[x] = mlog[x]
                                           /\ pending'[x] = pending[x]
               /\ \A t \in Items(log'[n]) \cup mlog'[n] :
                     \/ t \in Items(log[n]) \cup mlog[n]
                     \/ t.variant = p.variant /\ t.signers = p.signers
               /\ \A x, y \in Node : \A f \in Items(chan'[x][y]) :
                     f \in Items(c[x][y]) \/ f.type = "state"
    <2> DEFINE v == p.variant
               t == [variant |-> v, by |-> p.by, signers |-> p.signers, at |-> p.at]
    <2>1. p \in Proposal /\ P \ found \in SUBSET Proposal
      OBVIOUS
    <2>2. pending' = [pending EXCEPT ![n] = P \ found]
      BY <1>4 DEF Ratified
    <2>3. PICK L, M, extra, ros :
             /\ L \in {log[n], Append(log[n], t)} /\ M \in {mlog[n], mlog[n] \cup {t}}
             /\ log' = [log EXCEPT ![n] = L] /\ mlog' = [mlog EXCEPT ![n] = M]
             /\ extra = dups[n] + (IF (MemberTier(v, roles[n]) \/ v.op = "evict") /\ t \in mlog[n]
                                     THEN 1 ELSE 0)
             /\ ros = RatifiedRoster(n, v)
             /\ chan' = Broadcast(c, n, <<StateFrame(L, M, extra, ros)>>)
      BY ZenonT(60), <1>4 DEF Ratified
    <2>4. t \in Transition /\ t.variant = p.variant /\ t.signers = p.signers
      BY <2>1 DEF Proposal, Transition
    <2> HIDE DEF t, found
    <2>5. log[n] \in Seq(Transition) /\ Items(Append(log[n], t)) = Items(log[n]) \cup {t}
      BY <1>2, <2>4, AppendItems
    <2>6. log'[n] = L /\ mlog'[n] = M
      BY <1>2, <2>3
    <2>7. L \in Seq(Transition) /\ M \in MemberLog
      <3>1. mlog[n] \cup {t} \in MemberLog
        BY <1>2, <2>4, MemberLogs
      <3>2. Append(log[n], t) \in Seq(Transition)
        BY <2>4, <2>5
      <3> QED
        BY ZenonT(30), <1>2, <2>3, <2>5, <3>1, <3>2
    <2>8. StateFrame(L, M, extra, ros) \in Frame
      <3>1. p.variant \in Variant /\ dups[n] \in Nat
        BY <2>1 DEF Proposal, TypeOK, StateOK
      <3>2. ros \in SUBSET Device /\ extra \in Nat
        BY <2>3, <3>1, RatifiedRosterType
      <3> QED
        BY <2>7, <3>2, FramesBuilt
    <2>9. /\ <<StateFrame(L, M, extra, ros)>> \in Seq(Frame)
          /\ Items(<<StateFrame(L, M, extra, ros)>>) = {StateFrame(L, M, extra, ros)}
          /\ StateFrame(L, M, extra, ros).type = "state"
      <3>1. StateFrame(L, M, extra, ros).type = "state"
        BY DEF StateFrame
      <3> QED
        BY <2>8, <3>1, OneItem
    <2>10. ASSUME NEW x \in Node, NEW y \in Node, NEW f \in Items(chan'[x][y])
           PROVE  f \in Items(c[x][y]) \/ f.type = "state"
      <3> DEFINE fs == <<StateFrame(L, M, extra, ros)>>
      <3>1. fs \in Seq(Frame) /\ \A e \in Items(fs) : e.type = "state"
        BY <2>9
      <3>2. f \in Items(Broadcast(c, n, fs)[x][y])
        BY <2>3, <2>10
      <3> HIDE DEF fs
      <3> QED
        BY <3>1, <3>2, BroadcastItems
    <2>11. \A e \in Items(log'[n]) \cup mlog'[n] : e \in Items(log[n]) \cup mlog[n] \/ e = t
      BY ZenonT(60), <2>3, <2>5, <2>6
    <2>12. \A x \in Node : x # n => log'[x] = log[x] /\ mlog'[x] = mlog[x]
      BY <1>2, <2>3
    <2>13. /\ pending' \in [Node -> SUBSET Proposal] /\ pending'[n] \subseteq P
           /\ \A x \in Node : x # n => pending'[x] = pending[x]
      BY <1>2, <2>1, <2>2
    <2> QED
      BY <2>4, <2>10, <2>11, <2>12, <2>13
  <1> QED
    BY ZenonT(60), <1>1, <1>3, <1>4

(* What adopt_transition_log sends: counts, or what n then holds.          *)
Passed(n, f) ==
    \/ f.type \in {"state", "summary"}
    \/ f.type = "deny" /\ f.log = log'[n] /\ f.mlog = mlog'[n]

(* adopt_transition_log takes entries from the logs it is given, and passes*)
(* on what it then holds.                                                  *)
LEMMA AdoptSigns ==
    ASSUME LogFacts, TypeOK, NEW n \in Node, NEW L \in Seq(Transition), NEW M \in MemberLog,
           NEW ros \in SUBSET Device, NEW c \in Channels, NEW lost,
           Adopt(n, L, M, ros, c, lost)
    PROVE  /\ \A x \in Node : x # n => log'[x] = log[x] /\ mlog'[x] = mlog[x]
           /\ log'[n] \in {log[n], L} /\ mlog'[n] \subseteq mlog[n] \cup M
           /\ \A x, y \in Node : \A f \in Items(chan'[x][y]) :
                 f \in Items(c[x][y]) \/ Passed(n, f)
PROOF
  <1> DEFINE longer == Extends(L, log[n]) /\ VerifyLog(L)
             newLog == IF longer THEN L ELSE log[n]
             newKind == IF longer THEN KindAt(L, Len(L)) ELSE kind[n]
             merged == MergeMemberLogs(mlog[n], M)
             grew == Cardinality(merged) > Cardinality(mlog[n]) + dups[n]
             newMlog == IF grew THEN merged ELSE mlog[n]
             newDups == IF grew THEN 0 ELSE dups[n]
             newRoles == Project(newLog, newMlog)
             gone == Removed(newMlog, Replayed(newLog))
             newRoster == Mirror(n, ros, newRoles, gone)
             changed == longer \/ grew
             repaired == \/ \E d \in Device \ ros : newRoles[d] # "none"
                         \/ ros \cap (gone \ {n}) # {}
             denied == {m \in Node : /\ changed \/ repaired
                                     /\ Linked(n, m)
                                     /\ EvictedBy(newKind, newRoles, newMlog, m)}
             warned == [c EXCEPT ![n] =
                          [m \in Node |-> IF m \in denied
                                          THEN Append(c[n][m], DenyFrame(newLog, newMlog))
                                          ELSE c[n][m]]]
             fs == IF changed
                   THEN <<StateFrame(newLog, newMlog, newDups, newRoster)>>
                   ELSE IF repaired THEN <<SummaryFrame(newRoster)>> ELSE <<>>
  <1>1. /\ log' = [log EXCEPT ![n] = newLog] /\ mlog' = [mlog EXCEPT ![n] = newMlog]
        /\ chan' = Cut(Broadcast(warned, n, fs), n, lost)
    BY ZenonT(30) DEF Adopt
  <1>2. /\ log \in [Node -> Seq(Transition)] /\ mlog \in [Node -> MemberLog]
        /\ dups[n] \in Nat /\ log[n] \in Seq(Transition) /\ mlog[n] \in MemberLog
    BY DEF TypeOK, StateOK
  <1>3. newLog \in {log[n], L} /\ newLog \in Seq(Transition)
    BY <1>2
  <1>4. newMlog \in MemberLog /\ newMlog \subseteq mlog[n] \cup M
    <2>1. merged \in MemberLog
      BY <1>2, MemberLogs
    <2>2. merged \subseteq mlog[n] \cup M
      BY DEF MergeMemberLogs
    <2> HIDE DEF merged, grew
    <2> QED
      BY <1>2, <2>1, <2>2
  <1>5. newDups \in Nat
    BY <1>2
  <1>6. newRoster \in SUBSET Device
    BY ZenonT(30) DEF Mirror
  <1> HIDE DEF newLog, newMlog, newDups, newRoster, denied, changed, repaired
  <1>7. log'[n] = newLog /\ mlog'[n] = newMlog
        /\ \A x \in Node : x # n => log'[x] = log[x] /\ mlog'[x] = mlog[x]
    BY <1>1, <1>2
  <1>8. fs \in Seq(Frame) /\ \A f \in Items(fs) : f.type \in {"state", "summary"}
    <2> DEFINE sf == StateFrame(newLog, newMlog, newDups, newRoster)
               su == SummaryFrame(newRoster)
    <2>1. sf \in Frame /\ su \in Frame
      BY <1>3, <1>4, <1>5, <1>6, FramesBuilt
    <2>2. sf.type = "state" /\ su.type = "summary"
      BY DEF StateFrame, SummaryFrame
    <2>3. Items(<<>>) = {} /\ <<>> \in Seq(Frame)
      BY DEF Items
    <2> HIDE DEF sf, su
    <2>4. /\ <<sf>> \in Seq(Frame) /\ Items(<<sf>>) = {sf}
          /\ <<su>> \in Seq(Frame) /\ Items(<<su>>) = {su}
      BY ZenonT(60), <2>1, OneItem
    <2>5. fs \in {<<sf>>, <<su>>, <<>>}
      BY DEF sf, su
    <2> HIDE DEF fs
    <2> QED
      BY <2>2, <2>3, <2>4, <2>5
  <1> HIDE DEF fs
  <1>9. DenyFrame(newLog, newMlog) \in Frame
    BY <1>3, <1>4, FramesBuilt
  <1>10. /\ c \in [Node -> [Node -> Seq(Frame)]]
         /\ \A x, y \in Node : c[x][y] \in Seq(Frame)
    BY DEF Channels
  <1>11. \A x, y \in Node :
            \/ warned[x][y] = c[x][y]
            \/ warned[x][y] = Append(c[x][y], DenyFrame(newLog, newMlog))
    BY <1>10
  <1>12. warned \in Channels
    <2>1. \A y \in Node : Append(c[n][y], DenyFrame(newLog, newMlog)) \in Seq(Frame)
      BY <1>9, <1>10
    <2> QED
      BY <1>10, <2>1 DEF Channels
  <1> HIDE DEF warned
  <1>13. ASSUME NEW x \in Node, NEW y \in Node, NEW f \in Items(chan'[x][y])
         PROVE  f \in Items(c[x][y]) \/ Passed(n, f)
    <2>1. Broadcast(warned, n, fs) \in Channels
      BY <1>8, <1>12, ChannelOps
    <2>2. f \in Items(Broadcast(warned, n, fs)[x][y])
      BY <1>1, <1>13, <2>1, CutItems
    <2>3. f \in Items(warned[x][y]) \/ f.type \in {"state", "summary"}
      BY <1>8, <1>12, <2>2, BroadcastItems
    <2>4. Items(Append(c[x][y], DenyFrame(newLog, newMlog)))
             = Items(c[x][y]) \cup {DenyFrame(newLog, newMlog)}
      BY <1>9, <1>10, AppendItems
    <2>5. f \in Items(c[x][y]) \/ f = DenyFrame(newLog, newMlog)
             \/ f.type \in {"state", "summary"}
      <3> DEFINE g == DenyFrame(newLog, newMlog)
      <3> HIDE DEF g
      <3>1. warned[x][y] = c[x][y] \/ warned[x][y] = Append(c[x][y], g)
        BY <1>11 DEF g
      <3>2. Items(Append(c[x][y], g)) = Items(c[x][y]) \cup {g}
        BY <2>4 DEF g
      <3>3. f \in Items(c[x][y]) \/ f = g \/ f.type \in {"state", "summary"}
        BY ZenonT(60), <2>3, <3>1, <3>2
      <3> QED
        BY <3>3 DEF g
    <2>6. /\ DenyFrame(newLog, newMlog).type = "deny"
          /\ DenyFrame(newLog, newMlog).log = newLog /\ DenyFrame(newLog, newMlog).mlog = newMlog
      BY DEF DenyFrame
    <2> QED
      BY <1>7, <2>5, <2>6 DEF Passed
  <1> QED
    BY <1>3, <1>4, <1>7, <1>13

-----------------------------------------------------------------------------
(* The steps.                                                              *)

(* Entries or proposals whose signers have signed once the step is done.   *)
Signed(es) == \A t \in es : \A d \in t.signers : <<d, t.variant>> \in endorsed'

(* A frame m sends in a step that may give the next id to a proposal of v. *)
Fresh(v, m, f) ==
    /\ f.type = "propose" => /\ f.id = proposals + 1 /\ proposals' = proposals + 1
                             /\ f.variant = v /\ <<m, v>> \in endorsed'
    /\ f.type = "ack" =>
          /\ f.id <= proposals
          /\ f.sign => \A w : Claim(f.id, w) => <<m, w>> \in endorsed'
    /\ f.type \in {"entries", "deny"} => Signed(Items(f.log)) /\ Signed(f.mlog)

(* Held under an id that is known, or under the next one.                  *)
Known(v, p) ==
    \/ p.id <= proposals /\ Claim(p.id, p.variant)
    \/ p.id = proposals + 1 /\ proposals' = proposals + 1 /\ p.variant = v

(* A step that sends only fresh frames and holds only known proposals.     *)
LEMMA StepKeeps ==
    ASSUME TypeOK, TypeOK', SignInv, NEW nv,
           endorsed \subseteq endorsed', proposals' \in {proposals, proposals + 1},
           \A n \in Node : /\ Signed(Items(log'[n])) /\ Signed(mlog'[n])
                           /\ Signed(pending'[n]),
           \A n \in Node : \A p \in pending'[n] : Known(nv, p),
           \A m, n \in Node : \A f \in Items(chan'[m][n]) :
              f \in Items(chan[m][n]) \/ Fresh(nv, m, f)
    PROVE  SignInv'
PROOF
  <1>1. proposals \in Nat
    BY DEF TypeOK, HistoryOK
  <1>2. \A n \in Node : Genuine(Items(log[n]))' /\ Genuine(mlog[n])' /\ Genuine(pending[n])'
    BY DEF Signed, Genuine
  <1>3. \A n \in Node : \A p \in pending'[n] : p.id <= proposals'
    BY <1>1 DEF Known, Proposal, TypeOK, WireOK
  <1>4. ASSUME NEW i, NEW v, Claim(i, v)'
        PROVE  Claim(i, v) \/ (i = proposals + 1 /\ v = nv)
    <2>1. CASE \E n \in Node : \E p \in pending'[n] : p.id = i /\ p.variant = v
      BY <2>1 DEF Known
    <2>2. CASE \E m, n \in Node : \E f \in Items(chan'[m][n]) :
                  f.type = "propose" /\ f.id = i /\ f.variant = v
      <3>1. PICK m \in Node, n \in Node :
               \E f \in Items(chan'[m][n]) : f.type = "propose" /\ f.id = i /\ f.variant = v
        BY <2>2
      <3>2. PICK f \in Items(chan'[m][n]) : f.type = "propose" /\ f.id = i /\ f.variant = v
        BY <3>1
      <3>3. CASE f \in Items(chan[m][n])
        BY <3>2, <3>3 DEF Claim
      <3>4. CASE Fresh(nv, m, f)
        BY <3>2, <3>4 DEF Fresh
      <3> QED
        BY <3>3, <3>4
    <2>3. \/ \E n \in Node : \E p \in pending'[n] : p.id = i /\ p.variant = v
          \/ \E m, n \in Node : \E f \in Items(chan'[m][n]) :
                f.type = "propose" /\ f.id = i /\ f.variant = v
      BY ZenonT(60), <1>4 DEF Claim, Items
    <2> QED
      BY <2>1, <2>2, <2>3
  <1>5. ASSUME NEW m \in Node, NEW f, Fresh(nv, m, f), f.type = "ack" => f.id \in Nat
        PROVE  FrameFits(m, f)'
    <2>1. f.type = "propose" => f.id <= proposals' /\ <<m, f.variant>> \in endorsed'
      BY <1>1, <1>5 DEF Fresh
    <2>2. f.type = "ack" => f.id \in Nat /\ f.id <= proposals
      BY <1>5 DEF Fresh
    <2>3. f.type = "ack" => f.id <= proposals' /\ f.id # proposals + 1
      BY <1>1, <2>2
    <2>4. ASSUME f.type = "ack", f.sign, NEW w, Claim(f.id, w)'
          PROVE  <<m, w>> \in endorsed'
      <3>1. Claim(f.id, w)
        BY <1>4, <2>3, <2>4
      <3> QED
        BY <1>5, <2>4, <3>1 DEF Fresh
    <2>5. f.type \in {"entries", "deny"} => Genuine(Items(f.log))' /\ Genuine(f.mlog)'
      BY <1>5 DEF Fresh, Signed, Genuine
    <2> QED
      BY ZenonT(60), <2>1, <2>3, <2>4, <2>5 DEF FrameFits
  <1>6. ASSUME NEW m \in Node, NEW n \in Node, NEW f \in Items(chan'[m][n])
        PROVE  f \in Items(chan[m][n]) \/ FrameFits(m, f)'
    <2>1. chan' \in Channels
      BY DEF TypeOK, WireOK
    <2>2. f \in Frame
      BY <2>1 DEF Items, Channels
    <2>3. f.type = "ack" => f.id \in Nat
      BY <2>2, FramesRead
    <2> QED
      BY <1>5, <1>6, <2>3
  <1> QED
    BY ZenonT(60), <1>2, <1>3, <1>4, <1>6, SignKeeps

(* A step that leaves logs, proposals and signatures as they are.          *)
LEMMA QuietKeeps ==
    ASSUME TypeOK, TypeOK', SignInv, UNCHANGED <<log, mlog, endorsed, proposals>>,
           \A n \in Node : pending'[n] \subseteq pending[n],
           \A m, n \in Node : \A f \in Items(chan'[m][n]) :
              \/ f \in Items(chan[m][n])
              \/ f.type \in {"state", "summary", "request"}
              \/ /\ f.type \in {"entries", "deny"}
                 /\ f.log = log[m] /\ f.mlog = mlog[m]
    PROVE  SignInv'
PROOF
  <1>1. \A n \in Node : /\ Signed(Items(log'[n])) /\ Signed(mlog'[n])
                        /\ Signed(pending'[n])
    BY DEF SignInv, Genuine, Signed
  <1>2. \A n \in Node : \A p \in pending'[n] : Known(0, p)
    BY ZenonT(60) DEF SignInv, Known, Claim
  <1>3. ASSUME NEW m \in Node, NEW n \in Node, NEW f \in Items(chan'[m][n])
        PROVE  f \in Items(chan[m][n]) \/ Fresh(0, m, f)
    <2>1. CASE f.type \in {"state", "summary", "request"}
      BY <2>1 DEF Fresh
    <2>2. CASE /\ f.type \in {"entries", "deny"}
               /\ f.log = log[m] /\ f.mlog = mlog[m]
      <3>1. Signed(Items(f.log)) /\ Signed(f.mlog)
        BY <1>1, <2>2
      <3> QED
        BY <2>2, <3>1 DEF Fresh
    <2> QED
      BY <1>3, <2>1, <2>2
  <1> QED
    BY <1>1, <1>2, <1>3, StepKeeps

(* A step that ends with try_ratify.                                       *)
LEMMA RatifyKeeps ==
    ASSUME LogFacts, TypeOK, TypeOK', SignInv, NEW nv, NEW n \in Node, NEW id,
           NEW P \in SUBSET Proposal, NEW c \in Channels, TryRatify(n, id, P, c),
           endorsed \subseteq endorsed', proposals' \in {proposals, proposals + 1},
           Signed(P), \A p \in P : Known(nv, p),
           \A x, y \in Node : \A f \in Items(c[x][y]) :
              f \in Items(chan[x][y]) \/ Fresh(nv, x, f)
    PROVE  SignInv'
PROOF
  <1>1. /\ pending'[n] \subseteq P
        /\ \A x \in Node : x # n => /\ log'[x] = log[x] /\ mlog'[x] = mlog[x]
                                    /\ pending'[x] = pending[x]
    BY ZenonT(60), TryRatifySigns
  <1>2. \A t \in Items(log'[n]) \cup mlog'[n] :
           \/ t \in Items(log[n]) \cup mlog[n]
           \/ \E p \in P : t.variant = p.variant /\ t.signers = p.signers
    BY ZenonT(60), TryRatifySigns
  <1>3. \A x, y \in Node : \A f \in Items(chan'[x][y]) :
           f \in Items(c[x][y]) \/ f.type = "state"
    BY TryRatifySigns
  <1>4. \A x \in Node : Signed(Items(log[x])) /\ Signed(mlog[x]) /\ Signed(pending[x])
    BY DEF SignInv, Genuine, Signed
  <1>5. \A x \in Node : \A p \in pending[x] : Known(nv, p)
    BY ZenonT(60) DEF SignInv, Known, Claim
  <1>6. Signed(Items(log'[n])) /\ Signed(mlog'[n])
    <2>1. \A t \in Items(log'[n]) \cup mlog'[n] : \A d \in t.signers :
             <<d, t.variant>> \in endorsed'
      BY ZenonT(60), <1>2, <1>4 DEF Signed
    <2> QED
      BY ZenonT(60), <2>1 DEF Signed
  <1>7. Signed(pending'[n])
    BY ZenonT(60), <1>1 DEF Signed
  <1>8. \A x \in Node : /\ Signed(Items(log'[x])) /\ Signed(mlog'[x])
                        /\ Signed(pending'[x])
    BY <1>1, <1>4, <1>6, <1>7
  <1>9. \A x \in Node : \A p \in pending'[x] : Known(nv, p)
    BY <1>1, <1>5
  <1>10. \A f, x : f.type = "state" => Fresh(nv, x, f)
    BY DEF Fresh
  <1>11. \A x, y \in Node : \A f \in Items(chan'[x][y]) :
            f \in Items(chan[x][y]) \/ Fresh(nv, x, f)
    BY ZenonT(60), <1>3, <1>10
  <1> QED
    BY <1>8, <1>9, <1>11, StepKeeps

(* A step that adopts logs whose signers signed.                           *)
LEMMA AdoptKeeps ==
    ASSUME LogFacts, TypeOK, TypeOK', SignInv, NEW n \in Node,
           NEW L \in Seq(Transition), NEW M \in MemberLog, NEW ros \in SUBSET Device,
           NEW c \in Channels, NEW lost, Adopt(n, L, M, ros, c, lost),
           UNCHANGED <<pending, endorsed, proposals>>,
           Genuine(Items(L)), Genuine(M),
           \A x, y \in Node : \A f \in Items(c[x][y]) :
              f \in Items(chan[x][y]) \/ f.type = "summary"
    PROVE  SignInv'
PROOF
  <1>1. /\ \A x \in Node : x # n => log'[x] = log[x] /\ mlog'[x] = mlog[x]
        /\ log'[n] \in {log[n], L} /\ mlog'[n] \subseteq mlog[n] \cup M
    BY ZenonT(60), AdoptSigns
  <1>2. \A x, y \in Node : \A f \in Items(chan'[x][y]) :
           f \in Items(c[x][y]) \/ Passed(n, f)
    BY AdoptSigns
  <1>3. /\ \A x \in Node : Signed(Items(log[x])) /\ Signed(mlog[x]) /\ Signed(pending[x])
        /\ Signed(Items(L)) /\ Signed(M)
    BY ZenonT(60) DEF SignInv, Genuine, Signed
  <1>4. Signed(Items(log'[n])) /\ Signed(mlog'[n])
    BY <1>1, <1>3 DEF Signed
  <1>5. \A x \in Node : /\ Signed(Items(log'[x])) /\ Signed(mlog'[x])
                        /\ Signed(pending'[x])
    BY <1>1, <1>3, <1>4
  <1>6. \A x \in Node : \A p \in pending'[x] : Known(0, p)
    BY DEF SignInv, Known, Claim
  <1>7. ASSUME NEW x \in Node, NEW y \in Node, NEW f \in Items(chan'[x][y])
        PROVE  f \in Items(chan[x][y]) \/ Fresh(0, x, f)
    <2>1. CASE f.type \in {"state", "summary"}
      BY ZenonT(60), <2>1 DEF Fresh
    <2>2. CASE f.type = "deny" /\ f.log = log'[n] /\ f.mlog = mlog'[n]
      <3>1. Signed(Items(f.log)) /\ Signed(f.mlog)
        BY <1>4, <2>2
      <3> QED
        BY <2>2, <3>1 DEF Fresh
    <2> QED
      BY ZenonT(60), <1>2, <1>7, <2>1, <2>2 DEF Passed
  <1> QED
    BY ZenonT(60), <1>5, <1>6, <1>7, StepKeeps

(* Two frames.                                                             *)
LEMMA TwoItems ==
    ASSUME NEW S, NEW e \in S, NEW g \in S
    PROVE  <<e, g>> \in Seq(S) /\ Items(<<e, g>>) = {e, g}
PROOF
  <1>1. /\ <<e, g>> \in Seq(S) /\ Len(<<e, g>>) = 2
        /\ <<e, g>>[1] = e /\ <<e, g>>[2] = g
    OBVIOUS
  <1>2. 1..2 = {1, 2}
    OBVIOUS
  <1> QED
    BY <1>1, <1>2 DEF Items

(* What a member broadcasts of its own state.                              *)
LEMMA OwnStateFrame ==
    ASSUME LogFacts, TypeOK, NEW n \in Node
    PROVE  OwnState(n) \in Frame /\ OwnState(n).type = "state"
PROOF
  <1>1. OwnState(n) \in Frame
    BY FramesBuilt DEF OwnState, TypeOK, StateOK
  <1> QED
    BY <1>1 DEF OwnState, StateFrame

(* A broadcast of fresh frames.                                            *)
LEMMA BroadcastFresh ==
    ASSUME TypeOK, NEW v, NEW n \in Node, NEW fs \in Seq(Frame),
           \A f \in Items(fs) : Fresh(v, n, f)
    PROVE  /\ Broadcast(chan, n, fs) \in Channels
           /\ \A x, y \in Node : \A f \in Items(Broadcast(chan, n, fs)[x][y]) :
                 f \in Items(chan[x][y]) \/ Fresh(v, x, f)
PROOF
  <1>1. chan \in Channels
    BY DEF TypeOK, WireOK
  <1>2. Broadcast(chan, n, fs) \in Channels
    BY ZenonT(30), <1>1, ChannelOps
  <1>3. ASSUME NEW x \in Node, NEW y \in Node,
               NEW f \in Items(Broadcast(chan, n, fs)[x][y])
        PROVE  f \in Items(chan[x][y]) \/ Fresh(v, x, f)
    <2>1. f \in Items(chan[x][y]) \/ (x = n /\ f \in Items(fs))
      BY <1>1, <1>3, BroadcastItems
    <2> QED
      BY ZenonT(60), <2>1
  <1> QED
    BY <1>2, <1>3

-----------------------------------------------------------------------------
(* Logs: their latest entry.                                               *)

(* The greatest element of a set, where it is known, is its Latest.        *)
LEMMA LatestOfTop ==
    ASSUME NEW S \in SUBSET Nat, NEW i \in S, \A j \in S : j <= i
    PROVE  Latest(S) = i
PROOF
  <1>1. Latest(S) \in S /\ \A j \in S : j <= Latest(S)
    BY ZenonT(30) DEF Latest
  <1>2. Latest(S) \in Nat /\ i \in Nat /\ i <= Latest(S) /\ Latest(S) <= i
    BY ZenonT(30), <1>1
  <1> QED
    BY <1>2

-----------------------------------------------------------------------------
(* The replay of a log.                                                    *)

(* Entries have effects that are roles, and change a kind to a kind.       *)
LEMMA EffectType ==
    ASSUME NEW t \in Transition
    PROVE  /\ Effect(t) \in Roles
           /\ \A k \in Kinds : KindAfter(k, t) \in Kinds
           /\ t.variant \in Variant /\ t.by \in Device
           /\ t.signers \in SUBSET Device /\ t.at \in Nat
PROOF
  <1>1. t.variant \in Variant /\ t.by \in Device
        /\ t.signers \in SUBSET Device /\ t.at \in Nat
    BY DEF Transition
  <1>2. Effect(t) \in Roles
    BY <1>1, VariantFields DEF Effect, Roles
  <1>3. \A k \in Kinds : KindAfter(k, t) \in Kinds
    BY DEF KindAfter, Kinds
  <1> QED
    BY <1>1, <1>2, <1>3

(* The latest of some places in a log is one of them.                      *)
LEMMA LatestPlace ==
    ASSUME LogFacts, NEW i \in Nat, NEW S \in SUBSET (1..i), S # {}
    PROVE  Latest(S) \in S
PROOF
  BY ZenonT(30) DEF LogFacts

(* The replay yields a role map and a kind.                                *)
LEMMA ReplayType ==
    ASSUME LogFacts, NEW L \in Seq(Transition), NEW i \in 0..Len(L)
    PROVE  RolesAt(L, i) \in [Device -> Roles] /\ KindAt(L, i) \in Kinds
PROOF
  <1>1. ASSUME NEW d \in Device PROVE RolesAt(L, i)[d] \in Roles
    <2> DEFINE touched == {j \in 1..i : Touches(L[j], d)}
    <2>1. touched # {} => Latest(touched) \in 1..i
      <3>1. i \in Nat /\ touched \in SUBSET (1..i)
        OBVIOUS
      <3> HIDE DEF touched
      <3> QED
        BY ZenonT(30), <3>1, LatestPlace
    <2>2. touched # {} => L[Latest(touched)] \in Transition
      BY <2>1
    <2>3. touched # {} => Effect(L[Latest(touched)]) \in Roles
      BY <2>2, EffectType
    <2>4. RolesAt(L, i)[d] =
             IF touched = {} THEN "none" ELSE Effect(L[Latest(touched)])
      BY DEF RolesAt
    <2> HIDE DEF touched
    <2> QED
      BY <2>3, <2>4 DEF Roles
  <1>2. KindAt(L, i) \in Kinds
    <2> DEFINE changes == {j \in 1..i : L[j].variant.op \in {"close", "reopen"}}
    <2>1. changes # {} => Latest(changes) \in 1..i
      <3>1. i \in Nat /\ changes \in SUBSET (1..i)
        OBVIOUS
      <3> HIDE DEF changes
      <3> QED
        BY ZenonT(30), <3>1, LatestPlace
    <2>2. changes # {} => L[Latest(changes)] \in Transition
      BY <2>1
    <2>3. KindAt(L, i) = IF changes = {} THEN "open"
                         ELSE KindAfter("open", L[Latest(changes)])
      BY DEF KindAt
    <2> HIDE DEF changes
    <2> QED
      BY <2>2, <2>3, EffectType DEF Kinds
  <1>3. RolesAt(L, i) = [d \in Device |-> RolesAt(L, i)[d]]
    BY DEF RolesAt
  <1> QED
    BY <1>1, <1>2, <1>3

(* The replay of a prefix does not depend on what follows it.              *)
LEMMA ReplayPrefix ==
    ASSUME LogFacts, NEW L \in Seq(Transition), NEW t \in Transition, NEW i \in 0..Len(L)
    PROVE  /\ RolesAt(Append(L, t), i) = RolesAt(L, i)
           /\ KindAt(Append(L, t), i) = KindAt(L, i)
PROOF
  <1> DEFINE K == Append(L, t)
  <1>1. \A j \in 1..i : K[j] = L[j]
    OBVIOUS
  <1> HIDE DEF K
  <1>2. ASSUME NEW d \in Device PROVE RolesAt(K, i)[d] = RolesAt(L, i)[d]
    <2> DEFINE touched == {j \in 1..i : Touches(L[j], d)}
    <2>1. touched = {j \in 1..i : Touches(K[j], d)}
      BY <1>1
    <2>2. touched # {} => Latest(touched) \in 1..i
      <3>1. i \in Nat /\ touched \in SUBSET (1..i)
        OBVIOUS
      <3> HIDE DEF touched
      <3> QED
        BY ZenonT(30), <3>1, LatestPlace
    <2>3. /\ RolesAt(L, i)[d] =
                IF touched = {} THEN "none" ELSE Effect(L[Latest(touched)])
          /\ RolesAt(K, i)[d] =
                IF touched = {} THEN "none" ELSE Effect(K[Latest(touched)])
      BY ZenonT(30), <2>1 DEF RolesAt
    <2> HIDE DEF touched
    <2> QED
      BY <1>1, <2>2, <2>3
  <1>3. KindAt(K, i) = KindAt(L, i)
    <2> DEFINE changes == {j \in 1..i : L[j].variant.op \in {"close", "reopen"}}
    <2>1. changes = {j \in 1..i : K[j].variant.op \in {"close", "reopen"}}
      BY <1>1
    <2>2. changes # {} => Latest(changes) \in 1..i
      <3>1. i \in Nat /\ changes \in SUBSET (1..i)
        OBVIOUS
      <3> HIDE DEF changes
      <3> QED
        BY ZenonT(30), <3>1, LatestPlace
    <2>3. /\ KindAt(L, i) = IF changes = {} THEN "open"
                            ELSE KindAfter("open", L[Latest(changes)])
          /\ KindAt(K, i) = IF changes = {} THEN "open"
                            ELSE KindAfter("open", K[Latest(changes)])
      BY ZenonT(30), <2>1 DEF KindAt
    <2> HIDE DEF changes
    <2> QED
      BY <1>1, <2>2, <2>3
  <1>4. /\ RolesAt(K, i) = [d \in Device |-> RolesAt(K, i)[d]]
        /\ RolesAt(L, i) = [d \in Device |-> RolesAt(L, i)[d]]
    BY DEF RolesAt
  <1> QED
    BY <1>2, <1>3, <1>4 DEF K

(* Replaying one entry more is applying that entry.                        *)
LEMMA ReplayAppend ==
    ASSUME LogFacts, NEW L \in Seq(Transition), NEW t \in Transition
    PROVE  /\ Replayed(Append(L, t)) = RolesAfter(Replayed(L), t)
           /\ KindAt(Append(L, t), Len(Append(L, t)))
                 = KindAfter(KindAt(L, Len(L)), t)
PROOF
  <1> DEFINE K == Append(L, t)
             k == Len(L)
  <1>1. /\ Len(K) = k + 1 /\ K[k + 1] = t /\ k \in Nat
        /\ \A j \in 1..k : K[j] = L[j]
    OBVIOUS
  <1> HIDE DEF K, k
  <1>2. ASSUME NEW d \in Device
        PROVE  RolesAt(K, k + 1)[d]
                  = IF Touches(t, d) THEN Effect(t) ELSE RolesAt(L, k)[d]
    <2> DEFINE before == {j \in 1..k : Touches(L[j], d)}
               after == {j \in 1..(k + 1) : Touches(K[j], d)}
    <2>1. RolesAt(K, k + 1)[d] =
             IF after = {} THEN "none" ELSE Effect(K[Latest(after)])
      BY DEF RolesAt
    <2>2. RolesAt(L, k)[d] =
             IF before = {} THEN "none" ELSE Effect(L[Latest(before)])
      BY DEF RolesAt
    <2>3. CASE Touches(t, d)
      <3>1. after \in SUBSET Nat /\ k + 1 \in after /\ \A j \in after : j <= k + 1
        BY <1>1, <2>3
      <3>2. Latest(after) = k + 1
        BY <3>1, LatestOfTop
      <3> HIDE DEF after
      <3> QED
        BY <1>1, <2>1, <2>3, <3>1, <3>2
    <2>4. CASE ~Touches(t, d)
      <3>1. after = before
        BY <1>1, <2>4
      <3>2. before # {} => Latest(before) \in 1..k
        BY ZenonT(30), <1>1, LatestPlace
      <3> HIDE DEF after, before
      <3> QED
        BY <1>1, <2>1, <2>2, <2>4, <3>1, <3>2
    <2> QED
      BY <2>3, <2>4
  <1>3. KindAt(K, k + 1) = KindAfter(KindAt(L, k), t)
    <2> DEFINE changing(e) == e.variant.op \in {"close", "reopen"}
               before == {j \in 1..k : changing(L[j])}
               after == {j \in 1..(k + 1) : changing(K[j])}
    <2>1. KindAt(K, k + 1) =
             IF after = {} THEN "open" ELSE KindAfter("open", K[Latest(after)])
      BY DEF KindAt
    <2>2. KindAt(L, k) =
             IF before = {} THEN "open" ELSE KindAfter("open", L[Latest(before)])
      BY DEF KindAt
    <2>3. CASE changing(t)
      <3>1. after \in SUBSET Nat /\ k + 1 \in after /\ \A j \in after : j <= k + 1
        BY <1>1, <2>3
      <3>2. Latest(after) = k + 1
        BY <3>1, LatestOfTop
      <3>3. KindAfter("open", t) = KindAfter(KindAt(L, k), t)
        BY <2>3 DEF KindAfter
      <3> HIDE DEF after
      <3> QED
        BY <1>1, <2>1, <3>1, <3>2, <3>3
    <2>4. CASE ~changing(t)
      <3>1. after = before
        BY <1>1, <2>4
      <3>2. before # {} => Latest(before) \in 1..k
        BY ZenonT(30), <1>1, LatestPlace
      <3>3. KindAfter(KindAt(L, k), t) = KindAt(L, k)
        BY <2>4 DEF KindAfter
      <3> HIDE DEF after, before
      <3> QED
        BY <1>1, <2>1, <2>2, <3>1, <3>2, <3>3
    <2> QED
      BY <2>3, <2>4
  <1>4. RolesAt(K, k + 1) = [d \in Device |-> RolesAt(K, k + 1)[d]]
    BY DEF RolesAt
  <1>5. RolesAt(K, k + 1) = RolesAfter(RolesAt(L, k), t)
    BY <1>2, <1>4 DEF RolesAfter
  <1> QED
    BY <1>1, <1>3, <1>5 DEF Replayed, K, k

-----------------------------------------------------------------------------
(* Logs and the caches that fit them.                                      *)

(* Whether a transition has its quorum depends on the seats only, and on   *)
(* its variant and its signers.                                            *)
LEMMA QuorumOfSeats ==
    ASSUME NEW r, NEW s, \A d \in Device : Seat(r, d) = Seat(s, d),
           NEW k, NEW t, NEW u, t.variant \in Variant,
           u.variant = t.variant, u.signers = t.signers, Quorum(k, r, t)
    PROVE  Quorum(k, s, u)
PROOF
  <1>1. Owners(r) = Owners(s) /\ Authorities(r) = Authorities(s)
    BY DEF Owners, Authorities, Seat
  <1>2. Removal(t.variant) =>
           (r[t.variant.target] = "owner" <=> s[t.variant.target] = "owner")
    BY VariantFields DEF Removal, Seat
  <1>3. t.variant.op \in {"close", "reopen", "grant", "revoke", "evict"}
    BY VariantFields
  <1> QED
    BY ZenonT(30), <1>1, <1>2, <1>3 DEF Quorum, Removal

(* Applying an entry to maps with the same seats gives the same seats.     *)
LEMMA SeatsAfter ==
    ASSUME NEW r, NEW s, \A d \in Device : Seat(r, d) = Seat(s, d), NEW t
    PROVE  \A d \in Device : Seat(RolesAfter(r, t), d) = Seat(RolesAfter(s, t), d)
PROOF
  BY DEF Seat, RolesAfter

(* The member log gives nobody a seat and takes nobody's.                  *)
LEMMA ProjectSeats ==
    ASSUME LogFacts, NEW L \in Seq(Transition), NEW M
    PROVE  /\ Project(L, M) \in [Device -> Roles]
           /\ \A d \in Device : Seat(Project(L, M), d) = Seat(Replayed(L), d)
PROOF
  <1>1. Replayed(L) \in [Device -> Roles]
    BY ReplayType DEF Replayed
  <1> QED
    BY <1>1 DEF Project, Seat, Roles

(* A log that verifies fits what is projected from it.                     *)
LEMMA CoherentProject ==
    ASSUME LogFacts, NEW L \in Seq(Transition), NEW M, VerifyLog(L)
    PROVE  Coherent(KindAt(L, Len(L)), Project(L, M), L)
PROOF
  BY ProjectSeats DEF Coherent

(* A transition with its quorum under caches that fit the log can be       *)
(* appended: the log still verifies, and both the caches it is applied to  *)
(* and the ones projected anew fit it.                                     *)
LEMMA CoherentAppend ==
    ASSUME LogFacts, NEW L \in Seq(Transition), NEW t \in Transition, NEW k, NEW r,
           Coherent(k, r, L), Quorum(k, r, t)
    PROVE  /\ Coherent(KindAfter(k, t), RolesAfter(r, t), Append(L, t))
           /\ \A M : Coherent(KindAfter(k, t), Project(Append(L, t), M), Append(L, t))
PROOF
  <1> DEFINE K == Append(L, t)
  <1>1. /\ K \in Seq(Transition) /\ Len(L) \in Nat /\ Len(K) = Len(L) + 1
        /\ K[Len(L) + 1] = t /\ \A i \in 1..Len(L) : K[i] = L[i]
    OBVIOUS
  <1>2. \A i \in 0..Len(L) : RolesAt(K, i) = RolesAt(L, i) /\ KindAt(K, i) = KindAt(L, i)
    BY ReplayPrefix
  <1>3. /\ Replayed(K) = RolesAfter(Replayed(L), t)
        /\ KindAt(K, Len(K)) = KindAfter(k, t)
    BY ReplayAppend DEF Coherent
  <1> HIDE DEF K
  <1>4. Quorum(KindAt(L, Len(L)), RolesAt(L, Len(L)), t)
    BY QuorumOfSeats, EffectType DEF Coherent, Replayed
  <1>5. VerifyLog(K)
    <2> SUFFICES ASSUME NEW i \in 1..Len(K)
                 PROVE  Quorum(KindAt(K, i - 1), RolesAt(K, i - 1), K[i])
      BY DEF VerifyLog
    <2>1. CASE i = Len(L) + 1
      BY <1>1, <1>2, <1>4, <2>1
    <2>2. CASE i \in 1..Len(L)
      <3>1. Quorum(KindAt(L, i - 1), RolesAt(L, i - 1), L[i])
        BY <2>2 DEF Coherent, VerifyLog
      <3>2. i - 1 \in 0..Len(L)
        BY <1>1, <2>2
      <3> QED
        BY <1>1, <1>2, <2>2, <3>1, <3>2
    <2> QED
      BY <1>1, <2>1, <2>2
  <1>6. \A d \in Device : Seat(RolesAfter(r, t), d) = Seat(Replayed(K), d)
    BY <1>3, SeatsAfter DEF Coherent
  <1>7. Coherent(KindAfter(k, t), RolesAfter(r, t), K)
    BY <1>3, <1>5, <1>6 DEF Coherent
  <1>8. \A M : Coherent(KindAfter(k, t), Project(K, M), K)
    BY <1>1, <1>3, <1>5, CoherentProject
  <1> QED
    BY <1>7, <1>8 DEF K

-----------------------------------------------------------------------------
(* What a step may do to the state of one member.                          *)

Kept ==
    \A n \in Node : Continues(log'[n], log[n]) /\ mlog[n] \subseteq mlog'[n]

Sound == StateOK' /\ LogsVerify' /\ Kept

(* A log continues itself.                                                 *)
LEMMA ContinuesSelf ==
    ASSUME NEW L \in Seq(Transition)
    PROVE  Continues(L, L)
PROOF
  BY DEF Continues, SameEntry

(* A log with one entry more continues the log.                            *)
LEMMA AppendContinues ==
    ASSUME NEW L \in Seq(Transition), NEW t \in Transition
    PROVE  Append(L, t) \in Seq(Transition) /\ Continues(Append(L, t), L)
PROOF
  BY DEF Continues, SameEntry

(* A step that leaves the members' state alone is sound.                   *)
LEMMA NothingChanged ==
    ASSUME TypeOK, LogsVerify, UNCHANGED <<kind, roles, log, mlog, dups>>,
           roster' \in [Node -> SUBSET Device]
    PROVE  Sound
PROOF
  <1>1. StateOK'
    BY DEF TypeOK, StateOK
  <1>2. LogsVerify'
    BY DEF LogsVerify
  <1>3. \A n \in Node : log[n] \in Seq(Transition)
    BY DEF TypeOK, StateOK
  <1>4. Kept
    BY <1>3, ContinuesSelf DEF Kept
  <1> QED
    BY <1>1, <1>2, <1>4 DEF Sound

(* A step that changes one member's state is sound if what it leaves there *)
(* is coherent and continues what was there.                               *)
LEMMA OneChanged ==
    ASSUME TypeOK, LogsVerify, NEW n \in Node,
           NEW k \in Kinds, NEW r \in [Device -> Roles], NEW L \in Seq(Transition),
           NEW M \in MemberLog, NEW e \in Nat, NEW ros \in SUBSET Device,
           Coherent(k, r, L), Continues(L, log[n]), mlog[n] \subseteq M,
           kind' = [kind EXCEPT ![n] = k], roles' = [roles EXCEPT ![n] = r],
           log' = [log EXCEPT ![n] = L], mlog' = [mlog EXCEPT ![n] = M],
           dups' = [dups EXCEPT ![n] = e], roster' = [roster EXCEPT ![n] = ros]
    PROVE  Sound
PROOF
  <1>1. StateOK'
    BY DEF TypeOK, StateOK
  <1>2. \A m \in Node : /\ kind'[m] = IF m = n THEN k ELSE kind[m]
                        /\ roles'[m] = IF m = n THEN r ELSE roles[m]
                        /\ log'[m] = IF m = n THEN L ELSE log[m]
                        /\ mlog'[m] = IF m = n THEN M ELSE mlog[m]
    BY DEF TypeOK, StateOK
  <1>3. \A m \in Node : Coherent(kind'[m], roles'[m], log'[m])
    BY <1>2 DEF LogsVerify
  <1>4. LogsVerify'
    BY <1>3 DEF LogsVerify
  <1>5. \A m \in Node : log[m] \in Seq(Transition)
    BY DEF TypeOK, StateOK
  <1>6. Kept
    BY <1>2, <1>5, ContinuesSelf DEF Kept
  <1> QED
    BY <1>1, <1>4, <1>6 DEF Sound

(* Ratification of a proposal that has its quorum.                         *)
LEMMA RatifiedStep ==
    ASSUME LogFacts, TypeOK, LogsVerify, NEW n \in Node, NEW p \in Proposal,
           NEW rest \in SUBSET Proposal, NEW c \in Channels,
           Quorum(kind[n], roles[n], p), Ratified(n, p, rest, c)
    PROVE  Sound /\ pending' \in [Node -> SUBSET Proposal] /\ chan' \in Channels
PROOF
  <1> DEFINE v == p.variant
             t == [variant |-> v, by |-> p.by, signers |-> p.signers, at |-> p.at]
             member == MemberTier(v, roles[n])
             pushed == member \/ v.op = "evict"
             L == IF member THEN log[n] ELSE Append(log[n], t)
             M == IF pushed THEN mlog[n] \cup {t} ELSE mlog[n]
             e == dups[n] + (IF pushed /\ t \in mlog[n] THEN 1 ELSE 0)
             k == IF member THEN kind[n] ELSE KindAfter(kind[n], t)
             r == IF pushed THEN Project(L, M) ELSE RolesAfter(roles[n], t)
             ros == RatifiedRoster(n, v)
  <1>1. v \in Variant /\ t \in Transition
    BY DEF Proposal, Transition
  <1>2. /\ kind[n] \in Kinds /\ roles[n] \in [Device -> Roles]
        /\ log[n] \in Seq(Transition) /\ mlog[n] \in MemberLog /\ dups[n] \in Nat
        /\ Coherent(kind[n], roles[n], log[n])
    BY DEF TypeOK, StateOK, LogsVerify
  <1>3. t.variant = v /\ t.signers = p.signers
    OBVIOUS
  <1>4. /\ pending' = [pending EXCEPT ![n] = rest]
        /\ log' = [log EXCEPT ![n] = L]
        /\ mlog' = [mlog EXCEPT ![n] = M]
        /\ dups' = [dups EXCEPT ![n] = e]
        /\ kind' = [kind EXCEPT ![n] = k]
        /\ roles' = [roles EXCEPT ![n] = r]
        /\ roster' = [roster EXCEPT ![n] = ros]
        /\ chan' = Broadcast(c, n, <<StateFrame(L, M, e, ros)>>)
    BY DEF Ratified
  <1> HIDE DEF t
  <1>5. Quorum(kind[n], roles[n], t)
    BY <1>1, <1>3, QuorumOfSeats
  <1>6. /\ Coherent(KindAfter(kind[n], t), RolesAfter(roles[n], t), Append(log[n], t))
        /\ \A N : Coherent(KindAfter(kind[n], t), Project(Append(log[n], t), N),
                           Append(log[n], t))
    BY ZenonT(30), <1>1, <1>2, <1>5, CoherentAppend
  <1>7. \A N : Coherent(kind[n], Project(log[n], N), log[n])
    BY ZenonT(30), <1>2, CoherentProject DEF Coherent
  <1>8. Coherent(k, r, L)
    BY ZenonT(30), <1>6, <1>7
  <1>9. L \in Seq(Transition) /\ Continues(L, log[n])
    <2>1. Append(log[n], t) \in Seq(Transition) /\ Continues(Append(log[n], t), log[n])
      BY ZenonT(60), <1>1, <1>2, AppendContinues
    <2> QED
      BY ZenonT(60), <1>2, <2>1, ContinuesSelf
  <1>10. M \in MemberLog /\ mlog[n] \subseteq M
    BY <1>1, <1>2, MemberLogs
  <1>11. e \in Nat
    BY <1>2
  <1>12. k \in Kinds
    BY <1>1, <1>2, EffectType
  <1>13. r \in [Device -> Roles]
    <2>1. RolesAfter(roles[n], t) \in [Device -> Roles]
      BY <1>1, <1>2, EffectType DEF RolesAfter
    <2> QED
      BY ZenonT(30), <1>9, <2>1, ProjectSeats
  <1>14. ros \in SUBSET Device
    BY <1>1, RatifiedRosterType
  <1> HIDE DEF L, M, e, k, r, ros
  <1>15. Sound
    BY ZenonT(30), <1>4, <1>8, <1>9, <1>10, <1>11, <1>12, <1>13, <1>14, OneChanged
  <1>16. chan' \in Channels
    <2>1. StateFrame(L, M, e, ros) \in Frame
      BY ZenonT(30), <1>9, <1>10, <1>11, <1>14, FramesBuilt
    <2>2. <<StateFrame(L, M, e, ros)>> \in Seq(Frame)
      BY <2>1
    <2> QED
      BY ZenonT(30), <1>4, <2>2, ChannelOps
  <1>17. pending' \in [Node -> SUBSET Proposal]
    BY <1>4 DEF TypeOK, WireOK
  <1> QED
    BY <1>15, <1>16, <1>17

(* try_ratify, whichever way it ends.                                      *)
LEMMA TryRatifyStep ==
    ASSUME LogFacts, TypeOK, LogsVerify, NEW n \in Node, NEW id, NEW P \in SUBSET Proposal,
           NEW c \in Channels, TryRatify(n, id, P, c)
    PROVE  Sound /\ pending' \in [Node -> SUBSET Proposal] /\ chan' \in Channels
PROOF
  <1> DEFINE found == {p \in P : p.id = id}
             kept(Q) == pending' = [pending EXCEPT ![n] = Q]
                           /\ chan' = c /\ UNCHANGED state
  <1>1. \/ kept(P) \/ kept(P \ found)
        \/ \E p \in found : /\ Quorum(kind[n], roles[n], p)
                            /\ Ratified(n, p, P \ found, c)
    BY DEF TryRatify
  <1>2. ASSUME NEW Q \in SUBSET Proposal, kept(Q)
        PROVE  Sound /\ pending' \in [Node -> SUBSET Proposal] /\ chan' \in Channels
    <2>1. UNCHANGED <<kind, roles, log, mlog, dups>>
          /\ roster' \in [Node -> SUBSET Device]
      BY <1>2 DEF state, TypeOK, StateOK
    <2>2. pending' \in [Node -> SUBSET Proposal]
      BY <1>2 DEF TypeOK, WireOK
    <2> QED
      BY <1>2, <2>1, <2>2, NothingChanged
  <1>3. P \ found \in SUBSET Proposal
    OBVIOUS
  <1>4. ASSUME NEW p \in found, Quorum(kind[n], roles[n], p),
               Ratified(n, p, P \ found, c)
        PROVE  Sound /\ pending' \in [Node -> SUBSET Proposal] /\ chan' \in Channels
    BY <1>3, <1>4, RatifiedStep
  <1> HIDE DEF found, kept
  <1> QED
    BY ZenonT(30), <1>1, <1>2, <1>3, <1>4

(* adopt_transition_log, whatever it is given.                             *)
LEMMA AdoptStep ==
    ASSUME LogFacts, TypeOK, LogsVerify, NEW n \in Node, NEW L \in Seq(Transition),
           NEW M \in MemberLog, NEW ros \in SUBSET Device, NEW c \in Channels,
           NEW lost, Adopt(n, L, M, ros, c, lost)
    PROVE  Sound /\ chan' \in Channels
PROOF
  <1> DEFINE longer == Extends(L, log[n]) /\ VerifyLog(L)
             newLog == IF longer THEN L ELSE log[n]
             newKind == IF longer THEN KindAt(L, Len(L)) ELSE kind[n]
             merged == MergeMemberLogs(mlog[n], M)
             grew == Cardinality(merged) > Cardinality(mlog[n]) + dups[n]
             newMlog == IF grew THEN merged ELSE mlog[n]
             newDups == IF grew THEN 0 ELSE dups[n]
             newRoles == Project(newLog, newMlog)
             gone == Removed(newMlog, Replayed(newLog))
             newRoster == Mirror(n, ros, newRoles, gone)
             changed == longer \/ grew
             repaired == \/ \E d \in Device \ ros : newRoles[d] # "none"
                         \/ ros \cap (gone \ {n}) # {}
             denied == {m \in Node : /\ changed \/ repaired
                                     /\ Linked(n, m)
                                     /\ EvictedBy(newKind, newRoles, newMlog, m)}
             warned == [c EXCEPT ![n] =
                          [m \in Node |-> IF m \in denied
                                          THEN Append(c[n][m], DenyFrame(newLog, newMlog))
                                          ELSE c[n][m]]]
             fs == IF changed
                   THEN <<StateFrame(newLog, newMlog, newDups, newRoster)>>
                   ELSE IF repaired THEN <<SummaryFrame(newRoster)>> ELSE <<>>
  <1>1. /\ log' = [log EXCEPT ![n] = newLog]
        /\ kind' = [kind EXCEPT ![n] = newKind]
        /\ mlog' = [mlog EXCEPT ![n] = newMlog]
        /\ dups' = [dups EXCEPT ![n] = newDups]
        /\ roles' = [roles EXCEPT ![n] = newRoles]
        /\ roster' = [roster EXCEPT ![n] = newRoster]
        /\ chan' = Cut(Broadcast(warned, n, fs), n, lost)
    BY ZenonT(30) DEF Adopt
  <1>2. /\ kind[n] \in Kinds /\ log[n] \in Seq(Transition)
        /\ mlog[n] \in MemberLog /\ dups[n] \in Nat
        /\ Coherent(kind[n], roles[n], log[n])
    BY DEF TypeOK, StateOK, LogsVerify
  <1>3. newLog \in Seq(Transition) /\ newKind \in Kinds
    <2>1. KindAt(L, Len(L)) \in Kinds
      BY ReplayType
    <2> QED
      BY <1>2, <2>1
  <1>4. Continues(newLog, log[n])
    <2>1. CASE longer
      <3>1. newLog = L /\ Extends(L, log[n])
        BY <2>1
      <3>2. log[n] \in Seq(Transition) /\ L \in Seq(Transition)
        BY <1>2
      <3> HIDE DEF newLog
      <3>3. Continues(L, log[n])
        BY <3>1, <3>2 DEF Extends, Continues
      <3> QED
        BY ZenonT(30), <3>1, <3>3
    <2>2. CASE ~longer
      BY <1>2, <2>2, ContinuesSelf
    <2> QED
      BY <2>1, <2>2
  <1>5. VerifyLog(newLog) /\ newKind = KindAt(newLog, Len(newLog))
    BY ZenonT(30), <1>2 DEF Coherent
  <1> HIDE DEF longer, newLog, newKind
  <1>6. newMlog \in MemberLog /\ mlog[n] \subseteq newMlog /\ newDups \in Nat
    <2>1. merged \in MemberLog /\ mlog[n] \subseteq merged
      BY <1>2, MemberLogs DEF MergeMemberLogs
    <2> HIDE DEF merged, grew
    <2> QED
      BY ZenonT(30), <1>2, <2>1
  <1> HIDE DEF merged, grew, newMlog, newDups
  <1>7. newRoles \in [Device -> Roles] /\ Coherent(newKind, newRoles, newLog)
    BY <1>3, <1>5, ProjectSeats, CoherentProject
  <1>8. newRoster \in SUBSET Device
    BY DEF Mirror
  <1> HIDE DEF newRoles, newRoster, gone
  <1>9. Sound
    BY ZenonT(30), <1>1, <1>3, <1>4, <1>6, <1>7, <1>8, OneChanged
  <1> HIDE DEF changed, repaired, denied
  <1>10. warned \in Channels
    <2>1. DenyFrame(newLog, newMlog) \in Frame
      BY <1>3, <1>6, FramesBuilt
    <2>2. \A m \in Node : c[n][m] \in Seq(Frame)
      BY DEF Channels
    <2>3. \A m \in Node : Append(c[n][m], DenyFrame(newLog, newMlog)) \in Seq(Frame)
      BY <2>1, <2>2
    <2>4. [m \in Node |-> IF m \in denied
                          THEN Append(c[n][m], DenyFrame(newLog, newMlog))
                          ELSE c[n][m]] \in [Node -> Seq(Frame)]
      BY <2>2, <2>3
    <2> QED
      BY <2>4 DEF Channels
  <1>11. fs \in Seq(Frame)
    <2>1. StateFrame(newLog, newMlog, newDups, newRoster) \in Frame
          /\ SummaryFrame(newRoster) \in Frame
      BY <1>3, <1>6, <1>8, FramesBuilt
    <2> QED
      BY <2>1
  <1> HIDE DEF warned, fs
  <1>12. Broadcast(warned, n, fs) \in Channels
    BY <1>10, <1>11, ChannelOps
  <1>13. chan' \in Channels
    BY <1>1, <1>12, ChannelOps
  <1> QED
    BY <1>9, <1>13

-----------------------------------------------------------------------------
(* The commands of a member's user.                                        *)

(* The stamp of a proposal is a time.                                      *)
LEMMA StampType ==
    ASSUME LogFacts, TypeOK, NEW n \in Node, NEW v, NEW t \in Nat
    PROVE  Stamp(n, v, t) \in Nat
PROOF
  <1> DEFINE es == {w \in mlog[n] : About(w.variant, v.target)}
             ats == {u.at : u \in es}
  <1>1. mlog[n] \in MemberLog /\ es \in SUBSET mlog[n]
    BY ZenonT(30) DEF TypeOK, StateOK
  <1>4. ats # {} => Latest(ats) \in Nat
    BY ZenonT(30), <1>1 DEF LogFacts
  <1>5. \/ Stamp(n, v, t) = t
        \/ ats # {} /\ Stamp(n, v, t) = Latest(ats) + 1
    BY DEF Stamp
  <1> HIDE DEF ats
  <1> QED
    BY <1>4, <1>5

(* propose.                                                                *)
LEMMA ProposeStep ==
    ASSUME LogFacts, TypeOK, LogsVerify, NEW n \in Node, NEW v \in Variant, Propose(n, v)
    PROVE  TypeOK' /\ Sound
PROOF
  <1>1. PICK s \in Steps :
           LET t == now + s
               p == [id |-> proposals + 1, at |-> Stamp(n, v, t), by |-> n,
                     variant |-> v, signers |-> {n}, deniers |-> {}]
           IN  /\ now' = t
               /\ TryRatify(n, p.id, pending[n] \cup {p},
                     Broadcast(chan, n, <<ProposeFrame(p, t), OwnState(n)>>))
    BY ZenonT(30) DEF Propose
  <1> DEFINE t == now + s
             p == [id |-> proposals + 1, at |-> Stamp(n, v, t), by |-> n,
                   variant |-> v, signers |-> {n}, deniers |-> {}]
             c == Broadcast(chan, n, <<ProposeFrame(p, t), OwnState(n)>>)
  <1>2. t \in Nat /\ proposals + 1 \in Nat /\ n \in Device
    BY GovernanceAssumption DEF TypeOK, HistoryOK
  <1>3. Stamp(n, v, t) \in Nat
    BY <1>2, StampType
  <1>4. TryRatify(n, p.id, pending[n] \cup {p}, c) /\ now' = t
    BY ZenonT(30), <1>1
  <1> HIDE DEF t
  <1>5. p \in Proposal
    BY ZenonT(30), <1>2, <1>3 DEF Proposal
  <1> HIDE DEF p
  <1>6. pending[n] \cup {p} \in SUBSET Proposal
    BY <1>5 DEF TypeOK, WireOK
  <1>7. c \in Channels
    <2>1. ProposeFrame(p, t) \in Frame /\ OwnState(n) \in Frame
      BY <1>2, <1>5, FramesBuilt DEF OwnState, TypeOK, StateOK
    <2>2. <<ProposeFrame(p, t), OwnState(n)>> \in Seq(Frame)
      BY <2>1
    <2> QED
      BY ZenonT(30), <2>2, ChannelOps DEF TypeOK, WireOK
  <1> HIDE DEF c
  <1>8. Sound /\ pending' \in [Node -> SUBSET Proposal] /\ chan' \in Channels
    BY ZenonT(30), <1>4, <1>6, <1>7, TryRatifyStep
  <1>9. WireOK'
    BY ZenonT(30), <1>8 DEF Propose, TypeOK, WireOK
  <1>10. HistoryOK'
    <2>1. now' \in Nat
      BY <1>2, <1>4
    <2>2. proposals' \in 0..MaxProposals /\ links' = links /\ extras' = extras
      BY GovernanceAssumption DEF Propose, TypeOK, HistoryOK
    <2>3. endorsed' \subseteq Device \X Variant
      BY <1>2 DEF Propose, TypeOK, HistoryOK
    <2>4. condemned' \subseteq Device
      BY VariantFields DEF Propose, TypeOK, HistoryOK
    <2> QED
      BY <2>1, <2>2, <2>3, <2>4 DEF TypeOK, HistoryOK
  <1> QED
    BY <1>8, <1>9, <1>10 DEF TypeOK, Sound

(* Proposals with one vote more are proposals.                             *)
LEMMA VotedType ==
    ASSUME TypeOK, NEW n \in Node, NEW p \in pending[n], NEW d \in Node, NEW sign
    PROVE  Voted(n, p, d, sign) \in SUBSET Proposal
PROOF
  <1>1. p \in Proposal /\ d \in Device /\ pending[n] \in SUBSET Proposal
    BY GovernanceAssumption DEF TypeOK, WireOK
  <1>2. /\ [p EXCEPT !.signers = p.signers \cup {d}] \in Proposal
        /\ [p EXCEPT !.deniers = p.deniers \cup {d}] \in Proposal
    BY <1>1 DEF Proposal
  <1> QED
    BY ZenonT(30), <1>1, <1>2 DEF Voted

(* sign_proposal and deny_proposal.                                        *)
LEMMA VoteStep ==
    ASSUME LogFacts, TypeOK, LogsVerify, NEW n \in Node, NEW p \in pending[n],
           SignProposal(n, p) \/ DenyProposal(n, p)
    PROVE  TypeOK' /\ Sound
PROOF
  <1> DEFINE yes == AckFrame(p.id, TRUE)
             no == AckFrame(p.id, FALSE)
  <1>1. p \in Proposal /\ p.id \in Nat /\ p.variant \in Variant /\ n \in Device
        /\ chan \in Channels
    BY GovernanceAssumption DEF TypeOK, WireOK, Proposal
  <1>2. yes \in Frame /\ no \in Frame /\ OwnState(n) \in Frame
    BY ZenonT(30), <1>1, FramesBuilt DEF OwnState, TypeOK, StateOK
  <1>3. /\ Broadcast(chan, n, <<yes>>) \in Channels
        /\ Broadcast(chan, n, <<no, OwnState(n)>>) \in Channels
    <2>1. <<yes>> \in Seq(Frame) /\ <<no, OwnState(n)>> \in Seq(Frame)
      <3> HIDE DEF yes, no
      <3> QED
        BY <1>2
    <2> QED
      BY ZenonT(30), <1>1, <2>1, ChannelOps
  <1>4. \/ TryRatify(n, p.id, Voted(n, p, n, TRUE), Broadcast(chan, n, <<yes>>))
        \/ TryRatify(n, p.id, Voted(n, p, n, FALSE),
                     Broadcast(chan, n, <<no, OwnState(n)>>))
    BY ZenonT(30) DEF SignProposal, DenyProposal
  <1>5. Sound /\ pending' \in [Node -> SUBSET Proposal] /\ chan' \in Channels
    BY ZenonT(30), <1>3, <1>4, VotedType, TryRatifyStep
  <1>6. up' = up /\ UNCHANGED bounds
    BY ZenonT(30) DEF SignProposal, DenyProposal
  <1>7. endorsed' \in {endorsed, endorsed \cup {<<n, p.variant>>}}
        /\ condemned' = condemned
    BY ZenonT(30) DEF SignProposal, DenyProposal, history
  <1>8. WireOK' /\ HistoryOK'
    BY <1>1, <1>5, <1>6, <1>7 DEF TypeOK, WireOK, HistoryOK, bounds
  <1> QED
    BY <1>5, <1>8 DEF TypeOK, Sound

(* withdraw_proposal.                                                      *)
LEMMA WithdrawStep ==
    ASSUME LogFacts, TypeOK, LogsVerify, NEW n \in Node, NEW p \in pending[n],
           WithdrawProposal(n, p)
    PROVE  TypeOK' /\ Sound
PROOF
  <1>1. Sound
    BY NothingChanged DEF WithdrawProposal, state, TypeOK, StateOK
  <1>2. <<OwnState(n)>> \in Seq(Frame)
    BY FramesBuilt DEF OwnState, TypeOK, StateOK
  <1>3. chan' \in Channels
    BY ZenonT(30), <1>2, ChannelOps DEF WithdrawProposal, TypeOK, WireOK
  <1>4. pending' \in [Node -> SUBSET Proposal]
    BY DEF WithdrawProposal, TypeOK, WireOK
  <1>5. WireOK' /\ HistoryOK'
    <2>1. up' = up /\ UNCHANGED <<bounds, history>>
      BY ZenonT(60) DEF WithdrawProposal
    <2> QED
      BY <1>3, <1>4, <2>1 DEF TypeOK, WireOK, HistoryOK, bounds, history
  <1> QED
    BY ZenonT(60), <1>1, <1>5 DEF TypeOK, Sound

(* The roster edited by hand.                                              *)
LEMMA ManualStep ==
    ASSUME LogFacts, TypeOK, LogsVerify, NEW n \in Node, NEW d \in Device,
           ApproveRoster(n, d) \/ RemoveRoster(n, d)
    PROVE  TypeOK' /\ Sound
PROOF
  <1>1. roster' \in [Node -> SUBSET Device] /\ UNCHANGED <<kind, roles, log, mlog, dups>>
    <2>1. \/ roster' = [roster EXCEPT ![n] = roster[n] \cup {d}]
          \/ roster' = [roster EXCEPT ![n] = roster[n] \ {d}]
      BY ZenonT(30) DEF ApproveRoster, RemoveRoster
    <2>2. roster' \in [Node -> SUBSET Device]
      <3>1. roster \in [Node -> SUBSET Device]
        BY DEF TypeOK, StateOK
      <3>2. roster[n] \cup {d} \in SUBSET Device /\ roster[n] \ {d} \in SUBSET Device
        BY <3>1
      <3> QED
        BY <2>1, <3>1, <3>2
    <2> QED
      BY ZenonT(30), <2>2 DEF ApproveRoster, RemoveRoster
  <1>2. Sound
    BY <1>1, NothingChanged
  <1>3. chan' \in Channels
    <2>1. CASE ApproveRoster(n, d)
      <3>1. <<SummaryFrame(roster'[n])>> \in Seq(Frame)
        BY <1>1, FramesBuilt
      <3> QED
        BY ZenonT(30), <2>1, <3>1, ChannelOps DEF ApproveRoster, TypeOK, WireOK
    <2>2. CASE RemoveRoster(n, d)
      BY ZenonT(30), <2>2 DEF RemoveRoster, TypeOK, WireOK
    <2> QED
      BY <2>1, <2>2
  <1>4. WireOK'
    <2>1. pending' = pending /\ up' = up
      BY ZenonT(60) DEF ApproveRoster, RemoveRoster
    <2> QED
      BY <1>3, <2>1 DEF TypeOK, WireOK
  <1>5. HistoryOK'
    <2>1. /\ extras < MaxExtras /\ extras' = extras + 1
          /\ UNCHANGED <<now, proposals, links, endorsed, condemned>>
      BY ZenonT(60) DEF ApproveRoster, RemoveRoster, history
    <2> QED
      BY <2>1, GovernanceAssumption DEF TypeOK, HistoryOK
  <1> QED
    BY <1>2, <1>4, <1>5 DEF TypeOK, Sound

-----------------------------------------------------------------------------
(* Links.                                                                  *)

(* Both ends of a new link.                                                *)
LEMMA ConnectStep ==
    ASSUME LogFacts, TypeOK, LogsVerify, NEW n \in Node, NEW m \in Node, Connect(n, m)
    PROVE  TypeOK' /\ Sound
PROOF
  <1> DEFINE ros == [roster EXCEPT ![n] = roster[n] \cup {m},
                                   ![m] = roster[m] \cup {n}]
             frame(x) == StateFrame(log[x], mlog[x], dups[x], ros[x])
             clear == Cut(chan, n, {m})
  <1>1. ros \in [Node -> SUBSET Device]
    BY ZenonT(30), GovernanceAssumption DEF TypeOK, StateOK
  <1>2. /\ UNCHANGED <<kind, roles, log, mlog, dups, pending, now, proposals,
                       extras, history>>
        /\ links < MaxLinks /\ links' = links + 1
        /\ up' = up \cup {{n, m}} /\ roster' = ros
        /\ chan' = [x \in Node |-> [y \in Node |->
                       IF x \in {n, m} /\ {x, y} \in up'
                       THEN Append(clear[x][y], frame(x)) ELSE clear[x][y]]]
    BY ZenonT(30) DEF Connect
  <1>3. clear \in Channels
    BY ChannelOps DEF TypeOK, WireOK
  <1> HIDE DEF ros, clear
  <1>4. Sound
    BY <1>1, <1>2, NothingChanged
  <1>5. \A x \in Node : frame(x) \in Frame
    BY <1>1, FramesBuilt DEF TypeOK, StateOK
  <1> HIDE DEF frame
  <1>6. \A x, y \in Node : clear[x][y] \in Seq(Frame)
                              /\ Append(clear[x][y], frame(x)) \in Seq(Frame)
    BY <1>3, <1>5 DEF Channels
  <1>7. chan' \in Channels
    BY ZenonT(30), <1>2, <1>6 DEF Channels
  <1>8. WireOK'
    BY <1>2, <1>7 DEF TypeOK, WireOK
  <1>9. HistoryOK'
    BY <1>2, GovernanceAssumption DEF TypeOK, HistoryOK, history
  <1> QED
    BY <1>4, <1>8, <1>9 DEF TypeOK, Sound

(* A refused or lost link.                                                 *)
LEMMA UnlinkStep ==
    ASSUME LogFacts, TypeOK, LogsVerify, NEW n \in Node, NEW m \in Node,
           Refuse(n, m) \/ Disconnect(n, m)
    PROVE  TypeOK' /\ Sound
PROOF
  <1>1. UNCHANGED <<kind, roles, log, mlog, dups, roster, pending, now, proposals,
                    extras, history>>
    BY ZenonT(30) DEF Refuse, Disconnect, state, bounds
  <1>2. Sound
    BY <1>1, NothingChanged DEF TypeOK, StateOK
  <1>3. chan' \in Channels
    <2>1. DenyFrame(log[n], mlog[n]) \in Frame
      BY FramesBuilt DEF TypeOK, StateOK
    <2>2. chan \in Channels
      BY DEF TypeOK, WireOK
    <2>3. /\ Send(chan, n, m, DenyFrame(log[n], mlog[n])) \in Channels
          /\ Cut(chan, n, {m}) \in Channels
      BY ZenonT(30), <2>1, <2>2, ChannelOps
    <2> QED
      BY ZenonT(30), <2>3 DEF Refuse, Disconnect
  <1>4. WireOK'
    BY ZenonT(30), <1>1, <1>3 DEF Refuse, Disconnect, TypeOK, WireOK
  <1>5. links' \in 0..MaxLinks
    <2>1. links \in 0..MaxLinks /\ MaxLinks \in Nat
      BY GovernanceAssumption DEF TypeOK, HistoryOK
    <2>2. links' = links \/ (links < MaxLinks /\ links' = links + 1)
      BY DEF Refuse, Disconnect, bounds
    <2> QED
      BY <2>1, <2>2
  <1>6. HistoryOK'
    BY <1>1, <1>5 DEF TypeOK, HistoryOK, history
  <1> QED
    BY <1>2, <1>4, <1>6 DEF TypeOK, Sound

(* A restart.                                                              *)
LEMMA RestartStep ==
    ASSUME LogFacts, TypeOK, LogsVerify, NEW n \in Node, Restart(n)
    PROVE  TypeOK' /\ Sound
PROOF
  <1>1. Sound
    <2>1. CASE kind[n] = "open"
      BY <2>1, NothingChanged DEF Restart, TypeOK, StateOK
    <2>2. CASE kind[n] # "open"
      <3> DEFINE r == Project(log[n], mlog[n])
                 ros == Mirror(n, roster[n], r, Removed(mlog[n], Replayed(log[n])))
      <3>1. /\ kind[n] \in Kinds /\ log[n] \in Seq(Transition)
            /\ mlog[n] \in MemberLog /\ dups[n] \in Nat /\ roster[n] \in SUBSET Device
            /\ Coherent(kind[n], roles[n], log[n])
        BY DEF TypeOK, StateOK, LogsVerify
      <3>2. /\ roles' = [roles EXCEPT ![n] = r] /\ roles'[n] = r
            /\ roster' = [roster EXCEPT ![n] = ros]
        BY <2>2 DEF Restart, TypeOK, StateOK
      <3>3. /\ kind' = [kind EXCEPT ![n] = kind[n]]
            /\ log' = [log EXCEPT ![n] = log[n]]
            /\ mlog' = [mlog EXCEPT ![n] = mlog[n]]
            /\ dups' = [dups EXCEPT ![n] = dups[n]]
        BY DEF Restart, TypeOK, StateOK
      <3>4. r \in [Device -> Roles] /\ Coherent(kind[n], r, log[n])
        BY ZenonT(30), <3>1, ProjectSeats, CoherentProject DEF Coherent
      <3>5. ros \in SUBSET Device
        BY ZenonT(30), <3>1 DEF Mirror
      <3> HIDE DEF r, ros
      <3> QED
        BY ZenonT(30), <3>1, <3>2, <3>3, <3>4, <3>5, ContinuesSelf, OneChanged
    <2> QED
      BY <2>1, <2>2
  <1>2. chan' \in Channels
    BY ZenonT(30), ChannelOps DEF Restart, TypeOK, WireOK
  <1>3. WireOK'
    BY ZenonT(30), <1>2 DEF Restart, TypeOK, WireOK
  <1>4. HistoryOK'
    <2>1. /\ extras < MaxExtras /\ extras' = extras + 1
          /\ UNCHANGED <<now, proposals, links, endorsed, condemned>>
      BY ZenonT(30) DEF Restart, history
    <2> QED
      BY <2>1, GovernanceAssumption DEF TypeOK, HistoryOK
  <1> QED
    BY <1>1, <1>3, <1>4 DEF TypeOK, Sound

-----------------------------------------------------------------------------
(* Frames arriving.                                                        *)

(* A handler that only counts a vote or takes up a proposal.               *)
LEMMA ProposalStep ==
    ASSUME LogFacts, TypeOK, LogsVerify, NEW n \in Node, NEW m \in Node,
           OnPropose(n, m) \/ OnAck(n, m)
    PROVE  TypeOK' /\ Sound
PROOF
  <1> DEFINE f == Head(chan[m][n])
  <1>1. UNCHANGED <<up, bounds, history>>
    BY ZenonT(30) DEF OnPropose, OnAck
  <1>2. m \in Device /\ pending[n] \in SUBSET Proposal
    BY GovernanceAssumption DEF TypeOK, WireOK
  <1>3. Sound /\ pending' \in [Node -> SUBSET Proposal] /\ chan' \in Channels
    <2>1. CASE OnPropose(n, m)
      <3> DEFINE p == [id |-> f.id, at |-> f.at, by |-> m, variant |-> f.variant,
                       signers |-> {m}, deniers |-> {}]
                 P == IF \E q \in pending[n] : q.id = f.id
                      THEN pending[n] ELSE pending[n] \cup {p}
      <3>1. Arrives(n, m, "propose") /\ TryRatify(n, f.id, P, Taken(n, m))
        BY ZenonT(30), <2>1 DEF OnPropose
      <3>2. f \in Frame /\ f.type = "propose" /\ Taken(n, m) \in Channels
        BY ZenonT(30), <3>1, FrameTaken
      <3>3. f.id \in Nat /\ f.at \in Nat /\ f.variant \in Variant
        BY <3>2, FramesRead
      <3> HIDE DEF f
      <3>4. p \in Proposal
        BY <1>2, <3>3 DEF Proposal
      <3> HIDE DEF p
      <3>5. P \in SUBSET Proposal
        BY <1>2, <3>4
      <3> HIDE DEF P
      <3> QED
        BY <3>1, <3>2, <3>5, TryRatifyStep
    <2>2. CASE OnAck(n, m)
      <3>1. /\ Arrives(n, m, "ack")
            /\ \/ chan' = Taken(n, m) /\ UNCHANGED <<state, pending>>
               \/ \E p \in pending[n] :
                     TryRatify(n, f.id, Voted(n, p, m, f.sign), Taken(n, m))
        BY ZenonT(30), <2>2 DEF OnAck
      <3>2. Taken(n, m) \in Channels
        BY ZenonT(30), <3>1, FrameTaken
      <3>3. CASE chan' = Taken(n, m) /\ UNCHANGED <<state, pending>>
        BY <3>2, <3>3, NothingChanged DEF state, TypeOK, StateOK, WireOK
      <3>4. ASSUME NEW p \in pending[n],
                   TryRatify(n, f.id, Voted(n, p, m, f.sign), Taken(n, m))
            PROVE  Sound /\ pending' \in [Node -> SUBSET Proposal] /\ chan' \in Channels
        <4>1. Voted(n, p, m, f.sign) \in SUBSET Proposal
          BY ZenonT(30), VotedType
        <4> QED
          BY ZenonT(30), <3>2, <3>4, <4>1, TryRatifyStep
      <3> QED
        BY ZenonT(30), <3>1, <3>3, <3>4
    <2> QED
      BY <2>1, <2>2
  <1>4. WireOK' /\ HistoryOK'
    BY <1>1, <1>3 DEF TypeOK, WireOK, HistoryOK, bounds, history
  <1> QED
    BY <1>3, <1>4 DEF TypeOK, Sound

(* A handler that answers with a request, or a request with the logs.      *)
LEMMA ExchangeStep ==
    ASSUME LogFacts, TypeOK, LogsVerify, NEW n \in Node, NEW m \in Node,
           OnState(n, m) \/ OnSummary(n, m) \/ OnRequest(n, m)
    PROVE  TypeOK' /\ Sound
PROOF
  <1>1. UNCHANGED <<state, pending, up, bounds, history>>
    BY ZenonT(30) DEF OnState, OnSummary, OnRequest
  <1>2. Sound
    BY <1>1, NothingChanged DEF state, TypeOK, StateOK
  <1>3. Taken(n, m) \in Channels
    BY ZenonT(30), FrameTaken DEF OnState, OnSummary, OnRequest
  <1>4. RequestFrame \in Frame /\ EntriesFrame(log[n], mlog[n], roster[n]) \in Frame
    BY FramesBuilt DEF TypeOK, StateOK
  <1>5. /\ Send(Taken(n, m), n, m, RequestFrame) \in Channels
        /\ Send(Taken(n, m), n, m, EntriesFrame(log[n], mlog[n], roster[n])) \in Channels
    BY ZenonT(30), <1>3, <1>4, ChannelOps
  <1>6. chan' \in Channels
    BY ZenonT(30), <1>3, <1>5 DEF OnState, OnSummary, OnRequest
  <1>7. WireOK' /\ HistoryOK'
    BY <1>1, <1>6 DEF TypeOK, WireOK, HistoryOK, bounds, history
  <1> QED
    BY <1>2, <1>7 DEF TypeOK, Sound

(* A handler that adopts logs.                                             *)
LEMMA AdoptionStep ==
    ASSUME LogFacts, TypeOK, LogsVerify, NEW n \in Node, NEW m \in Node,
           OnEntries(n, m) \/ OnDeny(n, m)
    PROVE  TypeOK' /\ Sound
PROOF
  <1> DEFINE f == Head(chan[m][n])
  <1>1. UNCHANGED <<pending, bounds, history>> /\ up' \subseteq up
    BY ZenonT(30) DEF OnEntries, OnDeny
  <1>2. roster[n] \in SUBSET Device
    BY DEF TypeOK, StateOK
  <1>3. Sound /\ chan' \in Channels
    <2>1. CASE OnEntries(n, m)
      <3> DEFINE ros == IF kind[n] = "open" THEN roster[n] \cup (f.roster \ {n})
                        ELSE roster[n]
                 c == IF ros = roster[n] THEN Taken(n, m)
                      ELSE Broadcast(Taken(n, m), n, <<SummaryFrame(ros)>>)
      <3>1. Arrives(n, m, "entries") /\ Adopt(n, f.log, f.mlog, ros, c, {})
        BY ZenonT(30), <2>1 DEF OnEntries
      <3>2. f \in Frame /\ f.type = "entries" /\ Taken(n, m) \in Channels
        BY ZenonT(30), <3>1, FrameTaken
      <3>3. f.log \in Seq(Transition) /\ f.mlog \in MemberLog
            /\ f.roster \in SUBSET Device
        BY <3>2, FramesRead
      <3> HIDE DEF f
      <3>4. ros \in SUBSET Device
        BY <1>2, <3>3
      <3> HIDE DEF ros
      <3>5. c \in Channels
        <4>1. <<SummaryFrame(ros)>> \in Seq(Frame)
          BY <3>4, FramesBuilt
        <4> QED
          BY ZenonT(30), <3>2, <4>1, ChannelOps
      <3> HIDE DEF c
      <3> QED
        BY <3>1, <3>3, <3>4, <3>5, AdoptStep
    <2>2. CASE OnDeny(n, m)
      <3>1. Arrives(n, m, "deny")
            /\ Adopt(n, f.log, f.mlog, roster[n], Taken(n, m), {m})
        BY ZenonT(30), <2>2 DEF OnDeny
      <3>2. f \in Frame /\ f.type = "deny" /\ Taken(n, m) \in Channels
        BY <3>1, FrameTaken
      <3>3. f.log \in Seq(Transition) /\ f.mlog \in MemberLog
        BY ZenonT(30), <3>2, FramesRead
      <3> HIDE DEF f
      <3> QED
        BY <1>2, <3>1, <3>2, <3>3, AdoptStep
    <2> QED
      BY <2>1, <2>2
  <1>4. WireOK' /\ HistoryOK'
    BY <1>1, <1>3 DEF TypeOK, WireOK, HistoryOK, bounds, history
  <1> QED
    BY <1>3, <1>4 DEF TypeOK, Sound
=============================================================================
