-------------------------- MODULE GovernanceProofs --------------------------
(***************************************************************************)
(* For every set of devices and members, every genesis log that verifies   *)
(* and every agenda: the types, that each member's governance log verifies *)
(* and its caches fit it, that no step loses history, and that a device is *)
(* named as a signer only of what its user signed, in every log, proposal  *)
(* and frame.                                                              *)
(***************************************************************************)
EXTENDS GovernanceStepProofs, FiniteSetTheorems, WellFoundedInduction

(* What a leaf is tried with, in this order, and for how many seconds.     *)
USE ZenonT(3), SMTT(25), ZenonT(40)

-----------------------------------------------------------------------------
(* The finite sets.                                                        *)

(* A non-empty set of naturals has a least element.                        *)
LEMMA LeastNatural ==
    ASSUME NEW S \in SUBSET Nat, S # {}
    PROVE  \E i \in S : \A j \in S : i <= j
PROOF
  <1>1. PICK i \in S : \A j \in S : ~(<<j, i>> \in OpToRel(<, Nat))
    BY ZenonT(30), NatLessThanWellFounded, WFMin
  <1>2. \A j \in S : ~(j < i)
    BY ZenonT(30), <1>1 DEF OpToRel
  <1> QED
    BY <1>2

(* A finite non-empty set of naturals has a greatest element, and Latest   *)
(* is it: an element with the fewest elements above it has none.           *)
LEMMA LatestIsGreatest ==
    ASSUME NEW S \in SUBSET Nat, IsFiniteSet(S), S # {}
    PROVE  Latest(S) \in S /\ \A j \in S : j <= Latest(S)
PROOF
  <1> DEFINE above(i) == {j \in S : j > i}
             counts == {Cardinality(above(i)) : i \in S}
  <1>1. \A i \in S : IsFiniteSet(above(i)) /\ Cardinality(above(i)) \in Nat
    BY FS_Subset, FS_CardinalityType
  <1>2. PICK i \in S : \A j \in S : Cardinality(above(i)) <= Cardinality(above(j))
    <2>1. counts \in SUBSET Nat /\ counts # {}
      BY ZenonT(30), <1>1
    <2>2. PICK c \in counts : \A e \in counts : c <= e
      BY ZenonT(30), <2>1, LeastNatural
    <2> QED
      BY ZenonT(30), <2>2
  <1>3. \A j \in S : j <= i
    <2> SUFFICES ASSUME NEW j \in S, j > i PROVE FALSE
      OBVIOUS
    <2>1. above(j) \in SUBSET above(i)
      <3>1. i \in Nat /\ j \in Nat /\ \A k \in S : k \in Nat
        OBVIOUS
      <3>2. \A k \in S : k > j => k > i
        BY <3>1
      <3> QED
        BY ZenonT(30), <3>2
    <2>2. j \in above(i) /\ j \notin above(j)
      OBVIOUS
    <2>3. /\ Cardinality(above(j)) <= Cardinality(above(i))
          /\ Cardinality(above(i)) = Cardinality(above(j)) => above(i) = above(j)
      BY <1>1, <2>1, FS_Subset
    <2> HIDE DEF above
    <2> QED
      BY <1>1, <1>2, <2>2, <2>3
  <1> QED
    BY ZenonT(30), <1>3 DEF Latest

(* The latest of some places in a log is one of them.                      *)
LEMMA LatestOfPlaces ==
    ASSUME NEW i \in Nat, NEW S \in SUBSET (1..i), S # {}
    PROVE  Latest(S) \in S
PROOF
  <1>1. IsFiniteSet(1..i)
    BY FS_Interval
  <1>2. IsFiniteSet(S)
    BY ZenonT(30), <1>1, FS_Subset
  <1>3. S \in SUBSET Nat
    OBVIOUS
  <1> QED
    BY <1>2, <1>3, LatestIsGreatest

(* The latest of the times of some entries of a member log is a time.      *)
LEMMA LatestTime ==
    ASSUME NEW M \in MemberLog, NEW E \in SUBSET M, E # {}
    PROVE  Latest({e.at : e \in E}) \in Nat
PROOF
  <1> DEFINE ats == {e.at : e \in E}
  <1>1. E \in SUBSET Transition /\ IsFiniteSet(E)
    BY FS_Subset DEF MemberLog
  <1>2. ats \in SUBSET Nat /\ ats # {}
    BY <1>1 DEF Transition
  <1>3. IsFiniteSet(ats)
    <2>1. [e \in E |-> e.at] \in Surjection(E, ats)
      BY DEF Surjection
    <2> QED
      BY <1>1, <2>1, FS_Surjection
  <1> QED
    BY <1>2, <1>3, LatestIsGreatest

(* The facts that the steps rest on.                                       *)
LEMMA LogFactsHold == LogFacts
PROOF
  <1>1. {} \in MemberLog
    BY FS_EmptySet DEF MemberLog
  <1>2. \A M \in MemberLog : Cardinality(M) \in Nat
    BY FS_CardinalityType DEF MemberLog
  <1>3. \A M \in MemberLog, t \in Transition : M \cup {t} \in MemberLog
    BY ZenonT(30), FS_AddElement DEF MemberLog
  <1>4. \A M, N \in MemberLog : MergeMemberLogs(M, N) \in MemberLog
    BY ZenonT(30), FS_Union DEF MemberLog, MergeMemberLogs
  <1> QED
    BY ZenonT(30), <1>1, <1>2, <1>3, <1>4, LatestOfPlaces, LatestTime DEF LogFacts

USE LogFactsHold

-----------------------------------------------------------------------------
(* Types, logs that verify, and history.                                   *)

(* The initial state, from any genesis log that verifies.                  *)
LEMMA InitSound ==
    ASSUME Init
    PROVE  TypeOK /\ LogsVerify
PROOF
  <1>1. Genesis \in Seq(Transition) /\ VerifyLog(Genesis)
    BY GovernanceAssumption
  <1>2. KindAt(Genesis, Len(Genesis)) \in Kinds /\ Replayed(Genesis) \in [Device -> Roles]
    BY <1>1, ReplayType DEF Replayed
  <1>3. StateOK
    BY ZenonT(30), <1>1, <1>2, MemberLogs, GovernanceAssumption DEF Init, StateOK
  <1>4. WireOK
    <2>1. <<>> \in Seq(Frame)
      OBVIOUS
    <2> QED
      BY ZenonT(30), <2>1 DEF Init, WireOK, Channels
  <1>5. HistoryOK
    <2>1. \A i \in 1..Len(Genesis) : Genesis[i].variant \in Variant
                                        /\ Genesis[i].signers \in SUBSET Device
      BY <1>1, EffectType
    <2>2. endorsed \subseteq Device \X Variant
      BY <2>1 DEF Init
    <2>3. /\ {now, proposals, links, extras} = {0}
          /\ condemned = {}
      BY DEF Init
    <2>4. {MaxProposals, MaxLinks, MaxExtras} \subseteq Nat
      BY GovernanceAssumption
    <2> QED
      BY <2>2, <2>3, <2>4 DEF HistoryOK
  <1>6. LogsVerify
    BY ZenonT(30), <1>1 DEF Init, LogsVerify, Coherent
  <1> QED
    BY <1>3, <1>4, <1>5, <1>6 DEF TypeOK

(* Every step.                                                             *)
LEMMA StepSound ==
    ASSUME TypeOK, LogsVerify, [Next]_vars
    PROVE  TypeOK' /\ Sound
PROOF
  <1>1. CASE Command
    <2>1. ASSUME NEW a \in Agenda, Propose(a[1], a[2]) PROVE TypeOK' /\ Sound
      BY <2>1, ProposeStep, GovernanceAssumption
    <2>2. ASSUME NEW n \in Reviewers, NEW p \in pending[n],
                 SignProposal(n, p) \/ DenyProposal(n, p) \/ WithdrawProposal(n, p)
          PROVE  TypeOK' /\ Sound
      BY ZenonT(30), <2>2, VoteStep, WithdrawStep, GovernanceAssumption
    <2>3. ASSUME NEW r \in Manual, ApproveRoster(r[1], r[2]) \/ RemoveRoster(r[1], r[2])
          PROVE  TypeOK' /\ Sound
      BY <2>3, ManualStep, GovernanceAssumption
    <2> QED
      BY <1>1, <2>1, <2>2, <2>3 DEF Command
  <1>2. CASE Link
    BY <1>2, ConnectStep, UnlinkStep DEF Link
  <1>3. CASE Receive
    BY <1>3, ProposalStep, ExchangeStep, AdoptionStep DEF Receive
  <1>4. ASSUME NEW n \in Node, Restart(n) PROVE TypeOK' /\ Sound
    BY <1>4, RestartStep
  <1>5. CASE UNCHANGED vars
    <2>1. Sound
      BY <1>5, NothingChanged DEF vars, state, TypeOK, StateOK
    <2>2. WireOK' /\ HistoryOK'
      BY <1>5 DEF vars, bounds, history, TypeOK, WireOK, HistoryOK
    <2> QED
      BY <2>1, <2>2 DEF TypeOK, Sound
  <1> QED
    BY <1>1, <1>2, <1>3, <1>4, <1>5 DEF Next

(* Types, and logs that verify with caches that fit them, hold together.   *)
LEMMA Invariance == Spec => [](TypeOK /\ LogsVerify)
PROOF
  <1>1. Init => TypeOK /\ LogsVerify
    BY InitSound
  <1>2. TypeOK /\ LogsVerify /\ [Next]_vars => (TypeOK /\ LogsVerify)'
    BY StepSound DEF Sound
  <1> QED
    BY <1>1, <1>2, PTL DEF Spec

(* What members keep and send has its type: ratification, adoption and the *)
(* projection of the logs yield roles of the role table, and member logs   *)
(* stay finite.                                                            *)
THEOREM GovernanceTypeCorrect == Spec => []TypeOK
PROOF
  BY Invariance, PTL

(* The governance log of every member verifies from genesis at all times,  *)
(* and the kind and seats it caches are the ones its log replays to:       *)
(* try_ratify and adopt_transition_log never leave a log that a peer's     *)
(* verify_log refuses.                                                     *)
THEOREM LogsAlwaysVerify == Spec => []LogsVerify
PROOF
  BY Invariance, PTL

(* No step takes an entry out of a member's logs or puts another in its    *)
(* place, whatever peers send.                                             *)
THEOREM HistoryIsKept == Spec => HistoryKept
PROOF
  <1>1. TypeOK /\ LogsVerify /\ [Next]_vars =>
           [\A n \in Node : /\ Continues(log'[n], log[n])
                            /\ mlog[n] \subseteq mlog'[n]]_vars
    BY ZenonT(30), StepSound DEF Sound, Kept
  <1> QED
    BY <1>1, Invariance, PTL DEF Spec, HistoryKept

-----------------------------------------------------------------------------
(* Signers: the commands of a member's user.                               *)

(* propose.                                                                *)
LEMMA ProposeSigns ==
    ASSUME TypeOK, TypeOK', SignInv, NEW n \in Node, NEW v \in Variant, Propose(n, v)
    PROVE  SignInv'
PROOF
  <1>1. PICK s \in Steps :
           LET t == now + s
               p == [id |-> proposals + 1, at |-> Stamp(n, v, t), by |-> n,
                     variant |-> v, signers |-> {n}, deniers |-> {}]
           IN  /\ now' = t
               /\ TryRatify(n, p.id, pending[n] \cup {p},
                     Broadcast(chan, n, <<ProposeFrame(p, t), OwnState(n)>>))
    BY ZenonT(30) DEF Propose
  <1> DEFINE t == now + s
             p == [id |-> proposals + 1, at |-> Stamp(n, v, t), by |-> n,
                   variant |-> v, signers |-> {n}, deniers |-> {}]
             fs == <<ProposeFrame(p, t), OwnState(n)>>
             c == Broadcast(chan, n, fs)
  <1>2. t \in Nat /\ proposals + 1 \in Nat /\ n \in Device
    BY GovernanceAssumption DEF TypeOK, HistoryOK
  <1>3. Stamp(n, v, t) \in Nat
    BY <1>2, StampType
  <1>4. TryRatify(n, p.id, pending[n] \cup {p}, c)
    BY ZenonT(30), <1>1
  <1>5. /\ proposals' = proposals + 1 /\ endorsed' = endorsed \cup {<<n, v>>}
    BY ZenonT(60) DEF Propose
  <1> HIDE DEF t
  <1>6. p \in Proposal
    BY ZenonT(30), <1>2, <1>3 DEF Proposal
  <1>7. p.id = proposals + 1 /\ p.variant = v /\ p.signers = {n}
    OBVIOUS
  <1> HIDE DEF p
  <1>8. pending[n] \cup {p} \in SUBSET Proposal
    BY <1>6 DEF TypeOK, WireOK
  <1>9. Signed(pending[n] \cup {p})
    BY ZenonT(60), <1>5, <1>7 DEF Signed, SignInv, Genuine
  <1>10. \A q \in pending[n] \cup {p} : Known(v, q)
    BY ZenonT(60), <1>5, <1>7 DEF Known, SignInv, Claim
  <1> DEFINE g == ProposeFrame(p, t)
  <1>11. g \in Frame /\ g.type = "propose" /\ g.id = proposals + 1 /\ g.variant = v
    <2>1. g \in Frame
      BY <1>2, <1>6, FramesBuilt
    <2> QED
      BY <1>7, <2>1 DEF ProposeFrame
  <1> HIDE DEF g
  <1>12. fs = <<g, OwnState(n)>>
    BY DEF g
  <1> HIDE DEF fs
  <1>13. fs \in Seq(Frame) /\ Items(fs) = {g, OwnState(n)}
    BY <1>11, <1>12, OwnStateFrame, TwoItems
  <1>14. Fresh(v, n, g)
    BY <1>5, <1>11 DEF Fresh
  <1>15. Fresh(v, n, OwnState(n))
    BY OwnStateFrame DEF Fresh
  <1>16. \A f \in Items(fs) : Fresh(v, n, f)
    BY <1>13, <1>14, <1>15
  <1>17. /\ c \in Channels
         /\ \A x, y \in Node : \A f \in Items(c[x][y]) :
               f \in Items(chan[x][y]) \/ Fresh(v, x, f)
    BY <1>13, <1>16, BroadcastFresh
  <1> HIDE DEF c
  <1>18. endorsed \subseteq endorsed' /\ proposals' \in {proposals, proposals + 1}
    BY <1>5
  <1> QED
    BY ZenonT(60), <1>4, <1>8, <1>9, <1>10, <1>17, <1>18, RatifyKeeps

(* A vote of d that it cast.                                               *)
LEMMA VoteKeeps ==
    ASSUME TypeOK, TypeOK', SignInv, NEW n \in Node, NEW p \in pending[n],
           NEW d \in Node, NEW sign, NEW id, NEW c \in Channels,
           TryRatify(n, id, Voted(n, p, d, sign), c),
           endorsed \subseteq endorsed', proposals' = proposals,
           sign => <<d, p.variant>> \in endorsed',
           \A x, y \in Node : \A f \in Items(c[x][y]) :
              f \in Items(chan[x][y]) \/ Fresh(0, x, f)
    PROVE  SignInv'
PROOF
  <1> DEFINE P == Voted(n, p, d, sign)
  <1>1. P \in SUBSET Proposal
    BY ZenonT(60), VotedType
  <1>2. p \in Proposal /\ pending[n] \in SUBSET Proposal
    BY DEF TypeOK, WireOK
  <1>3. ASSUME NEW q \in P
        PROVE  \/ q \in pending[n]
               \/ /\ q.id = p.id /\ q.variant = p.variant
                  /\ q.signers = p.signers \/ (sign /\ q.signers = p.signers \cup {d})
    BY <1>2, <1>3 DEF Voted, Proposal
  <1>4. Signed(pending[n]) /\ \A q \in pending[n] : Known(0, q)
    BY ZenonT(60) DEF SignInv, Genuine, Signed, Known, Claim
  <1> HIDE DEF P
  <1>5. Signed(P)
    BY ZenonT(60), <1>3, <1>4 DEF Signed
  <1>6. \A q \in P : Known(0, q)
    BY <1>3, <1>4 DEF Known
  <1>7. TryRatify(n, id, P, c)
    BY DEF P
  <1> QED
    BY ZenonT(60), <1>1, <1>5, <1>6, <1>7, RatifyKeeps

(* sign_proposal: the frame names p by its id, which names no other.       *)
LEMMA SignSigns ==
    ASSUME TypeOK, TypeOK', SignInv, NEW n \in Node, NEW p \in pending[n],
           SignProposal(n, p)
    PROVE  SignInv'
PROOF
  <1> DEFINE g == AckFrame(p.id, TRUE)
             c == Broadcast(chan, n, <<g>>)
  <1>1. /\ TryRatify(n, p.id, Voted(n, p, n, TRUE), c)
        /\ endorsed' = endorsed \cup {<<n, p.variant>>} /\ proposals' = proposals
    BY ZenonT(60) DEF SignProposal, bounds
  <1>2. p.id \in Nat
    BY DEF TypeOK, WireOK, Proposal
  <1>3. g \in Frame /\ g.type = "ack" /\ g.id = p.id
    <2>1. g \in Frame
      BY ZenonT(60), <1>2, FramesBuilt
    <2> QED
      BY <2>1 DEF AckFrame
  <1> HIDE DEF g
  <1>4. <<g>> \in Seq(Frame) /\ Items(<<g>>) = {g}
    BY <1>3, OneItem
  <1>5. \A w : Claim(p.id, w) => w = p.variant
    <2>1. Claim(p.id, p.variant)
      BY DEF Claim
    <2> QED
      BY <2>1 DEF SignInv
  <1>6. p.id <= proposals
    BY DEF SignInv
  <1>7. Fresh(0, n, g)
    BY <1>1, <1>3, <1>5, <1>6 DEF Fresh
  <1>8. \A f \in Items(<<g>>) : Fresh(0, n, f)
    BY <1>4, <1>7
  <1>9. /\ c \in Channels
        /\ \A x, y \in Node : \A f \in Items(c[x][y]) :
              f \in Items(chan[x][y]) \/ Fresh(0, x, f)
    BY ZenonT(60), <1>4, <1>8, BroadcastFresh
  <1> HIDE DEF c
  <1>10. endorsed \subseteq endorsed' /\ <<n, p.variant>> \in endorsed'
    BY <1>1
  <1> QED
    BY ZenonT(60), <1>1, <1>9, <1>10, VoteKeeps

(* deny_proposal.                                                          *)
LEMMA DenySigns ==
    ASSUME TypeOK, TypeOK', SignInv, NEW n \in Node, NEW p \in pending[n],
           DenyProposal(n, p)
    PROVE  SignInv'
PROOF
  <1> DEFINE g == AckFrame(p.id, FALSE)
             c == Broadcast(chan, n, <<g, OwnState(n)>>)
  <1>1. /\ TryRatify(n, p.id, Voted(n, p, n, FALSE), c)
        /\ endorsed' = endorsed /\ proposals' = proposals
    BY ZenonT(60) DEF DenyProposal, bounds, history
  <1>2. p.id \in Nat
    BY DEF TypeOK, WireOK, Proposal
  <1>3. g \in Frame /\ g.type = "ack" /\ g.id = p.id /\ g.sign = FALSE
    <2>1. g \in Frame
      BY ZenonT(60), <1>2, FramesBuilt
    <2> QED
      BY <2>1 DEF AckFrame
  <1> HIDE DEF g
  <1>4. <<g, OwnState(n)>> \in Seq(Frame) /\ Items(<<g, OwnState(n)>>) = {g, OwnState(n)}
    BY <1>3, OwnStateFrame, TwoItems
  <1>5. p.id <= proposals
    BY DEF SignInv
  <1>6. Fresh(0, n, g)
    BY ZenonT(60), <1>3, <1>5 DEF Fresh
  <1>7. Fresh(0, n, OwnState(n))
    BY OwnStateFrame DEF Fresh
  <1>8. \A f \in Items(<<g, OwnState(n)>>) : Fresh(0, n, f)
    BY <1>4, <1>6, <1>7
  <1>9. /\ c \in Channels
        /\ \A x, y \in Node : \A f \in Items(c[x][y]) :
              f \in Items(chan[x][y]) \/ Fresh(0, x, f)
    BY ZenonT(60), <1>4, <1>8, BroadcastFresh
  <1> HIDE DEF c
  <1>10. endorsed \subseteq endorsed'
    BY <1>1
  <1> QED
    BY ZenonT(60), <1>1, <1>9, <1>10, VoteKeeps

(* withdraw_proposal and the roster edited by hand.                        *)
LEMMA WithdrawSigns ==
    ASSUME TypeOK, TypeOK', SignInv, NEW n \in Node, NEW p, WithdrawProposal(n, p)
    PROVE  SignInv'
PROOF
  <1>1. /\ UNCHANGED <<log, mlog, endorsed, proposals>>
        /\ chan' = Broadcast(chan, n, <<OwnState(n)>>)
    BY DEF WithdrawProposal, state, bounds, history
  <1>2. \A x \in Node : pending'[x] \subseteq pending[x]
    BY DEF WithdrawProposal, TypeOK, WireOK
  <1>3. <<OwnState(n)>> \in Seq(Frame) /\ Items(<<OwnState(n)>>) = {OwnState(n)}
    BY OwnStateFrame, OneItem
  <1>4. chan \in Channels
    BY DEF TypeOK, WireOK
  <1>5. \A x, y \in Node : \A f \in Items(chan'[x][y]) :
           f \in Items(chan[x][y]) \/ f.type = "state"
    <2> DEFINE fs == <<OwnState(n)>>
    <2>1. fs \in Seq(Frame) /\ \A f \in Items(fs) : f.type = "state"
      BY <1>3, OwnStateFrame
    <2>2. chan' = Broadcast(chan, n, fs)
      BY <1>1
    <2> HIDE DEF fs
    <2> QED
      BY <1>4, <2>1, <2>2, BroadcastItems
  <1> QED
    BY <1>1, <1>2, <1>5, QuietKeeps

LEMMA ManualSigns ==
    ASSUME TypeOK, TypeOK', SignInv, NEW n \in Node, NEW d,
           ApproveRoster(n, d) \/ RemoveRoster(n, d)
    PROVE  SignInv'
PROOF
  <1> DEFINE g == SummaryFrame(roster'[n])
  <1>1. /\ UNCHANGED <<log, mlog, pending, endorsed, proposals>>
        /\ chan' = chan \/ chan' = Broadcast(chan, n, <<g>>)
    BY ZenonT(60) DEF ApproveRoster, RemoveRoster, history
  <1>2. g \in Frame /\ g.type = "summary"
    <2>1. g \in Frame
      BY FramesBuilt DEF TypeOK, StateOK
    <2> QED
      BY <2>1 DEF SummaryFrame
  <1> HIDE DEF g
  <1>3. <<g>> \in Seq(Frame) /\ Items(<<g>>) = {g}
    BY <1>2, OneItem
  <1>4. chan \in Channels
    BY DEF TypeOK, WireOK
  <1>5. \A x, y \in Node : \A f \in Items(Broadcast(chan, n, <<g>>)[x][y]) :
           f \in Items(chan[x][y]) \/ f.type = "summary"
    BY ZenonT(60), <1>2, <1>3, <1>4, BroadcastItems
  <1>6. \A x, y \in Node : \A f \in Items(chan'[x][y]) :
           f \in Items(chan[x][y]) \/ f.type = "summary"
    BY <1>1, <1>5
  <1> QED
    BY <1>1, <1>6, QuietKeeps

(* Both ends of a new link.                                                *)
LEMMA ConnectSigns ==
    ASSUME TypeOK, TypeOK', SignInv, NEW n \in Node, NEW m \in Node, Connect(n, m)
    PROVE  SignInv'
PROOF
  <1> DEFINE ros == [roster EXCEPT ![n] = roster[n] \cup {m},
                                   ![m] = roster[m] \cup {n}]
             frame(x) == StateFrame(log[x], mlog[x], dups[x], ros[x])
             clear == Cut(chan, n, {m})
  <1>1. /\ UNCHANGED <<log, mlog, pending, endorsed, proposals>>
        /\ chan' = [x \in Node |-> [y \in Node |->
                       IF x \in {n, m} /\ {x, y} \in up'
                       THEN Append(clear[x][y], frame(x)) ELSE clear[x][y]]]
    BY ZenonT(30) DEF Connect, history
  <1>2. chan \in Channels /\ clear \in Channels
    BY ChannelOps DEF TypeOK, WireOK
  <1>3. ros \in [Node -> SUBSET Device]
    BY ZenonT(30), GovernanceAssumption DEF TypeOK, StateOK
  <1>4. \A x, y \in Node : \A f \in Items(clear[x][y]) : f \in Items(chan[x][y])
    BY <1>2, CutItems
  <1> HIDE DEF ros, clear
  <1>5. \A x \in Node : frame(x) \in Frame /\ frame(x).type = "state"
    <2>1. \A x \in Node : frame(x) \in Frame
      BY <1>3, FramesBuilt DEF TypeOK, StateOK
    <2> QED
      BY <2>1 DEF StateFrame
  <1> HIDE DEF frame
  <1>6. ASSUME NEW x \in Node, NEW y \in Node, NEW f \in Items(chan'[x][y])
        PROVE  f \in Items(chan[x][y]) \/ f.type = "state"
    <2>1. chan'[x][y] = clear[x][y] \/ chan'[x][y] = Append(clear[x][y], frame(x))
      BY <1>1
    <2>2. clear[x][y] \in Seq(Frame)
      BY <1>2 DEF Channels
    <2>3. Items(Append(clear[x][y], frame(x))) = Items(clear[x][y]) \cup {frame(x)}
      BY <1>5, <2>2, AppendItems
    <2>4. f \in Items(clear[x][y]) \/ f = frame(x)
      BY ZenonT(60), <1>6, <2>1, <2>3
    <2> QED
      BY <1>4, <1>5, <2>4
  <1> QED
    BY ZenonT(60), <1>1, <1>6, QuietKeeps

(* A refused or lost link, and a restart.                                  *)
LEMMA UnlinkSigns ==
    ASSUME TypeOK, TypeOK', SignInv, NEW n \in Node, NEW m \in Node,
           Refuse(n, m) \/ Disconnect(n, m) \/ Restart(n)
    PROVE  SignInv'
PROOF
  <1> DEFINE g == DenyFrame(log[n], mlog[n])
  <1>1. /\ UNCHANGED <<log, mlog, pending, endorsed, proposals>>
        /\ \/ chan' = Send(chan, n, m, g)
           \/ \E lost : chan' = Cut(chan, n, lost)
    BY ZenonT(30) DEF Refuse, Disconnect, Restart, state, bounds, history
  <1>2. g \in Frame /\ g.type = "deny" /\ g.log = log[n] /\ g.mlog = mlog[n]
    <2>1. g \in Frame
      BY FramesBuilt DEF TypeOK, StateOK
    <2> QED
      BY ZenonT(60), <2>1 DEF DenyFrame
  <1> HIDE DEF g
  <1>3. chan \in Channels
    BY DEF TypeOK, WireOK
  <1>4. ASSUME NEW x \in Node, NEW y \in Node, NEW f \in Items(chan'[x][y])
        PROVE  f \in Items(chan[x][y]) \/ (x = n /\ f = g)
    <2>1. CASE chan' = Send(chan, n, m, g)
      BY ZenonT(60), <1>2, <1>3, <1>4, <2>1, SendItems
    <2>2. CASE \E lost : chan' = Cut(chan, n, lost)
      BY ZenonT(60), <1>3, <1>4, <2>2, CutItems
    <2> QED
      BY ZenonT(60), <1>1, <2>1, <2>2
  <1>5. \A x, y \in Node : \A f \in Items(chan'[x][y]) :
           \/ f \in Items(chan[x][y])
           \/ /\ f.type \in {"entries", "deny"}
              /\ f.log = log[x] /\ f.mlog = mlog[x]
    BY <1>2, <1>4
  <1> QED
    BY <1>1, <1>5, QuietKeeps

(* A handler that answers with a request, or a request with the logs.      *)
LEMMA ExchangeSigns ==
    ASSUME TypeOK, TypeOK', SignInv, NEW n \in Node, NEW m \in Node,
           OnState(n, m) \/ OnSummary(n, m) \/ OnRequest(n, m)
    PROVE  SignInv'
PROOF
  <1> DEFINE g == EntriesFrame(log[n], mlog[n], roster[n])
  <1>1. UNCHANGED <<log, mlog, pending, endorsed, proposals>>
    BY ZenonT(30) DEF OnState, OnSummary, OnRequest, state, bounds, history
  <1>2. \/ chan' = Taken(n, m) \/ chan' = Send(Taken(n, m), n, m, RequestFrame)
        \/ chan' = Send(Taken(n, m), n, m, g)
    BY ZenonT(60) DEF OnState, OnSummary, OnRequest
  <1>3. PICK type : Arrives(n, m, type)
    BY ZenonT(60) DEF OnState, OnSummary, OnRequest
  <1>4. /\ Taken(n, m) \in Channels
        /\ \A x, y \in Node : Items(Taken(n, m)[x][y]) \subseteq Items(chan[x][y])
    BY ZenonT(60), <1>3, FrameTaken, TakenItems
  <1>5. RequestFrame \in Frame /\ RequestFrame.type = "request"
    BY FramesBuilt DEF RequestFrame
  <1>6. g \in Frame /\ g.type = "entries" /\ g.log = log[n] /\ g.mlog = mlog[n]
    <2>1. g \in Frame
      BY FramesBuilt DEF TypeOK, StateOK
    <2> QED
      BY <2>1 DEF EntriesFrame
  <1> HIDE DEF g
  <1>7. ASSUME NEW x \in Node, NEW y \in Node, NEW f \in Items(chan'[x][y])
        PROVE  f \in Items(chan[x][y]) \/ f = RequestFrame \/ (x = n /\ f = g)
    <2>1. CASE chan' = Taken(n, m)
      BY ZenonT(60), <1>4, <1>7, <2>1
    <2>2. CASE chan' = Send(Taken(n, m), n, m, RequestFrame)
      <3> DEFINE h == RequestFrame
      <3>1. h \in Frame /\ f \in Items(Send(Taken(n, m), n, m, h)[x][y])
        BY <1>5, <1>7, <2>2
      <3> HIDE DEF h
      <3>2. f \in Items(Taken(n, m)[x][y]) \/ (x = n /\ f = h)
        BY <1>4, <1>7, <3>1, SendItems
      <3> QED
        BY <1>4, <1>7, <3>2 DEF h
    <2>3. CASE chan' = Send(Taken(n, m), n, m, g)
      BY ZenonT(60), <1>4, <1>6, <1>7, <2>3, SendItems
    <2> QED
      BY ZenonT(60), <1>2, <2>1, <2>2, <2>3
  <1>8. \A x, y \in Node : \A f \in Items(chan'[x][y]) :
           \/ f \in Items(chan[x][y])
           \/ f.type \in {"state", "summary", "request"}
           \/ /\ f.type \in {"entries", "deny"}
              /\ f.log = log[x] /\ f.mlog = mlog[x]
    BY ZenonT(60), <1>5, <1>6, <1>7
  <1> QED
    BY <1>1, <1>8, QuietKeeps

(* The frame taken fits, and those left were on their way.                 *)
LEMMA TakenFits ==
    ASSUME TypeOK, SignInv, NEW n \in Node, NEW m \in Node, NEW type,
           Arrives(n, m, type)
    PROVE  /\ Head(chan[m][n]) \in Frame /\ Head(chan[m][n]).type = type
           /\ Head(chan[m][n]) \in Items(chan[m][n])
           /\ FrameFits(m, Head(chan[m][n]))
           /\ Taken(n, m) \in Channels
           /\ \A x, y \in Node : \A f \in Items(Taken(n, m)[x][y]) :
                 f \in Items(chan[x][y])
PROOF
  <1>1. /\ Head(chan[m][n]) \in Items(chan[m][n])
        /\ \A x, y \in Node : Items(Taken(n, m)[x][y]) \subseteq Items(chan[x][y])
    BY TakenItems
  <1>2. FrameFits(m, Head(chan[m][n]))
    BY ZenonT(60), <1>1 DEF SignInv
  <1> QED
    BY <1>1, <1>2, FrameTaken

(* on_propose: the sender is the one signer.                               *)
LEMMA OnProposeSigns ==
    ASSUME TypeOK, TypeOK', SignInv, NEW n \in Node, NEW m \in Node, OnPropose(n, m)
    PROVE  SignInv'
PROOF
  <1> DEFINE f == Head(chan[m][n])
             p == [id |-> f.id, at |-> f.at, by |-> m, variant |-> f.variant,
                   signers |-> {m}, deniers |-> {}]
             P == IF \E q \in pending[n] : q.id = f.id
                  THEN pending[n] ELSE pending[n] \cup {p}
  <1>1. /\ Arrives(n, m, "propose") /\ TryRatify(n, f.id, P, Taken(n, m))
        /\ endorsed' = endorsed /\ proposals' = proposals
    BY ZenonT(30) DEF OnPropose, bounds, history
  <1>2. /\ f \in Frame /\ f.type = "propose" /\ f \in Items(chan[m][n])
        /\ FrameFits(m, f) /\ Taken(n, m) \in Channels
        /\ \A x, y \in Node : \A g \in Items(Taken(n, m)[x][y]) : g \in Items(chan[x][y])
    BY ZenonT(30), <1>1, TakenFits
  <1> HIDE DEF f
  <1>3. f.id \in Nat /\ f.at \in Nat /\ f.variant \in Variant
    BY <1>2, FramesRead
  <1>4. m \in Device /\ pending[n] \in SUBSET Proposal
    BY GovernanceAssumption DEF TypeOK, WireOK
  <1>5. p \in Proposal
    BY <1>3, <1>4 DEF Proposal
  <1>6. p.id = f.id /\ p.variant = f.variant /\ p.signers = {m}
    OBVIOUS
  <1> HIDE DEF p
  <1>7. P \in SUBSET Proposal /\ \A q \in P : q \in pending[n] \/ q = p
    BY <1>4, <1>5
  <1> HIDE DEF P
  <1>8. <<m, f.variant>> \in endorsed /\ f.id <= proposals
    BY <1>2 DEF FrameFits
  <1>9. Claim(f.id, f.variant)
    BY <1>2 DEF Claim
  <1>10. Known(0, p)
    BY <1>6, <1>8, <1>9 DEF Known
  <1>11. \A q \in pending[n] : Known(0, q)
    BY DEF SignInv, Known, Claim
  <1>12. \A q \in P : Known(0, q)
    BY <1>7, <1>10, <1>11
  <1>13. Signed(P)
    <2>1. \A q \in pending[n] : \A d \in q.signers : <<d, q.variant>> \in endorsed'
      BY ZenonT(60), <1>1 DEF SignInv, Genuine
    <2>2. \A d \in p.signers : <<d, p.variant>> \in endorsed'
      BY <1>1, <1>6, <1>8
    <2> QED
      BY ZenonT(60), <1>7, <2>1, <2>2 DEF Signed
  <1>14. endorsed \subseteq endorsed' /\ proposals' \in {proposals, proposals + 1}
    BY <1>1
  <1>15. \A x, y \in Node : \A g \in Items(Taken(n, m)[x][y]) :
            g \in Items(chan[x][y]) \/ Fresh(0, x, g)
    BY <1>2
  <1> QED
    BY ZenonT(60), <1>1, <1>2, <1>7, <1>12, <1>13, <1>14, <1>15, RatifyKeeps

(* on_ack: who votes for an id has signed what every member knows by it.   *)
LEMMA OnAckSigns ==
    ASSUME TypeOK, TypeOK', SignInv, NEW n \in Node, NEW m \in Node, OnAck(n, m)
    PROVE  SignInv'
PROOF
  <1> DEFINE f == Head(chan[m][n])
  <1>1. /\ Arrives(n, m, "ack") /\ endorsed' = endorsed /\ proposals' = proposals
        /\ \/ chan' = Taken(n, m) /\ UNCHANGED <<state, pending>>
           \/ \E p \in pending[n] :
                 /\ p.id = f.id
                 /\ TryRatify(n, f.id, Voted(n, p, m, f.sign), Taken(n, m))
    BY ZenonT(30) DEF OnAck, bounds, history
  <1>2. /\ f.type = "ack" /\ FrameFits(m, f) /\ Taken(n, m) \in Channels
        /\ \A x, y \in Node : \A g \in Items(Taken(n, m)[x][y]) : g \in Items(chan[x][y])
    BY ZenonT(30), <1>1, TakenFits
  <1> HIDE DEF f
  <1>3. CASE chan' = Taken(n, m) /\ UNCHANGED <<state, pending>>
    <2>1. UNCHANGED <<log, mlog, pending, endorsed, proposals>>
      BY ZenonT(60), <1>1, <1>3 DEF state
    <2>2. \A x, y \in Node : \A g \in Items(chan'[x][y]) : g \in Items(chan[x][y])
      BY <1>2, <1>3
    <2> QED
      BY ZenonT(60), <2>1, <2>2, QuietKeeps
  <1>4. ASSUME NEW p \in pending[n], p.id = f.id,
               TryRatify(n, f.id, Voted(n, p, m, f.sign), Taken(n, m))
        PROVE  SignInv'
    <2>1. Claim(f.id, p.variant)
      BY ZenonT(60), <1>4 DEF Claim
    <2>2. f.sign => <<m, p.variant>> \in endorsed'
      BY ZenonT(60), <1>1, <1>2, <2>1 DEF FrameFits
    <2>3. endorsed \subseteq endorsed'
      BY ZenonT(60), <1>1
    <2>4. \A x, y \in Node : \A g \in Items(Taken(n, m)[x][y]) :
             g \in Items(chan[x][y]) \/ Fresh(0, x, g)
      BY ZenonT(60), <1>2
    <2> QED
      BY ZenonT(60), <1>1, <1>2, <1>4, <2>2, <2>3, <2>4, VoteKeeps
  <1> QED
    BY <1>1, <1>3, <1>4

(* on_roster_entries and on_deny: the logs in the frame are genuine.       *)
LEMMA AdoptionSigns ==
    ASSUME TypeOK, TypeOK', SignInv, NEW n \in Node, NEW m \in Node,
           OnEntries(n, m) \/ OnDeny(n, m)
    PROVE  SignInv'
PROOF
  <1> DEFINE f == Head(chan[m][n])
             ros == IF kind[n] = "open" THEN roster[n] \cup (f.roster \ {n})
                    ELSE roster[n]
             c == IF ros = roster[n] THEN Taken(n, m)
                  ELSE Broadcast(Taken(n, m), n, <<SummaryFrame(ros)>>)
  <1>1. UNCHANGED <<pending, endorsed, proposals>>
    BY ZenonT(30) DEF OnEntries, OnDeny, bounds, history
  <1>2. \/ Arrives(n, m, "entries") /\ Adopt(n, f.log, f.mlog, ros, c, {})
        \/ Arrives(n, m, "deny") /\ Adopt(n, f.log, f.mlog, roster[n], Taken(n, m), {m})
    BY ZenonT(30) DEF OnEntries, OnDeny
  <1>3. ASSUME NEW type, Arrives(n, m, type)
        PROVE  /\ f \in Frame /\ f.type = type
               /\ FrameFits(m, f) /\ Taken(n, m) \in Channels
               /\ \A x, y \in Node : \A g \in Items(Taken(n, m)[x][y]) :
                     g \in Items(chan[x][y])
    BY ZenonT(30), <1>3, TakenFits
  <1>4. roster[n] \in SUBSET Device
    BY DEF TypeOK, StateOK
  <1> HIDE DEF f
  <1>5. CASE Arrives(n, m, "entries") /\ Adopt(n, f.log, f.mlog, ros, c, {})
    <2>1. /\ f \in Frame /\ f.type = "entries" /\ FrameFits(m, f) /\ Taken(n, m) \in Channels
          /\ \A x, y \in Node : \A g \in Items(Taken(n, m)[x][y]) : g \in Items(chan[x][y])
      BY ZenonT(30), <1>3, <1>5
    <2>2. f.log \in Seq(Transition) /\ f.mlog \in MemberLog /\ f.roster \in SUBSET Device
      BY ZenonT(60), <2>1, FramesRead
    <2>3. Genuine(Items(f.log)) /\ Genuine(f.mlog)
      BY ZenonT(60), <2>1 DEF FrameFits
    <2>4. ros \in SUBSET Device
      BY <1>4, <2>2
    <2> HIDE DEF ros
    <2> DEFINE g == SummaryFrame(ros)
    <2>5. g \in Frame /\ g.type = "summary"
      BY <2>4, FramesBuilt DEF SummaryFrame
    <2> HIDE DEF g
    <2>6. <<g>> \in Seq(Frame) /\ Items(<<g>>) = {g}
      BY <2>5, OneItem
    <2>7. c = Taken(n, m) \/ c = Broadcast(Taken(n, m), n, <<g>>)
      BY DEF g
    <2> HIDE DEF c
    <2>8. c \in Channels
      BY ZenonT(30), <2>1, <2>6, <2>7, ChannelOps
    <2>9. \A x, y \in Node : \A h \in Items(Broadcast(Taken(n, m), n, <<g>>)[x][y]) :
             h \in Items(Taken(n, m)[x][y]) \/ h.type = "summary"
      <3> DEFINE b == Taken(n, m)
                 fs == <<g>>
      <3>1. b \in Channels /\ fs \in Seq(Frame) /\ \A h \in Items(fs) : h.type = "summary"
        BY <2>1, <2>5, <2>6
      <3> HIDE DEF b, fs
      <3>2. \A x, y \in Node : \A h \in Items(Broadcast(b, n, fs)[x][y]) :
               h \in Items(b[x][y]) \/ h.type = "summary"
        BY <3>1, BroadcastItems
      <3> QED
        BY ZenonT(60), <3>2 DEF b, fs
    <2>10. \A x, y \in Node : \A h \in Items(c[x][y]) :
              h \in Items(chan[x][y]) \/ h.type = "summary"
      BY ZenonT(60), <2>1, <2>7, <2>9
    <2>11. Adopt(n, f.log, f.mlog, ros, c, {})
      BY <1>5
    <2> QED
      BY ZenonT(60), <1>1, <2>2, <2>3, <2>4, <2>8, <2>10, <2>11, AdoptKeeps
  <1>6. CASE Arrives(n, m, "deny")
                /\ Adopt(n, f.log, f.mlog, roster[n], Taken(n, m), {m})
    <2>1. /\ f \in Frame /\ f.type = "deny" /\ FrameFits(m, f) /\ Taken(n, m) \in Channels
          /\ \A x, y \in Node : \A g \in Items(Taken(n, m)[x][y]) : g \in Items(chan[x][y])
      BY ZenonT(30), <1>3, <1>6
    <2>2. f.log \in Seq(Transition) /\ f.mlog \in MemberLog
      BY ZenonT(60), <2>1, FramesRead
    <2>3. Genuine(Items(f.log)) /\ Genuine(f.mlog)
      BY <2>1 DEF FrameFits
    <2>4. \A x, y \in Node : \A h \in Items(Taken(n, m)[x][y]) :
             h \in Items(chan[x][y]) \/ h.type = "summary"
      BY ZenonT(60), <2>1
    <2> QED
      BY ZenonT(60), <1>1, <1>4, <1>6, <2>1, <2>2, <2>3, <2>4, AdoptKeeps
  <1> QED
    BY ZenonT(60), <1>2, <1>5, <1>6

-----------------------------------------------------------------------------
(* The theorem.                                                            *)

(* The signers of the genesis log have signed it, and nothing is held or   *)
(* on its way.                                                             *)
LEMMA InitSigns ==
    ASSUME Init
    PROVE  SignInv
PROOF
  <1>1. Genuine(Items(Genesis)) /\ Genuine({})
    BY DEF Init, Genuine, Items
  <1>2. Items(<<>>) = {}
    BY DEF Items
  <1>3. \A n \in Node : log[n] = Genesis /\ mlog[n] = {} /\ pending[n] = {}
    BY ZenonT(60) DEF Init
  <1>4. \A m, n \in Node : Items(chan[m][n]) = {}
    BY <1>2 DEF Init
  <1>5. \A i, v : ~Claim(i, v)
    BY <1>3, <1>4 DEF Claim
  <1> QED
    BY ZenonT(60), <1>1, <1>3, <1>4, <1>5 DEF SignInv

(* Every step.                                                             *)
LEMMA StepSigns ==
    ASSUME TypeOK, LogsVerify, SignInv, [Next]_vars
    PROVE  SignInv'
PROOF
  <1>0. TypeOK'
    BY StepSound
  <1>1. CASE Command
    <2>1. ASSUME NEW a \in Agenda, Propose(a[1], a[2]) PROVE SignInv'
      BY <1>0, <2>1, ProposeSigns, GovernanceAssumption
    <2>2. ASSUME NEW n \in Reviewers, NEW p \in pending[n],
                 SignProposal(n, p) \/ DenyProposal(n, p) \/ WithdrawProposal(n, p)
          PROVE  SignInv'
      BY <1>0, <2>2, SignSigns, DenySigns, WithdrawSigns, GovernanceAssumption
    <2>3. ASSUME NEW r \in Manual, ApproveRoster(r[1], r[2]) \/ RemoveRoster(r[1], r[2])
          PROVE  SignInv'
      BY <1>0, <2>3, ManualSigns, GovernanceAssumption
    <2> QED
      BY <1>1, <2>1, <2>2, <2>3 DEF Command
  <1>2. CASE Link
    BY <1>0, <1>2, ConnectSigns, UnlinkSigns DEF Link
  <1>3. CASE Receive
    BY <1>0, <1>3, OnProposeSigns, OnAckSigns, ExchangeSigns, AdoptionSigns DEF Receive
  <1>4. ASSUME NEW n \in Node, Restart(n) PROVE SignInv'
    BY <1>0, <1>4, UnlinkSigns
  <1>5. CASE UNCHANGED vars
    <2>1. UNCHANGED <<log, mlog, pending, chan, endorsed, proposals>>
      BY <1>5 DEF vars, state, bounds, history
    <2> QED
      BY ZenonT(60), <1>0, <2>1, QuietKeeps
  <1> QED
    BY <1>1, <1>2, <1>3, <1>4, <1>5 DEF Next

(* No member's logs name a signer who did not sign: every entry a member   *)
(* ratified in try_ratify or took over in adopt_transition_log verifies    *)
(* against those before it, and each device it or a proposal under way     *)
(* names as a signer signed that very transition.                          *)
THEOREM LogsAlwaysGenuine == Spec => []LogsAreGenuine
PROOF
  <1>1. Init => TypeOK /\ LogsVerify /\ SignInv
    BY InitSound, InitSigns
  <1>2. TypeOK /\ LogsVerify /\ SignInv /\ [Next]_vars => SignInv'
    BY StepSigns
  <1>3. LogsVerify /\ SignInv => LogsAreGenuine
    BY DEF LogsAreGenuine, SignersSigned, SignInv, Genuine, Items
  <1> QED
    BY <1>1, <1>2, <1>3, Invariance, PTL DEF Spec
=============================================================================
