----------------------------- MODULE Governance -----------------------------
(***************************************************************************)
(* crates/myownmesh-core/src/engine/governance.rs: how members propose,    *)
(* sign, ratify and gossip the transitions of the signed logs, and keep    *)
(* the roster, the cache the handshake reads, in step with them.           *)
(*                                                                         *)
(* Every handler runs to its end on its network's driver task, so each is  *)
(* one step.  Frames between two linked members arrive in order and are    *)
(* lost when the link goes.  A link is up from ACTIVE on both ends (the    *)
(* handshake is Handshake's), and a broadcast goes to every linked member. *)
(*                                                                         *)
(* A roster summary that the code sends right before a state broadcast is  *)
(* left out: the state frame carries the same root and makes the receiver  *)
(* ask for the same roster.  The role tags of roster rows are not          *)
(* modelled: roles holds them.                                             *)
(***************************************************************************)
EXTENDS GovernanceLog

CONSTANTS
    Node,           \* the members that run an engine
    Genesis,        \* the governance log they all start from
    InitialRoster,  \* the devices all their rosters start from
    Agenda,         \* <<n, v>>: n's user may propose v
    Reviewers,      \* the members whose user signs, denies and withdraws
    Manual,         \* <<n, d>>: n's user may approve and remove d by hand
    Steps,          \* seconds the clock may advance before a proposal
    MaxProposals, MaxLinks, MaxExtras    \* bounds on the run

ASSUME GovernanceAssumption ==
    /\ Node \subseteq Device /\ IsFiniteSet(Device)
    /\ Genesis \in Seq(Transition) /\ VerifyLog(Genesis)
    /\ InitialRoster \subseteq Device
    /\ Agenda \subseteq Node \X Variant
    /\ Reviewers \subseteq Node
    /\ Manual \subseteq Node \X Device
    /\ Steps \subseteq Nat
    /\ {MaxProposals, MaxLinks, MaxExtras} \subseteq Nat

VARIABLES
    kind, roles,    \* per member: the cached projection of the logs
    log,            \* per member: NetworkState.transitions
    mlog,           \* per member: the distinct entries of member_log ...
    dups,           \* ... and how many more entries its Vec holds
    pending,        \* per member: the proposals under way
    roster,         \* per member: the devices of the roster file
    up,             \* the links, as pairs of members
    chan,           \* chan[n][m]: the frames on their way from n to m
    now,            \* the wall clock, in seconds, at the last proposal
    proposals, links,   \* how many there were
    extras,         \* how many restarts and edits of a roster by hand
    endorsed,       \* <<d, v>>: d has really signed v
    condemned       \* the devices whose removal somebody has proposed

state == <<kind, roles, log, mlog, dups, roster>>
bounds == <<now, proposals, links, extras>>
history == <<endorsed, condemned>>
vars == <<state, pending, up, chan, bounds, history>>

-----------------------------------------------------------------------------
(* Frames.                                                                 *)

ProposeFrame(p, at) ==
    [type |-> "propose", id |-> p.id, variant |-> p.variant, at |-> at]
AckFrame(id, sign) == [type |-> "ack", id |-> id, sign |-> sign]
SummaryFrame(ros) == [type |-> "summary", root |-> ros]
RequestFrame == [type |-> "request"]
EntriesFrame(L, M, ros) ==
    [type |-> "entries", log |-> L, mlog |-> M, roster |-> ros]
DenyFrame(L, M) == [type |-> "deny", log |-> L, mlog |-> M]

(* broadcast_state: how far both logs go, and the membership root.         *)
StateFrame(L, M, extra, ros) ==
    [type |-> "state", count |-> Len(L), mcount |-> Cardinality(M) + extra,
     root |-> ros]

Linked(n, m) == {n, m} \in up

(* broadcast: the frames fs to every linked member, after those of c.      *)
Broadcast(c, n, fs) ==
    [c EXCEPT ![n] =
        [m \in Node |-> IF Linked(n, m) THEN c[n][m] \o fs ELSE c[n][m]]]

Send(c, n, m, f) == [c EXCEPT ![n][m] = Append(c[n][m], f)]

(* The channels once n's links to the members of lost are down.            *)
Cut(c, n, lost) ==
    [x \in Node |-> [y \in Node |->
        IF (x = n /\ y \in lost) \/ (y = n /\ x \in lost) THEN <<>> ELSE c[x][y]]]

(* The channels without the frame n has just taken from m.                 *)
Taken(n, m) == [chan EXCEPT ![m][n] = Tail(chan[m][n])]
Arrives(n, m, type) == chan[m][n] # <<>> /\ Head(chan[m][n]).type = type

OwnState(n) == StateFrame(log[n], mlog[n], dups[n], roster[n])

Evicted(n, d) == EvictedBy(kind[n], roles[n], mlog[n], d)

-----------------------------------------------------------------------------
(* Ratification.                                                           *)

(* The roster a ratified variant leaves.                                   *)
RatifiedRoster(n, v) ==
    CASE v.op = "grant" -> roster[n] \cup {v.target}
      [] v.op = "close" -> roster[n] \cup {n}
      [] v.op = "evict" -> roster[n] \ {v.target}
      [] OTHER -> roster[n]

(* The part of try_ratify behind the quorum check: proposal p enters its   *)
(* log, the roster follows, and the new counts are broadcast.              *)
Ratified(n, p, rest, c) ==
    LET v == p.variant
        t == [variant |-> v, by |-> p.by, signers |-> p.signers, at |-> p.at]
        member == MemberTier(v, roles[n])
        pushed == member \/ v.op = "evict"
        L == IF member THEN log[n] ELSE Append(log[n], t)
        M == IF pushed THEN mlog[n] \cup {t} ELSE mlog[n]
        extra == dups[n] + (IF pushed /\ t \in mlog[n] THEN 1 ELSE 0)
    IN  /\ pending' = [pending EXCEPT ![n] = rest]
        /\ log' = [log EXCEPT ![n] = L]
        /\ mlog' = [mlog EXCEPT ![n] = M]
        /\ dups' = [dups EXCEPT ![n] = extra]
        /\ kind' = [kind EXCEPT ![n] =
                       IF member THEN kind[n] ELSE KindAfter(kind[n], t)]
        /\ roles' = [roles EXCEPT ![n] =
                       IF pushed THEN Project(L, M) ELSE RolesAfter(roles[n], t)]
        /\ roster' = [roster EXCEPT ![n] = RatifiedRoster(n, v)]
        /\ chan' = Broadcast(c, n,
                       <<StateFrame(L, M, extra, RatifiedRoster(n, v))>>)

(* try_ratify(id), with n's proposals P and the frames c sent so far.      *)
TryRatify(n, id, P, c) ==
    LET found == {p \in P : p.id = id}
        rest == P \ found
        kept(Q) == pending' = [pending EXCEPT ![n] = Q]
                      /\ chan' = c /\ UNCHANGED state
    IN  \/ found = {} /\ kept(P)
        \/ \E p \in found :
              \/ p.deniers # {} /\ kept(rest)
              \/ /\ p.deniers = {}
                 /\ ~Quorum(kind[n], roles[n], p)
                 /\ kept(P)
              \/ /\ p.deniers = {}
                 /\ Quorum(kind[n], roles[n], p)
                 /\ Ratified(n, p, rest, c)

-----------------------------------------------------------------------------
(* Adoption.                                                               *)

(* The prefix test of adopt_transition_log: same variant, same signers.    *)
SameEntry(t, u) == t.variant = u.variant /\ t.signers = u.signers

(* Length alone decides.                                                   *)
Extends_LongerWins(L, mine) == Len(L) > Len(mine)

Extends(L, mine) ==
    /\ Len(L) > Len(mine)
    /\ \A i \in 1..Len(mine) : SameEntry(L[i], mine[i])

(* merge_member_logs.                                                      *)
MergeMemberLogs(mine, theirs) == mine \cup theirs

(* mirror_roles_to_roster: role bearers in, tombstoned devices out.        *)
Mirror(n, ros, seats, gone) ==
    (ros \cup {d \in Device : seats[d] # "none"}) \ (gone \ {n})

(* adopt_transition_log of the logs L and M, with n's roster ros and the   *)
(* frames c sent so far: extend the one, merge the other, project both     *)
(* and mirror the result into the roster; deny the linked members that     *)
(* turn out to be evicted, and gossip on what changed.  The links to lost  *)
(* are dropped in the same handler.                                        *)
Adopt(n, L, M, ros, c, lost) ==
    LET longer == Extends(L, log[n]) /\ VerifyLog(L)
        newLog == IF longer THEN L ELSE log[n]
        newKind == IF longer THEN KindAt(L, Len(L)) ELSE kind[n]
        merged == MergeMemberLogs(mlog[n], M)
        grew == Cardinality(merged) > Cardinality(mlog[n]) + dups[n]
        newMlog == IF grew THEN merged ELSE mlog[n]
        newDups == IF grew THEN 0 ELSE dups[n]
        newRoles == Project(newLog, newMlog)
        gone == Removed(newMlog, Replayed(newLog))
        newRoster == Mirror(n, ros, newRoles, gone)
        changed == longer \/ grew
        repaired == \/ \E d \in Device \ ros : newRoles[d] # "none"
                    \/ ros \cap (gone \ {n}) # {}
        denied == {m \in Node : /\ changed \/ repaired
                                /\ Linked(n, m)
                                /\ EvictedBy(newKind, newRoles, newMlog, m)}
        warned == [c EXCEPT ![n] =
                     [m \in Node |-> IF m \in denied
                                     THEN Append(c[n][m], DenyFrame(newLog, newMlog))
                                     ELSE c[n][m]]]
    IN  /\ log' = [log EXCEPT ![n] = newLog]
        /\ kind' = [kind EXCEPT ![n] = newKind]
        /\ mlog' = [mlog EXCEPT ![n] = newMlog]
        /\ dups' = [dups EXCEPT ![n] = newDups]
        /\ roles' = [roles EXCEPT ![n] = newRoles]
        /\ roster' = [roster EXCEPT ![n] = newRoster]
        /\ chan' = Cut(Broadcast(warned, n,
                       IF changed
                       THEN <<StateFrame(newLog, newMlog, newDups, newRoster)>>
                       ELSE IF repaired THEN <<SummaryFrame(newRoster)>> ELSE <<>>),
                       n, lost)

-----------------------------------------------------------------------------
(* The commands of a member's user.                                        *)

(* member_tier_timestamp: past the newest entry about the target.          *)
Stamp(n, v, t) ==
    LET ats == {u.at : u \in {w \in mlog[n] : About(w.variant, v.target)}}
    IN  IF (MemberTier(v, roles[n]) \/ v.op = "evict") /\ \E a \in ats : a >= t
        THEN Latest(ats) + 1 ELSE t

(* propose.  Granting the role the target already has is a no-op.          *)
Propose(n, v) ==
    /\ proposals < MaxProposals
    /\ ~(v.op = "grant" /\ roles[n][v.target] = v.role)
    /\ \E s \in Steps :
          LET t == now + s
              p == [id |-> proposals + 1, at |-> Stamp(n, v, t), by |-> n,
                    variant |-> v, signers |-> {n}, deniers |-> {}]
          IN  /\ now' = t
              /\ TryRatify(n, p.id, pending[n] \cup {p},
                     Broadcast(chan, n, <<ProposeFrame(p, t), OwnState(n)>>))
    /\ proposals' = proposals + 1
    /\ endorsed' = endorsed \cup {<<n, v>>}
    /\ condemned' =
          IF \/ v.op = "evict"
             \/ v.op = "revoke" /\ MemberTier(v, roles[n])
          THEN condemned \cup {v.target} ELSE condemned
    /\ UNCHANGED <<up, links, extras>>

(* The proposals of n with p's deniers or signers extended.                *)
Voted(n, p, d, sign) ==
    (pending[n] \ {p}) \cup
        {IF sign THEN [p EXCEPT !.signers = p.signers \cup {d}]
                 ELSE [p EXCEPT !.deniers = p.deniers \cup {d}]}

(* sign_proposal.                                                          *)
SignProposal(n, p) ==
    /\ p.deniers = {}
    /\ n \notin p.signers
    /\ TryRatify(n, p.id, Voted(n, p, n, TRUE),
           Broadcast(chan, n, <<AckFrame(p.id, TRUE)>>))
    /\ endorsed' = endorsed \cup {<<n, p.variant>>}
    /\ UNCHANGED <<up, bounds, condemned>>

(* deny_proposal: the denier drops the proposal at once.                   *)
DenyProposal(n, p) ==
    /\ n \notin p.deniers
    /\ TryRatify(n, p.id, Voted(n, p, n, FALSE),
           Broadcast(chan, n, <<AckFrame(p.id, FALSE), OwnState(n)>>))
    /\ UNCHANGED <<up, bounds, history>>

(* withdraw_proposal.                                                      *)
WithdrawProposal(n, p) ==
    /\ p.by = n
    /\ pending' = [pending EXCEPT ![n] = pending[n] \ {p}]
    /\ chan' = Broadcast(chan, n, <<OwnState(n)>>)
    /\ UNCHANGED <<state, up, bounds, history>>

(* NetworkCmd::ApproveRoster: refused for an evicted device.               *)
ApproveRoster(n, d) ==
    /\ extras < MaxExtras
    /\ ~Evicted(n, d)
    /\ extras' = extras + 1
    /\ roster' = [roster EXCEPT ![n] = roster[n] \cup {d}]
    /\ chan' = Broadcast(chan, n, <<SummaryFrame(roster'[n])>>)
    /\ UNCHANGED <<kind, roles, log, mlog, dups, pending, up, now, proposals,
                   links, history>>

(* NetworkCmd::RemoveRoster: refused for a signed member.                  *)
RemoveRoster(n, d) ==
    /\ extras < MaxExtras
    /\ kind[n] = "open" \/ Project(log[n], mlog[n])[d] = "none"
    /\ extras' = extras + 1
    /\ roster' = [roster EXCEPT ![n] = roster[n] \ {d}]
    /\ UNCHANGED <<kind, roles, log, mlog, dups, pending, up, chan, now,
                   proposals, links, history>>

-----------------------------------------------------------------------------
(* Links.                                                                  *)

(* ACTIVE on both ends: each rosters the other and broadcasts its state.   *)
(* Neither may hold the other evicted, and who knows itself evicted stays  *)
(* away.                                                                   *)
Connect(n, m) ==
    LET ros == [roster EXCEPT ![n] = roster[n] \cup {m},
                              ![m] = roster[m] \cup {n}]
        frame(x) == StateFrame(log[x], mlog[x], dups[x], ros[x])
        clear == Cut(chan, n, {m})
    IN  /\ n # m
        /\ ~Linked(n, m)
        /\ links < MaxLinks
        /\ \A x, y \in {n, m} : ~Evicted(x, y)
        /\ links' = links + 1
        /\ up' = up \cup {{n, m}}
        /\ roster' = ros
        /\ chan' = [x \in Node |-> [y \in Node |->
                       IF x \in {n, m} /\ {x, y} \in up'
                       THEN Append(clear[x][y], frame(x)) ELSE clear[x][y]]]
        /\ UNCHANGED <<kind, roles, log, mlog, dups, pending, now, proposals,
                       extras, history>>

(* deny_if_evicted in the handshake: m, which n holds evicted and which    *)
(* does not know it, gets both logs as the proof.                          *)
Refuse(n, m) ==
    /\ n # m
    /\ ~Linked(n, m)
    /\ links < MaxLinks
    /\ Evicted(n, m)
    /\ ~Evicted(m, m)
    /\ chan[n][m] = <<>>
    /\ links' = links + 1
    /\ chan' = Send(chan, n, m, DenyFrame(log[n], mlog[n]))
    /\ UNCHANGED <<state, pending, up, now, proposals, extras, history>>

(* A link goes: the path failed, an eviction's DropPeer, the janitor.      *)
Disconnect(n, m) ==
    /\ n # m
    /\ Linked(n, m)
    /\ up' = up \ {{n, m}}
    /\ chan' = Cut(chan, n, {m})
    /\ UNCHANGED <<state, pending, bounds, history>>

(* A stop and a start: the files are loaded, and on a closed network       *)
(* reconcile_signed_projection rebuilds the caches from the logs.          *)
Restart(n) ==
    /\ extras < MaxExtras
    /\ extras' = extras + 1
    /\ up' = {l \in up : n \notin l}
    /\ chan' = Cut(chan, n, Node)
    /\ IF kind[n] = "open" THEN UNCHANGED <<roles, roster>>
       ELSE /\ roles' = [roles EXCEPT ![n] = Project(log[n], mlog[n])]
            /\ roster' = [roster EXCEPT ![n] =
                             Mirror(n, roster[n], roles'[n],
                                    Removed(mlog[n], Replayed(log[n])))]
    /\ UNCHANGED <<kind, log, mlog, dups, pending, now, proposals, links,
                   history>>

-----------------------------------------------------------------------------
(* Frames arriving at n from m.                                            *)

(* on_propose: a proposal by its sender, stamped with the sender's clock.  *)
OnPropose(n, m) ==
    /\ Arrives(n, m, "propose")
    /\ LET f == Head(chan[m][n])
           p == [id |-> f.id, at |-> f.at, by |-> m, variant |-> f.variant,
                 signers |-> {m}, deniers |-> {}]
           known == \E q \in pending[n] : q.id = f.id
       IN  TryRatify(n, f.id, IF known THEN pending[n] ELSE pending[n] \cup {p},
                     Taken(n, m))
    /\ UNCHANGED <<up, bounds, history>>

(* A vote counted as a signature whatever it says.                         *)
OnAck_DenySigns(n, m) ==
    /\ Arrives(n, m, "ack")
    /\ LET f == Head(chan[m][n])
       IN  \/ /\ \A p \in pending[n] : p.id # f.id
              /\ chan' = Taken(n, m)
              /\ UNCHANGED <<state, pending>>
           \/ \E p \in pending[n] :
                 /\ p.id = f.id
                 /\ TryRatify(n, f.id, Voted(n, p, m, TRUE), Taken(n, m))
    /\ UNCHANGED <<up, bounds, history>>

(* on_ack: a signature or a denial of a proposal n still has.              *)
OnAck(n, m) ==
    /\ Arrives(n, m, "ack")
    /\ LET f == Head(chan[m][n])
       IN  \/ /\ \A p \in pending[n] : p.id # f.id
              /\ chan' = Taken(n, m)
              /\ UNCHANGED <<state, pending>>
           \/ \E p \in pending[n] :
                 /\ p.id = f.id
                 /\ TryRatify(n, f.id, Voted(n, p, m, f.sign), Taken(n, m))
    /\ UNCHANGED <<up, bounds, history>>

(* Only the governance log's length and the roster are compared.           *)
Behind_NoMemberCount(n, f) == f.root # roster[n] \/ f.count > Len(log[n])

(* What makes on_state_broadcast ask the sender for its logs.              *)
Behind(n, f) ==
    \/ f.root # roster[n]
    \/ f.count > Len(log[n])
    \/ f.mcount > Cardinality(mlog[n]) + dups[n]

(* on_state_broadcast.                                                     *)
OnState(n, m) ==
    /\ Arrives(n, m, "state")
    /\ chan' = IF Behind(n, Head(chan[m][n]))
               THEN Send(Taken(n, m), n, m, RequestFrame) ELSE Taken(n, m)
    /\ UNCHANGED <<state, pending, up, bounds, history>>

(* on_roster_summary.                                                      *)
OnSummary(n, m) ==
    /\ Arrives(n, m, "summary")
    /\ chan' = IF Head(chan[m][n]).root # roster[n]
               THEN Send(Taken(n, m), n, m, RequestFrame) ELSE Taken(n, m)
    /\ UNCHANGED <<state, pending, up, bounds, history>>

(* on_roster_request: both logs and the roster, to the one who asks.       *)
OnRequest(n, m) ==
    /\ Arrives(n, m, "request")
    /\ chan' = Send(Taken(n, m), n, m, EntriesFrame(log[n], mlog[n], roster[n]))
    /\ UNCHANGED <<state, pending, up, bounds, history>>

(* on_roster_entries: an open network takes the rows it misses on the      *)
(* sender's word; then the logs are adopted.                               *)
OnEntries(n, m) ==
    /\ Arrives(n, m, "entries")
    /\ LET f == Head(chan[m][n])
           ros == IF kind[n] = "open" THEN roster[n] \cup (f.roster \ {n})
                  ELSE roster[n]
           c == IF ros = roster[n] THEN Taken(n, m)
                ELSE Broadcast(Taken(n, m), n, <<SummaryFrame(ros)>>)
       IN  Adopt(n, f.log, f.mlog, ros, c, {})
    /\ UNCHANGED <<pending, up, bounds, history>>

(* on_deny: the proof is adopted like any other pair of logs, and what     *)
(* adopting it sends to m goes with the link.                              *)
OnDeny(n, m) ==
    /\ Arrives(n, m, "deny")
    /\ LET f == Head(chan[m][n])
       IN  Adopt(n, f.log, f.mlog, roster[n], Taken(n, m), {m})
    /\ up' = up \ {{n, m}}
    /\ UNCHANGED <<pending, bounds, history>>

-----------------------------------------------------------------------------
Init ==
    /\ kind = [n \in Node |-> KindAt(Genesis, Len(Genesis))]
    /\ roles = [n \in Node |-> Replayed(Genesis)]
    /\ log = [n \in Node |-> Genesis]
    /\ mlog = [n \in Node |-> {}]
    /\ dups = [n \in Node |-> 0]
    /\ pending = [n \in Node |-> {}]
    /\ roster = [n \in Node |-> InitialRoster]
    /\ up = {}
    /\ chan = [n \in Node |-> [m \in Node |-> <<>>]]
    /\ now = 0 /\ proposals = 0 /\ links = 0 /\ extras = 0
    /\ endorsed = UNION {{<<d, Genesis[i].variant>> : d \in Genesis[i].signers} :
                         i \in 1..Len(Genesis)}
    /\ condemned = {}

Command ==
    \/ \E a \in Agenda : Propose(a[1], a[2])
    \/ \E n \in Reviewers : \E p \in pending[n] :
          SignProposal(n, p) \/ DenyProposal(n, p) \/ WithdrawProposal(n, p)
    \/ \E r \in Manual : ApproveRoster(r[1], r[2]) \/ RemoveRoster(r[1], r[2])

Link ==
    \E n, m \in Node : Connect(n, m) \/ Refuse(n, m) \/ Disconnect(n, m)

Receive ==
    \E n, m \in Node :
        \/ OnPropose(n, m) \/ OnAck(n, m) \/ OnState(n, m) \/ OnSummary(n, m)
        \/ OnRequest(n, m) \/ OnEntries(n, m) \/ OnDeny(n, m)

Next == Command \/ Link \/ Receive \/ \E n \in Node : Restart(n)

Spec == Init /\ [][Next]_vars

-----------------------------------------------------------------------------
(* Types.                                                                  *)

Proposal ==
    [id : Nat, at : Nat, by : Device, variant : Variant,
     signers : SUBSET Device, deniers : SUBSET Device]

Frame ==
    [type : {"propose"}, id : Nat, variant : Variant, at : Nat]
        \cup [type : {"ack"}, id : Nat, sign : BOOLEAN]
        \cup [type : {"state"}, count : Nat, mcount : Nat, root : SUBSET Device]
        \cup [type : {"summary"}, root : SUBSET Device]
        \cup [type : {"request"}]
        \cup [type : {"entries"}, log : Seq(Transition), mlog : MemberLog,
              roster : SUBSET Device]
        \cup [type : {"deny"}, log : Seq(Transition), mlog : MemberLog]

Channels == [Node -> [Node -> Seq(Frame)]]

StateOK ==
    /\ kind \in [Node -> Kinds]
    /\ roles \in [Node -> [Device -> Roles]]
    /\ log \in [Node -> Seq(Transition)]
    /\ mlog \in [Node -> MemberLog]
    /\ dups \in [Node -> Nat]
    /\ roster \in [Node -> SUBSET Device]

WireOK ==
    /\ pending \in [Node -> SUBSET Proposal]
    /\ up \subseteq SUBSET Node
    /\ chan \in Channels

HistoryOK ==
    /\ now \in Nat /\ proposals \in 0..MaxProposals /\ links \in 0..MaxLinks
    /\ extras \in 0..MaxExtras
    /\ endorsed \subseteq Device \X Variant
    /\ condemned \subseteq Device

(* What a member keeps and what is on the wire have their types; a member  *)
(* log stays finite.                                                       *)
TypeOK == StateOK /\ WireOK /\ HistoryOK

-----------------------------------------------------------------------------
(* Properties.                                                             *)

Seat(r, d) == IF r[d] \in {"controller", "owner"} THEN r[d] ELSE "none"

(* A cached kind k and role map r that fit the log L.                      *)
Coherent(k, r, L) ==
    /\ VerifyLog(L)
    /\ k = KindAt(L, Len(L))
    /\ \A d \in Device : Seat(r, d) = Seat(Replayed(L), d)

(* Whatever a member ratified or adopted, and in whichever order, its      *)
(* governance log passes verify_log, and the kind and the authorities it   *)
(* caches, which decide the next quorum, are the ones every member that    *)
(* replays the log derives.                                                *)
LogsVerify == \A n \in Node : Coherent(kind[n], roles[n], log[n])

(* The log L has all entries of K, each in its place.                      *)
Continues(L, K) ==
    /\ Len(L) >= Len(K)
    /\ \A i \in 1..Len(K) : SameEntry(L[i], K[i])

(* No gossip, proof, restart or ratification takes an entry out of a       *)
(* member's logs or puts another in its place.                             *)
HistoryKept ==
    [][\A n \in Node : /\ Continues(log'[n], log[n])
                       /\ mlog[n] \subseteq mlog'[n]]_vars

(* A device is named as a signer, of a ratified entry or of a proposal     *)
(* under way, only if its user signed that very transition.                *)
SignersSigned ==
    \A n \in Node :
        /\ \A i \in 1..Len(log[n]) :
              \A d \in log[n][i].signers : <<d, log[n][i].variant>> \in endorsed
        /\ \A t \in mlog[n] \cup pending[n] :
              \A d \in t.signers : <<d, t.variant>> \in endorsed

AtRest == \A n, m \in Node : chan[n][m] = <<>>

(* With no frame on its way, two linked members derive the same kind,      *)
(* roles and membership from what they hold.                               *)
AtRestAgreed ==
    AtRest =>
        \A n, m \in Node : Linked(n, m) =>
            /\ kind[n] = kind[m]
            /\ Project(log[n], mlog[n]) = Project(log[m], mlog[m])

(* Nobody is shut out as evicted unless somebody proposed to evict the     *)
(* device, or to revoke one that was a plain member then.  Withdrawing a   *)
(* controller's or owner's role leaves a plain member.                     *)
OnlyCondemnedEvicted ==
    \A n \in Node, d \in Device : Evicted(n, d) => d \in condemned

(* Once the exchanges of a closed network's linked members are over, every *)
(* device that holds a signed role is in the roster the handshake admits   *)
(* by, whatever order proposals and gossip came in.                        *)
SignedAreRostered ==
    AtRest =>
        \A n, m \in Node : Linked(n, m) /\ kind[n] = "closed" =>
            \A d \in Device :
                Project(log[n], mlog[n])[d] # "none" => d \in roster[n]

(* The logs are genuine: every adopted entry verifies against those before *)
(* it, and each signer it names signed it.                                 *)
LogsAreGenuine == LogsVerify /\ SignersSigned
=============================================================================
