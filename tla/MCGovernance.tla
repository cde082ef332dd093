---------------------------- MODULE MCGovernance ----------------------------
(***************************************************************************)
(* Governance for TLC: scenes of two members, and the custody store that   *)
(* gates a device's authoring, in one run.                                 *)
(***************************************************************************)
EXTENDS Governance, Custody

CONSTANTS a, b, x

VARIABLE scene

Entry(v, d) == [variant |-> v, by |-> d, signers |-> {d}, at |-> 0]
Close == [op |-> "close"]
Reopen == [op |-> "reopen"]
Grant(d, r) == [op |-> "grant", target |-> d, role |-> r]
Revoke(d) == [op |-> "revoke", target |-> d]
Evict(d) == [op |-> "evict", target |-> d]

(* One authority: a founded the network; b is a plain member that may only *)
(* propose, and rosters x by hand.                                         *)
Founded == <<Entry(Close, a)>>
AuthorityAgenda ==
    {<<a, Grant(x, "controller")>>, <<a, Evict(b)>>, <<b, Grant(x, "member")>>}

OneAuthority == INSTANCE Governance WITH
    Genesis <- Founded, Agenda <- AuthorityAgenda, Reviewers <- {a, b},
    Manual <- {}, Steps <- {1}, MaxProposals <- 2, MaxLinks <- 1, MaxExtras <- 0

(* The same, with a restart or a roster row edited by hand.                *)
ByHand == INSTANCE Governance WITH
    Genesis <- Founded, Agenda <- {<<a, Grant(x, "member")>>}, Reviewers <- {},
    Manual <- {<<b, x>>}, Steps <- {1}, MaxProposals <- 1

(* Two owners, who may act while they are out of touch.                    *)
CoOwned == Append(Founded, Entry(Grant(b, "owner"), a))
TwoAuthorities ==
    {<<a, Revoke(b)>>, <<a, Reopen>>, <<a, Grant(x, "member")>>,
     <<b, Grant(x, "controller")>>, <<b, Evict(a)>>, <<b, Close>>}
MCInit ==
    /\ CustInit
    /\ \/ scene = "one authority" /\ OneAuthority!Init
       \/ scene = "by hand" /\ ByHand!Init
       \/ scene \in {"two owners", "custody"} /\ Init

Stays == UNCHANGED <<scene, custVars>>

MCNext ==
    \/ scene = "one authority" /\ OneAuthority!Next /\ Stays
    \/ scene = "by hand" /\ ByHand!Next /\ Stays
    \/ scene = "two owners" /\ Next /\ Stays
    \/ scene = "custody" /\ CustNext /\ UNCHANGED <<scene, vars>>

MCSpec == MCInit /\ [][MCNext]_<<vars, custVars, scene>>

(* AtRestAgreed of Governance where one member alone has authority: with   *)
(* no frame on its way, two linked members derive the same kind, roles and *)
(* membership.  (Two owners that act apart may fork the governance log for *)
(* good: adopt_transition_log only takes extensions.)                      *)
MembersAgree == scene # "two owners" => AtRestAgreed

(* Members converge: at rest, linked members derive the same governance,   *)
(* and what it signs is in the roster that the handshake admits by; at no  *)
(* time is anybody shut out whose removal nobody proposed.                 *)
MembersConverge == MembersAgree /\ SignedAreRostered /\ OnlyCondemnedEvicted
=============================================================================
