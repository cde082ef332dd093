--------------------------- MODULE GovernanceLog ---------------------------
(***************************************************************************)
(* crates/myownmesh-core/src/network_state.rs: the two signed logs of a    *)
(* network and what every member derives from them.                        *)
(*                                                                         *)
(* The governance log is a sequence: kind changes, grants of the           *)
(* controller and owner roles, removals of those who hold them.  The       *)
(* member log is a set of admissions and removals of plain members, in     *)
(* which the latest entry about a device wins.  A role map is a function   *)
(* on Device, with "none" where the code's map has no key.                 *)
(*                                                                         *)
(* The replay of a log is written in closed form: what a device holds      *)
(* after i entries is the effect of the last of them that touches it.      *)
(* Signatures are abstracted to the set of signers; Split, TopologyChange  *)
(* and Unknown variants and the Silent kind are left out.                  *)
(***************************************************************************)
EXTENDS Integers, Sequences, FiniteSets

CONSTANT Device

Kinds == {"open", "closed"}
Roles == {"none", "member", "controller", "owner"}

-----------------------------------------------------------------------------
(* Transitions.                                                            *)

(* KindChange{Closed}, KindChange{Open}, RoleGrant, RoleRevoke, Evict.     *)
Variant ==
    [op : {"close", "reopen"}]
        \cup [op : {"grant"}, target : Device, role : Roles \ {"none"}]
        \cup [op : {"revoke", "evict"}, target : Device]

(* A ratified entry.  by is the first signer, the proposer.                *)
Transition ==
    [variant : Variant, by : Device, signers : SUBSET Device, at : Nat]

MemberLog == {M \in SUBSET Transition : IsFiniteSet(M)}

About(v, d) == v.op \in {"grant", "revoke", "evict"} /\ v.target = d
AdmitsMember(v) == v.op = "grant" /\ v.role = "member"
Removal(v) == v.op \in {"revoke", "evict"}

-----------------------------------------------------------------------------
(* Authority.                                                              *)

Owners(roles) == {d \in Device : roles[d] = "owner"}
Authorities(roles) == {d \in Device : roles[d] \in {"controller", "owner"}}

(* verify_quorum: one signer of the tier the variant acts on.              *)
Quorum(k, roles, t) ==
    LET v == t.variant
        signedBy(S) == t.signers \cap S # {}
        tier(isOwner) == IF isOwner THEN Owners(roles) ELSE Authorities(roles)
    IN  CASE v.op = "close" -> k = "open" /\ t.signers # {}
          [] v.op = "reopen" -> k = "closed" /\ signedBy(Owners(roles))
          [] v.op = "grant" -> k = "open" \/ signedBy(tier(v.role = "owner"))
          [] Removal(v) ->
                k = "open" \/ signedBy(tier(roles[v.target] = "owner"))

-----------------------------------------------------------------------------
(* apply_transition, one entry at a time ...                               *)

(* A close elects its first signer.                                        *)
Touches(t, d) == About(t.variant, d) \/ (t.variant.op = "close" /\ t.by = d)

(* A removal that leaves a mark in the role table.                         *)
Effect_Tombstone(t) ==
    CASE t.variant.op = "close" -> "owner"
      [] t.variant.op = "grant" -> t.variant.role
      [] OTHER -> "removed"

Effect(t) ==
    CASE t.variant.op = "close" -> "owner"
      [] t.variant.op = "grant" -> t.variant.role
      [] OTHER -> "none"

KindAfter(k, t) ==
    CASE t.variant.op = "close" -> "closed"
      [] t.variant.op = "reopen" -> "open"
      [] OTHER -> k

RolesAfter(roles, t) ==
    [d \in Device |-> IF Touches(t, d) THEN Effect(t) ELSE roles[d]]

(* ... and verify_log, from genesis.                                       *)
Latest(S) == CHOOSE i \in S : \A j \in S : j <= i

RolesAt(L, i) ==
    [d \in Device |->
        LET touched == {j \in 1..i : Touches(L[j], d)}
        IN  IF touched = {} THEN "none" ELSE Effect(L[Latest(touched)])]

KindAt(L, i) ==
    LET changes == {j \in 1..i : L[j].variant.op \in {"close", "reopen"}}
    IN  IF changes = {} THEN "open" ELSE KindAfter("open", L[Latest(changes)])

VerifyLog(L) ==
    \A i \in 1..Len(L) : Quorum(KindAt(L, i - 1), RolesAt(L, i - 1), L[i])

Replayed(L) == RolesAt(L, Len(L))

-----------------------------------------------------------------------------
(* The member tier.                                                        *)

(* The entries of member_log_verdict about d that count: authored by a     *)
(* current owner or controller, admitting a member or removing one.        *)
Counted(M, roles, d) ==
    {t \in M : /\ About(t.variant, d)
               /\ AdmitsMember(t.variant) \/ Removal(t.variant)
               /\ t.signers \cap Authorities(roles) # {}}

(* verify_member_log: the latest entry admits; at equal stamps the         *)
(* admission is sorted after the removal.                                  *)
Present(M, roles) ==
    {d \in Device :
        \E t \in Counted(M, roles, d) :
            /\ AdmitsMember(t.variant)
            /\ \A u \in Counted(M, roles, d) : u.at <= t.at}

(* member_log_removed.                                                     *)
Removed(M, roles) ==
    {d \in Device : Counted(M, roles, d) # {}} \ Present(M, roles)

(* The member log takes admissions of members and removals of those who    *)
(* hold no role of the governance log.                                     *)
MemberTier(v, roles) ==
    \/ AdmitsMember(v)
    \/ Removal(v) /\ roles[v.target] \notin {"controller", "owner"}

-----------------------------------------------------------------------------
(* What both logs give together.                                           *)

(* project_roles, verified_projection.  The logs kept by a member verify,  *)
(* so the branch for one that does not is left out.                        *)
Project(L, M) ==
    LET seats == Replayed(L) IN
    [d \in Device |->
        IF seats[d] = "none" /\ d \in Present(M, seats)
        THEN "member" ELSE seats[d]]

(* log_evicted: a removal that no seat outranks.                           *)
EvictedBy(k, roles, M, d) ==
    /\ k = "closed"
    /\ roles[d] \notin {"controller", "owner"}
    /\ d \in Removed(M, roles)
=============================================================================
