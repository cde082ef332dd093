-------------------------- MODULE ReliableChannel --------------------------
(***************************************************************************)
(* What acknowledged delivery promises to its callers, without outboxes,   *)
(* streams, sessions or acks (the contract in the header of                *)
(* crates/myownmesh-core/src/engine/reliable.rs): every call is either     *)
(* refused or accepted, accepted messages reach the application in the     *)
(* order of the calls and at most once, Ok is said only of messages that   *)
(* did reach it, and what a caller has been told is never taken back.      *)
(***************************************************************************)
EXTENDS Integers, Sequences

CONSTANT MaxMsgs

Msg == 1..MaxMsgs

VARIABLES calls, outcome, delivered, reached
vars == <<calls, outcome, delivered, reached>>

Init ==
    /\ calls = 0
    /\ outcome = [m \in Msg |-> "none"]
    /\ delivered = <<>>
    /\ reached = {}

(* The waits of the messages in M end with the given result.               *)
Resolved(M, result) ==
    [m \in Msg |-> IF m \in M THEN result ELSE outcome[m]]

Waiting == {m \in Msg : outcome[m] = "waiting"}

Submit ==
    /\ calls < MaxMsgs
    /\ calls' = calls + 1
    /\ \E r \in {"waiting", "err"} : outcome' = [outcome EXCEPT ![calls + 1] = r]
    /\ UNCHANGED <<delivered, reached>>

(* A message may still arrive after its caller has given up on it.         *)
Deliver(m) ==
    /\ outcome[m] # "none"
    /\ \A i \in 1..Len(delivered) : delivered[i] < m
    /\ delivered' = Append(delivered, m)
    /\ reached' = reached \cup {m}
    /\ UNCHANGED <<calls, outcome>>

Confirm(M) ==
    /\ M \subseteq Waiting \cap reached
    /\ outcome' = Resolved(M, "ok")
    /\ UNCHANGED <<calls, delivered, reached>>

GiveUp(M, result) ==
    /\ M \subseteq Waiting
    /\ outcome' = Resolved(M, result)
    /\ UNCHANGED <<calls, delivered, reached>>

(* The application on the receiving side starts afresh.                    *)
Afresh ==
    /\ delivered' = <<>>
    /\ UNCHANGED <<calls, outcome, reached>>

Next ==
    \/ Submit
    \/ \E m \in Msg : Deliver(m)
    \/ \E M \in SUBSET Waiting : Confirm(M)
    \/ \E M \in SUBSET Waiting : \E result \in {"err", "lost"} : GiveUp(M, result)
    \/ Afresh

Spec == Init /\ [][Next]_vars
=============================================================================
