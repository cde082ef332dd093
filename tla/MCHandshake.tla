---------------------------- MODULE MCHandshake ----------------------------
(* Instances of Handshake for TLC.                                         *)
EXTENDS Handshake

(* A member that approves by itself meets the other for the first time; or *)
(* members that have each other in their rosters rejoin a network in which *)
(* no governance change concerns them any more.                            *)
MeetInit == Init /\ ~rostered[A]
RejoinInit == InitAfter(MaxGov) /\ rostered = [n \in Node |-> TRUE]
AdmissionSpec == (MeetInit \/ RejoinInit) /\ [][Next]_vars

(* Between members that rejoin, sessions are dialled again and hello       *)
(* retries run; no user acts and no handshake lasts until the watchdog     *)
(* looks at it.                                                            *)
Rejoined ==
    \A n \in Node : rostered[n] /\ approving[n].pc = "idle" /\ dropTasks[n] = {}

(* Otherwise users act on the first session, and the log changes once or a *)
(* send fails.  The hello is not repeated, and no eviction falls into the  *)
(* window between the check and the write of approve_roster on a caller's  *)
(* task.                                                                   *)
FirstSession ==
    /\ gen' <= 1 /\ NoRosterRace' /\ gov' + faults' <= 1
    /\ \A n \in Node, g \in Gen : retries'[n][g] >= retries[n][g]

Kept == IF gov = MaxGov THEN Rejoined' ELSE FirstSession
=============================================================================
