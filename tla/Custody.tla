------------------------------ MODULE Custody -------------------------------
(***************************************************************************)
(* The custody lock (custody.rs): a device that enrolled an authenticator  *)
(* for a network authors no governance change there without a fresh code   *)
(* or an unused recovery code.  The store is one file for all networks;    *)
(* every call loads it, and writes back what it changed in its own copy.   *)
(* Calls come from control sockets and governance handlers, each in a task *)
(* of its own, and nothing orders them.                                    *)
(***************************************************************************)
EXTENDS Integers, Sequences

CONSTANTS
    Requester,          \* tasks that may be inside custody.rs at once
    NetworkId,
    Codes,           \* recovery codes per enrollment
    SKEW_STEPS,
    MaxCalls, MaxSteps, MaxFaults

ASSUME CustodyAssumption == MaxSteps \in Nat

VARIABLES
    store,           \* custody.json: [NetworkId -> <<>> or <<enrollment>>]
    call,            \* [Requester -> the call in progress]
    clockstep,             \* the TOTP step
    custpast             \* calls, secrets and faults so far; uses: accepted recovery codes

custVars == <<store, call, clockstep, custpast>>

NoCode == <<"none">>
Totp(s, t) == <<"totp", s, t>>
Recovery(s, k) == <<"recovery", s, k>>
Code == {NoCode} \cup {Totp(s, t) : s \in 1..custpast.secrets, t \in 0..MaxSteps}
                 \cup {Recovery(s, k) : s \in 1..custpast.secrets, k \in Codes}
Resting == [op |-> "none", net |-> <<>>, code |-> NoCode, at |-> "load", copy |-> <<>>, raced |-> FALSE]

CustInit ==
    /\ store = [n \in NetworkId |-> <<>>]
    /\ call = [c \in Requester |-> Resting]
    /\ clockstep = 0
    /\ custpast = [calls |-> 0, secrets |-> 0, faults |-> 0, uses |-> <<>>, raced |-> FALSE]

(* enroll, require (before an authoring) and disable are called.           *)
Begin(c, op, n, code) ==
    /\ call[c].op = "none"
    /\ custpast.calls < MaxCalls
    /\ call' = [call EXCEPT ![c] = [Resting EXCEPT !.op = op, !.net = n, !.code = code]]
    /\ custpast' = [custpast EXCEPT !.calls = @ + 1]
    /\ UNCHANGED <<store, clockstep>>

Rest(c) == call' = [call EXCEPT ![c] = Resting]

(* load_at: the file as it is now.  A corrupt or unreadable file fails the *)
(* call: nothing falls back to an empty store.                             *)
load_at(c) ==
    /\ call[c].op # "none" /\ call[c].at \in {"load", "reload"}
    /\ call' = [call EXCEPT ![c].copy = store,
                            ![c].at = IF @ = "reload" THEN "clear" ELSE call[c].op]
    /\ UNCHANGED <<store, clockstep, custpast>>

LoadFails(c) ==
    /\ call[c].op # "none" /\ call[c].at \in {"load", "reload"}
    /\ custpast.faults < MaxFaults
    /\ custpast' = [custpast EXCEPT !.faults = @ + 1]
    /\ Rest(c)
    /\ UNCHANGED <<store, clockstep>>

(* save_at: atomic, the whole copy; a call that loaded before another's     *)
(* write and writes after it undoes that write: `raced`.                   *)
save_at(c, copy, then, hist) ==
    /\ store' = copy
    /\ call' = [d \in Requester |->
          IF d = c THEN then
          ELSE [call[d] EXCEPT !.raced = @ \/ call[d].copy # <<>>]]
    /\ custpast' = [hist EXCEPT !.raced = @ \/ call[c].raced]
    /\ UNCHANGED clockstep

SaveFails(c) ==
    /\ call[c].at \in {"enroll", "consume", "clear"}
    /\ custpast.faults < MaxFaults
    /\ custpast' = [custpast EXCEPT !.faults = @ + 1]
    /\ Rest(c)
    /\ UNCHANGED <<store, clockstep>>

Has(c)  == call[c].copy[call[c].net] # <<>>
Mine(c) == call[c].copy[call[c].net][1]

(* enroll_at: refused while an enrollment exists.                          *)
enroll_at(c) ==
    /\ call[c].at = "enroll"
    /\ IF Has(c) THEN Rest(c) /\ UNCHANGED <<store, clockstep, custpast>>
       ELSE save_at(c, [call[c].copy EXCEPT ![call[c].net] =
                            <<[secret |-> custpast.secrets + 1, codes |-> Codes]>>],
                    Resting, [custpast EXCEPT !.secrets = @ + 1])

verify_totp_at(secret, code) ==
    /\ code[1] = "totp" /\ code[2] = secret
    /\ \E d \in (-SKEW_STEPS)..SKEW_STEPS :
          code[3] = IF clockstep + d < 0 THEN 0 ELSE clockstep + d

(* What follows an accepted code: the authoring is done, disable goes on.  *)
Accepted(c) == IF call[c].op = "disable" THEN "reload" ELSE "accepted"

Strikable(c) ==
    /\ call[c].code[1] = "recovery"
    /\ call[c].code[2] = Mine(c).secret
    /\ call[c].code[3] \in Mine(c).codes

Verdict(c, refused) ==
    IF ~Has(c) \/ verify_totp_at(Mine(c).secret, call[c].code) THEN Accepted(c)
    ELSE IF Strikable(c) THEN "consume" ELSE refused

(* disable_at goes on whatever the gate said.                              *)
require_at_Ignored(c) ==
    /\ call[c].at \in {"require", "disable"}
    /\ call' = [call EXCEPT ![c].at = Verdict(c, IF call[c].op = "disable" THEN "reload" ELSE "refused")]
    /\ UNCHANGED <<store, clockstep, custpast>>

(* require_at: no enrollment, no gate; then a code of this window, then an *)
(* unused recovery code, which is struck before it counts.                 *)
require_at(c) ==
    /\ call[c].at \in {"require", "disable"}
    /\ call' = [call EXCEPT ![c].at = Verdict(c, "refused")]
    /\ UNCHANGED <<store, clockstep, custpast>>

consume(c) ==
    /\ call[c].at = "consume"
    /\ save_at(c, [call[c].copy EXCEPT ![call[c].net] = <<[Mine(c) EXCEPT !.codes = @ \ {call[c].code[3]}]>>],
               [call[c] EXCEPT !.at = Accepted(c)], [custpast EXCEPT !.uses = Append(@, call[c].code)])

Returns(c) ==
    /\ call[c].at \in {"accepted", "refused"}
    /\ Rest(c)
    /\ UNCHANGED <<store, clockstep, custpast>>

(* disable_at's second load and save; a refused code never gets here.      *)
Clear(c) ==
    /\ call[c].at = "clear"
    /\ save_at(c, [call[c].copy EXCEPT ![call[c].net] = <<>>], Resting, custpast)

CustTick ==
    /\ clockstep < MaxSteps
    /\ clockstep' = clockstep + 1
    /\ UNCHANGED <<store, call, custpast>>

CustNext ==
    \/ \E c \in Requester, n \in NetworkId, op \in {"enroll", "require", "disable"} :
          \E code \in Code : (op = "enroll" => code = NoCode) /\ Begin(c, op, n, code)
    \/ \E c \in Requester : \/ load_at(c) \/ LoadFails(c) \/ SaveFails(c) \/ enroll_at(c)
                         \/ require_at(c) \/ consume(c) \/ Returns(c) \/ Clear(c)
    \/ CustTick

CustSpec == CustInit /\ [][CustNext]_custVars

(***************************************************************************)
(* A recovery code is accepted once, as long as no two calls overlapped    *)
(* with one writing over the other (require_at strikes it before it        *)
(* counts; a second, concurrent require_at may have loaded it before).     *)
RecoveryOnce ==
    ~custpast.raced => \A i, j \in DOMAIN custpast.uses : custpast.uses[i] = custpast.uses[j] => i = j

(* An enrollment, once made, goes only by a disable that presented a code  *)
(* accepted for it, again unless a call wrote an old copy back.            *)
LockKept ==
    [][\A n \in NetworkId :
        (store[n] # <<>> /\ (store'[n] = <<>> \/ store'[n][1].secret # store[n][1].secret))
          => \/ custpast'.raced
             \/ \E c \in Requester : /\ call[c].at = "clear" /\ call[c].net = n
                                  /\ call[c].code # NoCode
                                  /\ call[c].code[2] = store[n][1].secret]_custVars

(* The lock on ownership holds: a recovery code opens it once, and it goes *)
(* only to a code that was accepted.                                       *)
LockHolds == []RecoveryOnce /\ LockKept
=============================================================================
