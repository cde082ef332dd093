----------------------------- MODULE MCCallers ------------------------------
(***************************************************************************)
(* Those who wait for the engine, for TLC: callers of acknowledged         *)
(* delivery, and callers of the driver.  A behaviour runs one of the two   *)
(* machines, the other keeps its initial state, in which nothing of it is  *)
(* due.                                                                    *)
(***************************************************************************)
EXTENDS Reliable, Driver

VARIABLE machine

callerVars == <<machine, vars, driverVars>>

(* What three callers ask of one network at the same time.                 *)
CallSets == {<<"connect", "approve", "leave">>, <<"connect", "remove", "leave">>,
             <<"reliable", "remove", "leave">>, <<"topology", "hot", "leave">>,
             <<"send", "ask", "leave">>}

CallersInit ==
    /\ machine \in {"reliable", "driver"}
    /\ Init /\ DriverInit
    /\ machine # "driver" => [c \in Asker |-> asks[c].op] = CHOOSE s \in CallSets : TRUE

CallersNext ==
    \/ machine = "reliable" /\ Next /\ UNCHANGED <<machine, driverVars>>
    \/ machine = "driver" /\ DriverNext /\ UNCHANGED <<machine, vars>>

FairCallersSpec ==
    /\ CallersInit /\ [][CallersNext]_callerVars
    /\ Fairness /\ DriverFairness

(* Whoever waits is served: a link that stays up delivers what is queued,  *)
(* and a call of the driver returns, by a reply, a timeout or the end of   *)
(* the network.                                                            *)
CallersServed == SettledLinkDelivers /\ EveryCallReturns
=============================================================================
