------------------------------- MODULE MCHost -------------------------------
(***************************************************************************)
(* The host side: the updater, the daemon's networks and services, and the *)
(* registry of local clients.  A behaviour runs one of them, the others    *)
(* keep their initial state.                                               *)
(***************************************************************************)
EXTENDS Updater, Daemon, Ipc

VARIABLES machine, traffic

hostVars == <<machine, traffic, updVars, dmnVars, ipcVars>>

(* Updater: a daemon that ticks, on both systems (on Windows, with a       *)
(* release candidate in the feed), one that obeys a control client and has *)
(* no GUI beside it, and the command line.                                 *)
Version(a, b, c, d) == <<a, b, c, d>>
Minor     == <<Version(0,1,0,0), Version(0,1,1,0), Version(0,2,0,0)>>
Candidate == <<Version(0,1,0,0), Version(0,1,1,1), Version(0,1,1,0)>>
Sites == {[win |-> FALSE, gui |-> TRUE, tasks |-> {"ticker"}, feed |-> Minor],
          [win |-> TRUE, gui |-> TRUE, tasks |-> {"ticker"}, feed |-> Candidate],
          [win |-> TRUE, gui |-> FALSE, tasks |-> {"control"}, feed |-> Candidate],
          [win |-> FALSE, gui |-> TRUE, tasks |-> {"cli"}, feed |-> Minor]}
Settings == {[enabled |-> TRUE, policy |-> "patch"], [enabled |-> TRUE, policy |-> "minor"]}

(* Daemon: one network from the start, a second one offered, and requests  *)
(* that change networks and hosted services in every way.                  *)
Svc(n, r, s, t) == [node |-> n, relay |-> r, stun |-> s, turn |-> t]
FirstServices == Svc(TRUE, TRUE, FALSE, TRUE)
Conf(i, n, s, h) == [id |-> i, net |-> n, sig |-> s, hot |-> h]
FirstNetworks == <<Conf("a", "x", 0, 0)>>
Req(op, c, key, purge, svc) == [op |-> op, c |-> c, key |-> key, purge |-> purge, svc |-> svc]
Plainly(op, key, purge) == Req(op, NoConfig, key, purge, FirstServices)
Requests ==
    {Req("add", Conf("b", "y", 0, 0), "", FALSE, FirstServices),
     Req("update", Conf("a", "x", 1, 1), "", FALSE, FirstServices),
     Req("update", Conf("a", "x", 0, 1), "", FALSE, FirstServices)}
    \cup {Req("services", NoConfig, "", FALSE, s) :
            s \in {Svc(FALSE, TRUE, FALSE, TRUE), Svc(TRUE, FALSE, TRUE, FALSE),
                   Svc(TRUE, FALSE, TRUE, TRUE), FirstServices}}
    \cup {Plainly("remove", "x", TRUE), Plainly("remove", "b", FALSE), Plainly("reset", "", TRUE),
          Plainly("forget", "", TRUE), Plainly("use", "a", FALSE)}

(* Clients: requests, departures and restarts of the network are few, in   *)
(* every split that lets two of them meet.                                 *)
Clients ==
    \/ traffic = "rpc" /\ (IpcInit(2, 1, 0) \/ IpcInit(1, 0, 1))
    \/ traffic = "channel" /\ (IpcInit(3, 0, 0) \/ IpcInit(2, 1, 0) \/ IpcInit(2, 0, 1))

HostInit ==
    /\ machine \in {"updater", "daemon", "ipc"}
    /\ UpdInit /\ DmnInit
    /\ IF machine = "ipc" THEN Clients ELSE traffic = "none" /\ IpcInit(0, 0, 0)
    /\ machine # "updater" => /\ site = CHOOSE s \in Site : TRUE
                              /\ conf = CHOOSE c \in Prefs : TRUE

UpdAlone == machine = "updater" /\ UNCHANGED <<machine, traffic, dmnVars, ipcVars>>
DmnAlone == machine = "daemon" /\ UNCHANGED <<machine, traffic, updVars, ipcVars>>
IpcAlone == machine = "ipc" /\ UNCHANGED <<machine, traffic, updVars, dmnVars>>

HostNext ==
    \/ UpdAlone /\ UpdNext
    \/ DmnAlone /\ DmnNext
    \/ IpcAlone /\ Sockets
    \/ IpcAlone /\ traffic = "rpc" /\ RpcTraffic
    \/ IpcAlone /\ traffic = "channel" /\ ChannelTraffic

HostSpec == HostInit /\ [][HostNext]_hostVars

TickerSteps ==
    \/ Fetched("ticker") \/ download_verify_stage("ticker") \/ Unpacked("ticker")
    \/ MarkBegins("ticker") \/ write_pending_marker("ticker") \/ ReadMarker("ticker")
    \/ ApplySkips("ticker") \/ Copy("ticker") \/ Swap("ticker") \/ Aside("ticker")
    \/ SwapIn("ticker") \/ record_gui_version("ticker") \/ ClearMarker("ticker")

(* Updater: a daemon that was stopped is started again, it finishes its    *)
(* jobs, and the interval passes.  Daemon: requests and stopping engines   *)
(* go on.  Clients: pumps, requests and handlers go on.                    *)
FairHostSpec ==
    /\ HostSpec
    /\ WF_updVars(machine = "updater" /\ Start("ticker"))
    /\ WF_updVars(machine = "updater" /\ TickerSteps)
    /\ WF_updVars(machine = "updater" /\ IntervalElapses)
    /\ WF_dmnVars(machine = "daemon" /\ \E n \in 1..Len(mem.eng) : Stops(n))
    /\ \A t \in Conn : WF_dmnVars(machine = "daemon" /\ Steps(t))
    /\ WF_ipcVars(machine = "ipc" /\ PumpStep)
    /\ \A s \in Socket : WF_ipcVars(machine = "ipc" /\ DispatchStep(s))
    /\ \A r \in Call : WF_ipcVars(machine = "ipc" /\ (\/ put_pending_inbound(r) \/ SendInbound(r)
                                                     \/ \E how \in Mode : Answer(r, how)))

(* The host goes on: permitted releases land, requests end, frames arrive  *)
(* and calls are answered.                                                 *)
HostProgress == ReleaseLands /\ RequestsEnd /\ FramesArrive /\ CallsAnswered
=============================================================================
