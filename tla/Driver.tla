------------------------------- MODULE Driver -------------------------------
(***************************************************************************)
(* The driver of a joined network and its callers (engine/mod.rs,          *)
(* run_driver and handle_command; handle.rs, JoinedNetwork; the requests   *)
(* of control.rs that are handed to a network).  One task, the driver,     *)
(* takes commands from a queue and handles them one at a time.  A caller   *)
(* queues a command and waits for its reply; a wait for a link and a       *)
(* reliable send are replied to later, out of tables of the network, which *)
(* the callers themselves keep alive.  What the commands do is modelled    *)
(* elsewhere; here it matters who is told, and when.  One peer.            *)
(*                                                                         *)
(* The shape of the network is one more thing tasks contend for: a ratified*)
(* TopologyChange owns it, a local request may set it before that.         *)
(***************************************************************************)
EXTENDS Naturals, Sequences

CONSTANTS
    Asker,        \* the callers, each with one call
    Calls,        \* what they may call: functions from Asker to Operation
    MaxHappens    \* bound: transport events

Operation == {"ask", "send", "reliable", "connect", "approve", "remove", "topology", "hot", "leave"}

ASSUME CallsAssumption ==
    Calls \subseteq [Asker -> Operation] /\ 0 \notin Asker /\ MaxHappens \in Nat

VARIABLES
    asks,         \* [Asker -> a call: op, at, res, saw]
    listed,       \* the network is in the daemon's registry
    queue,        \* the commands queued
    driver,       \* where run_driver stands, and the command in its hand
    waiters,      \* connect_waiters: calls
    unacked,      \* reliable_out: calls
    link,         \* the peer: "none", "down" or "active"
    shape,        \* the TopologyChange governance holds, and the one in force (0: none)
    happened      \* transport events so far

driverVars == <<asks, listed, queue, driver, waiters, unacked, link, shape, happened>>

NoCmd == [op |-> "none", by |-> 0]
Posted(q) == {q[i] : i \in DOMAIN q}

DriverInit ==
    /\ \E s \in Calls : asks = [c \in Asker |-> [op |-> s[c], at |-> "idle", res |-> "none", saw |-> 0]]
    /\ listed = TRUE
    /\ queue = <<>>
    /\ driver = [at |-> "select", cmd |-> NoCmd, late |-> {}]
    /\ waiters = {} /\ unacked = {}
    /\ link = "down"
    /\ shape = [governed |-> 0, is |-> 0, crossed |-> FALSE]
    /\ happened = 0

(* The calls of who that still wait return with res; a reply nobody waits  *)
(* for is dropped.                                                         *)
Replied(who, res) ==
    [c \in Asker |-> IF c \in who /\ asks[c].at = "sent"
                         THEN [asks[c] EXCEPT !.res = res,
                                  !.at = IF \/ asks[c].op \in {"approve", "remove"} /\ res = "ok"
                                            \/ asks[c].op = "topology"
                                           THEN "tail" ELSE "done"]
                         ELSE asks[c]]

-----------------------------------------------------------------------------
(* The callers                                                             *)

(* The calls made through a Channel or an Rpc hold the network's state and *)
(* may outlive it; the others hold the JoinedNetwork itself.               *)
OnState(c) == asks[c].op \in {"send", "reliable"}
Borrowed == \E c \in Asker : ~OnState(c) /\ asks[c].at \in {"found", "sent", "tail", "settles"}

(* dispatch finds the network of a request in the registry, ...            *)
Finds(c) ==
    /\ asks[c].at = "idle" /\ asks[c].op # "leave" /\ (listed \/ OnState(c))
    /\ asks' = [asks EXCEPT ![c].at = "found"]
    /\ UNCHANGED <<listed, queue, driver, waiters, unacked, link, shape, happened>>

(* ... or answers that it is unknown.                                      *)
FindsNone(c) ==
    /\ asks[c].at = "idle" /\ ~listed /\ ~OnState(c)
    /\ asks' = [asks EXCEPT ![c].at = "done", ![c].res = "unknown"]
    /\ UNCHANGED <<listed, queue, driver, waiters, unacked, link, shape, happened>>

(* A removal takes the network out of the registry, and can leave it only  *)
(* if nobody else holds it.                                                *)
Removes(c) ==
    /\ asks[c].at = "idle" /\ asks[c].op = "leave" /\ listed
    /\ listed' = FALSE
    /\ asks' = IF Borrowed THEN [asks EXCEPT ![c].at = "done", ![c].res = "borrowed"]
                            ELSE [asks EXCEPT ![c].at = "found"]
    /\ UNCHANGED <<queue, driver, waiters, unacked, link, shape, happened>>

(* The command is queued, or refused when the receiver is gone.            *)
Queues(c) ==
    /\ asks[c].at = "found"
    /\ IF driver.at = "ended"
         THEN /\ asks' = [asks EXCEPT ![c].at = "done", ![c].res = "closed"]
              /\ UNCHANGED queue
         ELSE /\ asks' = [asks EXCEPT ![c].at = "sent"]
              /\ queue' = Append(queue, [op |-> asks[c].op, by |-> c])
    /\ UNCHANGED <<listed, driver, waiters, unacked, link, shape, happened>>

(* A governance command or a lane, a frame or an RPC request: queue it and *)
(* wait for the reply.                                                     *)
ask(c) == asks[c].op = "ask" /\ Queues(c)
send_channel_frame(c) == asks[c].op = "send" /\ Queues(c)
send_channel_reliable(c) == asks[c].op = "reliable" /\ Queues(c)

connect_peer_wait(c) == asks[c].op = "connect" /\ Queues(c)

(* The caller waits without a limit.                                       *)
WaitTimesOut_Never(c) ==
    /\ FALSE
    /\ UNCHANGED driverVars

(* The caller of connect_peer_wait gives a timeout; its reply stays in the *)
(* table.                                                                  *)
WaitTimesOut(c) ==
    /\ asks[c].op = "connect" /\ asks[c].at = "sent"
    /\ asks' = [asks EXCEPT ![c].at = "done", ![c].res = "pending"]
    /\ UNCHANGED <<listed, queue, driver, waiters, unacked, link, shape, happened>>

roster_approve(c) == asks[c].op = "approve" /\ Queues(c)

(* Its second half, send_local_approve, runs in the caller's task: it may  *)
(* be what makes the link ACTIVE ...                                       *)
Approves(c) ==
    /\ asks[c].op = "approve" /\ asks[c].at = "tail"
    /\ \/ asks' = [asks EXCEPT ![c].at = "done"] /\ UNCHANGED link
       \/ /\ link = "down" /\ link' = "active"
          /\ asks' = [asks EXCEPT ![c].at = "settles"]
    /\ UNCHANGED <<listed, queue, driver, waiters, unacked, shape, happened>>

(* ... and then tells those that wait for it.                              *)
Settles(c) ==
    /\ asks[c].at = "settles"
    /\ asks' = [Replied(waiters, "ok") EXCEPT ![c].at = "done"]
    /\ waiters' = {}
    /\ UNCHANGED <<listed, queue, driver, unacked, link, shape, happened>>

(* roster_remove: once the roster is written, the session is dropped.      *)
roster_remove(c) ==
    \/ asks[c].op = "remove" /\ Queues(c)
    \/ /\ asks[c].op = "remove" /\ asks[c].at = "tail"
       /\ queue' = IF driver.at = "ended" THEN queue ELSE Append(queue, [op |-> "drop", by |-> 0])
       /\ asks' = [asks EXCEPT ![c].at = "done"]
       /\ UNCHANGED <<listed, driver, waiters, unacked, link, shape, happened>>

(* TopologySet asks for the governance state and refuses if governance     *)
(* owns the shape; otherwise it posts the new one.                         *)
set_topology(c) ==
    \/ asks[c].op = "topology" /\ Queues(c)
    \/ /\ asks[c].op = "topology" /\ asks[c].at = "tail"
       /\ asks' = [asks EXCEPT ![c].at = "done"]
       /\ queue' = IF asks[c].res = "governed" \/ driver.at = "ended" THEN queue
                   ELSE Append(queue, [op |-> "post", by |-> 0])
       /\ UNCHANGED <<listed, driver, waiters, unacked, link, shape, happened>>

(* apply_hot, in the task of a NetworkUpdate: the shape governance owns, or *)
(* else that of the new configuration, is looked up and then written.  A   *)
(* TopologyChange may be ratified between (`crossed`).                     *)
apply_hot(c) ==
    /\ asks[c].op = "hot"
    /\ \/ /\ asks[c].at = "found"
          /\ asks' = [asks EXCEPT ![c].at = "tail", ![c].saw = shape.governed]
          /\ UNCHANGED shape
       \/ /\ asks[c].at = "tail"
          /\ asks' = [asks EXCEPT ![c].at = "done"]
          /\ shape' = [shape EXCEPT !.is = asks[c].saw, !.crossed = shape.governed # asks[c].saw]
    /\ UNCHANGED <<listed, queue, driver, waiters, unacked, link, happened>>

(* leave: Shutdown, then the end of the driver is awaited.                 *)
leave(c) ==
    \/ asks[c].op = "leave" /\ Queues(c)
    \/ /\ asks[c].op = "leave" /\ asks[c].at = "sent" /\ driver.at = "ended"
       /\ asks' = [asks EXCEPT ![c].at = "done", ![c].res = "ok"]
       /\ UNCHANGED <<listed, queue, driver, waiters, unacked, link, shape, happened>>

-----------------------------------------------------------------------------
(* The driver                                                              *)

(* The transport queues its events as commands: the link comes up, is lost *)
(* and will be rebuilt, or acknowledges a reliable send.                   *)
TransportEvent(e) ==
    /\ happened < MaxHappens /\ driver.at # "ended"
    /\ happened' = happened + 1
    /\ queue' = Append(queue, [op |-> e, by |-> 0])
    /\ UNCHANGED <<asks, listed, driver, waiters, unacked, link, shape>>

(* The loop takes the next command; Shutdown ends the loop.                *)
Takes ==
    /\ driver.at = "select" /\ queue # <<>>
    /\ LET cmd == Head(queue) IN
       driver' = [driver EXCEPT !.at = IF cmd.op = "leave" THEN "closing" ELSE "handle", !.cmd = cmd]
    /\ queue' = Tail(queue)
    /\ UNCHANGED <<asks, listed, waiters, unacked, link, shape, happened>>

BackToLoop == [driver EXCEPT !.at = "select", !.cmd = NoCmd]

(* The local shape is taken whatever governance says.                      *)
SetShape_Always ==
    shape' = [shape EXCEPT !.is = 0]

(* SetTopology: the shape governance owns is not given up for a local one. *)
SetShape ==
    shape' = IF shape.governed # 0 THEN shape ELSE [shape EXCEPT !.is = 0]

(* handle_command, but for ConnectPeer: a reply is sent at the end of the  *)
(* handler; a reliable send goes to the outbox or is refused.              *)
handle_command ==
    LET cmd == driver.cmd IN
    /\ driver.at = "handle" /\ cmd.op # "connect"
    /\ driver' = BackToLoop
    /\ \/ /\ cmd.op \in {"ask", "send", "approve", "remove"}
          /\ \E res \in {"ok", "err"} : asks' = Replied({cmd.by}, res)
          /\ UNCHANGED <<waiters, unacked, link, shape>>
       \/ /\ cmd.op = "topology"              \* GovernanceSnapshot
          /\ asks' = Replied({cmd.by}, IF shape.governed # 0 THEN "governed" ELSE "free")
          /\ UNCHANGED <<waiters, unacked, link, shape>>
       \/ cmd.op = "post" /\ SetShape /\ UNCHANGED <<asks, waiters, unacked, link>>
       \/ /\ cmd.op = "reliable"
          /\ \/ unacked' = unacked \cup {cmd.by} /\ UNCHANGED asks
             \/ asks' = Replied({cmd.by}, "err") /\ UNCHANGED unacked
          /\ UNCHANGED <<waiters, link, shape>>
       \/ /\ cmd.op = "opens"
          /\ link' = IF link = "down" THEN "active" ELSE link
          /\ asks' = IF link = "down" THEN Replied(waiters, "ok") ELSE asks
          /\ waiters' = IF link = "down" THEN {} ELSE waiters
          /\ UNCHANGED <<unacked, shape>>
       \/ /\ cmd.op = "loses"
          /\ link' = IF link = "active" THEN "down" ELSE link
          /\ UNCHANGED <<asks, waiters, unacked, shape>>
       \/ /\ cmd.op = "acks"
          /\ \E done \in SUBSET unacked : asks' = Replied(done, "ok") /\ unacked' = unacked \ done
          /\ UNCHANGED <<waiters, link, shape>>
       \/ /\ cmd.op = "ratifies"              \* a TopologyChange, ratified or adopted
          /\ shape' = [governed |-> shape.governed + 1, is |-> shape.governed + 1, crossed |-> FALSE]
          /\ UNCHANGED <<asks, waiters, unacked, link>>
       \/ /\ cmd.op = "drop"                  \* terminal: fail_peer and the waiters
          /\ asks' = Replied(waiters \cup unacked, "err")
          /\ waiters' = {} /\ unacked' = {}
          /\ link' = IF link = "active" THEN "down" ELSE link
          /\ UNCHANGED shape
    /\ UNCHANGED <<listed, queue, happened>>

(* connect_peer: a link that is ACTIVE is an answer ...                    *)
Looks ==
    /\ driver.at = "handle" /\ driver.cmd.op = "connect"
    /\ IF link = "active"
         THEN asks' = Replied({driver.cmd.by}, "ok") /\ driver' = BackToLoop
         ELSE driver' = [driver EXCEPT !.at = "parks"] /\ UNCHANGED asks
    /\ UNCHANGED <<listed, queue, waiters, unacked, link, shape, happened>>

(* The reply is not kept.                                                  *)
Parks_Forgets ==
    /\ driver.at = "parks"
    /\ driver' = BackToLoop
    /\ UNCHANGED <<asks, listed, queue, waiters, unacked, link, shape, happened>>

(* ... otherwise the reply is parked.  `late`: parked after another task   *)
(* had made the link ACTIVE, since the look, and told the waiters.         *)
Parks ==
    /\ driver.at = "parks"
    /\ waiters' = waiters \cup {driver.cmd.by}
    /\ driver' = [BackToLoop EXCEPT !.late = IF link = "active" THEN @ \cup {driver.cmd.by} ELSE @]
    /\ UNCHANGED <<asks, listed, queue, unacked, link, shape, happened>>

(* The reliable ticker: what has outlived its TTL is given up.  Ticks have *)
(* their turn when no command is queued.                                   *)
Expires ==
    /\ driver.at = "select" /\ queue = <<>> /\ unacked # {}
    /\ \E late \in SUBSET unacked \ {{}} :
         /\ asks' = Replied(late, "err")
         /\ unacked' = unacked \ late
    /\ UNCHANGED <<listed, queue, driver, waiters, link, shape, happened>>

(* NetworkState::shutdown: the sessions are closed and the peers cleared;  *)
CloseAll ==
    /\ driver.at = "closing"
    /\ link' = "none"
    /\ driver' = [driver EXCEPT !.at = "resolving"]
    /\ UNCHANGED <<asks, listed, queue, waiters, unacked, shape, happened>>

(* every wait for a link is told, ...                                      *)
ResolveAll ==
    /\ driver.at = "resolving"
    /\ asks' = Replied(waiters, "err") /\ waiters' = {}
    /\ driver' = [driver EXCEPT !.at = "failing"]
    /\ UNCHANGED <<listed, queue, unacked, link, shape, happened>>

(* ... and every reliable send.                                            *)
FailAll ==
    /\ driver.at = "failing"
    /\ asks' = Replied(unacked, "err") /\ unacked' = {}
    /\ driver' = [driver EXCEPT !.at = "returning"]
    /\ UNCHANGED <<listed, queue, waiters, link, shape, happened>>

(* run_driver returns: its end of the queue goes, and with it the replies  *)
(* of the commands that are still in it.                                   *)
Returns ==
    /\ driver.at = "returning"
    /\ driver' = [BackToLoop EXCEPT !.at = "ended"]
    /\ asks' = Replied({m.by : m \in Posted(queue)}, "dropped")
    /\ queue' = <<>>
    /\ UNCHANGED <<listed, waiters, unacked, link, shape, happened>>

DriverStep == Takes \/ handle_command \/ Looks \/ Parks \/ CloseAll \/ ResolveAll \/ FailAll \/ Returns

CallStep(c) ==
    \/ Finds(c) \/ FindsNone(c) \/ Removes(c)
    \/ ask(c) \/ send_channel_frame(c) \/ set_topology(c) \/ send_channel_reliable(c)
    \/ connect_peer_wait(c) \/ WaitTimesOut(c)
    \/ roster_approve(c) \/ Approves(c) \/ Settles(c)
    \/ roster_remove(c) \/ apply_hot(c) \/ leave(c)

DriverNext ==
    \/ DriverStep \/ Expires
    \/ \E e \in {"opens", "loses", "acks", "ratifies"} : TransportEvent(e)
    \/ \E c \in Asker : CallStep(c)

DriverSpec == DriverInit /\ [][DriverNext]_driverVars

(* The loop goes on and takes commands first; the ticker has its turn when *)
(* there are none; a call that has begun goes on.                          *)
DriverFairness ==
    /\ WF_driverVars(DriverStep)
    /\ WF_driverVars(Expires)
    /\ \A c \in Asker : WF_driverVars(asks[c].at # "idle" /\ CallStep(c))

-----------------------------------------------------------------------------
Command == [op : Operation \cup {"post", "drop", "opens", "loses", "acks", "ratifies", "none"},
            by : Asker \cup {0}]
Answer == {"none", "ok", "err", "unknown", "borrowed", "closed", "pending", "dropped",
           "governed", "free"}
Call == [op : Operation, at : {"idle", "found", "sent", "tail", "settles", "done"},
         res : Answer, saw : Nat]

(* Types, and what the tables hold: parked replies are those of connects,  *)
(* the outbox holds reliable sends whose callers wait, and a queued command*)
(* is that of a call that waits or has given up.                           *)
DriverTypeOK ==
    /\ asks \in [Asker -> Call]
    /\ listed \in BOOLEAN
    /\ queue \in Seq(Command)
    /\ driver \in [at : {"select", "handle", "parks", "closing", "resolving", "failing",
                         "returning", "ended"},
                   cmd : Command, late : SUBSET Asker]
    /\ waiters \subseteq Asker /\ unacked \subseteq Asker
    /\ link \in {"none", "down", "active"}
    /\ shape \in [governed : Nat, is : Nat, crossed : BOOLEAN]
    /\ happened \in 0..MaxHappens
    /\ \A c \in waiters : asks[c].op = "connect"
    /\ \A c \in unacked : asks[c].op = "reliable" /\ asks[c].at = "sent"
    /\ \A m \in Posted(queue) : m.by # 0 =>
         asks[m.by].op = m.op /\ asks[m.by].at \in {"sent", "done"}

(* Nothing outlives the engine: when the driver has ended, no call waits   *)
(* for a reply, wherever it was (in the queue, parked, in the outbox).     *)
NothingOutlives ==
    driver.at = "ended" =>
        /\ \A c \in Asker : asks[c].at = "sent" => asks[c].op = "leave"
        /\ waiters = {} /\ unacked = {}

(* No reply is lost: whoever waits for one has a command in the queue or in*)
(* the driver's hand, is parked for a link, or is in the outbox; a leave   *)
(* waits for the end of the driver.                                        *)
EveryWaitHeld ==
    \A c \in Asker : asks[c].at = "sent" =>
        \/ \E m \in Posted(queue) : m.by = c
        \/ driver.cmd.by = c
        \/ c \in waiters \cup unacked
        \/ asks[c].op = "leave" /\ driver.at = "ended"

(* A wait is not left parked on an ACTIVE link, by whichever task the link *)
(* came up, unless it came up between the look and the parking.            *)
WaitersServed ==
    (link = "active" /\ ~\E c \in Asker : asks[c].at = "settles")
      => \A w \in waiters \ driver.late : asks[w].at # "sent"

(* The shape in force is that of the latest ratified TopologyChange, if    *)
(* any, whatever local request was checked before it and is handled after  *)
(* it; only a hot change of the configuration that crosses the ratification*)
(* undoes it.                                                              *)
GovernedShapeHolds == ~shape.crossed => shape.is = shape.governed

(* Every call returns, however the network, the link and the other calls   *)
(* fare: replied to, expired, timed out, or told that the engine is gone.  *)
EveryCallReturns ==
    \A c \in Asker : []<>(asks[c].at \notin {"found", "sent", "tail", "settles"})

(* Nobody who waits for the driver is forgotten: each wait is held         *)
(* somewhere until it is answered, none is left on a link that is up, and  *)
(* none outlives the driver.                                               *)
NoCallForgotten == DriverTypeOK /\ EveryWaitHeld /\ WaitersServed /\ NothingOutlives
=============================================================================
