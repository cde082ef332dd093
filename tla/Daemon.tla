------------------------------- MODULE Daemon -------------------------------
(***************************************************************************)
(* The daemon's networks and hosted services: what the control requests    *)
(* network_add, network_remove, network_update, services_set,              *)
(* forget_all_networks and factory_reset do to the registry, the mesh's    *)
(* list of engines, the relay forwarders, the STUN and TURN listeners and  *)
(* config.json, with a crash or a restart between any two steps.           *)
(*                                                                         *)
(* Requests run on several threads.  Nothing serialises them but the short *)
(* registry lock and the mutex of the ServiceManager, and config.json is   *)
(* loaded, changed and saved without a lock.                               *)
(***************************************************************************)
EXTENDS Integers, Sequences, FiniteSets, SequencesExt

CONSTANTS Conn,          \* request handlers
          Request,       \* what they may be asked
          MaxRequests,   \* bounds the requests of a behaviour
          Ids, Nets,     \* config ids and network ids
          Offered,       \* the configs on disk at first
          Hosting,       \* the services config at first
          MaxHitches     \* bounds crashes, failed joins, saves and binds

VARIABLES cfgfile,       \* config.json: [nets, svc]
          files,         \* the networks with a roster or governance file
          mem,           \* what the process holds
          req,           \* each handler's place
          past           \* history: asked, hitches, odd, purged

dmnVars == <<cfgfile, files, mem, req, past>>

(* A config is [id, net, sig, hot]: the record id, the network id, the     *)
(* signaling setting and everything that apply_hot can change.             *)
Key == Ids \cup Nets
NoConfig == [id |-> "", net |-> "", sig |-> 0, hot |-> 0]
NoRequest == [op |-> "none", c |-> NoConfig, key |-> "", purge |-> FALSE, svc |-> Hosting]

IdleReq == [pc |-> "idle", r |-> NoRequest, key |-> "", hold |-> 0, own |-> 0, awaits |-> 0,
            old |-> NoConfig, buf |-> [nets |-> <<>>, svc |-> Hosting], todo |-> {}]

(* reg: both aliases of a network to its engine; mesh: the mesh's own list *)
(* of engines; relays: by config id, the engine a forwarder is bound to.   *)
NoMem == [up |-> FALSE, exits |-> FALSE, reg |-> [k \in Key |-> 0], eng |-> <<>>, mesh |-> <<>>,
          relays |-> [k \in Key |-> 0], svc |-> Hosting, lock |-> "free",
          stun |-> FALSE, turn |-> FALSE]

DmnInit ==
    /\ cfgfile = [nets |-> Offered, svc |-> Hosting]
    /\ files = {}
    /\ mem = NoMem
    /\ req = [t \in Conn |-> IdleReq]
    /\ past = [asked |-> 0, hitches |-> 0, odd |-> {}, purged |-> {}]

(*------------------------------ Registry ---------------------------------*)
Live(m) == {m.reg[k] : k \in Key} \ {0}
CfgOf(m, n) == m.eng[n].cfg

(* MeshHandle::join: a running engine, at the end of the mesh's list.      *)
MeshJoin(m, c) ==
    [m EXCEPT !.eng = Append(@, [cfg |-> c, st |-> "run"]), !.mesh = Append(@, Len(m.eng) + 1)]

(* The config id is overwritten, the network id only if it is free.        *)
insert(m, n) ==
    [m EXCEPT !.reg = [k \in Key |-> IF k = CfgOf(m, n).id \/ (k = CfgOf(m, n).net /\ @[k] = 0)
                                     THEN n ELSE @[k]]]

Joined(m, c) == LET j == MeshJoin(m, c) IN insert(j, Len(j.eng))
contains(m, k) == m.reg[k] # 0
remove(m, n) == [m EXCEPT !.reg = [k \in Key |-> IF @[k] = n THEN 0 ELSE @[k]]]
Borrowed(t, n) == \E u \in Conn \ {t} : req[u].hold = n

(* join_network for each configured network, in order.                     *)
join_configured(m, nets) ==
    FoldLeft(LAMBDA acc, c : IF contains(acc, c.id) \/ contains(acc, c.net) THEN acc ELSE Joined(acc, c),
             m, nets)

(*------------------------------ Services ---------------------------------*)
on_network_added(m, k) ==
    IF m.svc.relay /\ m.relays[k] = 0 /\ contains(m, k) THEN [m EXCEPT !.relays[k] = m.reg[k]] ELSE m

on_network_removed(m, k) == [m EXCEPT !.relays[k] = 0]

RelaySet(m, svc) ==
    [k \in Key |-> IF svc.relay /\ contains(m, k) /\ CfgOf(m, m.reg[k]).id = k THEN m.reg[k] ELSE 0]

(* The STUN block, the TURN block and the relays of ServiceManager::apply. *)
(* A listener that is not wanted is stopped first, and TURN is stopped     *)
(* after STUN was started: a standalone STUN does not get TURN's port.     *)
Standalone(svc) == svc.stun /\ ~svc.turn

Servers(m, svc, refused) ==
    LET again == m.stun # Standalone(svc) \/ m.svc.stun # svc.stun \/ m.svc.turn # svc.turn
        stun == IF again THEN Standalone(svc) /\ ~m.turn /\ "stun" \notin refused ELSE m.stun
        turn == IF m.turn # svc.turn \/ m.svc.turn # svc.turn
                THEN svc.turn /\ "turn" \notin refused ELSE m.turn
    IN [m EXCEPT !.stun = stun, !.turn = turn, !.relays = RelaySet(m, svc), !.svc = svc]

(*------------------------------ Book-keeping -----------------------------*)
In(t, pc) == req[t].pc = pc
Asked(t) == req[t].pc # "idle"
Op(t) == req[t].r.op
Goes(t, pc) == req' = [req EXCEPT ![t].pc = pc]
Answers(t) == req' = [req EXCEPT ![t] = IdleReq]

Hitch == past.hitches < MaxHitches
Odd(what) == past' = [past EXCEPT !.odd = @ \cup what]
OddHitch(what) == Hitch /\ past' = [past EXCEPT !.odd = @ \cup what, !.hitches = @ + 1]

(* The end of one removal: a bulk request goes on to its next network.     *)
Removed(t) == IF Op(t) \in {"forget", "reset"} THEN Goes(t, "next") ELSE Answers(t)

(* What a request is about; node membership and resets are about all.      *)
Touches(r) ==
    CASE r.op \in {"add", "update"} -> {r.c.id, r.c.net}
      [] r.op = "remove" -> {r.key} \cup UNION {{c.id, c.net} : c \in {d \in ToSet(cfgfile.nets) :
                                                   r.key \in {d.id, d.net}}}
      [] r.op = "services" -> {"services"} \cup IF r.svc.node # mem.svc.node THEN Key ELSE {}
      [] r.op \in {"forget", "reset"} -> {"services"} \cup Key
      [] OTHER -> {}

(*------------------------------ Requests ---------------------------------*)
FirstStep(op) ==
    CASE op = "add" -> "check"
      [] op \in {"remove", "update", "use"} -> "find"
      [] op = "services" -> "load"
      [] op \in {"forget", "reset"} -> "list"

Ask(t) ==
    /\ In(t, "idle") /\ mem.up /\ past.asked < MaxRequests
    /\ \E r \in Request :
         LET crossed == \E u \in Conn : Asked(u) /\ Touches(r) \cap Touches(req[u].r) # {} IN
         /\ req' = [req EXCEPT ![t] = [IdleReq EXCEPT !.pc = FirstStep(r.op), !.r = r, !.key = r.key]]
         /\ past' = [past EXCEPT !.asked = @ + 1, !.odd = IF crossed THEN @ \cup {"crossed"} ELSE @]
    /\ UNCHANGED <<cfgfile, files, mem>>

(* network_add: both aliases are free.                                     *)
Check(t) ==
    LET c == req[t].r.c IN
    /\ In(t, "check")
    /\ IF contains(mem, c.id) \/ contains(mem, c.net) THEN Answers(t) ELSE Goes(t, "join")
    /\ UNCHANGED <<cfgfile, files, mem, past>>

(* network_add and the rejoin of network_update.                           *)
Join(t) ==
    /\ In(t, "join") \/ In(t, "rejoin")
    /\ mem' = Joined(mem, req[t].r.c)
    /\ past' = [past EXCEPT !.purged = @ \ {req[t].r.c.net}]
    /\ Goes(t, IF In(t, "join") THEN "hook" ELSE "rehook")
    /\ UNCHANGED <<cfgfile, files>>

JoinFails(t) == In(t, "join") /\ OddHitch({}) /\ Answers(t) /\ UNCHANGED <<cfgfile, files, mem>>

(* The old config is joined again, or that fails as well.                  *)
Rollback(t) ==
    /\ In(t, "rejoin")
    /\ \/ /\ mem' = Joined(mem, req[t].old) /\ Goes(t, "hookback")
          /\ OddHitch({"rollback"})
       \/ Answers(t) /\ UNCHANGED mem /\ OddHitch({"failed"})
    /\ UNCHANGED <<cfgfile, files>>

Hook(t) ==
    LET id == req[t].r.c.id IN
    /\ mem.lock = "free"
    /\ \/ In(t, "hook") /\ mem' = on_network_added(mem, id) /\ Goes(t, "load")
       \/ In(t, "rehook") /\ mem' = on_network_added(on_network_removed(mem, id), id) /\ Goes(t, "load")
       \/ In(t, "hookback") /\ mem' = on_network_added(mem, id) /\ Answers(t)
    /\ UNCHANGED <<cfgfile, files, past>>

(*------------------------------ Removal ----------------------------------*)
(* network_remove holds the network while its departure is announced.      *)
FindRemove(t) ==
    /\ In(t, "find") /\ Op(t) \in {"remove", "forget", "reset"}
    /\ req' = [req EXCEPT ![t].pc = "announced", ![t].hold = mem.reg[req[t].key]]
    /\ UNCHANGED <<cfgfile, files, mem, past>>

(* A request that holds a network across an await: a dial that is waited   *)
(* for, a call.                                                            *)
FindUse(t) ==
    /\ In(t, "find") /\ Op(t) = "use"
    /\ IF contains(mem, req[t].key)
       THEN req' = [req EXCEPT ![t].pc = "using", ![t].hold = mem.reg[req[t].key]]
       ELSE Answers(t)
    /\ UNCHANGED <<cfgfile, files, mem, past>>

Used(t) == In(t, "using") /\ Answers(t) /\ UNCHANGED <<cfgfile, files, mem, past>>

requires_restart(current, next) == current.net # next.net \/ current.sig # next.sig
apply_hot(m, n, c) == [m EXCEPT !.eng[n].cfg.hot = c.hot]

FindUpdate(t) ==
    LET c == req[t].r.c
        n == IF contains(mem, c.id) THEN mem.reg[c.id] ELSE mem.reg[c.net]
        taken == \E e \in Live(mem) : (e = n) # (c.id = CfgOf(mem, e).id) \/ (e # n /\ c.net = CfgOf(mem, e).net)
    IN
    /\ In(t, "find") /\ Op(t) = "update"
    /\ IF n = 0 THEN Answers(t) /\ UNCHANGED <<mem, past>>
       ELSE /\ Odd(IF taken THEN {"clash"} ELSE {})
            /\ IF requires_restart(CfgOf(mem, n), c)
               THEN /\ req' = [req EXCEPT ![t].pc = "announced", ![t].hold = n, ![t].key = c.id,
                                          ![t].old = CfgOf(mem, n)]
                    /\ UNCHANGED mem
               ELSE mem' = apply_hot(mem, n, c) /\ Goes(t, "load")
    /\ UNCHANGED <<cfgfile, files>>

(* registry.remove: gone from the map at once; only an engine nobody else  *)
(* holds comes back to be left.                                            *)
Remove_(t) ==
    LET n == mem.reg[req[t].key]
        updates == Op(t) = "update"
    IN
    /\ In(t, "announced")
    /\ IF n = 0
       THEN /\ IF updates THEN req' = [req EXCEPT ![t].pc = "rejoin", ![t].hold = 0]
               ELSE IF Op(t) = "remove" THEN Answers(t) ELSE req' = [req EXCEPT ![t].pc = "next", ![t].hold = 0]
            /\ UNCHANGED <<mem, past>>
       ELSE /\ mem' = remove(mem, n)
            /\ IF Borrowed(t, n)
               THEN /\ req' = [req EXCEPT ![t].pc = IF updates THEN "rejoin" ELSE "unhook",
                                          ![t].hold = 0, ![t].own = 0]
                    /\ Odd({"borrowed"})
               ELSE /\ req' = [req EXCEPT ![t].pc = IF updates THEN "leave" ELSE "unhook",
                                          ![t].hold = 0, ![t].own = n]
                    /\ UNCHANGED past
    /\ UNCHANGED <<cfgfile, files>>

(* The config id of the network, or the caller's key if it is still held.  *)
Unhook(t) ==
    LET own == req[t].own IN
    /\ In(t, "unhook") /\ mem.lock = "free"
    /\ mem' = on_network_removed(mem, IF own = 0 THEN req[t].key ELSE CfgOf(mem, own).id)
    /\ Goes(t, IF own = 0 THEN "load" ELSE "leave")
    /\ UNCHANGED <<cfgfile, files, past>>

Told(m, n) == [m EXCEPT !.eng[n].st = IF @ = "run" THEN "told" ELSE @]

(* JoinedNetwork::leave: the engine is told to stop; then the first entry  *)
(* of the mesh's list with its config id is taken out and waited for.      *)
Leave(t) ==
    LET n == req[t].own
        i == SelectInSeq(mem.mesh, LAMBDA e : CfgOf(mem, e).id = CfgOf(mem, n).id)
    IN
    /\ In(t, "leave")
    /\ mem' = [Told(mem, n) EXCEPT !.mesh = IF i = 0 THEN @ ELSE RemoveAt(@, i)]
    /\ req' = [req EXCEPT ![t].pc = "await", ![t].awaits = IF i = 0 THEN 0 ELSE mem.mesh[i]]
    /\ UNCHANGED <<cfgfile, files, past>>

AwaitNothing(t) == TRUE
AwaitDriver(t) == req[t].awaits = 0 \/ mem.eng[req[t].awaits].st = "dead"

Left(t) ==
    /\ In(t, "await") /\ AwaitDriver(t)
    /\ Goes(t, CASE Op(t) = "update" -> "rejoin" [] Op(t) = "services" -> "leaving" [] OTHER -> "load")
    /\ UNCHANGED <<cfgfile, files, mem, past>>

(* run_driver leaves its loop on Shutdown.                                 *)
Stops(n) ==
    /\ n \in 1..Len(mem.eng) /\ mem.eng[n].st = "told"
    /\ mem' = [mem EXCEPT !.eng[n].st = "dead"]
    /\ UNCHANGED <<cfgfile, files, req, past>>

(* A running engine saves its roster or its governance state.              *)
Writes(n) ==
    /\ n \in 1..Len(mem.eng) /\ mem.eng[n].st # "dead" /\ CfgOf(mem, n).net \notin files
    /\ files' = files \cup {CfgOf(mem, n).net}
    /\ UNCHANGED <<cfgfile, mem, req, past>>

(*------------------------------ config.json ------------------------------*)
Load(t) ==
    /\ In(t, "load")
    /\ req' = [req EXCEPT ![t].pc = "save", ![t].buf = cfgfile]
    /\ UNCHANGED <<cfgfile, files, mem, past>>

SameNet(a, b) == a.id = b.id \/ a.net = b.net

persist_network_add(nets, c) ==
    IF \E d \in ToSet(nets) : SameNet(d, c) THEN nets ELSE Append(nets, c)

persist_network_remove(nets, id, net) == SelectSeq(nets, LAMBDA d : d.id # id /\ d.net # net)

persist_network_update(nets, c) ==
    LET i == SelectInSeq(nets, LAMBDA d : SameNet(d, c)) IN
    IF i = 0 THEN Append(nets, c) ELSE [nets EXCEPT ![i] = c]

(* The ids a removal is saved and purged by: those of the network it left, *)
(* or the caller's key for both if the engine was still held.              *)
GoneId(t) == IF req[t].own = 0 THEN req[t].key ELSE CfgOf(mem, req[t].own).id
GoneNet(t) == IF req[t].own = 0 THEN req[t].key ELSE CfgOf(mem, req[t].own).net

Edited(t) ==
    LET r == req[t].r buf == req[t].buf IN
    CASE r.op = "add" -> [buf EXCEPT !.nets = persist_network_add(@, r.c)]
      [] r.op = "update" -> [buf EXCEPT !.nets = persist_network_update(@, r.c)]
      [] r.op = "services" -> [buf EXCEPT !.svc = r.svc]
      [] OTHER -> [buf EXCEPT !.nets = persist_network_remove(@, GoneId(t), GoneNet(t))]

(* write_atomic: the whole file at once.  What another request saved since *)
(* the load is lost; a removal that changes nothing does not save.         *)
Save(t) ==
    LET saves == Op(t) \in {"add", "update", "services"} \/ Edited(t) # req[t].buf IN
    /\ In(t, "save")
    /\ cfgfile' = IF saves THEN Edited(t) ELSE cfgfile
    /\ Odd(IF saves /\ cfgfile # req[t].buf THEN {"lost"} ELSE {})
    /\ CASE Op(t) \in {"add", "update"} -> Answers(t)
         [] Op(t) = "services" -> Goes(t, "apply")
         [] OTHER -> IF req[t].r.purge THEN Goes(t, "purge") ELSE Removed(t)
    /\ UNCHANGED <<files, mem>>

SaveFails(t) ==
    /\ In(t, "save") /\ OddHitch({"failed"}) /\ Removed(t)
    /\ UNCHANGED <<cfgfile, files, mem>>

purge_network_state(t) ==
    /\ In(t, "purge")
    /\ files' = files \ {GoneNet(t)}
    /\ past' = [past EXCEPT !.purged = @ \cup {GoneNet(t)}]
    /\ Removed(t)
    /\ UNCHANGED <<cfgfile, mem>>

(*------------------------------ services_set -----------------------------*)
(* Node membership first, under the manager's lock.                        *)
Apply(t) ==
    LET want == req[t].r.svc IN
    /\ In(t, "apply") /\ mem.lock = "free"
    /\ CASE mem.svc.node /\ ~want.node ->
              mem' = [mem EXCEPT !.lock = t, !.relays = [k \in Key |-> 0]] /\ Goes(t, "quit")
         [] ~mem.svc.node /\ want.node ->
              mem' = [join_configured(mem, cfgfile.nets) EXCEPT !.lock = t] /\ Goes(t, "servers")
         [] OTHER -> mem' = [mem EXCEPT !.lock = t] /\ Goes(t, "servers")
    /\ UNCHANGED <<cfgfile, files, past>>

(* take_all, after the departures were announced: engines that a request   *)
(* holds are dropped, not left.                                            *)
take_all(t) ==
    LET held == {n \in Live(mem) : Borrowed(t, n)} IN
    /\ In(t, "quit")
    /\ mem' = [mem EXCEPT !.reg = [k \in Key |-> 0]]
    /\ req' = [req EXCEPT ![t].pc = "leaving", ![t].todo = Live(mem) \ held]
    /\ Odd(IF held # {} THEN {"borrowed"} ELSE {})
    /\ UNCHANGED <<cfgfile, files>>

LeaveNext(t) ==
    /\ In(t, "leaving")
    /\ IF req[t].todo = {} THEN Goes(t, "servers")
       ELSE LET n == CHOOSE n \in req[t].todo : TRUE IN
            req' = [req EXCEPT ![t].pc = "leave", ![t].own = n, ![t].todo = @ \ {n}]
    /\ UNCHANGED <<cfgfile, files, mem, past>>

ApplyServers(t) ==
    LET svc == req[t].r.svc IN
    /\ In(t, "servers")
    /\ \E refused \in {{}, {"stun"}, {"turn"}} :
         /\ mem' = [Servers(mem, svc, refused) EXCEPT !.lock = "free"]
         /\ IF refused = {} THEN Odd(IF Standalone(svc) /\ mem.turn THEN {"swapped"} ELSE {})
                            ELSE OddHitch({"failed"})
    /\ Answers(t)
    /\ UNCHANGED <<cfgfile, files>>

(*------------------------------ Resets -----------------------------------*)
ListNetworks(t) ==
    /\ In(t, "list")
    /\ req' = [req EXCEPT ![t].pc = "next", ![t].todo = Live(mem)]
    /\ UNCHANGED <<cfgfile, files, mem, past>>

(* network_remove with purge, by config id, for each listed network; then  *)
(* factory_reset deletes the state directory; then the exit is scheduled.  *)
NextNetwork(t) ==
    /\ In(t, "next")
    /\ IF req[t].todo # {}
       THEN LET n == CHOOSE n \in req[t].todo : TRUE IN
            /\ req' = [req EXCEPT ![t].pc = "find", ![t].key = CfgOf(mem, n).id, ![t].own = 0,
                                  ![t].todo = @ \ {n}]
            /\ UNCHANGED <<cfgfile, files, mem, past>>
       ELSE /\ mem' = [mem EXCEPT !.exits = TRUE]
            /\ Answers(t)
            /\ IF Op(t) = "reset"
               THEN /\ cfgfile' = [nets |-> <<>>, svc |-> Hosting] /\ files' = {}
                    /\ past' = [past EXCEPT !.purged = Nets]
               ELSE UNCHANGED <<cfgfile, files, past>>

(*------------------------------ The process ------------------------------*)
Boot ==
    /\ ~mem.up
    /\ LET m == [NoMem EXCEPT !.up = TRUE]
           j == IF cfgfile.svc.node THEN join_configured(m, cfgfile.nets) ELSE m
       IN mem' = Servers(j, cfgfile.svc, {})
    /\ past' = [past EXCEPT !.purged = @ \ {c.net : c \in ToSet(cfgfile.nets)}]
    /\ UNCHANGED <<cfgfile, files, req>>

Dies == mem' = NoMem /\ req' = [t \in Conn |-> IdleReq] /\ UNCHANGED <<cfgfile, files>>

DmnCrash == mem.up /\ ~mem.exits /\ Dies /\ OddHitch({})
shutdown == mem.up /\ (\A t \in Conn : ~Asked(t)) /\ Dies /\ UNCHANGED past
Exit == mem.exits /\ Dies /\ UNCHANGED past

Steps(t) ==
    \/ Check(t) \/ Join(t) \/ JoinFails(t) \/ Rollback(t) \/ Hook(t)
    \/ FindRemove(t) \/ FindUse(t) \/ Used(t) \/ FindUpdate(t) \/ Remove_(t) \/ Unhook(t)
    \/ Leave(t) \/ Left(t) \/ Load(t) \/ Save(t) \/ SaveFails(t) \/ purge_network_state(t)
    \/ Apply(t) \/ take_all(t) \/ LeaveNext(t) \/ ApplyServers(t)
    \/ ListNetworks(t) \/ NextNetwork(t)

DmnNext ==
    \/ \E t \in Conn : Ask(t) \/ Steps(t)
    \/ \E n \in 1..Len(mem.eng) : Stops(n) \/ Writes(n)
    \/ Boot \/ DmnCrash \/ shutdown \/ Exit

(*------------------------------ Properties -------------------------------*)
Quiet == mem.up /\ ~mem.exits /\ \A t \in Conn : ~Asked(t)
Plain(allowed) == past.odd \subseteq allowed
Running == {n \in 1..Len(mem.eng) : mem.eng[n].st = "run"}

DmnTypeOK ==
    /\ ToSet(cfgfile.nets) \subseteq [id : Ids, net : Nets, sig : 0..1, hot : 0..1]
    /\ files \subseteq Nets /\ past.purged \subseteq Key
    /\ \A k \in Key : {mem.reg[k], mem.relays[k]} \subseteq 0..Len(mem.eng)
    /\ ToSet(mem.mesh) \subseteq 1..Len(mem.eng)
    /\ mem.lock \in {"free"} \cup Conn
    /\ mem.lock # "free" => req[mem.lock].pc \in {"quit", "leaving", "leave", "await", "servers"}
    /\ \A t \in Conn : Asked(t) => mem.up
    /\ past.asked <= MaxRequests /\ past.hitches <= MaxHitches
    /\ past.odd \subseteq {"crossed", "clash", "borrowed", "lost", "failed", "rollback", "swapped"}

(* When no request is being served, what runs is what a restart would      *)
(* bring back: the joined networks are those of config.json, with the      *)
(* settings that are in force, and so are the services.  Requests about    *)
(* different networks, crashes and rolled-back updates included; the       *)
(* exceptions are two requests about one network, an update that takes     *)
(* another's id, a network removed while it was in use, a save that falls  *)
(* between another's load and save, and a save or a rollback that failed.  *)
DiskFollowsLive ==
    Quiet /\ Plain({"rollback", "swapped"}) =>
        /\ mem.svc.node => {CfgOf(mem, n) : n \in Live(mem)} = ToSet(cfgfile.nets)
        /\ mem.svc = cfgfile.svc

(* Each running engine is in the registry under both its aliases and once  *)
(* in the mesh's list: none runs on where no request can reach it.         *)
NoStrayEngine ==
    Quiet /\ Plain({"rollback", "swapped", "lost", "failed"}) =>
        /\ Live(mem) = Running /\ ToSet(mem.mesh) = Running /\ Len(mem.mesh) = Cardinality(Running)
        /\ \A n \in Running : mem.reg[CfgOf(mem, n).id] = n /\ mem.reg[CfgOf(mem, n).net] = n

(* With relay hosting on, each joined network has a forwarder and it is    *)
(* bound to the engine that runs now, however a services_set and changes   *)
(* of networks are interleaved.  A rolled-back update is the exception.    *)
RelaysFollow ==
    Quiet /\ Plain({"swapped", "lost"}) => mem.relays = RelaySet(mem, mem.svc)

(* The listeners are the wanted ones; STUN is served by TURN when both are *)
(* on.  The exception is STUN taking over from TURN.                       *)
ListenersFollow ==
    Quiet /\ past.odd \cap {"failed", "swapped"} = {} =>
        mem.turn = mem.svc.turn /\ mem.stun = Standalone(mem.svc)

(* The files of a network that was removed with purge, and those a factory *)
(* reset wiped, do not come back until the network is joined again: its    *)
(* engine has ended before they are deleted.                               *)
PurgedStaysGone ==
    past.odd \cap {"borrowed", "crossed", "clash"} = {} => past.purged \cap files = {}

(* Every request is answered, an engine that was told to stop and the      *)
(* manager's lock included.  Requests are finitely many, so this is said   *)
(* of all of them at once.                                                 *)
RequestsEnd ==
    []<>(past.odd \cap {"borrowed", "crossed", "clash"} = {} => \A t \in Conn : ~Asked(t))

(* What runs is what config.json says: engines, relays and listeners       *)
(* follow it, and what was purged stays gone.                              *)
LiveFollowsConfig ==
    /\ DmnTypeOK /\ DiskFollowsLive /\ NoStrayEngine
    /\ RelaysFollow /\ ListenersFollow /\ PurgedStaysGone
=============================================================================
