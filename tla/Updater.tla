------------------------------ MODULE Updater ------------------------------
(***************************************************************************)
(* Self-update: a release is checked for, staged below updates/<version>,  *)
(* listed in pending.json, and swapped over the installed binaries by the  *)
(* next process that starts, by `update apply` or by `update`.             *)
(*                                                                         *)
(* Tasks share the files and nothing locks them: the daemon's ticker, its  *)
(* control socket, and a CLI process.  A process may die between any two   *)
(* steps.  Package-manager installs never get past the first line of a     *)
(* check and are left out.                                                 *)
(***************************************************************************)
EXTENDS Integers, FiniteSets, Sequences

CONSTANTS Site,         \* the installs and feeds looked at
          Prefs,        \* the auto_update settings a user switches between
          MaxTrouble    \* bounds failures, crashes and changes of settings

VARIABLES site,         \* [win, gui, tasks, feed]: the install, who runs, the releases
          feed,         \* how many releases are published
          conf,         \* [enabled, policy]
          disk,         \* bin, old, stamp, staged, marker, due
          run,          \* the version each process executes, or None: it is down
          task,         \* each task's place in check_now, update_now, apply_pending
          trouble,
          odd           \* history: "recut", "raced" and "lag", see the properties

updVars == <<site, feed, conf, disk, run, task, trouble, odd>>

Kind == {"daemon", "gui"}
Task == {"ticker", "control", "cli"}
ProcessOf(t) == IF t = "cli" THEN "cli" ELSE "daemon"

(* What a file may hold, and a process run, besides a version.             *)
None == <<>>
Cut == <<0>>
NoMarker == [v |-> None, kinds |-> {}]
TornMarker == [v |-> Cut, kinds |-> {}]

(* A version is <<major, minor, patch, suffix>>; suffix 0 is no suffix,    *)
(* n the n-th suffix in lexicographic order.                               *)
CoreGreater(a, b) ==
    \E i \in 1..3 : a[i] > b[i] /\ \A j \in 1..(i - 1) : a[j] = b[j]

Newer(a, b) ==
    \/ CoreGreater(a, b)
    \/ ~CoreGreater(b, a) /\ b[4] # 0 /\ (a[4] = 0 \/ a[4] > b[4])

policy_allows(policy, current, candidate) ==
    /\ Newer(candidate, current)
    /\ CASE policy = "patch" -> candidate[1] = current[1] /\ candidate[2] = current[2]
         [] policy = "minor" -> candidate[1] = current[1]
         [] policy = "all"   -> TRUE
         [] policy = "none"  -> FALSE

version_is_newer(target, installed) == installed # None => Newer(target, installed)

Latest == site.feed[feed]
Versions == {site.feed[i] : i \in 1..Len(site.feed)}
Installed(k) == disk.bin[k] # None
Target(k) == k = "daemon" \/ Installed(k)
Whole(file) == file \in Versions

gui_needs_update(latest) == Installed("gui") /\ version_is_newer(latest, disk.stamp)

artifact_needs_apply_Unguarded(t, k) == TRUE

artifact_needs_apply(t, k) ==
    IF k = "daemon" THEN Newer(task[t].v, run[ProcessOf(t)])
                    ELSE version_is_newer(task[t].v, disk.stamp)

Idle == [pc |-> "idle", job |-> "no", v |-> None, want |-> {}, got |-> {}, file |-> None]

NoFiles(feedline) == [v \in {feedline[i] : i \in 1..Len(feedline)} |-> [k \in Kind |-> None]]

UpdInit ==
    /\ site \in Site
    /\ feed = 1
    /\ conf \in Prefs
    /\ disk = [bin |-> [daemon |-> site.feed[1], gui |-> IF site.gui THEN site.feed[1] ELSE None],
               old |-> [k \in Kind |-> None], stamp |-> None,
               staged |-> NoFiles(site.feed), marker |-> NoMarker, due |-> TRUE]
    /\ run = [daemon |-> None, cli |-> None]
    /\ task = [t \in Task |-> Idle]
    /\ trouble = 0
    /\ odd = {}

(*------------------------------ Book-keeping -----------------------------*)
At(t, pc) == t \in site.tasks /\ task[t].pc = pc
Busy(t) == task[t].pc # "idle"
Free(t) == At(t, "idle") /\ run[ProcessOf(t)] # None
           /\ (t = "control" => task["ticker"].job # "start")

Raced(t) == IF \E u \in Task \ {t} : Busy(u) THEN {"raced"} ELSE {}
Lags(t, job) ==
    IF job \in {"apply", "update"} /\ run[ProcessOf(t)] # disk.bin["daemon"] THEN {"lag"} ELSE {}

(* The job is over; a CLI process ends with its command.                   *)
Finish(t) ==
    LET done == task[t].job # "start" /\ t = "cli" IN
    /\ task' = [task EXCEPT ![t] = Idle]
    /\ run' = IF done THEN [run EXCEPT !.cli = None] ELSE run

Goto(t, pc) == task' = [task EXCEPT ![t].pc = pc] /\ UNCHANGED run
Begin(t, job, pc) ==
    /\ task' = [task EXCEPT ![t] = [Idle EXCEPT !.job = job, !.pc = pc]]
    /\ odd' = odd \cup Raced(t) \cup Lags(t, job)

Trouble == trouble < MaxTrouble /\ trouble' = trouble + 1

Next1(t) == IF "daemon" \in task[t].want THEN "daemon" ELSE "gui"

(*------------------------------ Processes --------------------------------*)
(* main applies what is pending before anything else, by the old code.     *)
Start(t) ==
    /\ t \in site.tasks \ {"control"} /\ run[ProcessOf(t)] = None
    /\ Whole(disk.bin["daemon"])
    /\ run' = [run EXCEPT ![ProcessOf(t)] = disk.bin["daemon"]]
    /\ Begin(t, "start", "read")
    /\ UNCHANGED <<site, feed, conf, disk, trouble>>

Halt(p) ==
    /\ run[p] # None
    /\ run' = [run EXCEPT ![p] = None]
    /\ task' = [t \in Task |-> IF ProcessOf(t) = p THEN Idle ELSE task[t]]
    /\ UNCHANGED <<site, feed, conf, disk, odd>>

Stop(p) == (\A t \in Task : ProcessOf(t) = p => ~Busy(t)) /\ Halt(p) /\ UNCHANGED trouble
Crash(p) == (\E t \in Task : ProcessOf(t) = p /\ Busy(t)) /\ Halt(p) /\ Trouble

(*------------------------------ Check and stage --------------------------*)
check_now(t, force) ==
    /\ Free(t) /\ (t = "ticker" <=> ~force)
    /\ conf.enabled
    /\ force \/ disk.due
    /\ disk' = [disk EXCEPT !.due = FALSE]
    /\ Begin(t, "check", "fetch")
    /\ UNCHANGED <<site, feed, conf, run, trouble>>

update_now == Free("cli") /\ Begin("cli", "update", "fetch") /\ UNCHANGED <<site, feed, conf, disk, run, trouble>>

apply_now(t) ==
    /\ Free(t) /\ t # "ticker"
    /\ Begin(t, "apply", "read")
    /\ UNCHANGED <<site, feed, conf, disk, run, trouble>>

Wanted(t) ==
    LET current == run[ProcessOf(t)]
        behind == Newer(Latest, current)
        may == task[t].job = "update" \/ policy_allows(conf.policy, current, Latest)
    IN {k \in Kind : may /\ IF k = "daemon" THEN behind ELSE gui_needs_update(Latest)}

Fetched(t) ==
    /\ At(t, "fetch")
    /\ IF Wanted(t) = {}
       THEN Finish(t) /\ UNCHANGED disk
       ELSE /\ task' = [task EXCEPT ![t].pc = "get", ![t].v = Latest, ![t].want = Wanted(t)]
            /\ disk' = [disk EXCEPT !.due = FALSE]
            /\ UNCHANGED run
    /\ UNCHANGED <<site, feed, conf, trouble, odd>>

FetchFails(t) == At(t, "fetch") /\ Trouble /\ Finish(t) /\ UNCHANGED <<site, feed, conf, disk, odd>>

Listed(v, k) == disk.marker.v = v /\ k \in disk.marker.kinds

(* The archive is downloaded to a .part file, verified and renamed; then   *)
(* the extracted binary of an earlier staging is removed and tar writes it *)
(* anew, in place.                                                         *)
download_verify_stage(t) ==
    LET k == Next1(t) v == task[t].v IN
    /\ At(t, "get")
    /\ disk' = [disk EXCEPT !.staged[v][k] = Cut]
    /\ odd' = IF Listed(v, k) THEN odd \cup {"recut"} ELSE odd
    /\ Goto(t, "unpack")
    /\ UNCHANGED <<site, feed, conf, trouble>>

Unpacked(t) ==
    LET k == Next1(t) rest == task[t].want \ {k} IN
    /\ At(t, "unpack")
    /\ disk' = [disk EXCEPT !.staged[task[t].v][k] = task[t].v]
    /\ task' = [task EXCEPT ![t].want = rest, ![t].got = @ \cup {k},
                            ![t].pc = IF rest = {} THEN "mark" ELSE "get"]
    /\ UNCHANGED <<site, feed, conf, run, trouble, odd>>

(* No asset, a download or checksum that fails, no valid signature, a tar  *)
(* that fails: the daemon is required, the GUI is skipped.                 *)
StageFails(t) ==
    /\ At(t, "get") \/ At(t, "unpack")
    /\ Trouble
    /\ IF Next1(t) = "daemon" \/ task[t].got = {}
       THEN Finish(t)
       ELSE task' = [task EXCEPT ![t].want = {}, ![t].pc = "mark"] /\ UNCHANGED run
    /\ UNCHANGED <<site, feed, conf, disk, odd>>

(* write_pending_marker truncates pending.json, then fills it.             *)
MarkBegins(t) ==
    /\ At(t, "mark") /\ disk' = [disk EXCEPT !.marker = TornMarker]
    /\ Goto(t, "marking") /\ UNCHANGED <<site, feed, conf, trouble, odd>>

write_pending_marker(t) ==
    /\ At(t, "marking")
    /\ disk' = [disk EXCEPT !.marker = [v |-> task[t].v, kinds |-> task[t].got]]
    /\ IF task[t].job = "update" THEN Goto(t, "read") ELSE Finish(t)
    /\ UNCHANGED <<site, feed, conf, trouble, odd>>

(*------------------------------ Apply ------------------------------------*)
(* The .old copy of a binary that was side-renamed goes first; a GUI that  *)
(* is not found keeps its copy.                                            *)
cleanup_old_replaced_binary ==
    [disk.old EXCEPT !["daemon"] = None,
                     !["gui"] = IF Installed("gui") THEN None ELSE @]

ReadMarker(t) ==
    /\ At(t, "read")
    /\ IF disk.marker.kinds = {}
       THEN Finish(t)
       ELSE /\ task' = [task EXCEPT ![t].pc = "apply", ![t].v = disk.marker.v,
                                    ![t].want = disk.marker.kinds, ![t].got = {}]
            /\ UNCHANGED run
    /\ disk' = [disk EXCEPT !.old = cleanup_old_replaced_binary]
    /\ UNCHANGED <<site, feed, conf, trouble, odd>>

Done(t, k) == task' = [task EXCEPT ![t].want = @ \ {k}, ![t].file = None, ![t].pc = "apply"]
Staged(t) == disk.staged[task[t].v][Next1(t)]
HasWork(t) == At(t, "apply") /\ task[t].want # {}

ApplySkips(t) ==
    LET k == Next1(t) IN
    /\ HasWork(t)
    /\ ~artifact_needs_apply(t, k) \/ (Staged(t) # None /\ ~Target(k))
    /\ Done(t, k) /\ UNCHANGED <<site, feed, conf, disk, run, trouble, odd>>

(* atomic_replace: the copy beside the target, here held by the task.      *)
Copy(t) ==
    /\ HasWork(t)
    /\ artifact_needs_apply(t, Next1(t)) /\ Staged(t) # None /\ Target(Next1(t))
    /\ task' = [task EXCEPT ![t].pc = "swap", ![t].file = Staged(t)]
    /\ UNCHANGED <<site, feed, conf, disk, run, trouble, odd>>

(* A daemon that cannot be swapped keeps the marker; a GUI is skipped.     *)
GiveUp(t) == IF Next1(t) = "daemon" THEN Finish(t) ELSE Done(t, "gui") /\ UNCHANGED run

ApplyFails(t) ==
    /\ HasWork(t) \/ At(t, "swap")
    /\ IF HasWork(t) /\ Staged(t) = None /\ artifact_needs_apply(t, Next1(t))
       THEN UNCHANGED trouble ELSE At(t, "swap") /\ Trouble
    /\ GiveUp(t)
    /\ UNCHANGED <<site, feed, conf, disk, odd>>

Swapped(t, k) ==
    IF k = "gui" THEN Goto(t, "stamp") ELSE Done(t, k) /\ UNCHANGED run

InPlace(k, file) == [disk EXCEPT !.bin[k] = file]

(* The rename into place; on Windows it fails on an executable that runs.  *)
Swap(t) ==
    LET k == Next1(t) IN
    /\ At(t, "swap") /\ ~(site.win /\ k = "daemon" /\ Installed(k))
    /\ disk' = InPlace(k, task[t].file)
    /\ Swapped(t, k)
    /\ UNCHANGED <<site, feed, conf, trouble, odd>>

SetAside(k) == [disk EXCEPT !.old[k] = disk.bin[k], !.bin[k] = None]

Aside(t) ==
    LET k == Next1(t) IN
    /\ At(t, "swap") /\ site.win /\ Installed(k)
    /\ disk' = SetAside(k)
    /\ Goto(t, "aside")
    /\ UNCHANGED <<site, feed, conf, trouble, odd>>

SwapIn(t) ==
    /\ At(t, "aside")
    /\ disk' = InPlace(Next1(t), task[t].file)
    /\ Swapped(t, Next1(t))
    /\ UNCHANGED <<site, feed, conf, trouble, odd>>

SwapBack(t) ==
    LET k == Next1(t) IN
    /\ At(t, "aside") /\ Trouble
    /\ disk' \in {disk, [disk EXCEPT !.bin[k] = disk.old[k], !.old[k] = None]}
    /\ GiveUp(t)
    /\ UNCHANGED <<site, feed, conf, odd>>

record_gui_version(t) ==
    /\ At(t, "stamp")
    /\ disk' = [disk EXCEPT !.stamp = task[t].v]
    /\ Done(t, "gui") /\ UNCHANGED <<site, feed, conf, run, trouble, odd>>

ClearMarker(t) ==
    /\ At(t, "apply") /\ task[t].want = {}
    /\ disk' = [disk EXCEPT !.marker = NoMarker]
    /\ Finish(t)
    /\ UNCHANGED <<site, feed, conf, trouble, odd>>

(*------------------------------ Surroundings -----------------------------*)
Publish == feed < Len(site.feed) /\ feed' = feed + 1 /\ UNCHANGED <<site, conf, disk, run, task, trouble, odd>>

(* The newest release is withdrawn from the feed.                          *)
Withdraw == feed > 1 /\ Trouble /\ feed' = feed - 1 /\ UNCHANGED <<site, conf, disk, run, task, odd>>

IntervalElapses ==
    /\ ~disk.due /\ disk' = [disk EXCEPT !.due = TRUE]
    /\ UNCHANGED <<site, feed, conf, run, task, trouble, odd>>

set_prefs ==
    /\ Trouble /\ conf' \in Prefs \ {conf}
    /\ UNCHANGED <<site, feed, disk, run, task, odd>>

TaskStep(t) ==
    \/ Fetched(t) \/ FetchFails(t) \/ download_verify_stage(t) \/ Unpacked(t) \/ StageFails(t)
    \/ MarkBegins(t) \/ write_pending_marker(t)
    \/ ReadMarker(t) \/ ApplySkips(t) \/ Copy(t) \/ ApplyFails(t) \/ Swap(t)
    \/ Aside(t) \/ SwapIn(t) \/ SwapBack(t) \/ record_gui_version(t) \/ ClearMarker(t)

UpdNext ==
    \/ \E t \in Task : Start(t) \/ TaskStep(t) \/ apply_now(t)
                       \/ \E force \in BOOLEAN : check_now(t, force)
    \/ \E p \in {"daemon", "cli"} : Stop(p) \/ Crash(p)
    \/ update_now \/ Publish \/ Withdraw \/ IntervalElapses \/ set_prefs
(*------------------------------ Properties -------------------------------*)
File == {None, Cut} \cup Versions
UpdTypeOK ==
    /\ site \in Site /\ conf \in Prefs /\ feed \in 1..Len(site.feed)
    /\ disk.bin \in [Kind -> File] /\ disk.old \in [Kind -> File]
    /\ disk.stamp \in {None} \cup Versions
    /\ disk.staged \in [Versions -> [Kind -> File]] /\ disk.due \in BOOLEAN
    /\ disk.marker \in {NoMarker, TornMarker} \cup [v : Versions, kinds : SUBSET Kind \ {{}}]
    /\ run \in [{"daemon", "cli"} -> {None} \cup Versions]
    /\ \A t \in Task : task[t].want \subseteq Kind /\ (Busy(t) => run[ProcessOf(t)] # None)
    /\ trouble \in 0..MaxTrouble /\ odd \subseteq {"recut", "raced", "lag"}

(* What the user has installed, the side-renamed copy included.            *)
Now(k) == IF Installed(k) THEN disk.bin[k] ELSE disk.old[k]

(* An installed binary is one a release published, never a half-written    *)
(* one, whatever dies.  The exceptions: two jobs at once, and an artifact  *)
(* that is extracted again over the one pending.json lists, which          *)
(* apply_one does not verify a second time.                                *)
WholeInstalled == \A k \in Kind : Now(k) = Cut => odd # {}

(* A crash or a failed rename never leaves the host without a copy of a    *)
(* binary it had: it is in place, or beside it as .old where the Windows   *)
(* swap was cut short.  The exceptions: two jobs at once, and `apply` by a *)
(* process whose own binary is gone, which begins by deleting the .old.    *)
Intact == odd \subseteq {"recut"} =>
             \A k \in Kind : Now(k) = None => k = "gui" /\ ~site.gui

(* gui.version never runs ahead of the GUI it describes, so a GUI that was *)
(* not swapped is still seen as behind.                                    *)
StampHonest ==
    "raced" \notin odd /\ disk.stamp # None /\ Whole(Now("gui")) => ~Newer(disk.stamp, Now("gui"))

(* No sequence of checks, updates, restarts and withdrawn releases puts an *)
(* older binary over a newer one.  The exceptions: two jobs at once, and   *)
(* `apply` or `update` by a process whose own binary was replaced since it *)
(* started, because artifact_needs_apply asks what runs, not what is       *)
(* installed.                                                              *)
NoRollback ==
    [][\A k \in Kind : Whole(Now(k)) /\ Whole(Now(k)') /\ odd' \subseteq {"recut"}
          => ~Newer(Now(k), Now(k)')]_updVars

(* pending.json goes only once the daemon it lists is in place.            *)
NoUpdateLost ==
    [][disk.marker.kinds # {} /\ disk'.marker = NoMarker /\ "raced" \notin odd
         => ("daemon" \in disk.marker.kinds /\ Whole(Now("daemon"))
               => ~Newer(disk.marker.v, Now("daemon")))]_updVars

(* A release that the policy lets the installed daemon take is installed,  *)
(* or is withdrawn, as long as the daemon is restarted again and again and *)
(* lives, again and again, long enough for a check (tick_forever).         *)
Owed ==
    /\ site.tasks = {"ticker"} /\ conf.enabled
    /\ Whole(disk.bin["daemon"]) /\ policy_allows(conf.policy, disk.bin["daemon"], Latest)
ReleaseLands ==
    []<><<Stop("daemon")>>_updVars /\ []<><<check_now("ticker", FALSE)>>_updVars => (Owed ~> ~Owed)

(* Updates are safe under crashes: what is installed is whole, present and *)
(* never older than it was, its stamp is honest, and an update stays       *)
(* pending until it is in place.                                           *)
UpdatesSafe ==
    [](UpdTypeOK /\ WholeInstalled /\ Intact /\ StampHonest) /\ NoRollback /\ NoUpdateLost
=============================================================================
