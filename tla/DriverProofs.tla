---------------------------- MODULE DriverProofs ----------------------------
(***************************************************************************)
(* Proofs about Driver, for any number of callers, whatever they call, and *)
(* any number of transport events.                                         *)
(***************************************************************************)
EXTENDS Driver, TLAPS

(* What a leaf is tried with, in this order, and for how many seconds.     *)
USE ZenonT(3), SMTT(25), ZenonT(40)

-----------------------------------------------------------------------------
(* The inductive invariant                                                 *)

(* A caller has one command at a time.                                     *)
OncePosted(q) == \A i, j \in DOMAIN q : q[i].by = q[j].by /\ q[i].by # 0 => i = j

(* A caller's reply is in one place: the queue, the driver's hand or the   *)
(* outbox, each of which knows the call it belongs to.                     *)
OnePlace ==
    /\ OncePosted(queue)
    /\ \A m \in Posted(queue) : m.op \in Operation => m.by # 0
    /\ \A m \in Posted(queue) : m.by # 0 => m.by # driver.cmd.by /\ m.by \notin unacked
    /\ driver.cmd.op \in Operation => driver.cmd.by # 0
    /\ driver.cmd.by # 0 => /\ asks[driver.cmd.by].op = driver.cmd.op
                            /\ asks[driver.cmd.by].at \in {"sent", "done"}
                            /\ driver.cmd.by \notin unacked
    /\ \A c \in waiters : asks[c].at \in {"sent", "done"}

(* Only a wait for a link can be given up by its caller: any other command *)
(* queued or in hand is still waited for.                                  *)
StillWaits ==
    /\ \A m \in Posted(queue) : m.by # 0 /\ m.op # "connect" => asks[m.by].at = "sent"
    /\ driver.cmd.by # 0 /\ driver.cmd.op # "connect" => asks[driver.cmd.by].at = "sent"

(* Where the driver stands tells what it holds, and at its end what is     *)
(* left of the tables.                                                     *)
HandFits ==
    /\ driver.at \in {"select", "ended"} => driver.cmd = NoCmd
    /\ driver.at = "handle" => driver.cmd.op # "leave"
    /\ driver.at = "parks" => driver.cmd.op = "connect"
    /\ driver.at \in {"closing", "resolving", "failing", "returning"} => driver.cmd.op = "leave"
    /\ driver.at \in {"failing", "returning", "ended"} => waiters = {}
    /\ driver.at \in {"returning", "ended"} => unacked = {}
    /\ driver.at = "ended" => queue = <<>>

DriverInv ==
    /\ DriverTypeOK /\ OnePlace /\ StillWaits /\ HandFits
    /\ EveryWaitHeld /\ WaitersServed /\ GovernedShapeHolds

-----------------------------------------------------------------------------
(* The queue                                                               *)

(* What appending a command does to the queue.                             *)
LEMMA AppendCommand ==
    ASSUME NEW q \in Seq(Command), NEW m \in Command
    PROVE  /\ Append(q, m) \in Seq(Command)
           /\ Posted(Append(q, m)) = Posted(q) \cup {m}
           /\ OncePosted(q) /\ (\A x \in Posted(q) : m.by # 0 => x.by # m.by)
                => OncePosted(Append(q, m))
  <1> DEFINE r == Append(q, m)
             n == Len(q)
  <1>1. /\ r \in Seq(Command) /\ n \in Nat
        /\ DOMAIN q = 1..n /\ DOMAIN r = 1..(n + 1)
        /\ r[n + 1] = m
        /\ \A i \in 1..n : r[i] = q[i]
    OBVIOUS
  <1> HIDE DEF r, n
  <1>2. \A i \in 1..(n + 1) : i \in 1..n \/ i = n + 1
    BY <1>1
  <1>3. 1..n \subseteq 1..(n + 1) /\ n + 1 \in 1..(n + 1) /\ n + 1 \notin 1..n
    BY <1>1
  <1>4. Posted(r) = Posted(q) \cup {m}
    BY <1>1, <1>2, <1>3 DEF Posted
  <1>5. ASSUME OncePosted(q), \A x \in Posted(q) : m.by # 0 => x.by # m.by,
               NEW i \in DOMAIN r, NEW j \in DOMAIN r, r[i].by = r[j].by, r[i].by # 0
        PROVE  i = j
    <2>1. \A k \in 1..n : q[k] \in Posted(q)
      BY <1>1 DEF Posted
    <2>2. CASE i \in 1..n /\ j \in 1..n
      BY <1>1, <1>5, <2>2 DEF OncePosted
    <2>3. CASE i = n + 1 /\ j = n + 1
      BY <2>3
    <2>4. CASE i \in 1..n /\ j = n + 1
      BY <1>1, <1>5, <2>1, <2>4
    <2>5. CASE i = n + 1 /\ j \in 1..n
      BY <1>1, <1>5, <2>1, <2>5
    <2> QED
      BY <1>1, <1>2, <2>2, <2>3, <2>4, <2>5
  <1> QED
    BY <1>1, <1>4, <1>5 DEF r, OncePosted

(* What taking the first command does to the queue.                        *)
LEMMA TakeCommand ==
    ASSUME NEW q \in Seq(Command), q # <<>>
    PROVE  /\ Tail(q) \in Seq(Command) /\ Head(q) \in Command
           /\ Posted(q) = Posted(Tail(q)) \cup {Head(q)}
           /\ OncePosted(q) => /\ OncePosted(Tail(q))
                               /\ \A x \in Posted(Tail(q)) : x.by # 0 => x.by # Head(q).by
  <1> DEFINE r == Tail(q)
             n == Len(q)
  <1>1. /\ r \in Seq(Command) /\ n \in Nat \ {0}
        /\ DOMAIN q = 1..n /\ DOMAIN r = 1..(n - 1)
        /\ Head(q) = q[1] /\ Head(q) \in Command
        /\ \A i \in 1..(n - 1) : r[i] = q[i + 1]
    OBVIOUS
  <1> HIDE DEF r, n
  <1>2. \A i \in 1..(n - 1) : i + 1 \in 1..n /\ i + 1 # 1
    BY <1>1
  <1>3. \A i \in 1..n : i = 1 \/ (i - 1 \in 1..(n - 1) /\ (i - 1) + 1 = i)
    BY <1>1
  <1>4. 1 \in 1..n
    BY <1>1
  <1>5. ASSUME NEW x \in Posted(q) PROVE x \in Posted(r) \cup {q[1]}
    <2>1. PICK i \in 1..n : x = q[i]
      BY <1>1 DEF Posted
    <2>2. CASE i = 1
      BY <2>1, <2>2
    <2>3. CASE i - 1 \in 1..(n - 1) /\ (i - 1) + 1 = i
      <3>1. x = r[i - 1]
        BY <1>1, <2>1, <2>3
      <3> QED
        BY <1>1, <2>3, <3>1 DEF Posted
    <2> QED
      BY <1>3, <2>2, <2>3
  <1>6. ASSUME NEW x \in Posted(r) PROVE x \in Posted(q)
    <2>1. PICK i \in 1..(n - 1) : x = r[i]
      BY <1>1 DEF Posted
    <2>2. x = q[i + 1] /\ i + 1 \in 1..n
      BY <1>1, <1>2, <2>1
    <2> QED
      BY <1>1, <2>2 DEF Posted
  <1>7. q[1] \in Posted(q)
    BY <1>1, <1>4 DEF Posted
  <1>8. ASSUME OncePosted(q), NEW i \in 1..(n - 1), NEW j \in 1..(n - 1),
               r[i].by = r[j].by, r[i].by # 0
        PROVE  i = j
    <2>1. i + 1 \in 1..n /\ j + 1 \in 1..n /\ r[i] = q[i + 1] /\ r[j] = q[j + 1]
      BY <1>1, <1>2
    <2>2. i + 1 = j + 1
      BY <1>1, <1>8, <2>1 DEF OncePosted
    <2> QED
      BY <1>1, <2>2
  <1>9. ASSUME OncePosted(q), NEW x \in Posted(r), x.by # 0, x.by = q[1].by
        PROVE  FALSE
    <2>1. PICK i \in 1..(n - 1) : x = r[i]
      BY <1>1 DEF Posted
    <2>2. x = q[i + 1] /\ i + 1 \in 1..n /\ i + 1 # 1
      BY <1>1, <1>2, <2>1
    <2> QED
      BY <1>1, <1>4, <1>9, <2>2 DEF OncePosted
  <1> QED
    BY <1>1, <1>5, <1>6, <1>7, <1>8, <1>9 DEF r, OncePosted

(* An empty queue holds no command.                                        *)
LEMMA NoCommand ==
    <<>> \in Seq(Command) /\ Posted(<<>>) = {} /\ OncePosted(<<>>)
  BY DEF Posted, OncePosted

(* The commands of the queue are commands of callers, or of nobody.        *)
LEMMA PostedType ==
    ASSUME NEW q \in Seq(Command)
    PROVE  /\ Posted(q) \subseteq Command
           /\ \A m \in Posted(q) : m.by # 0 => m.by \in Asker
  <1>1. \A i \in DOMAIN q : q[i] \in Command
    OBVIOUS
  <1>2. Posted(q) \subseteq Command
    BY <1>1 DEF Posted
  <1> QED
    BY <1>2 DEF Command

-----------------------------------------------------------------------------
(* The callers                                                             *)

(* A command of no caller may be appended.                                 *)
Posts ==
    \/ queue' = queue
    \/ /\ driver.at # "ended"
       /\ \E m \in Command : m.by = 0 /\ m.op \notin Operation /\ queue' = Append(queue, m)

(* Such a command changes no caller's place.                               *)
LEMMA PostsKeeps ==
    ASSUME DriverTypeOK, OnePlace, HandFits, Posts
    PROVE  /\ queue' \in Seq(Command) /\ OncePosted(queue')
           /\ Posted(queue) \subseteq Posted(queue')
           /\ \A m \in Posted(queue') : m \in Posted(queue) \/ (m.by = 0 /\ m.op \notin Operation)
           /\ driver.at = "ended" => queue' = <<>>
  <1>1. CASE queue' = queue
    BY <1>1 DEF DriverTypeOK, OnePlace, HandFits
  <1>2. CASE queue' # queue
    <2>1. PICK m \in Command : m.by = 0 /\ m.op \notin Operation /\ queue' = Append(queue, m)
      BY <1>2 DEF Posts
    <2>2. driver.at # "ended"
      BY <1>2 DEF Posts
    <2>3. queue \in Seq(Command) /\ OncePosted(queue)
      BY DEF DriverTypeOK, OnePlace
    <2>4. queue' \in Seq(Command) /\ Posted(queue') = Posted(queue) \cup {m} /\ OncePosted(queue')
      BY <2>1, <2>3, AppendCommand
    <2> QED
      BY <2>1, <2>2, <2>4
  <1> QED
    BY <1>1, <1>2

(* A call goes on in its own task, from a place where no reply is due to   *)
(* another such place.                                                     *)
LEMMA CallerMoves ==
    ASSUME DriverInv, NEW c \in Asker, asks[c].at \notin {"sent", "settles", "done"},
           NEW r \in Call, r.op = asks[c].op, r.at # "sent",
           asks' = [asks EXCEPT ![c] = r], Posts,
           UNCHANGED <<driver, waiters, unacked, happened>>,
           listed' \in BOOLEAN,
           link' \in {"none", "down", "active"}, link' = link \/ r.at = "settles",
           shape' \in [governed : Nat, is : Nat, crossed : BOOLEAN], GovernedShapeHolds'
    PROVE  DriverInv'
  <1>1. DriverTypeOK /\ OnePlace /\ HandFits /\ EveryWaitHeld /\ WaitersServed
    BY DEF DriverInv
  <1>2. /\ queue' \in Seq(Command) /\ OncePosted(queue')
        /\ Posted(queue) \subseteq Posted(queue')
        /\ \A m \in Posted(queue') : m \in Posted(queue) \/ (m.by = 0 /\ m.op \notin Operation)
        /\ driver.at = "ended" => queue' = <<>>
    BY <1>1, PostsKeeps
  <1>3. asks \in [Asker -> Call] /\ asks' \in [Asker -> Call]
    BY <1>1 DEF DriverTypeOK
  <1>4. asks'[c] = r /\ \A d \in Asker : d # c => asks'[d] = asks[d]
    BY <1>3
  <1>5. \A d \in Asker : asks'[d].op = asks[d].op
    BY <1>4
  <1>6. /\ c \notin unacked /\ c \notin waiters
        /\ c # driver.cmd.by /\ \A m \in Posted(queue) : m.by # c
    BY <1>1, CallsAssumption DEF DriverTypeOK, OnePlace
  <1>7. DriverTypeOK'
    <2>1. \A d \in waiters : asks'[d].op = "connect"
      BY <1>1, <1>5 DEF DriverTypeOK
    <2>2. \A d \in unacked : asks'[d].op = "reliable" /\ asks'[d].at = "sent"
      BY <1>1, <1>4, <1>6 DEF DriverTypeOK
    <2>3. \A m \in Posted(queue') : m.by # 0 =>
             asks'[m.by].op = m.op /\ asks'[m.by].at \in {"sent", "done"}
      <3> SUFFICES ASSUME NEW m \in Posted(queue'), m.by # 0
                   PROVE  asks'[m.by].op = m.op /\ asks'[m.by].at \in {"sent", "done"}
        OBVIOUS
      <3>1. m \in Posted(queue) /\ m.by # c
        BY <1>2, <1>6
      <3>2. m.by \in Asker
        BY <1>1, <3>1, PostedType DEF DriverTypeOK
      <3> QED
        BY <1>1, <1>4, <3>1, <3>2 DEF DriverTypeOK
    <2>4. /\ driver' = driver /\ waiters' = waiters /\ unacked' = unacked /\ happened' = happened
      OBVIOUS
    <2> QED
      BY <1>1, <1>2, <1>3, <2>1, <2>2, <2>3, <2>4 DEF DriverTypeOK
  <1>8. OnePlace'
    <2>1. driver' = driver /\ unacked' = unacked /\ waiters' = waiters
      OBVIOUS
    <2>2. driver.cmd.by # 0 => driver.cmd.by \in Asker
      BY <1>1 DEF DriverTypeOK, Command
    <2>3. driver.cmd.by # 0 => asks'[driver.cmd.by] = asks[driver.cmd.by]
      BY <1>4, <1>6, <2>2
    <2>4. \A m \in Posted(queue') : m.op \in Operation => m.by # 0
      BY <1>1, <1>2 DEF OnePlace
    <2>5. \A m \in Posted(queue') : m.by # 0 => m.by # driver.cmd.by /\ m.by \notin unacked
      BY <1>1, <1>2 DEF OnePlace
    <2>6. \A d \in waiters : asks'[d].at \in {"sent", "done"}
      BY <1>1, <1>4, <1>6 DEF OnePlace, DriverTypeOK
    <2> QED
      BY <1>1, <1>2, <2>1, <2>3, <2>4, <2>5, <2>6 DEF OnePlace
  <1>9. HandFits' /\ StillWaits'
    <2>1. HandFits'
      BY <1>1, <1>2 DEF HandFits
    <2>2. StillWaits
      BY DEF DriverInv
    <2>3. ASSUME NEW m \in Posted(queue'), m.by # 0, m.op # "connect"
          PROVE  asks'[m.by].at = "sent"
      <3>1. m \in Posted(queue) /\ m.by # c
        BY <1>2, <1>6, <2>3
      <3>2. m.by \in Asker
        BY <1>1, <2>3, <3>1, PostedType DEF DriverTypeOK
      <3> QED
        BY <1>4, <2>2, <2>3, <3>1, <3>2 DEF StillWaits
    <2>4. driver.cmd.by # 0 => asks'[driver.cmd.by] = asks[driver.cmd.by]
      BY <1>1, <1>4, <1>6 DEF DriverTypeOK, Command
    <2> QED
      BY <2>1, <2>2, <2>3, <2>4 DEF StillWaits
  <1>10. EveryWaitHeld'
    <2> SUFFICES ASSUME NEW d \in Asker, asks'[d].at = "sent"
                 PROVE  \/ \E m \in Posted(queue') : m.by = d
                        \/ driver.cmd.by = d
                        \/ d \in waiters \cup unacked
                        \/ asks'[d].op = "leave" /\ driver.at = "ended"
      BY DEF EveryWaitHeld
    <2>1. d # c /\ asks'[d] = asks[d]
      BY <1>4
    <2> QED
      BY <1>1, <1>2, <2>1 DEF EveryWaitHeld
  <1>11. WaitersServed'
    <2> SUFFICES ASSUME link' = "active", ~\E d \in Asker : asks'[d].at = "settles",
                        NEW w \in waiters \ driver.late
                 PROVE  asks'[w].at # "sent"
      BY DEF WaitersServed
    <2>1. link' = link
      BY <1>4
    <2>2. \A d \in Asker : asks[d].at # "settles"
      BY <1>4
    <2>3. w \in Asker
      BY <1>1 DEF DriverTypeOK
    <2>4. asks[w].at # "sent"
      BY <1>1, <2>1, <2>2 DEF WaitersServed
    <2> QED
      BY <1>4, <2>3, <2>4
  <1> QED
    BY <1>7, <1>8, <1>9, <1>10, <1>11 DEF DriverInv

(* A call is queued: its reply is due, and in the queue.                   *)
LEMMA QueuesKeeps ==
    ASSUME DriverInv, NEW c \in Asker, Queues(c)
    PROVE  DriverInv'
  <1>1. /\ DriverTypeOK /\ OnePlace /\ HandFits /\ EveryWaitHeld /\ WaitersServed
        /\ GovernedShapeHolds
    BY DEF DriverInv
  <1>2. /\ asks[c].at = "found" /\ asks \in [Asker -> Call]
        /\ queue \in Seq(Command) /\ OncePosted(queue)
        /\ UNCHANGED <<listed, driver, waiters, unacked, link, shape, happened>>
    BY <1>1 DEF Queues, DriverTypeOK, OnePlace
  <1>3. CASE driver.at = "ended"
    <2> DEFINE r == [asks[c] EXCEPT !.at = "done", !.res = "closed"]
    <2>1. asks' = [asks EXCEPT ![c] = r] /\ queue' = queue
      BY ZenonT(60), <1>2, <1>3 DEF Queues
    <2>2. r \in Call /\ r.op = asks[c].op /\ r.at = "done"
      BY ZenonT(60), <1>2 DEF Call, Answer
    <2> HIDE DEF r
    <2>3. GovernedShapeHolds'
      BY <1>1, <1>2 DEF GovernedShapeHolds
    <2> QED
      BY ZenonT(60), <1>1, <1>2, <2>1, <2>2, <2>3, CallerMoves DEF Posts, DriverTypeOK
  <1>4. CASE driver.at # "ended"
    <2> DEFINE m == [op |-> asks[c].op, by |-> c]
    <2>1. asks' = [asks EXCEPT ![c].at = "sent"] /\ queue' = Append(queue, m)
      BY <1>4 DEF Queues
    <2>2. m \in Command /\ m.op = asks[c].op /\ m.by = c /\ c # 0
      BY <1>2, CallsAssumption DEF Command, Call
    <2> HIDE DEF m
    <2>3. /\ asks' \in [Asker -> Call] /\ asks'[c].at = "sent"
          /\ \A d \in Asker : asks'[d].op = asks[d].op /\ (d # c => asks'[d] = asks[d])
      BY ZenonT(60), <1>2, <2>1 DEF Call
    <2>4. /\ c \notin unacked /\ c \notin waiters
          /\ c # driver.cmd.by /\ \A x \in Posted(queue) : x.by # c
      BY <1>1, <1>2, <2>2 DEF DriverTypeOK, OnePlace
    <2>5. /\ queue' \in Seq(Command) /\ OncePosted(queue')
          /\ Posted(queue') = Posted(queue) \cup {m}
      BY <1>2, <2>1, <2>2, <2>4, AppendCommand
    <2>6. DriverTypeOK'
      <3>1. \A d \in waiters : asks'[d].op = "connect"
        BY <1>1, <2>3 DEF DriverTypeOK
      <3>2. \A d \in unacked : asks'[d].op = "reliable" /\ asks'[d].at = "sent"
        BY <1>1, <2>3, <2>4 DEF DriverTypeOK
      <3>3. ASSUME NEW x \in Posted(queue'), x.by # 0
            PROVE  asks'[x.by].op = x.op /\ asks'[x.by].at \in {"sent", "done"}
        <4>1. CASE x = m
          BY <2>2, <2>3, <4>1
        <4>2. CASE x \in Posted(queue)
          <5>1. x.by \in Asker /\ x.by # c
            BY <1>2, <2>4, <3>3, <4>2, PostedType
          <5> QED
            BY <1>1, <2>3, <3>3, <4>2, <5>1 DEF DriverTypeOK
        <4> QED
          BY <2>5, <4>1, <4>2
      <3> QED
        BY <1>1, <1>2, <2>3, <2>5, <3>1, <3>2, <3>3 DEF DriverTypeOK
    <2>7. OnePlace'
      <3>1. driver.cmd.by # 0 => driver.cmd.by \in Asker
        BY <1>1 DEF DriverTypeOK, Command
      <3>2. driver.cmd.by # 0 => asks'[driver.cmd.by] = asks[driver.cmd.by]
        BY <2>3, <2>4, <3>1
      <3>3. \A x \in Posted(queue') : x.op \in Operation => x.by # 0
        BY <1>1, <2>2, <2>5 DEF OnePlace
      <3>4. \A x \in Posted(queue') : x.by # 0 => x.by # driver.cmd.by /\ x.by \notin unacked
        BY <1>1, <2>2, <2>4, <2>5 DEF OnePlace
      <3>5. \A d \in waiters : asks'[d].at \in {"sent", "done"}
        BY <1>1, <2>3, <2>4 DEF OnePlace, DriverTypeOK
      <3> QED
        BY <1>1, <1>2, <2>5, <3>2, <3>3, <3>4, <3>5 DEF OnePlace
    <2>8. HandFits' /\ StillWaits'
      <3>1. HandFits'
        BY <1>1, <1>2, <1>4 DEF HandFits
      <3>2. StillWaits
        BY DEF DriverInv
      <3>3. ASSUME NEW x \in Posted(queue'), x.by # 0, x.op # "connect"
            PROVE  asks'[x.by].at = "sent"
        <4>1. CASE x = m
          BY <2>2, <2>3, <4>1
        <4>2. CASE x \in Posted(queue)
          <5>1. x.by \in Asker /\ x.by # c
            BY <1>2, <2>4, <3>3, <4>2, PostedType
          <5> QED
            BY <2>3, <3>2, <3>3, <4>2, <5>1 DEF StillWaits
        <4> QED
          BY <2>5, <4>1, <4>2
      <3>4. driver.cmd.by # 0 => asks'[driver.cmd.by] = asks[driver.cmd.by]
        BY <1>1, <2>3, <2>4 DEF DriverTypeOK, Command
      <3> QED
        BY <1>2, <3>1, <3>2, <3>3, <3>4 DEF StillWaits
    <2>9. EveryWaitHeld'
      <3> SUFFICES ASSUME NEW d \in Asker, asks'[d].at = "sent"
                   PROVE  \/ \E x \in Posted(queue') : x.by = d
                          \/ driver.cmd.by = d
                          \/ d \in waiters \cup unacked
                          \/ asks'[d].op = "leave" /\ driver.at = "ended"
        BY <1>2 DEF EveryWaitHeld
      <3>1. CASE d = c
        BY <2>2, <2>5, <3>1
      <3>2. CASE d # c
        BY <1>1, <2>3, <2>5, <3>2 DEF EveryWaitHeld
      <3> QED
        BY <3>1, <3>2
    <2>10. WaitersServed'
      <3> SUFFICES ASSUME link = "active", ~\E d \in Asker : asks'[d].at = "settles",
                          NEW w \in waiters \ driver.late
                   PROVE  asks'[w].at # "sent"
        BY <1>2 DEF WaitersServed
      <3>1. \A d \in Asker : asks[d].at # "settles"
        BY <1>2, <2>3
      <3>2. w \in Asker /\ w # c
        BY <1>1, <2>4 DEF DriverTypeOK
      <3> QED
        BY <1>1, <2>3, <3>1, <3>2 DEF WaitersServed
    <2> QED
      BY <1>1, <1>2, <2>6, <2>7, <2>8, <2>9, <2>10 DEF DriverInv, GovernedShapeHolds
  <1> QED
    BY <1>3, <1>4

(* The steps of a call in its own task.                                    *)
LEMMA CallerStepsKeep ==
    ASSUME DriverInv, NEW c \in Asker,
           \/ Finds(c) \/ FindsNone(c) \/ Removes(c) \/ Approves(c) \/ apply_hot(c)
           \/ asks[c].at = "tail" /\ (roster_remove(c) \/ set_topology(c))
    PROVE  DriverInv'
  <1>1. DriverTypeOK /\ GovernedShapeHolds
    BY DEF DriverInv
  <1>2. asks \in [Asker -> Call] /\ asks[c] \in Call
    BY <1>1 DEF DriverTypeOK
  <1>3. /\ listed \in BOOLEAN /\ link \in {"none", "down", "active"}
        /\ shape \in [governed : Nat, is : Nat, crossed : BOOLEAN]
    BY <1>1 DEF DriverTypeOK
  <1>4. shape' = shape => GovernedShapeHolds'
    BY <1>1 DEF GovernedShapeHolds
  <1>5. CASE Finds(c)
    <2> DEFINE r == [asks[c] EXCEPT !.at = "found"]
    <2>1. r \in Call /\ r.op = asks[c].op /\ r.at = "found" /\ asks[c].at = "idle"
      BY <1>2, <1>5 DEF Call, Finds
    <2>2. /\ asks' = [asks EXCEPT ![c] = r]
          /\ UNCHANGED <<listed, queue, driver, waiters, unacked, link, shape, happened>>
      BY <1>2, <1>5 DEF Finds
    <2> HIDE DEF r
    <2> QED
      BY ZenonT(60), <1>3, <1>4, <2>1, <2>2, CallerMoves DEF Posts
  <1>6. CASE FindsNone(c)
    <2> DEFINE r == [asks[c] EXCEPT !.at = "done", !.res = "unknown"]
    <2>1. r \in Call /\ r.op = asks[c].op /\ r.at = "done" /\ asks[c].at = "idle"
      BY ZenonT(60), <1>2, <1>6 DEF Call, Answer, FindsNone
    <2>2. /\ asks' = [asks EXCEPT ![c] = r]
          /\ UNCHANGED <<listed, queue, driver, waiters, unacked, link, shape, happened>>
      BY ZenonT(60), <1>2, <1>6 DEF FindsNone
    <2> HIDE DEF r
    <2> QED
      BY ZenonT(60), <1>3, <1>4, <2>1, <2>2, CallerMoves DEF Posts
  <1>7. CASE Removes(c)
    <2> DEFINE r == IF Borrowed THEN [asks[c] EXCEPT !.at = "done", !.res = "borrowed"]
                                ELSE [asks[c] EXCEPT !.at = "found"]
    <2>1. r \in Call /\ r.op = asks[c].op /\ r.at \in {"done", "found"} /\ asks[c].at = "idle"
      BY ZenonT(60), <1>2, <1>7 DEF Call, Answer, Removes
    <2>2. /\ asks' = [asks EXCEPT ![c] = r] /\ listed' = FALSE
          /\ UNCHANGED <<queue, driver, waiters, unacked, link, shape, happened>>
      BY ZenonT(60), <1>2, <1>7 DEF Removes
    <2> HIDE DEF r
    <2> QED
      BY ZenonT(60), <1>3, <1>4, <2>1, <2>2, CallerMoves DEF Posts
  <1>8. CASE Approves(c)
    <2>1. PICK at \in {"done", "settles"} :
             /\ asks' = [asks EXCEPT ![c].at = at]
             /\ link' = link \/ (link' = "active" /\ at = "settles")
      BY <1>8 DEF Approves
    <2> DEFINE r == [asks[c] EXCEPT !.at = at]
    <2>2. r \in Call /\ r.op = asks[c].op /\ r.at = at /\ asks[c].at = "tail"
      BY <1>2, <1>8 DEF Call, Approves
    <2>3. /\ asks' = [asks EXCEPT ![c] = r]
          /\ UNCHANGED <<listed, queue, driver, waiters, unacked, shape, happened>>
      BY <1>2, <1>8, <2>1 DEF Approves
    <2> HIDE DEF r
    <2> QED
      BY ZenonT(60), <1>3, <1>4, <2>1, <2>2, <2>3, CallerMoves DEF Posts
  <1>9. CASE apply_hot(c)
    <2>1. UNCHANGED <<listed, queue, driver, waiters, unacked, link, happened>>
      BY <1>9 DEF apply_hot
    <2>2. CASE asks[c].at = "found"
      <3> DEFINE r == [asks[c] EXCEPT !.at = "tail", !.saw = shape.governed]
      <3>1. r \in Call /\ r.op = asks[c].op /\ r.at = "tail"
        BY ZenonT(60), <1>2, <1>3 DEF Call
      <3>2. asks' = [asks EXCEPT ![c] = r] /\ shape' = shape
        BY ZenonT(60), <1>2, <1>9, <2>2 DEF apply_hot
      <3> HIDE DEF r
      <3> QED
        BY ZenonT(60), <1>3, <1>4, <2>1, <2>2, <3>1, <3>2, CallerMoves DEF Posts
    <2>3. CASE asks[c].at # "found"
      <3> DEFINE r == [asks[c] EXCEPT !.at = "done"]
      <3>1. r \in Call /\ r.op = asks[c].op /\ r.at = "done" /\ asks[c].saw \in Nat
        BY <1>2 DEF Call
      <3>2. /\ asks[c].at = "tail" /\ asks' = [asks EXCEPT ![c] = r]
            /\ shape' = [shape EXCEPT !.is = asks[c].saw, !.crossed = shape.governed # asks[c].saw]
        BY <1>2, <1>9, <2>3 DEF apply_hot
      <3> HIDE DEF r
      <3>3. /\ shape' \in [governed : Nat, is : Nat, crossed : BOOLEAN]
            /\ GovernedShapeHolds'
        BY ZenonT(60), <1>3, <3>1, <3>2 DEF GovernedShapeHolds
      <3> QED
        BY ZenonT(60), <1>3, <2>1, <3>1, <3>2, <3>3, CallerMoves DEF Posts
    <2> QED
      BY <2>2, <2>3
  <1>10. CASE asks[c].at = "tail" /\ (roster_remove(c) \/ set_topology(c))
    <2> DEFINE r == [asks[c] EXCEPT !.at = "done"]
    <2>1. r \in Call /\ r.op = asks[c].op /\ r.at = "done"
      BY <1>2 DEF Call
    <2>2. /\ asks' = [asks EXCEPT ![c] = r]
          /\ UNCHANGED <<listed, driver, waiters, unacked, link, shape, happened>>
      BY <1>2, <1>10 DEF roster_remove, set_topology, Queues
    <2> HIDE DEF r
    <2>3. /\ [op |-> "drop", by |-> 0] \in Command /\ [op |-> "post", by |-> 0] \in Command
          /\ "drop" \notin Operation /\ "post" \notin Operation
      BY DEF Command, Operation
    <2>4. \/ queue' = queue
          \/ /\ driver.at # "ended"
             /\ \/ queue' = Append(queue, [op |-> "drop", by |-> 0])
                \/ queue' = Append(queue, [op |-> "post", by |-> 0])
      BY <1>10 DEF roster_remove, set_topology, Queues
    <2>5. Posts
      BY <2>3, <2>4 DEF Posts
    <2> QED
      BY ZenonT(60), <1>3, <1>4, <1>10, <2>1, <2>2, <2>5, CallerMoves
  <1> QED
    BY <1>5, <1>6, <1>7, <1>8, <1>9, <1>10

-----------------------------------------------------------------------------
(* Replies                                                                 *)

(* The calls that go on after their reply.                                 *)
Tailed == {"approve", "remove", "topology"}

(* Of the calls that wait, those of who are told, and no other call changes*)
(* its place but from settles.                                             *)
Told(who) ==
    /\ asks' \in [Asker -> Call]
    /\ \A c \in Asker :
         /\ asks'[c].op = asks[c].op
         /\ asks'[c].at = "sent" <=> asks[c].at = "sent" /\ c \notin who
         /\ asks[c].at \in {"sent", "done"} /\ (c \notin who \/ asks[c].op \notin Tailed)
              => asks'[c].at \in {"sent", "done"}

(* Who may be told: a wait for a link, a send of the outbox, a leave at the*)
(* end, and the caller of the command in hand, which the driver lets go.   *)
Entitled(who) ==
    \/ /\ driver'.cmd = driver.cmd
       /\ \A c \in who : \/ asks[c].op = "connect"
                         \/ c \in unacked
                         \/ asks[c].op = "leave" /\ driver.at = "ended"
    \/ /\ driver'.cmd = NoCmd /\ (driver.cmd.by # 0 => driver.cmd.by \in who)
       /\ \A c \in who : asks[c].op = "connect" \/ c \in unacked \/ c = driver.cmd.by

(* No caller stops settling.                                               *)
SettlingKept == \A c \in Asker : asks[c].at = "settles" => asks'[c].at = "settles"

(* A reply to who tells who.                                               *)
LEMMA RepliedTells ==
    ASSUME asks \in [Asker -> Call], NEW who, NEW res \in Answer, asks' = Replied(who, res)
    PROVE  Told(who) /\ SettlingKept
  <1>1. asks' \in [Asker -> Call]
    BY ZenonT(60) DEF Replied, Call
  <1>2. ASSUME NEW c \in Asker
        PROVE  /\ asks'[c].op = asks[c].op
               /\ asks'[c].at = "sent" <=> asks[c].at = "sent" /\ c \notin who
               /\ asks[c].at \in {"sent", "done"} /\ (c \notin who \/ asks[c].op \notin Tailed)
                    => asks'[c].at \in {"sent", "done"}
               /\ asks[c].at = "settles" => asks'[c].at = "settles"
    BY ZenonT(60) DEF Replied, Call, Tailed
  <1> QED
    BY <1>1, <1>2 DEF Told, SettlingKept

(* No reply tells nobody.                                                  *)
LEMMA NobodyTold ==
    ASSUME asks \in [Asker -> Call], asks' = asks
    PROVE  Told({}) /\ SettlingKept
  BY DEF Told, SettlingKept

(* A step that tells who, and takes out of the tables none but these.      *)
LEMMA TellsKeeps ==
    ASSUME DriverInv, NEW who, Told(who), Posts,
           driver' \in [at : {"select", "handle", "parks", "closing", "resolving", "failing",
                              "returning", "ended"},
                        cmd : Command, late : SUBSET Asker],
           driver'.late = driver.late,
           driver.at = "ended" => driver'.at = "ended",
           Entitled(who),
           waiters' \subseteq waiters, waiters \subseteq waiters' \cup who,
           unacked' \subseteq unacked \ who, unacked \subseteq unacked' \cup who,
           HandFits', GovernedShapeHolds',
           listed' \in BOOLEAN, happened' \in 0..MaxHappens,
           shape' \in [governed : Nat, is : Nat, crossed : BOOLEAN],
           link' \in {"none", "down", "active"},
           link' # "active" \/ waiters' = {} \/ (link' = link /\ SettlingKept)
    PROVE  DriverInv'
  <1>1. DriverTypeOK /\ OnePlace /\ HandFits /\ EveryWaitHeld /\ WaitersServed
    BY DEF DriverInv
  <1>2. /\ queue' \in Seq(Command) /\ OncePosted(queue')
        /\ Posted(queue) \subseteq Posted(queue')
        /\ \A m \in Posted(queue') : m \in Posted(queue) \/ (m.by = 0 /\ m.op \notin Operation)
    BY <1>1, PostsKeeps
  <1>3. /\ asks' \in [Asker -> Call]
        /\ \A c \in Asker :
             /\ asks'[c].op = asks[c].op
             /\ asks'[c].at = "sent" <=> asks[c].at = "sent" /\ c \notin who
             /\ asks[c].at \in {"sent", "done"} /\ (c \notin who \/ asks[c].op \notin Tailed)
                  => asks'[c].at \in {"sent", "done"}
    BY DEF Told
  <1>4. waiters \subseteq Asker /\ unacked \subseteq Asker
    BY <1>1 DEF DriverTypeOK
  <1>5. \A m \in Posted(queue) : m.by # 0 =>
           /\ m.by \in Asker /\ m.by # driver.cmd.by
           /\ asks[m.by].op = m.op /\ asks[m.by].at \in {"sent", "done"}
    BY <1>1, PostedType DEF DriverTypeOK, OnePlace
  <1>6. /\ \A c \in unacked : asks[c].op = "reliable"
        /\ \A c \in who : asks[c].op \in Tailed => c = driver.cmd.by /\ driver'.cmd = NoCmd
    BY <1>1 DEF DriverTypeOK, Tailed, Entitled
  <1>7. DriverTypeOK'
    <2>1. \A c \in waiters' : asks'[c].op = "connect"
      BY <1>1, <1>3, <1>4 DEF DriverTypeOK
    <2>2. \A c \in unacked' : asks'[c].op = "reliable" /\ asks'[c].at = "sent"
      BY <1>1, <1>3, <1>4 DEF DriverTypeOK
    <2>3. ASSUME NEW m \in Posted(queue'), m.by # 0
          PROVE  asks'[m.by].op = m.op /\ asks'[m.by].at \in {"sent", "done"}
      <3>1. m \in Posted(queue)
        BY <1>2, <2>3
      <3>2. /\ m.by \in Asker /\ m.by # driver.cmd.by
            /\ asks[m.by].op = m.op /\ asks[m.by].at \in {"sent", "done"}
        BY <1>5, <2>3, <3>1
      <3>3. m.by \in who => asks[m.by].op \notin Tailed
        BY <1>6, <3>2
      <3> QED
        BY <1>3, <3>2, <3>3
    <2> QED
      BY <1>2, <1>3, <1>4, <2>1, <2>2, <2>3 DEF DriverTypeOK
  <1>8. OnePlace'
    <2>1. \A m \in Posted(queue') : m.op \in Operation => m.by # 0
      BY <1>1, <1>2 DEF OnePlace
    <2>2. \A m \in Posted(queue') : m.by # 0 => m.by # driver.cmd.by /\ m.by \notin unacked
      BY <1>1, <1>2 DEF OnePlace
    <2>3. \A m \in Posted(queue') : m.by # 0 => m.by # driver'.cmd.by /\ m.by \notin unacked'
      BY <2>2 DEF NoCmd, Entitled
    <2>4. \A c \in waiters' : asks'[c].at \in {"sent", "done"}
      <3>1. \A c \in waiters : asks[c].at \in {"sent", "done"} /\ asks[c].op \notin Tailed
        BY <1>1 DEF OnePlace, DriverTypeOK, Tailed
      <3> QED
        BY <1>3, <1>4, <3>1
    <2>5. CASE driver'.cmd = NoCmd
      <3>1. driver'.cmd.by = 0 /\ driver'.cmd.op \notin Operation
        BY <2>5 DEF NoCmd, Operation
      <3> QED
        BY <1>2, <2>1, <2>3, <2>4, <3>1 DEF OnePlace
    <2>6. CASE driver'.cmd = driver.cmd /\ driver'.cmd # NoCmd
      <3>1. driver.cmd.by # 0 => /\ driver.cmd.by \in Asker
                                 /\ asks[driver.cmd.by].op = driver.cmd.op
                                 /\ asks[driver.cmd.by].at \in {"sent", "done"}
                                 /\ driver.cmd.by \notin unacked
        BY <1>1 DEF OnePlace, DriverTypeOK, Command
      <3>2. driver.cmd.by # 0 => /\ asks'[driver.cmd.by].op = driver.cmd.op
                                 /\ asks'[driver.cmd.by].at \in {"sent", "done"}
                                 /\ driver.cmd.by \notin unacked'
        BY <1>3, <1>6, <2>6, <3>1
      <3>3. driver.cmd.op \in Operation => driver.cmd.by # 0
        BY <1>1 DEF OnePlace
      <3> QED
        BY <1>2, <2>1, <2>3, <2>4, <2>6, <3>2, <3>3 DEF OnePlace
    <2> QED
      BY <2>5, <2>6 DEF Entitled
  <1>9. EveryWaitHeld'
    <2> SUFFICES ASSUME NEW c \in Asker, asks'[c].at = "sent"
                 PROVE  \/ \E m \in Posted(queue') : m.by = c
                        \/ driver'.cmd.by = c
                        \/ c \in waiters' \cup unacked'
                        \/ asks'[c].op = "leave" /\ driver'.at = "ended"
      BY DEF EveryWaitHeld
    <2>1. asks[c].at = "sent" /\ c \notin who /\ asks'[c].op = asks[c].op
      BY <1>3
    <2>2. c # 0
      BY CallsAssumption
    <2>3. \/ \E m \in Posted(queue) : m.by = c
          \/ driver.cmd.by = c
          \/ c \in waiters \cup unacked
          \/ asks[c].op = "leave" /\ driver.at = "ended"
      BY <1>1, <2>1 DEF EveryWaitHeld
    <2> QED
      BY <1>2, <2>1, <2>2, <2>3 DEF Entitled
  <1>10. WaitersServed'
    <2> SUFFICES ASSUME link' = "active", \A c \in Asker : asks'[c].at # "settles",
                        NEW w \in waiters', w \notin driver'.late
                 PROVE  asks'[w].at # "sent"
      BY DEF WaitersServed
    <2>1. link' = link /\ \A c \in Asker : asks[c].at # "settles"
      BY DEF SettlingKept
    <2>2. w \in waiters \ driver.late /\ w \in Asker
      BY <1>4
    <2>3. asks[w].at # "sent"
      BY <1>1, <2>1, <2>2 DEF WaitersServed
    <2> QED
      BY <1>3, <2>2, <2>3
  <1>11. StillWaits'
    <2>1. StillWaits
      BY DEF DriverInv
    <2>2. ASSUME NEW m \in Posted(queue'), m.by # 0, m.op # "connect"
          PROVE  asks'[m.by].at = "sent"
      <3>1. m \in Posted(queue)
        BY <1>2, <2>2
      <3>2. /\ m.by \in Asker /\ m.by # driver.cmd.by /\ m.by \notin unacked
            /\ asks[m.by].op = m.op /\ driver.at # "ended"
        BY <1>1, <1>5, <2>2, <3>1, NoCommand DEF OnePlace, HandFits
      <3>3. asks[m.by].at = "sent" /\ m.by \notin who
        BY <2>1, <2>2, <3>1, <3>2 DEF StillWaits, Entitled
      <3> QED
        BY <1>3, <3>2, <3>3
    <2>3. ASSUME driver'.cmd.by # 0, driver'.cmd.op # "connect"
          PROVE  asks'[driver'.cmd.by].at = "sent"
      <3>1. driver'.cmd = driver.cmd /\ driver.cmd # NoCmd
        BY <2>3 DEF NoCmd, Entitled
      <3>2. /\ driver.cmd.by \in Asker /\ driver.cmd.by \notin unacked /\ driver.at # "ended"
            /\ asks[driver.cmd.by].op = driver.cmd.op
        BY <1>1, <2>3, <3>1 DEF OnePlace, HandFits, DriverTypeOK, Command
      <3>3. asks[driver.cmd.by].at = "sent" /\ driver.cmd.by \notin who
        BY <2>1, <2>3, <3>1, <3>2 DEF StillWaits, Entitled
      <3> QED
        BY <1>3, <3>1, <3>2, <3>3
    <2> QED
      BY <2>2, <2>3 DEF StillWaits
  <1> QED
    BY <1>7, <1>8, <1>9, <1>10, <1>11 DEF DriverInv

(* What the driver's hand holds is a call's command, or one of nobody's.   *)
LEMMA Hand ==
    ASSUME DriverInv
    PROVE  /\ driver.cmd \in Command
           /\ driver.cmd.op \in Operation =>
                driver.cmd.by \in Asker /\ asks[driver.cmd.by].op = driver.cmd.op
           /\ driver.cmd.op \notin Operation => driver.cmd.by = 0
           /\ \A c \in waiters : c \in Asker /\ asks[c].op = "connect" /\ c \notin unacked
           /\ \A c \in unacked : c \in Asker /\ asks[c].op = "reliable" /\ c # driver.cmd.by
  <1>1. DriverTypeOK /\ OnePlace
    BY DEF DriverInv
  <1>2. /\ driver.cmd \in Command /\ asks \in [Asker -> Call]
        /\ waiters \subseteq Asker /\ unacked \subseteq Asker
    BY <1>1 DEF DriverTypeOK
  <1>3. driver.cmd.by # 0 => driver.cmd.by \in Asker
    BY <1>2 DEF Command
  <1>4. driver.cmd.by # 0 => asks[driver.cmd.by].op = driver.cmd.op
    BY <1>1 DEF OnePlace
  <1>5. driver.cmd.by # 0 => driver.cmd.op \in Operation
    BY <1>2, <1>3, <1>4 DEF Call
  <1>6. driver.cmd.op \in Operation => driver.cmd.by # 0
    BY <1>1 DEF OnePlace
  <1>7. driver.cmd.by # 0 => driver.cmd.by \notin unacked
    BY <1>1 DEF OnePlace
  <1>8. \A c \in waiters : asks[c].op = "connect"
    BY <1>1 DEF DriverTypeOK
  <1>9. \A c \in unacked : asks[c].op = "reliable"
    BY <1>1 DEF DriverTypeOK
  <1>10. \A c \in waiters : c \notin unacked
    BY <1>8, <1>9
  <1>11. \A c \in unacked : c # driver.cmd.by
    BY <1>2, <1>7, CallsAssumption
  <1> QED
    BY <1>2, <1>3, <1>4, <1>5, <1>6, <1>8, <1>9, <1>10, <1>11

(* The driver back in its loop.                                            *)
LEMMA LoopAgain ==
    ASSUME DriverTypeOK, driver' = BackToLoop
    PROVE  /\ driver' \in [at : {"select", "handle", "parks", "closing", "resolving", "failing",
                                 "returning", "ended"},
                           cmd : Command, late : SUBSET Asker]
           /\ driver'.at = "select" /\ driver'.cmd = NoCmd /\ driver'.late = driver.late
           /\ HandFits'
  <1>1. NoCmd \in Command
    BY DEF NoCmd, Command
  <1>2. /\ driver' \in [at : {"select", "handle", "parks", "closing", "resolving", "failing",
                                 "returning", "ended"},
                           cmd : Command, late : SUBSET Asker]
        /\ driver'.at = "select" /\ driver'.cmd = NoCmd /\ driver'.late = driver.late
    BY ZenonT(60), <1>1 DEF DriverTypeOK, BackToLoop
  <1>3. HandFits'
    BY <1>2 DEF HandFits
  <1> QED
    BY <1>2, <1>3

(* The end of a handler that tells who, among them whoever the command is  *)
(* from.                                                                   *)
LEMMA HandlerTells ==
    ASSUME DriverInv, NEW who, Told(who), driver.at # "ended", driver' = BackToLoop,
           driver.cmd.by # 0 => driver.cmd.by \in who,
           \A c \in who : c = driver.cmd.by \/ c \in waiters \cup unacked,
           UNCHANGED <<listed, queue, happened>>,
           waiters' \subseteq waiters, waiters \subseteq waiters' \cup who,
           unacked' \subseteq unacked \ who, unacked \subseteq unacked' \cup who,
           shape' \in [governed : Nat, is : Nat, crossed : BOOLEAN], GovernedShapeHolds',
           link' \in {"none", "down", "active"},
           link' # "active" \/ waiters' = {} \/ (link' = link /\ SettlingKept)
    PROVE  DriverInv'
  <1>1. DriverTypeOK
    BY DEF DriverInv
  <1>2. /\ driver' \in [at : {"select", "handle", "parks", "closing", "resolving", "failing",
                              "returning", "ended"},
                        cmd : Command, late : SUBSET Asker]
        /\ driver'.cmd = NoCmd /\ driver'.late = driver.late /\ HandFits'
    BY <1>1, LoopAgain
  <1>3. Entitled(who)
    BY <1>2, Hand DEF Entitled
  <1>4. Posts /\ listed' \in BOOLEAN /\ happened' \in 0..MaxHappens
    BY <1>1 DEF Posts, DriverTypeOK
  <1> QED
    BY <1>2, <1>3, <1>4, TellsKeeps

(* The end of a handler that tells nobody.                                 *)
LEMMA HandlerSilent ==
    ASSUME DriverInv, driver.at # "ended", driver' = BackToLoop, driver.cmd.op \notin Operation,
           UNCHANGED <<asks, listed, queue, happened, waiters, unacked>>,
           shape' \in [governed : Nat, is : Nat, crossed : BOOLEAN], GovernedShapeHolds',
           link' \in {"none", "down", "active"}, link' # "active" \/ link' = link
    PROVE  DriverInv'
  <1>1. asks \in [Asker -> Call]
    BY DEF DriverInv, DriverTypeOK
  <1>2. Told({}) /\ SettlingKept
    BY <1>1, NobodyTold
  <1>3. driver.cmd.by = 0
    BY Hand
  <1> QED
    BY <1>2, <1>3, HandlerTells

(* A reliable send goes from the driver's hand to the outbox.              *)
LEMMA Accepted ==
    ASSUME DriverInv, driver.at = "handle", driver' = BackToLoop, driver.cmd.op = "reliable",
           unacked' = unacked \cup {driver.cmd.by},
           UNCHANGED <<asks, listed, queue, happened, waiters, link, shape>>
    PROVE  DriverInv'
  <1>1. /\ DriverTypeOK /\ OnePlace /\ StillWaits /\ EveryWaitHeld /\ WaitersServed
        /\ GovernedShapeHolds
    BY DEF DriverInv
  <1>2. /\ driver' \in [at : {"select", "handle", "parks", "closing", "resolving", "failing",
                              "returning", "ended"},
                        cmd : Command, late : SUBSET Asker]
        /\ driver'.cmd = NoCmd /\ driver'.late = driver.late /\ HandFits'
    BY <1>1, LoopAgain
  <1>3. driver'.cmd.by = 0 /\ driver'.cmd.op \notin Operation
    BY <1>2 DEF NoCmd, Operation
  <1>4. driver.cmd.by \in Asker /\ driver.cmd.by # 0 /\ asks[driver.cmd.by].op = "reliable"
    BY Hand, CallsAssumption DEF Operation
  <1>5. asks[driver.cmd.by].at = "sent"
    BY <1>1, <1>4 DEF StillWaits
  <1>6. DriverTypeOK'
    <2>1. unacked' \subseteq Asker /\ \A c \in unacked' : asks[c].op = "reliable" /\ asks[c].at = "sent"
      BY <1>1, <1>4, <1>5 DEF DriverTypeOK
    <2> QED
      BY <1>1, <1>2, <2>1 DEF DriverTypeOK
  <1>7. OnePlace'
    <2>1. \A m \in Posted(queue) : m.by # 0 => m.by # driver'.cmd.by /\ m.by \notin unacked'
      BY <1>1, <1>3 DEF OnePlace
    <2> QED
      BY <1>1, <1>3, <2>1 DEF OnePlace
  <1>8. StillWaits' /\ GovernedShapeHolds' /\ WaitersServed'
    BY <1>1, <1>2, <1>3 DEF StillWaits, GovernedShapeHolds, WaitersServed
  <1>9. EveryWaitHeld'
    BY <1>1, <1>2 DEF EveryWaitHeld
  <1> QED
    BY <1>2, <1>6, <1>7, <1>8, <1>9 DEF DriverInv

(* handle_command.                                                         *)
LEMMA HandleKeeps ==
    ASSUME DriverInv, handle_command
    PROVE  DriverInv'
  <1> DEFINE cmd == driver.cmd
  <1>1. DriverTypeOK /\ OnePlace /\ GovernedShapeHolds
    BY DEF DriverInv
  <1>2. /\ asks \in [Asker -> Call] /\ link \in {"none", "down", "active"}
        /\ shape \in [governed : Nat, is : Nat, crossed : BOOLEAN]
    BY <1>1 DEF DriverTypeOK
  <1>3. /\ driver.at = "handle" /\ driver' = BackToLoop
        /\ UNCHANGED <<listed, queue, happened>>
    BY DEF handle_command
  <1>4. \A res \in {"ok", "err", "governed", "free"} : res \in Answer
    BY DEF Answer
  <1>5. /\ shape' = shape => GovernedShapeHolds'
        /\ cmd.op \notin Operation => cmd.by = 0
        /\ \A c \in unacked : c # cmd.by
    BY <1>1, Hand DEF GovernedShapeHolds
  <1>6. ASSUME NEW res \in {"ok", "err", "governed", "free"}, asks' = Replied({cmd.by}, res),
               UNCHANGED <<waiters, unacked, link, shape>>
        PROVE  DriverInv'
    <2>1. Told({cmd.by}) /\ SettlingKept
      BY <1>2, <1>4, <1>6, RepliedTells
    <2>2. unacked \subseteq unacked \ {cmd.by}
      BY <1>5
    <2> HIDE DEF cmd
    <2>3. cmd = driver.cmd
      BY DEF cmd
    <2> QED
      BY <1>2, <1>3, <1>5, <1>6, <2>1, <2>2, <2>3, HandlerTells
  <1>7. CASE cmd.op \in {"ask", "send", "approve", "remove", "topology"}
    <2>1. \E res \in {"ok", "err", "governed", "free"} : asks' = Replied({cmd.by}, res)
      BY <1>7 DEF handle_command
    <2>2. UNCHANGED <<waiters, unacked, link, shape>>
      BY <1>7 DEF handle_command
    <2> QED
      BY <1>6, <2>1, <2>2
  <1>8. CASE cmd.op = "post"
    <2>1. SetShape /\ UNCHANGED <<asks, waiters, unacked, link>>
      BY <1>8 DEF handle_command
    <2>2. /\ shape' \in [governed : Nat, is : Nat, crossed : BOOLEAN]
          /\ GovernedShapeHolds'
      BY <1>1, <1>2, <2>1 DEF SetShape, GovernedShapeHolds
    <2>3. cmd.op \notin Operation
      BY <1>8 DEF Operation
    <2> QED
      BY <1>2, <1>3, <2>1, <2>2, <2>3, HandlerSilent
  <1>9. CASE cmd.op = "opens"
    <2>1. UNCHANGED <<unacked, shape>> /\ cmd.op \notin Operation
      BY <1>9 DEF handle_command, Operation
    <2>2. CASE link = "down"
      <3>1. link' = "active" /\ asks' = Replied(waiters, "ok") /\ waiters' = {}
        BY <1>9, <2>2 DEF handle_command
      <3>2. Told(waiters)
        BY <1>2, <1>4, <3>1, RepliedTells
      <3>3. unacked \subseteq unacked \ waiters
        BY Hand
      <3> QED
        BY <1>2, <1>3, <1>5, <2>1, <3>1, <3>2, <3>3, HandlerTells
    <2>3. CASE link # "down"
      <3>1. UNCHANGED <<link, asks, waiters>>
        BY <1>9, <2>3 DEF handle_command
      <3> QED
        BY <1>2, <1>3, <1>5, <2>1, <3>1, HandlerSilent
    <2> QED
      BY <2>2, <2>3
  <1>10. CASE cmd.op = "loses"
    <2>1. /\ link' = IF link = "active" THEN "down" ELSE link
          /\ UNCHANGED <<asks, waiters, unacked, shape>> /\ cmd.op \notin Operation
      BY <1>10 DEF handle_command, Operation
    <2> QED
      BY <1>2, <1>3, <1>5, <2>1, HandlerSilent
  <1>11. CASE cmd.op = "acks"
    <2>1. PICK done \in SUBSET unacked : asks' = Replied(done, "ok") /\ unacked' = unacked \ done
      BY <1>11 DEF handle_command
    <2>2. UNCHANGED <<waiters, link, shape>> /\ cmd.op \notin Operation
      BY <1>11 DEF handle_command, Operation
    <2>3. Told(done) /\ SettlingKept
      BY <1>2, <1>4, <2>1, RepliedTells
    <2> QED
      BY <1>2, <1>3, <1>5, <2>1, <2>2, <2>3, HandlerTells
  <1>12. CASE cmd.op = "ratifies"
    <2>1. /\ shape' = [governed |-> shape.governed + 1, is |-> shape.governed + 1, crossed |-> FALSE]
          /\ UNCHANGED <<asks, waiters, unacked, link>> /\ cmd.op \notin Operation
      BY <1>12 DEF handle_command, Operation
    <2>2. /\ shape' \in [governed : Nat, is : Nat, crossed : BOOLEAN]
          /\ GovernedShapeHolds'
      BY <1>2, <2>1 DEF GovernedShapeHolds
    <2> QED
      BY <1>2, <1>3, <2>1, <2>2, HandlerSilent
  <1>13. CASE cmd.op = "drop"
    <2>1. /\ asks' = Replied(waiters \cup unacked, "err")
          /\ waiters' = {} /\ unacked' = {} /\ shape' = shape
          /\ link' = IF link = "active" THEN "down" ELSE link
          /\ cmd.op \notin Operation
      BY <1>13 DEF handle_command, Operation
    <2>2. Told(waiters \cup unacked)
      BY <1>2, <1>4, <2>1, RepliedTells
    <2> QED
      BY <1>2, <1>3, <1>5, <2>1, <2>2, HandlerTells
  <1>14. CASE cmd.op = "reliable"
    <2>1. CASE asks' = Replied({cmd.by}, "err") /\ UNCHANGED unacked
      <3>1. UNCHANGED <<waiters, link, shape>>
        BY <1>14 DEF handle_command
      <3> QED
        BY <1>6, <2>1, <3>1
    <2>2. CASE unacked' = unacked \cup {cmd.by} /\ UNCHANGED asks
      <3>1. UNCHANGED <<waiters, link, shape>>
        BY <1>14 DEF handle_command
      <3> QED
        BY <1>2, <1>3, <1>14, <2>2, <3>1, Accepted
    <2> QED
      BY <1>14, <2>1, <2>2 DEF handle_command
  <1> QED
    BY <1>7, <1>8, <1>9, <1>10, <1>11, <1>12, <1>13, <1>14 DEF handle_command

-----------------------------------------------------------------------------
(* The other steps of the driver                                           *)

(* The driver takes a command in its hand.                                 *)
LEMMA TakesKeeps ==
    ASSUME DriverInv, Takes
    PROVE  DriverInv'
  <1> DEFINE cmd == Head(queue)
  <1>1. /\ DriverTypeOK /\ OnePlace /\ StillWaits /\ HandFits /\ EveryWaitHeld /\ WaitersServed
        /\ GovernedShapeHolds
    BY DEF DriverInv
  <1>2. /\ queue \in Seq(Command) /\ queue # <<>> /\ OncePosted(queue)
        /\ driver.at = "select" /\ driver.cmd = NoCmd
        /\ UNCHANGED <<asks, listed, waiters, unacked, link, shape, happened>>
    BY <1>1 DEF Takes, DriverTypeOK, OnePlace, HandFits
  <1>3. /\ queue' \in Seq(Command) /\ cmd \in Command
        /\ Posted(queue) = Posted(queue') \cup {cmd} /\ OncePosted(queue')
        /\ \A x \in Posted(queue') : x.by # 0 => x.by # cmd.by
    BY <1>2, TakeCommand DEF Takes
  <1>4. driver' = [driver EXCEPT !.at = IF cmd.op = "leave" THEN "closing" ELSE "handle", !.cmd = cmd]
    BY DEF Takes
  <1> HIDE DEF cmd
  <1>5. /\ driver' \in [at : {"select", "handle", "parks", "closing", "resolving", "failing",
                              "returning", "ended"},
                        cmd : Command, late : SUBSET Asker]
        /\ driver'.at = IF cmd.op = "leave" THEN "closing" ELSE "handle"
        /\ driver'.cmd = cmd /\ driver'.late = driver.late
    BY ZenonT(60), <1>1, <1>3, <1>4 DEF DriverTypeOK
  <1>6. DriverTypeOK'
    BY <1>1, <1>2, <1>3, <1>5 DEF DriverTypeOK
  <1>7. cmd.by # 0 => /\ asks[cmd.by].op = cmd.op
                      /\ asks[cmd.by].at \in {"sent", "done"} /\ cmd.by \notin unacked
    BY <1>1, <1>3 DEF DriverTypeOK, OnePlace
  <1>8. OnePlace'
    BY <1>1, <1>2, <1>3, <1>5, <1>7 DEF OnePlace
  <1>9. StillWaits'
    BY <1>1, <1>2, <1>3, <1>5 DEF StillWaits
  <1>10. HandFits'
    BY <1>5 DEF HandFits
  <1>11. EveryWaitHeld'
    <2> SUFFICES ASSUME NEW c \in Asker, asks[c].at = "sent"
                 PROVE  \/ \E m \in Posted(queue') : m.by = c
                        \/ driver'.cmd.by = c
                        \/ c \in waiters \cup unacked
      BY <1>2 DEF EveryWaitHeld
    <2>1. c # 0 /\ driver.cmd.by = 0
      BY <1>2, CallsAssumption DEF NoCmd
    <2> QED
      BY <1>1, <1>2, <1>3, <1>5, <2>1 DEF EveryWaitHeld
  <1>12. WaitersServed' /\ GovernedShapeHolds'
    BY <1>1, <1>2, <1>5 DEF WaitersServed, GovernedShapeHolds
  <1> QED
    BY <1>6, <1>8, <1>9, <1>10, <1>11, <1>12 DEF DriverInv

(* The driver goes on with the command in its hand.                        *)
LEMMA HandGoesOn ==
    ASSUME DriverTypeOK,
           NEW at \in {"select", "handle", "parks", "closing", "resolving", "failing",
                       "returning", "ended"},
           driver' = [driver EXCEPT !.at = at]
    PROVE  /\ driver' \in [at : {"select", "handle", "parks", "closing", "resolving", "failing",
                                 "returning", "ended"},
                           cmd : Command, late : SUBSET Asker]
           /\ driver'.at = at /\ driver'.cmd = driver.cmd /\ driver'.late = driver.late
  BY DEF DriverTypeOK

(* connect_peer looks at the link.                                         *)
LEMMA LooksKeeps ==
    ASSUME DriverInv, Looks
    PROVE  DriverInv'
  <1>1. DriverTypeOK /\ GovernedShapeHolds
    BY DEF DriverInv
  <1>2. /\ driver.at = "handle" /\ driver.cmd.op = "connect"
        /\ asks \in [Asker -> Call] /\ link \in {"none", "down", "active"}
        /\ listed \in BOOLEAN /\ happened \in 0..MaxHappens
        /\ shape \in [governed : Nat, is : Nat, crossed : BOOLEAN]
        /\ UNCHANGED <<listed, queue, waiters, unacked, link, shape, happened>>
    BY <1>1 DEF Looks, DriverTypeOK
  <1>3. GovernedShapeHolds' /\ Posts
    BY <1>1, <1>2 DEF GovernedShapeHolds, Posts
  <1>4. CASE link = "active"
    <2>1. asks' = Replied({driver.cmd.by}, "ok") /\ driver' = BackToLoop
      BY <1>4 DEF Looks
    <2>2. "ok" \in Answer
      BY DEF Answer
    <2>3. Told({driver.cmd.by}) /\ SettlingKept
      BY <1>2, <2>1, <2>2, RepliedTells
    <2>4. unacked \subseteq unacked \ {driver.cmd.by}
      BY Hand
    <2> QED
      BY <1>2, <1>3, <2>1, <2>3, <2>4, HandlerTells
  <1>5. CASE link # "active"
    <2>1. driver' = [driver EXCEPT !.at = "parks"] /\ asks' = asks
      BY <1>5 DEF Looks
    <2>2. Told({}) /\ SettlingKept
      BY <1>2, <2>1, NobodyTold
    <2>3. /\ driver' \in [at : {"select", "handle", "parks", "closing", "resolving", "failing",
                                 "returning", "ended"},
                           cmd : Command, late : SUBSET Asker]
          /\ driver'.at = "parks" /\ driver'.cmd = driver.cmd /\ driver'.late = driver.late
      BY <1>1, <2>1, HandGoesOn
    <2>4. HandFits'
      BY <1>2, <2>3 DEF HandFits
    <2>5. Entitled({})
      BY <2>3 DEF Entitled
    <2> QED
      BY <1>2, <1>3, <2>2, <2>3, <2>4, <2>5, TellsKeeps
  <1> QED
    BY <1>4, <1>5

(* connect_peer parks the reply.                                           *)
LEMMA ParksKeeps ==
    ASSUME DriverInv, Parks
    PROVE  DriverInv'
  <1> DEFINE c == driver.cmd.by
  <1>1. /\ DriverTypeOK /\ OnePlace /\ StillWaits /\ HandFits /\ EveryWaitHeld /\ WaitersServed
        /\ GovernedShapeHolds
    BY DEF DriverInv
  <1>2. /\ driver.at = "parks" /\ driver.cmd.op = "connect" /\ waiters' = waiters \cup {c}
        /\ UNCHANGED <<asks, listed, queue, unacked, link, shape, happened>>
    BY <1>1 DEF Parks, HandFits
  <1>3. c \in Asker /\ asks[c].op = "connect" /\ c # 0
    BY <1>2, Hand, CallsAssumption DEF Operation
  <1>4. NoCmd \in Command /\ NoCmd.by = 0 /\ NoCmd.op \notin Operation
    BY DEF NoCmd, Command, Operation
  <1>5. driver' = [BackToLoop EXCEPT !.late = IF link = "active" THEN @ \cup {c} ELSE @]
    BY DEF Parks
  <1> HIDE DEF c
  <1>6. /\ driver' \in [at : {"select", "handle", "parks", "closing", "resolving", "failing",
                                 "returning", "ended"},
                           cmd : Command, late : SUBSET Asker]
        /\ driver'.at = "select" /\ driver'.cmd = NoCmd
        /\ driver'.late = IF link = "active" THEN driver.late \cup {c} ELSE driver.late
    BY ZenonT(60), <1>1, <1>3, <1>4, <1>5 DEF DriverTypeOK, BackToLoop
  <1>7. DriverTypeOK'
    BY <1>1, <1>2, <1>3, <1>6 DEF DriverTypeOK
  <1>8. asks[c].at \in {"sent", "done"}
    BY <1>1, <1>3 DEF OnePlace, c
  <1>9. OnePlace'
    BY ZenonT(60), <1>1, <1>2, <1>4, <1>6, <1>8 DEF OnePlace
  <1>10. StillWaits' /\ GovernedShapeHolds' /\ HandFits'
    BY <1>1, <1>2, <1>4, <1>6 DEF StillWaits, GovernedShapeHolds, HandFits
  <1>11. EveryWaitHeld'
    BY <1>1, <1>2, <1>6 DEF EveryWaitHeld, c
  <1>12. WaitersServed'
    BY <1>1, <1>2, <1>6 DEF WaitersServed
  <1> QED
    BY <1>7, <1>9, <1>10, <1>11, <1>12 DEF DriverInv

(* The steps that end a network, the ticker, and what the transport and    *)
(* the callers do to a reply that is due.                                  *)
LEMMA EndingsKeep ==
    ASSUME DriverInv,
           \/ CloseAll \/ ResolveAll \/ FailAll \/ Expires
           \/ \E e \in {"opens", "loses", "acks", "ratifies"} : TransportEvent(e)
           \/ \E c \in Asker : \/ WaitTimesOut(c) \/ Settles(c)
                               \/ leave(c) /\ asks[c].at = "sent"
    PROVE  DriverInv'
  <1>1. DriverTypeOK /\ OnePlace /\ HandFits /\ GovernedShapeHolds
    BY DEF DriverInv
  <1>2. /\ asks \in [Asker -> Call] /\ link \in {"none", "down", "active"}
        /\ listed \in BOOLEAN /\ happened \in 0..MaxHappens
        /\ shape \in [governed : Nat, is : Nat, crossed : BOOLEAN]
        /\ driver \in [at : {"select", "handle", "parks", "closing", "resolving", "failing",
                             "returning", "ended"},
                       cmd : Command, late : SUBSET Asker]
    BY <1>1 DEF DriverTypeOK
  <1>3. shape' = shape => GovernedShapeHolds'
    BY <1>1 DEF GovernedShapeHolds
  <1>4. queue' = queue => Posts
    BY DEF Posts
  <1>5. "ok" \in Answer /\ "err" \in Answer
    BY DEF Answer
  <1>6. /\ \A c \in waiters : c \in Asker /\ asks[c].op = "connect" /\ c \notin unacked
        /\ \A c \in unacked : c \in Asker /\ asks[c].op = "reliable" /\ c # driver.cmd.by
    BY Hand
  <1>7. CASE CloseAll
    <2>1. /\ driver.at = "closing" /\ driver' = [driver EXCEPT !.at = "resolving"] /\ link' = "none"
          /\ UNCHANGED <<asks, listed, queue, waiters, unacked, shape, happened>>
      BY <1>7 DEF CloseAll
    <2>2. /\ driver' \in [at : {"select", "handle", "parks", "closing", "resolving", "failing",
                                "returning", "ended"},
                          cmd : Command, late : SUBSET Asker]
          /\ driver'.at = "resolving" /\ driver'.cmd = driver.cmd /\ driver'.late = driver.late
      BY <1>1, <2>1, HandGoesOn
    <2>3. HandFits'
      BY <1>1, <2>1, <2>2 DEF HandFits
    <2>4. Told({}) /\ Entitled({})
      BY <1>2, <2>1, <2>2, NobodyTold DEF Entitled
    <2> QED
      BY <1>2, <1>3, <1>4, <2>1, <2>2, <2>3, <2>4, TellsKeeps
  <1>8. CASE ResolveAll
    <2>1. /\ driver.at = "resolving" /\ driver' = [driver EXCEPT !.at = "failing"]
          /\ asks' = Replied(waiters, "err") /\ waiters' = {}
          /\ UNCHANGED <<listed, queue, unacked, link, shape, happened>>
      BY <1>8 DEF ResolveAll
    <2>2. /\ driver' \in [at : {"select", "handle", "parks", "closing", "resolving", "failing",
                                "returning", "ended"},
                          cmd : Command, late : SUBSET Asker]
          /\ driver'.at = "failing" /\ driver'.cmd = driver.cmd /\ driver'.late = driver.late
      BY <1>1, <2>1, HandGoesOn
    <2>3. HandFits'
      BY <1>1, <2>1, <2>2 DEF HandFits
    <2>4. Told(waiters)
      BY <1>2, <1>5, <2>1, RepliedTells
    <2>5. /\ Entitled(waiters)
          /\ waiters' \subseteq waiters /\ waiters \subseteq waiters' \cup waiters
          /\ unacked' \subseteq unacked \ waiters /\ unacked \subseteq unacked' \cup waiters
      BY <1>6, <2>1, <2>2 DEF Entitled
    <2> QED
      BY <1>2, <1>3, <1>4, <2>1, <2>2, <2>3, <2>4, <2>5, TellsKeeps
  <1>9. CASE FailAll
    <2>1. /\ driver.at = "failing" /\ driver' = [driver EXCEPT !.at = "returning"]
          /\ asks' = Replied(unacked, "err") /\ unacked' = {} /\ waiters = {}
          /\ UNCHANGED <<listed, queue, waiters, link, shape, happened>>
      BY <1>1, <1>9 DEF FailAll, HandFits
    <2>2. /\ driver' \in [at : {"select", "handle", "parks", "closing", "resolving", "failing",
                                "returning", "ended"},
                          cmd : Command, late : SUBSET Asker]
          /\ driver'.at = "returning" /\ driver'.cmd = driver.cmd /\ driver'.late = driver.late
      BY <1>1, <2>1, HandGoesOn
    <2>3. HandFits'
      BY <1>1, <2>1, <2>2 DEF HandFits
    <2>4. Told(unacked)
      BY <1>2, <1>5, <2>1, RepliedTells
    <2>5. /\ Entitled(unacked)
          /\ waiters' \subseteq waiters /\ waiters \subseteq waiters' \cup unacked
          /\ unacked' \subseteq unacked \ unacked /\ unacked \subseteq unacked' \cup unacked
      BY <2>1, <2>2 DEF Entitled
    <2> QED
      BY <1>2, <1>3, <1>4, <2>1, <2>2, <2>3, <2>4, <2>5, TellsKeeps
  <1>10. CASE Expires
    <2>1. /\ driver.at = "select"
          /\ UNCHANGED <<listed, queue, driver, waiters, link, shape, happened>>
      BY <1>10 DEF Expires
    <2>2. PICK late \in SUBSET unacked : asks' = Replied(late, "err") /\ unacked' = unacked \ late
      BY <1>10 DEF Expires
    <2>3. HandFits'
      BY <1>1, <2>1 DEF HandFits
    <2>4. Told(late) /\ SettlingKept
      BY <1>2, <1>5, <2>2, RepliedTells
    <2>5. /\ Entitled(late)
          /\ waiters' \subseteq waiters /\ waiters \subseteq waiters' \cup late
          /\ unacked' \subseteq unacked \ late /\ unacked \subseteq unacked' \cup late
      BY <2>1, <2>2 DEF Entitled
    <2> QED
      BY <1>2, <1>3, <1>4, <2>1, <2>3, <2>4, <2>5, TellsKeeps
  <1>11. ASSUME NEW e \in {"opens", "loses", "acks", "ratifies"}, TransportEvent(e)
         PROVE  DriverInv'
    <2>1. /\ driver.at # "ended" /\ queue' = Append(queue, [op |-> e, by |-> 0])
          /\ happened < MaxHappens /\ happened' = happened + 1
          /\ UNCHANGED <<asks, listed, driver, waiters, unacked, link, shape>>
      BY <1>11 DEF TransportEvent
    <2>2. [op |-> e, by |-> 0] \in Command /\ e \notin Operation
      BY DEF Command, Operation
    <2>3. Posts
      BY <2>1, <2>2 DEF Posts
    <2>4. HandFits'
      BY <1>1, <2>1 DEF HandFits
    <2>5. Told({}) /\ SettlingKept /\ Entitled({})
      BY <1>2, <2>1, NobodyTold DEF Entitled
    <2>6. happened' \in 0..MaxHappens
      BY <1>2, <2>1, CallsAssumption
    <2> QED
      BY <1>2, <1>3, <2>1, <2>3, <2>4, <2>5, <2>6, TellsKeeps
  <1>12. ASSUME NEW c \in Asker, WaitTimesOut(c) \/ (leave(c) /\ asks[c].at = "sent")
         PROVE  DriverInv'
    <2>1. /\ UNCHANGED <<listed, queue, driver, waiters, unacked, link, shape, happened>>
          /\ asks[c].op = "connect" \/ (asks[c].op = "leave" /\ driver.at = "ended")
      BY <1>12 DEF WaitTimesOut, leave, Queues
    <2>2. PICK res \in Answer : asks' = [asks EXCEPT ![c].at = "done", ![c].res = res]
      BY <1>12 DEF WaitTimesOut, leave, Queues, Answer
    <2>3. Told({c}) /\ SettlingKept
      <3>1. asks' \in [Asker -> Call] /\ asks[c].at = "sent"
        BY <1>2, <1>12, <2>2 DEF Call, WaitTimesOut
      <3>2. /\ asks'[c].op = asks[c].op /\ asks'[c].at = "done"
            /\ \A d \in Asker : d # c => asks'[d] = asks[d]
        BY <1>2, <2>2 DEF Call
      <3> QED
        BY <3>1, <3>2 DEF Told, SettlingKept
    <2>4. HandFits'
      BY ZenonT(60), <1>1, <2>1 DEF HandFits
    <2>5. /\ Entitled({c})
          /\ waiters' \subseteq waiters /\ waiters \subseteq waiters' \cup {c}
          /\ unacked' \subseteq unacked \ {c} /\ unacked \subseteq unacked' \cup {c}
      BY <1>6, <2>1 DEF Entitled
    <2> QED
      BY <1>2, <1>3, <1>4, <2>1, <2>3, <2>4, <2>5, TellsKeeps
  <1>13. ASSUME NEW c \in Asker, Settles(c) PROVE DriverInv'
    <2>1. /\ asks[c].at = "settles" /\ waiters' = {}
          /\ UNCHANGED <<listed, queue, driver, unacked, link, shape, happened>>
      BY <1>13 DEF Settles
    <2>2. asks' = [Replied(waiters, "ok") EXCEPT ![c].at = "done"]
      BY <1>13 DEF Settles
    <2>3. Told(waiters)
      <3>1. asks' \in [Asker -> Call]
        <4>1. Replied(waiters, "ok") \in [Asker -> Call]
          BY ZenonT(60), <1>2, <1>5 DEF Replied, Call
        <4> HIDE DEF Replied
        <4>2. \A x \in Call : [x EXCEPT !.at = "done"] \in Call
          BY DEF Call
        <4> QED
          BY <2>2, <4>1, <4>2
      <3>2. asks'[c].op = asks[c].op /\ asks'[c].at = "done"
        BY ZenonT(60), <1>2, <2>2 DEF Replied, Call
      <3>3. ASSUME NEW d \in Asker, d # c
            PROVE  /\ asks'[d].op = asks[d].op
                   /\ asks'[d].at = "sent" <=> asks[d].at = "sent" /\ d \notin waiters
                   /\ asks[d].at \in {"sent", "done"} /\ (d \notin waiters \/ asks[d].op \notin Tailed)
                        => asks'[d].at \in {"sent", "done"}
        BY ZenonT(60), <1>2, <2>2, <3>3 DEF Replied, Call, Tailed
      <3> QED
        BY <2>1, <3>1, <3>2, <3>3 DEF Told
    <2>4. HandFits'
      BY <1>1, <2>1 DEF HandFits
    <2>5. /\ Entitled(waiters)
          /\ waiters' \subseteq waiters /\ waiters \subseteq waiters' \cup waiters
          /\ unacked' \subseteq unacked \ waiters /\ unacked \subseteq unacked' \cup waiters
      BY <1>6, <2>1 DEF Entitled
    <2> QED
      BY <1>2, <1>3, <1>4, <2>1, <2>3, <2>4, <2>5, TellsKeeps
  <1> QED
    BY <1>7, <1>8, <1>9, <1>10, <1>11, <1>12, <1>13

(* run_driver returns, and the replies of what is queued are dropped.      *)
LEMMA ReturnsKeeps ==
    ASSUME DriverInv, Returns
    PROVE  DriverInv'
  <1> DEFINE who == {m.by : m \in Posted(queue)}
  <1>1. DriverTypeOK /\ OnePlace /\ HandFits /\ EveryWaitHeld /\ GovernedShapeHolds
    BY DEF DriverInv
  <1>2. /\ driver.at = "returning" /\ driver.cmd.op = "leave" /\ waiters = {} /\ unacked = {}
        /\ asks' = Replied(who, "dropped") /\ queue' = <<>>
        /\ UNCHANGED <<listed, waiters, unacked, link, shape, happened>>
    BY <1>1 DEF Returns, HandFits
  <1>3. \A m \in Posted(queue) : m.by \in who
    OBVIOUS
  <1> HIDE DEF who
  <1>4. asks \in [Asker -> Call] /\ "dropped" \in Answer
    BY <1>1 DEF DriverTypeOK, Answer
  <1>5. Told(who)
    BY <1>2, <1>4, RepliedTells
  <1>6. NoCmd \in Command /\ NoCmd.by = 0 /\ NoCmd.op \notin Operation
    BY DEF NoCmd, Command, Operation
  <1>7. /\ driver' \in [at : {"select", "handle", "parks", "closing", "resolving", "failing",
                              "returning", "ended"},
                        cmd : Command, late : SUBSET Asker]
        /\ driver'.at = "ended" /\ driver'.cmd = NoCmd
    BY ZenonT(60), <1>1, <1>6 DEF DriverTypeOK, Returns, BackToLoop
  <1>8. queue' \in Seq(Command) /\ Posted(queue') = {} /\ OncePosted(queue')
    BY <1>2, NoCommand
  <1>9. DriverTypeOK'
    BY <1>1, <1>2, <1>5, <1>7, <1>8 DEF DriverTypeOK, Told
  <1>10. OnePlace' /\ StillWaits' /\ HandFits' /\ GovernedShapeHolds' /\ WaitersServed'
    BY ZenonT(60), <1>1, <1>2, <1>6, <1>7, <1>8
       DEF OnePlace, StillWaits, HandFits, GovernedShapeHolds, WaitersServed
  <1>11. EveryWaitHeld'
    <2> SUFFICES ASSUME NEW c \in Asker, asks'[c].at = "sent"
                 PROVE  asks'[c].op = "leave" /\ driver'.at = "ended"
      BY DEF EveryWaitHeld
    <2>1. asks[c].at = "sent" /\ c \notin who /\ asks'[c].op = asks[c].op
      BY <1>5 DEF Told
    <2>2. driver.cmd.by = c
      BY ZenonT(60), <1>1, <1>2, <1>3, <2>1 DEF EveryWaitHeld
    <2>3. asks[c].op = "leave"
      BY ZenonT(60), <1>2, <2>2, Hand DEF Operation
    <2> QED
      BY <1>7, <2>1, <2>3
  <1> QED
    BY <1>9, <1>10, <1>11 DEF DriverInv

-----------------------------------------------------------------------------
(* The theorems                                                            *)

(* The invariant holds of a network just joined.                           *)
LEMMA InitHasInv ==
    ASSUME DriverInit
    PROVE  DriverInv
  <1>1. PICK s \in Calls :
           asks = [c \in Asker |-> [op |-> s[c], at |-> "idle", res |-> "none", saw |-> 0]]
    BY DEF DriverInit
  <1>2. /\ queue = <<>> /\ waiters = {} /\ unacked = {} /\ listed = TRUE /\ link = "down"
        /\ driver = [at |-> "select", cmd |-> NoCmd, late |-> {}]
        /\ shape = [governed |-> 0, is |-> 0, crossed |-> FALSE] /\ happened = 0
    BY DEF DriverInit
  <1>3. s \in [Asker -> Operation]
    BY CallsAssumption
  <1>4. "none" \in Answer
    BY DEF Answer
  <1>5. asks \in [Asker -> Call] /\ \A c \in Asker : asks[c].at = "idle"
    BY <1>1, <1>3, <1>4 DEF Call
  <1>6. NoCmd \in Command /\ NoCmd.by = 0 /\ NoCmd.op \notin Operation
    BY DEF NoCmd, Command, Operation
  <1>7. queue \in Seq(Command) /\ Posted(queue) = {} /\ OncePosted(queue)
    BY <1>2, NoCommand
  <1>8. DriverTypeOK
    BY <1>2, <1>5, <1>6, <1>7, CallsAssumption DEF DriverTypeOK
  <1>9. OnePlace /\ StillWaits /\ HandFits
    BY <1>2, <1>6, <1>7 DEF OnePlace, StillWaits, HandFits
  <1>10. EveryWaitHeld /\ WaitersServed /\ GovernedShapeHolds
    BY <1>2, <1>5 DEF EveryWaitHeld, WaitersServed, GovernedShapeHolds
  <1> QED
    BY <1>8, <1>9, <1>10 DEF DriverInv

(* Every step of a call keeps the invariant.                               *)
LEMMA CallStepKeeps ==
    ASSUME DriverInv, NEW c \in Asker, CallStep(c)
    PROVE  DriverInv'
  <1>1. CASE Queues(c)
    BY <1>1, QueuesKeeps
  <1>2. CASE Finds(c) \/ FindsNone(c) \/ Removes(c) \/ Approves(c) \/ apply_hot(c)
    BY <1>2, CallerStepsKeep
  <1>3. CASE asks[c].at = "tail" /\ (roster_remove(c) \/ set_topology(c))
    BY <1>3, CallerStepsKeep
  <1>4. CASE WaitTimesOut(c) \/ Settles(c) \/ (leave(c) /\ asks[c].at = "sent")
    BY <1>4, EndingsKeep
  <1> QED
    BY <1>1, <1>2, <1>3, <1>4
       DEF CallStep, ask, send_channel_frame, set_topology, send_channel_reliable,
           connect_peer_wait, roster_approve, roster_remove, leave

(* Every step keeps the invariant.                                         *)
LEMMA NextKeepsInv ==
    ASSUME DriverInv, [DriverNext]_driverVars
    PROVE  DriverInv'
  <1>1. CASE UNCHANGED driverVars
    <2>1. UNCHANGED <<asks, listed, queue, driver, waiters, unacked, link, shape, happened>>
      BY <1>1 DEF driverVars
    <2>2. DriverTypeOK'
      BY <2>1 DEF DriverInv, DriverTypeOK
    <2>3. OnePlace' /\ StillWaits'
      BY <2>1 DEF DriverInv, OnePlace, StillWaits
    <2>4. HandFits' /\ EveryWaitHeld' /\ WaitersServed' /\ GovernedShapeHolds'
      BY <2>1 DEF DriverInv, HandFits, EveryWaitHeld, WaitersServed, GovernedShapeHolds
    <2> QED
      BY <2>2, <2>3, <2>4 DEF DriverInv
  <1>2. CASE DriverStep
    BY <1>2, TakesKeeps, HandleKeeps, LooksKeeps, ParksKeeps, EndingsKeep, ReturnsKeeps
       DEF DriverStep
  <1>3. CASE Expires \/ \E e \in {"opens", "loses", "acks", "ratifies"} : TransportEvent(e)
    BY <1>3, EndingsKeep
  <1>4. CASE \E c \in Asker : CallStep(c)
    BY <1>4, CallStepKeeps
  <1> QED
    BY <1>1, <1>2, <1>3, <1>4 DEF DriverNext

(* The driver keeps its invariant.                                         *)
LEMMA DriverKeepsInv == DriverSpec => []DriverInv
  <1>1. DriverInit => DriverInv
    BY InitHasInv
  <1>2. DriverInv /\ [DriverNext]_driverVars => DriverInv'
    BY NextKeepsInv
  <1> QED
    BY <1>1, <1>2, PTL DEF DriverSpec

(* Whoever called, whatever they called and whenever the network is left:  *)
(* a caller of JoinedNetwork or of a Channel that waits for a reply has it *)
(* in the queue, in the hand of run_driver, among the connect waits or in  *)
(* the outbox; no wait is left parked on an ACTIVE link unless it was      *)
(* parked while another task brought the link up; and when run_driver has  *)
(* returned nobody waits for it but the leave that sees it return.         *)
THEOREM NoCallIsForgotten == DriverSpec => []NoCallForgotten
  <1>1. DriverInv => NoCallForgotten
    <2> SUFFICES ASSUME DriverInv PROVE NoCallForgotten
      OBVIOUS
    <2>1. /\ DriverTypeOK /\ OnePlace /\ HandFits /\ EveryWaitHeld /\ WaitersServed
      BY DEF DriverInv
    <2>2. ASSUME driver.at = "ended", NEW c \in Asker, asks[c].at = "sent"
          PROVE  asks[c].op = "leave"
      <3>1. /\ waiters = {} /\ unacked = {} /\ Posted(queue) = {} /\ driver.cmd.by = 0 /\ c # 0
        BY <2>1, <2>2, NoCommand, CallsAssumption DEF HandFits, NoCmd
      <3> QED
        BY <2>1, <2>2, <3>1 DEF EveryWaitHeld
    <2>3. NothingOutlives
      BY <2>1, <2>2 DEF NothingOutlives, HandFits
    <2> QED
      BY <2>1, <2>3 DEF NoCallForgotten
  <1> QED
    BY <1>1, DriverKeepsInv, PTL

(* However a TopologySet, a NetworkUpdate and the ratification of a        *)
(* TopologyChange interleave, the shape in force is that of the latest     *)
(* ratified TopologyChange, unless an apply_hot crossed the ratification.  *)
THEOREM GovernedShapeInForce == DriverSpec => []GovernedShapeHolds
  <1>1. DriverInv => GovernedShapeHolds
    BY DEF DriverInv
  <1> QED
    BY <1>1, DriverKeepsInv, PTL
=============================================================================
