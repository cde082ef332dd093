------------------------------ MODULE Reliable ------------------------------
(***************************************************************************)
(* Acknowledged channel delivery from one member to one peer               *)
(* (crates/myownmesh-core/src/engine/reliable.rs): the sender's outbox and *)
(* its flush, the receiver's high-water mark, the cumulative ack, and what *)
(* a session rebuild, a terminal drop and the expiry tick do to them.      *)
(*                                                                         *)
(* A message is named by the number of the call that submitted it.  The    *)
(* sender's driver handles one event at a time; a flush takes a batch      *)
(* under the lock and then sends frame by frame, each send an await, so a  *)
(* flush is a sequence of steps during which the driver does nothing else. *)
(* Other tasks may drop the peer meanwhile (the announce probe, the wake   *)
(* probe, the handshake watchdog, the deny janitor), and the caller of     *)
(* roster_approve runs the flush of the ACTIVE transition itself.          *)
(***************************************************************************)
EXTENDS Integers, Sequences, FiniteSets

CONSTANTS
    MaxMsgs,      \* bound: calls of send_reliable
    Cap,          \* OUTBOX_CAP
    MaxLinks,     \* bound: sessions explored
    MaxFaults,    \* bound: sends that fail on an open channel
    AckLoss,      \* whether an ack may be among them
    MaxRestarts,  \* bound: process restarts, of either end
    Modes,        \* whether the peer advertises RELIABLE_CHANNELS, per session
    OffDriver,    \* whether tasks beside the driver drop the peer or flush
    GateLag,      \* whether the sender may be ACTIVE before the peer is
    Expiry        \* whether entries may reach the end of their TTL

ASSUME ReliableBounds ==
    /\ MaxMsgs \in Nat
    /\ Cap \in Nat \ {0}
    /\ MaxLinks \in Nat
    /\ MaxFaults \in Nat
    /\ MaxRestarts \in Nat
ASSUME ReliableSwitches ==
    /\ Modes \subseteq BOOLEAN
    /\ AckLoss \in BOOLEAN
    /\ OffDriver \in BOOLEAN
    /\ GateLag \in BOOLEAN
    /\ Expiry \in BOOLEAN

Msg == 1..MaxMsgs
Task == {"driver", "caller"}

(* Pending, without the channel name and the payload.  An outbox is pushed *)
(* in the order of its numbers, so its VecDeque is a set of entries here.  *)
Entry == [msg : Msg, seq : Nat, sent : BOOLEAN]

(* MeshMessage::ChannelSeq, ChannelAck, and a plain Channel (stream 0).    *)
SeqFrame == [stream : Nat, seq : Nat, msg : Msg]
AckFrame == [stream : Nat, upTo : Nat]

(* A running flush_peer: the stream and the batch it copied, and whether   *)
(* it is about to send or about to record a send that succeeded.           *)
Flush == [pc : {"idle", "sending", "marking"}, acked : BOOLEAN, stream : Nat,
          batch : SUBSET [msg : Msg, seq : Nat]]

Outcome == {"none", "waiting", "ok", "err", "lost"}

VARIABLES
    calls,       \* messages submitted so far
    outcome,     \* what the caller of each message has been told
    stream,      \* Outbox.stream, 0 if the peer has no outbox
    minted,      \* stream ids drawn so far; they never repeat
    nextSeq,     \* Outbox.next_seq
    entries,     \* Outbox.entries
    flush,       \* flush[t]: the flush_peer running on task t
    sess,        \* the sender's ACTIVE session, 0 if none
    acks,        \* the peer speaks the acked contract on this session
    closing,     \* a drop by another task: between its first and last step
    rsess,       \* the receiver's session, 0 if none
    admits,      \* the receiver's admission gate is open
    mark,        \* InboundMark
    data,        \* frames in flight to the receiver
    back,        \* acks in flight to the sender
    links, faults, restarts,
    delivered,   \* what the receiving process handed to its application
    reached      \* history: messages handed to the application at any time

outbox == <<stream, minted, nextSeq, entries>>
sender == <<calls, outcome, outbox, flush, sess, acks, closing>>
receiver == <<rsess, admits, mark, delivered, reached>>
bounds == <<links, faults, restarts>>
vars == <<calls, outcome, stream, minted, nextSeq, entries, flush, sess, acks,
          closing, rsess, admits, mark, data, back, links, faults, restarts,
          delivered, reached>>

NoFlush == [pc |-> "idle", acked |-> TRUE, stream |-> 0, batch |-> {}]

TypeOK ==
    /\ calls \in 0..MaxMsgs
    /\ outcome \in [Msg -> Outcome]
    /\ stream \in Nat
    /\ minted \in Nat
    /\ nextSeq \in Nat
    /\ entries \in SUBSET Entry
    /\ IsFiniteSet(entries) /\ Cardinality(entries) <= Cap
    /\ flush \in [Task -> Flush]
    /\ sess \in 0..MaxLinks
    /\ acks \in BOOLEAN
    /\ closing \in {"no", "recoverable", "terminal"}
    /\ rsess \in 0..MaxLinks
    /\ admits \in BOOLEAN
    /\ mark \in [stream : Nat, last : Nat]
    /\ data \in Seq(SeqFrame)
    /\ back \in Seq(AckFrame)
    /\ links \in 0..MaxLinks
    /\ faults \in 0..MaxFaults
    /\ restarts \in 0..MaxRestarts
    /\ delivered \in Seq(Msg)
    /\ reached \subseteq Msg

Init ==
    /\ calls = 0
    /\ outcome = [m \in Msg |-> "none"]
    /\ stream = 0
    /\ minted = 0
    /\ nextSeq = 0
    /\ entries = {}
    /\ flush = [t \in Task |-> NoFlush]
    /\ sess = 0
    /\ acks = TRUE
    /\ closing = "no"
    /\ rsess = 0
    /\ admits = FALSE
    /\ mark = [stream |-> 0, last |-> 0]
    /\ data = <<>>
    /\ back = <<>>
    /\ links = 0
    /\ faults = 0
    /\ restarts = 0
    /\ delivered = <<>>
    /\ reached = {}
-----------------------------------------------------------------------------
DriverIdle == flush["driver"].pc = "idle"

(* The wait of every message in M is resolved.                             *)
Resolve(M, result) ==
    [m \in Msg |-> IF m \in M /\ outcome[m] = "waiting" THEN result ELSE outcome[m]]

Messages(es) == {e.msg : e \in es}

(* flush_peer up to its first await, on task t, with the outbox as given:  *)
(* nothing unless the link is up, the batch is what is not marked sent.    *)
BeginFlush(t, up, mode, s, es) ==
    LET unsent == {e \in es : ~e.sent}
    IN  [flush EXCEPT ![t] =
            IF up # 0 /\ unsent # {}
            THEN [pc |-> "sending", acked |-> mode, stream |-> s,
                  batch |-> {[msg |-> e.msg, seq |-> e.seq] : e \in unsent}]
            ELSE NoFlush]

(* The batch is sent in order: f is the first of what is left of it.       *)
First(t, f) == f \in flush[t].batch /\ \A g \in flush[t].batch : f.seq <= g.seq

(* The frame that flush t sends for f.                                     *)
FrameOf(t, f) ==
    [stream |-> IF flush[t].acked THEN flush[t].stream ELSE 0, seq |-> f.seq, msg |-> f.msg]

(* send_to_peer on the session the sender has at that moment: the frame    *)
(* arrives if the receiver still is on that session.                       *)
Transmit(f) == data' = IF rsess = sess THEN Append(data, f) ELSE data

AllUnsentMutant(es) == es

(* mark_unsent: nothing of the old session counts as sent.                 *)
AllUnsent(es) == {[e EXCEPT !.sent = FALSE] : e \in es}
-----------------------------------------------------------------------------
(* The sender.                                                             *)

FullMutant == Cardinality(entries) > Cap

(* The outbox holds OUTBOX_CAP entries.                                    *)
Full == Cardinality(entries) >= Cap

(* enqueue: refused at the cap, else queued under the next number of the   *)
(* outbox (a new outbox draws a new stream), then flushed.                 *)
Enqueue ==
    /\ calls < MaxMsgs
    /\ DriverIdle
    /\ calls' = calls + 1
    /\ IF Full
       THEN /\ outcome' = [outcome EXCEPT ![calls + 1] = "err"]
            /\ UNCHANGED <<outbox, flush>>
       ELSE LET s == IF stream = 0 THEN minted + 1 ELSE stream
                n == IF stream = 0 THEN 1 ELSE nextSeq + 1
                es == entries \cup {[msg |-> calls + 1, seq |-> n, sent |-> FALSE]}
            IN  /\ outcome' = [outcome EXCEPT ![calls + 1] = "waiting"]
                /\ stream' = s
                /\ minted' = IF stream = 0 THEN minted + 1 ELSE minted
                /\ nextSeq' = n
                /\ entries' = es
                /\ flush' = BeginFlush("driver", sess, acks, s, es)
    /\ UNCHANGED <<sess, acks, closing, receiver, data, back, bounds>>

(* flush_peer, one frame: the send succeeds ...                            *)
FlushSend(t) ==
    /\ flush[t].pc = "sending"
    /\ sess # 0
    /\ \E f \in flush[t].batch : First(t, f) /\ Transmit(FrameOf(t, f))
    /\ flush' = [flush EXCEPT ![t].pc = "marking"]
    /\ UNCHANGED <<calls, outcome, outbox, sess, acks, closing, receiver, back, bounds>>

(* ... or fails: there is no session, or the send times out, in which case *)
(* the frame may have left all the same.  The flush stops.                 *)
FlushErr(t) ==
    /\ flush[t].pc = "sending"
    /\ \/ sess = 0 /\ UNCHANGED <<data, faults>>
       \/ /\ sess # 0
          /\ faults < MaxFaults
          /\ faults' = faults + 1
          /\ \/ UNCHANGED data
             \/ \E f \in flush[t].batch : First(t, f) /\ Transmit(FrameOf(t, f))
    /\ flush' = [flush EXCEPT ![t] = NoFlush]
    /\ UNCHANGED <<calls, outcome, outbox, sess, acks, closing, receiver, back,
                   links, restarts>>

MarkSent(es, n) == {[e EXCEPT !.sent = @ \/ e.seq = n] : e \in es}

(* flush_peer, after a send that succeeded: the entry of that number is    *)
(* marked sent (an acked peer) or resolved (any other peer).  The outbox   *)
(* is looked up again; if it is gone the flush ends.                       *)
FlushMark(t) ==
    /\ flush[t].pc = "marking"
    /\ \E f \in flush[t].batch :
          /\ First(t, f)
          /\ IF flush[t].acked
             THEN /\ entries' = MarkSent(entries, f.seq)
                  /\ UNCHANGED outcome
             ELSE /\ entries' = {e \in entries : e.seq # f.seq}
                  /\ outcome' = Resolve(Messages({e \in entries : e.seq = f.seq}), "ok")
          /\ flush' = [flush EXCEPT ![t] =
                         IF stream = 0 \/ flush[t].batch = {f}
                         THEN NoFlush
                         ELSE [flush[t] EXCEPT !.pc = "sending",
                                               !.batch = flush[t].batch \ {f}]]
    /\ UNCHANGED <<calls, stream, minted, nextSeq, sess, acks, closing, receiver,
                   data, back, bounds>>

(* on_channel_ack: the entries up to the acked number are resolved; an     *)
(* empty outbox is removed, and with it its stream.                        *)
OnChannelAck ==
    /\ DriverIdle
    /\ sess # 0
    /\ back # <<>>
    /\ back' = Tail(back)
    /\ IF stream # 0 /\ Head(back).stream = stream
       THEN LET left == {e \in entries : e.seq > Head(back).upTo}
            IN  /\ outcome' = Resolve(Messages(entries) \ Messages(left), "ok")
                /\ entries' = left
                /\ stream' = IF left = {} THEN 0 ELSE stream
       ELSE UNCHANGED <<outcome, entries, stream>>
    /\ UNCHANGED <<calls, minted, nextSeq, flush, sess, acks, closing, receiver,
                   data, bounds>>

(* What has been sent is left to its ack.                                  *)
LapsableMutant == Messages({e \in entries : ~e.sent})

(* Any entry may lapse, sent or not: the caller chooses the TTL.           *)
Lapsable == Messages(entries)

(* tick: the lapsed entries, whichever they are, are resolved with an      *)
(* error; an empty outbox is removed, what is unsent is flushed.           *)
Tick(lapsed) ==
    /\ DriverIdle
    /\ lapsed \subseteq Lapsable
    /\ lapsed # {} => Expiry
    /\ LET left == {e \in entries : e.msg \notin lapsed}
           s == IF left = {} THEN 0 ELSE stream
       IN  /\ outcome' = Resolve(lapsed, "err")
           /\ entries' = left
           /\ stream' = s
           /\ flush' = BeginFlush("driver", sess, acks, s, left)
    /\ UNCHANGED <<calls, minted, nextSeq, sess, acks, closing, receiver, data, back,
                   bounds>>
-----------------------------------------------------------------------------
(* Sessions.                                                               *)

(* mark_unsent, or fail_peer.                                              *)
Settle(kind) ==
    IF kind = "recoverable"
    THEN /\ entries' = AllUnsent(entries)
         /\ UNCHANGED <<outcome, stream>>
    ELSE /\ outcome' = Resolve(Messages(entries), "err")
         /\ entries' = {}
         /\ stream' = 0

(* Both ends hold a new session that is ACTIVE at the sender; the flush of *)
(* that transition runs on the task that completed it.                     *)
LinkUp ==
    /\ links < MaxLinks
    /\ sess = 0 /\ rsess = 0
    /\ closing = "no"
    /\ links' = links + 1
    /\ sess' = links + 1
    /\ rsess' = links + 1
    /\ acks' \in Modes
    /\ admits' \in {TRUE, ~GateLag}
    /\ \E t \in Task :
          /\ t = "caller" => OffDriver
          /\ flush[t].pc = "idle"
          /\ flush' = BeginFlush(t, sess', acks', stream, entries)
    /\ UNCHANGED <<calls, outcome, outbox, closing, mark, delivered, reached, data,
                   back, faults, restarts>>

(* drop_peer_inner on the driver, for a recoverable or a terminal reason.  *)
Drop(kind) ==
    /\ DriverIdle
    /\ sess # 0
    /\ sess' = 0
    /\ back' = <<>>
    /\ Settle(kind)
    /\ UNCHANGED <<calls, minted, nextSeq, flush, acks, closing, receiver, data, bounds>>

(* drop_peer_inner on another task: the entry leaves `peers` first, and    *)
(* while the session closes ...                                            *)
TaskDrops(kind) ==
    /\ OffDriver
    /\ sess # 0
    /\ closing = "no"
    /\ sess' = 0
    /\ back' = <<>>
    /\ closing' = kind
    /\ UNCHANGED <<calls, outcome, outbox, flush, acks, receiver, data, bounds>>

(* ... no replacement opens.  The outbox is settled at the end.            *)
TaskDropped ==
    /\ closing # "no"
    /\ closing' = "no"
    /\ Settle(closing)
    /\ UNCHANGED <<calls, minted, nextSeq, flush, sess, acks, receiver, data, back, bounds>>

(* The receiver's end of the session closes.                               *)
ReceiverDrops ==
    /\ rsess # 0
    /\ rsess' = 0
    /\ admits' = FALSE
    /\ data' = <<>>
    /\ UNCHANGED <<sender, mark, delivered, reached, back, bounds>>

(* The receiver completes its side of the handshake.                       *)
ReceiverAdmits ==
    /\ rsess # 0
    /\ ~admits
    /\ admits' = TRUE
    /\ UNCHANGED <<sender, rsess, mark, delivered, reached, data, back, bounds>>

(* The sending process ends and starts again: nothing of the outbox is     *)
(* persisted, and the callers are gone with it.                            *)
SenderRestarts ==
    /\ restarts < MaxRestarts
    /\ restarts' = restarts + 1
    /\ outcome' = Resolve(Msg, "lost")
    /\ stream' = 0
    /\ entries' = {}
    /\ flush' = [t \in Task |-> NoFlush]
    /\ sess' = 0
    /\ closing' = "no"
    /\ back' = <<>>
    /\ UNCHANGED <<calls, minted, nextSeq, acks, receiver, data, links, faults>>

(* So does the receiving process, with its application.                    *)
ReceiverRestarts ==
    /\ restarts < MaxRestarts
    /\ restarts' = restarts + 1
    /\ rsess' = 0
    /\ admits' = FALSE
    /\ mark' = [stream |-> 0, last |-> 0]
    /\ delivered' = <<>>
    /\ data' = <<>>
    /\ UNCHANGED <<sender, reached, back, links, faults>>
-----------------------------------------------------------------------------
(* The receiver.                                                           *)

Accept(m) ==
    /\ delivered' = Append(delivered, m)
    /\ reached' = reached \cup {m}

(* handle_inbound_frame drops a frame of a peer that is not admitted.      *)
GateRefuses ==
    /\ data # <<>>
    /\ ~admits
    /\ data' = Tail(data)
    /\ UNCHANGED <<sender, receiver, back, bounds>>

(* A plain channel frame is handed on as it is.                            *)
OnChannelFrame ==
    /\ data # <<>>
    /\ admits
    /\ Head(data).stream = 0
    /\ data' = Tail(data)
    /\ Accept(Head(data).msg)
    /\ UNCHANGED <<sender, rsess, admits, mark, back, bounds>>

AdoptedMutant(s) == [mark EXCEPT !.stream = s]

(* The mark before a frame of stream s: another stream is adopted.         *)
Adopted(s) == IF mark.stream = s THEN mark ELSE [stream |-> s, last |-> 0]

FreshMutant(m, f) == f.seq >= m.last

(* A frame at or below the mark is a duplicate.                            *)
Fresh(m, f) == f.seq > m.last

(* send_to_peer of an ack, which may fail to leave.                        *)
SendAck(a) ==
    \/ /\ back' = IF sess = rsess THEN Append(back, a) ELSE back
       /\ UNCHANGED faults
    \/ /\ AckLoss
       /\ faults < MaxFaults
       /\ faults' = faults + 1
       /\ UNCHANGED back

(* on_channel_seq: deliver what is above the mark, ack the mark either way.*)
OnChannelSeq ==
    /\ data # <<>>
    /\ admits
    /\ Head(data).stream # 0
    /\ data' = Tail(data)
    /\ LET f == Head(data)
           m == Adopted(f.stream)
       IN  /\ mark' = IF Fresh(m, f) THEN [m EXCEPT !.last = f.seq] ELSE m
           /\ IF Fresh(m, f) THEN Accept(f.msg) ELSE UNCHANGED <<delivered, reached>>
           /\ SendAck([stream |-> f.stream, upTo |-> mark'.last])
    /\ UNCHANGED <<sender, rsess, admits, links, restarts>>

Next ==
    \/ Enqueue
    \/ \E t \in Task : FlushSend(t) \/ FlushErr(t) \/ FlushMark(t)
    \/ OnChannelAck
    \/ \E lapsed \in SUBSET Lapsable : Tick(lapsed)
    \/ LinkUp
    \/ \E kind \in {"recoverable", "terminal"} : Drop(kind) \/ TaskDrops(kind)
    \/ TaskDropped
    \/ ReceiverDrops
    \/ ReceiverAdmits
    \/ SenderRestarts
    \/ ReceiverRestarts
    \/ GateRefuses
    \/ OnChannelFrame
    \/ OnChannelSeq

Spec == Init /\ [][Next]_vars

(* Both drivers keep going, the state-watch tick recurs and tasks end.     *)
Fairness ==
    /\ \A t \in Task : WF_vars(FlushSend(t) \/ FlushErr(t)) /\ WF_vars(FlushMark(t))
    /\ WF_vars(OnChannelAck)
    /\ WF_vars(Tick({}))
    /\ WF_vars(TaskDropped)
    /\ WF_vars(ReceiverAdmits)
    /\ WF_vars(GateRefuses \/ OnChannelFrame \/ OnChannelSeq)

PatientSpec == Spec /\ Fairness

(* TTLs are finite: an entry that stays is lapsed at some tick.            *)
Lapses == WF_vars(\E lapsed \in (SUBSET Lapsable) \ {{}} : Tick(lapsed))
FairSpec == PatientSpec /\ Lapses
-----------------------------------------------------------------------------
(* Safety.                                                                 *)

(* A caller that is told Ok by an acked peer can rely on it: the message   *)
(* has been handed to the peer's application (on_channel_ack).             *)
OkMeansDelivered == \A m \in Msg : outcome[m] = "ok" => m \in reached

(* The receiving application sees each message at most once and in the     *)
(* order of the calls, across retransmits, lost acks, session rebuilds and *)
(* new streams (on_channel_seq).                                           *)
InOrderOnce ==
    \A i, j \in 1..Len(delivered) : i < j => delivered[i] < delivered[j]

(* Queues, streams, retransmits and acks implement the contract: every     *)
(* step is a step of ReliableChannel or none (the whole of reliable.rs).   *)
Contract == INSTANCE ReliableChannel WITH MaxMsgs <- MaxMsgs, calls <- calls,
                outcome <- outcome, delivered <- delivered, reached <- reached
KeepsContract == Contract!Spec

(* Liveness.                                                               *)

(* No caller waits for ever: delivery, expiry or terminal failure resolves *)
(* every call (tick, fail_peer).                                           *)
EveryCallResolves == \A m \in Msg : outcome[m] = "waiting" ~> outcome[m] # "waiting"

(* A link that stays up delivers what is waiting, and does not leave it to *)
(* the TTL: the entry, not the caller, survives the reconnect, and a send  *)
(* that failed is tried again (mark_unsent, tick).                         *)
SettledLinkDelivers ==
    \A m \in Msg :
        []<>(m \in reached \/ outcome[m] # "waiting" \/ sess = 0 \/ rsess # sess)
-----------------------------------------------------------------------------
(* Why safety holds when only the driver touches the outbox, the gate      *)
(* opens with the session and the peer speaks the acked contract.          *)
Disciplined == OffDriver = FALSE /\ GateLag = FALSE /\ Modes \subseteq {TRUE}

(* The number a message travels under, wherever it is: on the wire, in the *)
(* outbox, or last delivered.                                              *)
Wire == {data[i] : i \in 1..Len(data)}
Queued == {[stream |-> stream, seq |-> e.seq, msg |-> e.msg] : e \in entries}
Seen ==
    IF delivered = <<>> THEN {}
    ELSE {[stream |-> mark.stream, seq |-> mark.last, msg |-> delivered[Len(delivered)]]}
Known == Wire \cup Queued \cup Seen

(* The acks in flight.                                                     *)
Acks == {back[k] : k \in 1..Len(back)}

Before(x, y) == x.stream < y.stream \/ (x.stream = y.stream /\ x.seq < y.seq)

(* Numbers are in the order of the calls.                                  *)
Aligned == \A x, y \in Known : Before(x, y) <=> x.msg < y.msg

(* Numbers in use were given out.                                          *)
GivenOut(s, n) == s <= minted /\ (s = stream => n <= nextSeq)
NumbersGivenOut ==
    /\ stream # 0 => stream = minted
    /\ stream = 0 => entries = {}
    /\ \A x \in Known :
          x.stream >= 1 /\ x.seq >= 1 /\ x.msg <= calls /\ GivenOut(x.stream, x.seq)
    /\ GivenOut(mark.stream, mark.last)
    /\ \A a \in Acks : a.stream >= 1 /\ GivenOut(a.stream, a.upTo)

(* Streams arrive in the order they were drawn, none before the mark's.    *)
StreamsInOrder ==
    /\ mark.stream <= minted
    /\ delivered = <<>> => mark.stream = 0
    /\ mark.stream = 0 => mark.last = 0
    /\ \A i \in 1..Len(data) : mark.stream <= data[i].stream
    /\ \A i, j \in 1..Len(data) : i < j => data[i].stream <= data[j].stream

(* The two ends of a session, and the tasks that never run.                *)
SessionsPaired ==
    /\ rsess = 0 => data = <<>>
    /\ rsess # 0 => admits
    /\ sess # 0 /\ rsess # 0 => sess = rsess
    /\ sess = 0 => \A e \in entries : ~e.sent
    /\ acks /\ closing = "no" /\ flush["caller"].pc = "idle"

Landed(m) == m \in reached \/ \E x \in Wire : x.msg = m

(* A running flush holds what is unsent, and its first frame, once sent,   *)
(* is on its way.                                                          *)
FlushSound ==
    LET fl == flush["driver"]
    IN  fl.pc # "idle" =>
        /\ sess # 0 /\ fl.acked /\ fl.stream = stream /\ stream # 0
        /\ \A b \in fl.batch : \E e \in entries : e.msg = b.msg /\ e.seq = b.seq
        /\ \A e \in entries : ~e.sent => [msg |-> e.msg, seq |-> e.seq] \in fl.batch
        /\ fl.pc = "marking" /\ rsess = sess =>
              \A f \in fl.batch : First("driver", f) => Landed(f.msg)

(* Nothing is overtaken: what is numbered below a frame in flight, below   *)
(* the mark or below an ack has arrived, or is ahead of that frame.        *)
SentLanded == sess # 0 /\ rsess = sess => \A e \in entries : e.sent => Landed(e.msg)
NoGapOnWire ==
    \A i \in 1..Len(data) : \A e \in entries :
        data[i].stream = stream /\ e.seq < data[i].seq =>
            e.msg \in reached \/ \E j \in 1..(i - 1) : data[j].msg = e.msg
NoGapAtMark ==
    mark.stream = stream => \A e \in entries : e.seq <= mark.last => e.msg \in reached
AcksHonest ==
    \A a \in Acks : a.stream = stream =>
        \A e \in entries : e.seq <= a.upTo => e.msg \in reached

CallsCounted == \A m \in Msg : outcome[m] = "none" <=> m > calls

ReliableInv ==
    /\ TypeOK
    /\ CallsCounted /\ SessionsPaired
    /\ NumbersGivenOut /\ Aligned /\ StreamsInOrder /\ InOrderOnce
    /\ FlushSound /\ SentLanded /\ NoGapOnWire /\ NoGapAtMark /\ AcksHonest
    /\ OkMeansDelivered
=============================================================================
