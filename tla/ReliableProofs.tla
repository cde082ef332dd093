--------------------------- MODULE ReliableProofs ---------------------------
(***************************************************************************)
(* Proofs about Reliable, for every number of messages, sessions, faults   *)
(* and restarts and every outbox capacity: the types, and why acknowledged *)
(* delivery is safe.  ReliableInv is inductive when the outbox belongs to  *)
(* the driver alone, the receiver admits what the sender may send and the  *)
(* peer speaks the acked contract.                                         *)
(***************************************************************************)
EXTENDS ReliableOrderProofs, FiniteSetTheorems

(* What a leaf is tried with, in this order, and for how many seconds.     *)
USE ZenonT(3), SMTT(25), ZenonT(40)

-----------------------------------------------------------------------------
(* Types                                                                   *)

(* An outbox that loses entries stays within the cap.                      *)
LEMMA Shrinks ==
    ASSUME NEW es \in SUBSET Entry, IsFiniteSet(es), NEW ts \in SUBSET es,
           Cardinality(es) <= Cap
    PROVE  ts \in SUBSET Entry /\ IsFiniteSet(ts) /\ Cardinality(ts) <= Cap
  <1>1. IsFiniteSet(ts) /\ Cardinality(ts) <= Cardinality(es)
    BY FS_Subset
  <1>2. Cardinality(ts) \in Nat /\ Cardinality(es) \in Nat
    BY <1>1, FS_CardinalityType
  <1> QED
    BY <1>1, <1>2, ReliableBounds

(* So does one whose entries are rewritten.                                *)
LEMMA Rewritten ==
    ASSUME NEW es \in SUBSET Entry, IsFiniteSet(es), Cardinality(es) <= Cap,
           NEW h \in [es -> Entry]
    PROVE  LET ts == {h[e] : e \in es}
           IN  ts \in SUBSET Entry /\ IsFiniteSet(ts) /\ Cardinality(ts) <= Cap
  <1> DEFINE ts == {h[e] : e \in es}
  <1>1. h \in Surjection(es, ts)
    BY DEF Surjection
  <1>2. IsFiniteSet(ts) /\ Cardinality(ts) <= Cardinality(es)
    BY <1>1, FS_Surjection
  <1>3. Cardinality(ts) \in Nat /\ Cardinality(es) \in Nat
    BY <1>2, FS_CardinalityType
  <1> QED
    BY <1>2, <1>3, ReliableBounds

(* An empty outbox is within the cap, an empty queue is a queue.           *)
LEMMA Empties ==
    /\ {} \in SUBSET Entry /\ IsFiniteSet({}) /\ Cardinality({}) <= Cap
    /\ <<>> \in Seq(SeqFrame) /\ <<>> \in Seq(AckFrame) /\ <<>> \in Seq(Msg)
  <1>1. IsFiniteSet({}) /\ Cardinality({}) = 0
    BY FS_EmptySet
  <1> QED
    BY <1>1, ReliableBounds

(* mark_unsent keeps the outbox within the cap.                            *)
LEMMA AllUnsentTypeOK ==
    ASSUME NEW es \in SUBSET Entry, IsFiniteSet(es), Cardinality(es) <= Cap
    PROVE  /\ AllUnsent(es) \in SUBSET Entry
           /\ IsFiniteSet(AllUnsent(es))
           /\ Cardinality(AllUnsent(es)) <= Cap
  <1> DEFINE h == [e \in es |-> [e EXCEPT !.sent = FALSE]]
             ts == {h[e] : e \in es}
  <1>1. h \in [es -> Entry]
    BY ZenonT(30) DEF Entry
  <1>2. ts = AllUnsent(es)
    BY DEF AllUnsent
  <1>3. ts \in SUBSET Entry /\ IsFiniteSet(ts) /\ Cardinality(ts) <= Cap
    <2> HIDE DEF h
    <2> QED
      BY <1>1, Rewritten
  <1> HIDE DEF ts
  <1> QED
    BY <1>2, <1>3

(* Marking an entry sent keeps the outbox within the cap.                  *)
LEMMA MarkSentTypeOK ==
    ASSUME NEW es \in SUBSET Entry, IsFiniteSet(es), Cardinality(es) <= Cap, NEW n \in Nat
    PROVE  /\ MarkSent(es, n) \in SUBSET Entry
           /\ IsFiniteSet(MarkSent(es, n))
           /\ Cardinality(MarkSent(es, n)) <= Cap
  <1> DEFINE h == [e \in es |-> [e EXCEPT !.sent = @ \/ e.seq = n]]
             ts == {h[e] : e \in es}
  <1>1. h \in [es -> Entry]
    BY ZenonT(30) DEF Entry
  <1>2. ts = MarkSent(es, n)
    BY DEF MarkSent
  <1>3. ts \in SUBSET Entry /\ IsFiniteSet(ts) /\ Cardinality(ts) <= Cap
    <2> HIDE DEF h
    <2> QED
      BY <1>1, Rewritten
  <1> HIDE DEF ts
  <1> QED
    BY <1>2, <1>3

(* A flush that begins, or does not, is a flush.                           *)
LEMMA BeginFlushType ==
    ASSUME flush \in [Task -> Flush], NEW t \in Task, NEW up, NEW mode \in BOOLEAN,
           NEW s \in Nat, NEW es \in SUBSET Entry
    PROVE  BeginFlush(t, up, mode, s, es) \in [Task -> Flush]
  <1> DEFINE unsent == {e \in es : ~e.sent}
             b == {[msg |-> e.msg, seq |-> e.seq] : e \in unsent}
             fl == [pc |-> "sending", acked |-> mode, stream |-> s, batch |-> b]
  <1>1. b \in SUBSET [msg : Msg, seq : Nat]
    BY DEF Entry
  <1>2. fl \in Flush /\ NoFlush \in Flush
    BY <1>1 DEF Flush, NoFlush
  <1>3. BeginFlush(t, up, mode, s, es) =
            [flush EXCEPT ![t] = IF up # 0 /\ unsent # {} THEN fl ELSE NoFlush]
    BY DEF BeginFlush
  <1> HIDE DEF fl, unsent
  <1> QED
    BY <1>2, <1>3

(* Sending keeps the queue a queue of frames.                              *)
LEMMA TransmitType ==
    ASSUME data \in Seq(SeqFrame), NEW f \in SeqFrame, Transmit(f)
    PROVE  data' \in Seq(SeqFrame)
  BY DEF Transmit

(* Resolving waits keeps the outcomes typed.                               *)
LEMMA ResolveType ==
    ASSUME outcome \in [Msg -> Outcome], NEW M, NEW result \in Outcome
    PROVE  Resolve(M, result) \in [Msg -> Outcome]
  BY DEF Resolve

(* So does settling the outbox at a drop.                                  *)
LEMMA SettleType ==
    ASSUME TypeOK, NEW kind, Settle(kind)
    PROVE  /\ outcome' \in [Msg -> Outcome]
           /\ stream' \in Nat
           /\ entries' \in SUBSET Entry
           /\ IsFiniteSet(entries') /\ Cardinality(entries') <= Cap
  <1>1. CASE kind = "recoverable"
    BY <1>1, AllUnsentTypeOK DEF Settle, TypeOK
  <1>2. CASE kind # "recoverable"
    <2>1. "err" \in Outcome
      BY DEF Outcome
    <2>2. outcome' \in [Msg -> Outcome]
      BY <1>2, <2>1, ResolveType DEF Settle, TypeOK
    <2> QED
      BY <1>2, <2>2, Empties DEF Settle
  <1> QED
    BY <1>1, <1>2

(* The initial state is typed.                                             *)
LEMMA InitTypeOK == Init => TypeOK
  <1> SUFFICES ASSUME Init PROVE TypeOK
    OBVIOUS
  <1>1. NoFlush \in Flush
    BY DEF NoFlush, Flush
  <1>2. flush \in [Task -> Flush]
    BY <1>1 DEF Init
  <1>3. outcome \in [Msg -> Outcome]
    BY DEF Init, Outcome
  <1>4. entries \in SUBSET Entry /\ IsFiniteSet(entries) /\ Cardinality(entries) <= Cap
    BY Empties DEF Init
  <1>5. acks \in BOOLEAN /\ admits \in BOOLEAN
    BY ZenonT(30) DEF Init
  <1>6. mark \in [stream : Nat, last : Nat]
    BY DEF Init
  <1>7. calls \in 0..MaxMsgs /\ links \in 0..MaxLinks /\ sess \in 0..MaxLinks
        /\ rsess \in 0..MaxLinks /\ faults \in 0..MaxFaults /\ restarts \in 0..MaxRestarts
    BY ReliableBounds DEF Init
  <1>8. data \in Seq(SeqFrame) /\ back \in Seq(AckFrame) /\ delivered \in Seq(Msg)
    BY Empties DEF Init
  <1> QED
    BY <1>2, <1>3, <1>4, <1>5, <1>6, <1>7, <1>8 DEF Init, TypeOK

(* Every step keeps the state typed, the outbox within its capacity.       *)
LEMMA NextTypeOK == TypeOK /\ [Next]_vars => TypeOK'
  <1> SUFFICES ASSUME TypeOK, [Next]_vars PROVE TypeOK'
    OBVIOUS
  <1> USE ReliableBounds, ReliableSwitches
  <1>0. NoFlush \in Flush /\ {"ok", "err", "lost", "waiting"} \subseteq Outcome
    BY DEF NoFlush, Flush, Outcome
  <1>1. CASE Enqueue
    <2>1. calls + 1 \in Msg /\ calls' \in 0..MaxMsgs
      BY <1>1 DEF Enqueue, TypeOK, Msg
    <2>2. CASE Full
      <3>1. outcome' \in [Msg -> Outcome]
        BY ZenonT(30), <1>0, <1>1, <2>1, <2>2 DEF Enqueue, TypeOK
      <3>2. UNCHANGED <<outbox, flush, sess, acks, closing, receiver, data, back, bounds>>
        BY <1>1, <2>2 DEF Enqueue
      <3> QED
        BY <2>1, <3>1, <3>2 DEF TypeOK, outbox, receiver, bounds
    <2>3. CASE ~Full
      <3> DEFINE s == IF stream = 0 THEN minted + 1 ELSE stream
                 n == IF stream = 0 THEN 1 ELSE nextSeq + 1
                 new == [msg |-> calls + 1, seq |-> n, sent |-> FALSE]
                 es == entries \cup {new}
      <3>1. s \in Nat /\ n \in Nat /\ new \in Entry
        BY <2>1 DEF TypeOK, Entry
      <3>2. /\ stream' = s /\ nextSeq' = n /\ entries' = es
            /\ minted' \in Nat
            /\ outcome' = [outcome EXCEPT ![calls + 1] = "waiting"]
            /\ flush' = BeginFlush("driver", sess, acks, s, es)
        BY <1>1, <2>3 DEF Enqueue, TypeOK
      <3> HIDE DEF s, n, new
      <3>3. IsFiniteSet(es) /\ Cardinality(es) <= Cardinality(entries) + 1
        <4>1. IsFiniteSet(entries)
          BY DEF TypeOK
        <4>2. Cardinality(entries) \in Nat
          BY <4>1, FS_CardinalityType
        <4>3. /\ IsFiniteSet(entries \cup {new})
              /\ Cardinality(entries \cup {new}) =
                    IF new \in entries THEN Cardinality(entries) ELSE Cardinality(entries) + 1
          BY ONLY <4>1, FS_AddElement
        <4> QED
          BY <4>2, <4>3
      <3>4. Cardinality(es) <= Cap
        <4>1. Cardinality(entries) \in Nat /\ Cardinality(es) \in Nat
          BY <3>3, FS_CardinalityType DEF TypeOK
        <4> QED
          BY <2>3, <3>3, <4>1 DEF Full
      <3>5. es \in SUBSET Entry
        BY <3>1 DEF TypeOK
      <3> HIDE DEF es
      <3>6. flush' \in [Task -> Flush]
        BY <3>1, <3>2, <3>5, BeginFlushType DEF TypeOK, Task
      <3>7. outcome' \in [Msg -> Outcome]
        BY ZenonT(30), <1>0, <3>2 DEF TypeOK
      <3> QED
        BY <1>1, <2>1, <3>1, <3>2, <3>3, <3>4, <3>5, <3>6, <3>7
           DEF Enqueue, TypeOK, receiver, bounds
    <2> QED
      BY <2>2, <2>3
  <1>2. ASSUME NEW t \in Task, FlushSend(t) PROVE TypeOK'
    <2>1. data' \in Seq(SeqFrame)
      BY ZenonT(30), <1>2, FrameOfType, TransmitType DEF FlushSend, TypeOK
    <2>2. flush' \in [Task -> Flush]
      <3>1. flush[t] \in Flush
        BY DEF TypeOK
      <3>2. [flush[t] EXCEPT !.pc = "marking"] \in Flush
        BY <3>1 DEF Flush
      <3> QED
        BY <1>2, <3>2 DEF FlushSend, TypeOK
    <2> QED
      BY ZenonT(30), <1>2, <2>1, <2>2 DEF FlushSend, TypeOK, outbox, receiver, bounds
  <1>3. ASSUME NEW t \in Task, FlushErr(t) PROVE TypeOK'
    <2>1. data' \in Seq(SeqFrame)
      BY <1>3, FrameOfType, TransmitType DEF FlushErr, TypeOK
    <2>2. flush' \in [Task -> Flush] /\ faults' \in 0..MaxFaults
      BY <1>0, <1>3 DEF FlushErr, TypeOK
    <2> QED
      BY <1>3, <2>1, <2>2 DEF FlushErr, TypeOK, outbox, receiver
  <1>4. ASSUME NEW t \in Task, FlushMark(t) PROVE TypeOK'
    <2>1. PICK f \in flush[t].batch :
             /\ IF flush[t].acked
                THEN /\ entries' = MarkSent(entries, f.seq)
                     /\ UNCHANGED outcome
                ELSE /\ entries' = {e \in entries : e.seq # f.seq}
                     /\ outcome' = Resolve(Messages({e \in entries : e.seq = f.seq}), "ok")
             /\ flush' = [flush EXCEPT ![t] =
                            IF stream = 0 \/ flush[t].batch = {f}
                            THEN NoFlush
                            ELSE [flush[t] EXCEPT !.pc = "sending",
                                                  !.batch = flush[t].batch \ {f}]]
      BY ZenonT(30), <1>4 DEF FlushMark
    <2>2. f \in [msg : Msg, seq : Nat] /\ flush[t] \in Flush
      BY FrameOfType DEF TypeOK
    <2>3. entries' \in SUBSET Entry /\ IsFiniteSet(entries') /\ Cardinality(entries') <= Cap
      <3>1. CASE flush[t].acked
        <4>1. entries' = MarkSent(entries, f.seq) /\ f.seq \in Nat
          BY <2>1, <2>2, <3>1
        <4> QED
          BY <4>1, MarkSentTypeOK DEF TypeOK
      <3>2. CASE ~flush[t].acked
        <4>1. entries' \in SUBSET entries
          BY <2>1, <3>2
        <4> QED
          BY <4>1, Shrinks DEF TypeOK
      <3> QED
        BY <3>1, <3>2
    <2>4. outcome' \in [Msg -> Outcome]
      <3>1. CASE flush[t].acked
        BY <2>1, <3>1 DEF TypeOK
      <3>2. CASE ~flush[t].acked
        <4>1. outcome' = Resolve(Messages({e \in entries : e.seq = f.seq}), "ok")
          BY <2>1, <3>2
        <4> QED
          BY <1>0, <4>1, ResolveType DEF TypeOK
      <3> QED
        BY <3>1, <3>2
    <2>5. flush' \in [Task -> Flush]
      <3>1. [flush[t] EXCEPT !.pc = "sending", !.batch = flush[t].batch \ {f}] \in Flush
        BY ZenonT(30), <2>2 DEF Flush
      <3>2. CASE stream = 0 \/ flush[t].batch = {f}
        <4>1. flush' = [flush EXCEPT ![t] = NoFlush]
          BY ZenonT(30), <2>1, <3>2 DEF TypeOK
        <4> QED
          BY <1>0, <4>1 DEF TypeOK
      <3>3. CASE ~(stream = 0 \/ flush[t].batch = {f})
        <4>1. flush' = [flush EXCEPT ![t] =
                          [flush[t] EXCEPT !.pc = "sending", !.batch = flush[t].batch \ {f}]]
          BY <2>1, <3>3
        <4> QED
          BY <3>1, <4>1 DEF TypeOK
      <3> QED
        BY <3>2, <3>3
    <2> QED
      BY ZenonT(30), <1>4, <2>3, <2>4, <2>5 DEF FlushMark, TypeOK, receiver, bounds
  <1>5. CASE OnChannelAck
    <2>1. back' \in Seq(AckFrame)
      BY <1>5 DEF OnChannelAck, TypeOK
    <2>2. outcome' \in [Msg -> Outcome]
      BY <1>0, <1>5, ResolveType DEF OnChannelAck, TypeOK
    <2>3. entries' \in SUBSET entries /\ stream' \in Nat
      BY <1>5 DEF OnChannelAck, TypeOK
    <2>4. IsFiniteSet(entries') /\ Cardinality(entries') <= Cap
      BY <2>3, Shrinks DEF TypeOK
    <2> QED
      BY <1>5, <2>1, <2>2, <2>3, <2>4 DEF OnChannelAck, TypeOK, receiver, bounds
  <1>6. ASSUME NEW lapsed \in SUBSET Lapsable, Tick(lapsed) PROVE TypeOK'
    <2> DEFINE left == {e \in entries : e.msg \notin lapsed}
               s == IF left = {} THEN 0 ELSE stream
    <2>1. /\ outcome' = Resolve(lapsed, "err")
          /\ entries' = left
          /\ stream' = s
          /\ flush' = BeginFlush("driver", sess, acks, s, left)
      BY <1>6 DEF Tick
    <2>2. left \in SUBSET entries /\ s \in Nat
      BY DEF TypeOK
    <2> HIDE DEF left, s
    <2>3. left \in SUBSET Entry /\ IsFiniteSet(left) /\ Cardinality(left) <= Cap
      BY <2>2, Shrinks DEF TypeOK
    <2>4. outcome' \in [Msg -> Outcome]
      BY <1>0, <2>1, ResolveType DEF TypeOK
    <2>5. flush' \in [Task -> Flush]
      BY <2>1, <2>2, <2>3, BeginFlushType DEF TypeOK, Task
    <2> QED
      BY ZenonT(30), <1>6, <2>1, <2>2, <2>3, <2>4, <2>5 DEF Tick, TypeOK, receiver, bounds
  <1>7. CASE LinkUp
    <2>1. acks' \in BOOLEAN /\ sess' \in 0..MaxLinks
      BY <1>7 DEF LinkUp, TypeOK
    <2>2. flush' \in [Task -> Flush]
      <3>1. PICK t \in Task : flush' = BeginFlush(t, sess', acks', stream, entries)
        BY ZenonT(30), <1>7 DEF LinkUp
      <3> QED
        BY ZenonT(30), <2>1, <3>1, BeginFlushType DEF TypeOK
    <2> QED
      BY ZenonT(30), <1>7, <2>1, <2>2 DEF LinkUp, TypeOK, outbox
  <1>8. ASSUME NEW kind \in {"recoverable", "terminal"}, Drop(kind) PROVE TypeOK'
    BY <1>8, SettleType, Empties DEF Drop, TypeOK, receiver, bounds
  <1>9. ASSUME NEW kind \in {"recoverable", "terminal"}, TaskDrops(kind) PROVE TypeOK'
    BY <1>9, Empties DEF TaskDrops, TypeOK, outbox, receiver, bounds
  <1>10. CASE TaskDropped
    BY ZenonT(30), <1>10, SettleType DEF TaskDropped, TypeOK, receiver, bounds
  <1>11. CASE ReceiverDrops
    <2>1. rsess' \in 0..MaxLinks /\ admits' \in BOOLEAN /\ data' \in Seq(SeqFrame)
      <3>1. rsess' = 0 /\ admits' = FALSE /\ data' = <<>>
        BY <1>11 DEF ReceiverDrops
      <3>2. data' \in Seq(SeqFrame)
        BY <3>1, Empties
      <3>3. admits' \in BOOLEAN
        BY ZenonT(30), <3>1
      <3> QED
        BY <3>1, <3>2, <3>3
    <2> QED
      BY <1>11, <2>1 DEF ReceiverDrops, TypeOK, sender, outbox, bounds
  <1>12. CASE ReceiverAdmits
    BY <1>12 DEF ReceiverAdmits, TypeOK, sender, outbox, bounds
  <1>13. CASE SenderRestarts
    <2>1. outcome' \in [Msg -> Outcome]
      BY <1>0, <1>13, ResolveType DEF SenderRestarts, TypeOK
    <2>2. flush' \in [Task -> Flush]
      BY <1>0, <1>13 DEF SenderRestarts
    <2> QED
      BY <1>13, <2>1, <2>2, Empties DEF SenderRestarts, TypeOK, receiver
  <1>14. CASE ReceiverRestarts
    <2>1. /\ rsess' \in 0..MaxLinks /\ admits' \in BOOLEAN /\ data' \in Seq(SeqFrame)
          /\ delivered' \in Seq(Msg) /\ mark' \in [stream : Nat, last : Nat]
      <3>1. /\ rsess' = 0 /\ admits' = FALSE /\ data' = <<>> /\ delivered' = <<>>
            /\ mark' = [stream |-> 0, last |-> 0]
        BY <1>14 DEF ReceiverRestarts
      <3>2. data' \in Seq(SeqFrame) /\ delivered' \in Seq(Msg)
        BY <3>1, Empties
      <3>3. admits' \in BOOLEAN
        BY ZenonT(30), <3>1
      <3> QED
        BY <3>1, <3>2, <3>3
    <2>2. restarts' \in 0..MaxRestarts
      BY <1>14 DEF ReceiverRestarts, TypeOK
    <2> QED
      BY <1>14, <2>1, <2>2 DEF ReceiverRestarts, TypeOK, sender, outbox
  <1>15. CASE GateRefuses
    BY <1>15 DEF GateRefuses, TypeOK, sender, outbox, receiver, bounds
  <1>16. CASE OnChannelFrame
    <2>1. Head(data) \in SeqFrame /\ Tail(data) \in Seq(SeqFrame)
      BY <1>16 DEF OnChannelFrame, TypeOK
    <2> QED
      BY <1>16, <2>1 DEF OnChannelFrame, Accept, SeqFrame, TypeOK, sender, outbox, bounds
  <1>17. CASE OnChannelSeq
    <2> DEFINE f == Head(data)
               m == Adopted(f.stream)
    <2>1. f \in SeqFrame /\ Tail(data) \in Seq(SeqFrame)
      <3>1. data \in Seq(SeqFrame) /\ data # <<>>
        BY <1>17 DEF OnChannelSeq, TypeOK
      <3> QED
        BY <3>1
    <2>2. m \in [stream : Nat, last : Nat]
      BY ZenonT(30), <2>1 DEF Adopted, TypeOK, SeqFrame
    <2>3. /\ data' = Tail(data)
          /\ mark' = IF Fresh(m, f) THEN [m EXCEPT !.last = f.seq] ELSE m
          /\ IF Fresh(m, f) THEN Accept(f.msg) ELSE UNCHANGED <<delivered, reached>>
          /\ SendAck([stream |-> f.stream, upTo |-> mark'.last])
      BY <1>17 DEF OnChannelSeq
    <2> HIDE DEF f, m
    <2>4. mark' \in [stream : Nat, last : Nat]
      BY ZenonT(30), <2>1, <2>2, <2>3 DEF SeqFrame
    <2>5. delivered' \in Seq(Msg) /\ reached' \subseteq Msg
      <3>1. f.msg \in Msg
        BY <2>1 DEF SeqFrame
      <3>2. CASE Fresh(m, f)
        <4>1. delivered' = Append(delivered, f.msg) /\ reached' = reached \cup {f.msg}
          BY <2>3, <3>2 DEF Accept
        <4>2. delivered \in Seq(Msg) /\ reached \subseteq Msg
          BY DEF TypeOK
        <4> QED
          BY <3>1, <4>1, <4>2
      <3>3. CASE ~Fresh(m, f)
        BY <2>3, <3>3 DEF TypeOK
      <3> QED
        BY <3>2, <3>3
    <2>6. back' \in Seq(AckFrame) /\ faults' \in 0..MaxFaults
      <3>1. [stream |-> f.stream, upTo |-> mark'.last] \in AckFrame
        BY <2>1, <2>4 DEF AckFrame, SeqFrame
      <3>2. back \in Seq(AckFrame) /\ Append(back, [stream |-> f.stream, upTo |-> mark'.last])
                                      \in Seq(AckFrame)
        BY <3>1 DEF TypeOK
      <3>3. /\ back' = back \/ back' = Append(back, [stream |-> f.stream, upTo |-> mark'.last])
            /\ faults' = faults \/ (faults < MaxFaults /\ faults' = faults + 1)
        BY <2>3, SendAckCases, Zenon
      <3>4. faults' \in 0..MaxFaults
        BY <3>3 DEF TypeOK
      <3> QED
        BY <3>2, <3>3, <3>4
    <2> QED
      BY ZenonT(30), <1>17, <2>1, <2>3, <2>4, <2>5, <2>6 DEF OnChannelSeq, TypeOK, sender, outbox
  <1>18. CASE UNCHANGED vars
    BY <1>18 DEF vars, TypeOK
  <1> QED
    BY <1>1, <1>2, <1>3, <1>4, <1>5, <1>6, <1>7, <1>8, <1>9, <1>10, <1>11, <1>12,
       <1>13, <1>14, <1>15, <1>16, <1>17, <1>18 DEF Next

(* Types hold for any capacity and any bounds, whichever tasks run; in     *)
(* particular no outbox outgrows OUTBOX_CAP.                               *)
THEOREM ReliableTypeCorrect == Spec => []TypeOK
  BY InitTypeOK, NextTypeOK, PTL DEF Spec

-----------------------------------------------------------------------------
(* The link and the receiver                                             *)

(* A new session carries nothing yet, and its flush begins.                *)
LEMMA LinkUpKeeps ==
    ASSUME ReliableInv, TypeOK', Disciplined, LinkUp
    PROVE  ReliableInv'
  <1>1. TypeOK /\ Numbered /\ Carried /\ CallsCounted /\ OkMeansDelivered
    BY DEF ReliableInv, Numbered, Carried
  <1>2. /\ sess = 0 /\ rsess = 0 /\ sess' = links + 1 /\ rsess' = sess'
        /\ UNCHANGED <<calls, outcome, stream, minted, nextSeq, entries, closing,
                       mark, data, back, delivered, reached>>
    BY DEF LinkUp, outbox
  <1>3. sess' # 0
    BY <1>1, <1>2, ReliableBounds DEF TypeOK
  <1>4. acks' = TRUE
    BY ZenonT(30) DEF LinkUp, Disciplined
  <1>5. admits' = TRUE
    BY ZenonT(30) DEF LinkUp, Disciplined
  <1>6. flush' = BeginFlush("driver", sess', acks', stream, entries)
    BY DEF LinkUp, Disciplined, Task
  <1>7. \A e \in entries : ~e.sent
    BY <1>1, <1>2 DEF Carried, SessionsPaired
  <1>8. entries # {} => stream # 0
    BY <1>1 DEF Numbered, NumbersGivenOut
  <1>9. Numbered'
    <2>1. Kept /\ Acks' = Acks
      BY <1>2 DEF Kept, Acks
    <2> QED
      BY <1>1, <1>2, <2>1, QuietStep
  <1>10. /\ flush'["caller"] = flush["caller"]
         /\ \/ flush'["driver"].pc = "idle"
            \/ /\ sess' # 0 /\ entries # {}
               /\ flush'["driver"].pc = "sending"
               /\ flush'["driver"].acked = acks'
               /\ flush'["driver"].stream = stream
               /\ \A b \in flush'["driver"].batch : \E e \in entries : e.msg = b.msg /\ e.seq = b.seq
               /\ \A e \in entries : ~e.sent =>
                      [msg |-> e.msg, seq |-> e.seq] \in flush'["driver"].batch
    <2>1. flush \in [Task -> Flush]
      BY <1>1 DEF TypeOK
    <2> DEFINE up == sess'
               mode == acks'
    <2>2. flush' = BeginFlush("driver", up, mode, stream, entries)
      BY <1>6
    <2> HIDE DEF up, mode
    <2>3. /\ flush'["caller"] = flush["caller"]
          /\ \/ flush'["driver"].pc = "idle"
             \/ /\ up # 0 /\ entries # {}
                /\ flush'["driver"].pc = "sending"
                /\ flush'["driver"].acked = mode
                /\ flush'["driver"].stream = stream
                /\ \A b \in flush'["driver"].batch :
                      \E e \in entries : e.msg = b.msg /\ e.seq = b.seq
                /\ \A e \in entries : ~e.sent =>
                       [msg |-> e.msg, seq |-> e.seq] \in flush'["driver"].batch
      BY ZenonT(30), <2>1, <2>2, BeginFlushSound
    <2> QED
      BY ZenonT(30), <2>3 DEF up, mode
  <1>11. SessionsPaired'
    BY ZenonT(30), <1>1, <1>2, <1>3, <1>4, <1>5, <1>10 DEF Carried, SessionsPaired
  <1>12. FlushSound'
    BY ZenonT(30), <1>2, <1>3, <1>4, <1>8, <1>10 DEF FlushSound
  <1>13. SentLanded'
    BY <1>2, <1>7 DEF SentLanded
  <1>14. CallsCounted' /\ OkMeansDelivered'
    BY <1>1, <1>2 DEF CallsCounted, OkMeansDelivered
  <1> QED
    BY <1>9, <1>11, <1>12, <1>13, <1>14 DEF ReliableInv, Numbered

(* A drop marks everything unsent, or gives everything up; so does the end *)
(* of the process.                                                         *)
LEMMA SenderCutKeeps ==
    ASSUME ReliableInv, TypeOK',
           (\E kind \in {"recoverable", "terminal"} : Drop(kind)) \/ SenderRestarts
    PROVE  ReliableInv'
  <1>1. TypeOK /\ Numbered /\ Carried /\ CallsCounted /\ OkMeansDelivered
    BY DEF ReliableInv, Numbered, Carried
  <1>2. /\ sess' = 0 /\ back' = <<>> /\ closing' = "no"
        /\ UNCHANGED <<calls, minted, nextSeq, acks, rsess, admits, mark, data, delivered, reached>>
    BY ZenonT(30), <1>1 DEF Drop, SenderRestarts, receiver, Carried, SessionsPaired
  <1>3. flush'["driver"].pc = "idle" /\ flush'["caller"].pc = "idle"
    <2>1. CASE SenderRestarts
      BY ZenonT(30), <2>1 DEF SenderRestarts, Task, NoFlush
    <2>2. CASE \E kind \in {"recoverable", "terminal"} : Drop(kind)
      BY <1>1, <2>2 DEF Drop, DriverIdle, Carried, SessionsPaired
    <2> QED
      BY <2>1, <2>2
  <1>4. \/ /\ entries' = AllUnsent(entries) /\ UNCHANGED <<outcome, stream>>
        \/ /\ entries' = {} /\ stream' = 0
           /\ \E M : \E r \in {"err", "lost"} : outcome' = Resolve(M, r)
    BY DEF Drop, Settle, SenderRestarts
  <1>5. ASSUME NEW d \in entries'
        PROVE  ~d.sent /\ \E e \in entries : e.msg = d.msg /\ e.seq = d.seq
    <2>1. PICK e \in entries : d = [e EXCEPT !.sent = FALSE]
      BY <1>4 DEF AllUnsent
    <2>2. e \in Entry
      BY <1>1 DEF TypeOK
    <2> QED
      BY <2>1, <2>2 DEF Entry
  <1>6. Numbered'
    <2>1. stream' = stream \/ (stream' = 0 /\ entries' = {})
      BY <1>4
    <2>2. Kept
      BY <1>2, <1>5, <2>1 DEF Kept
    <2>3. Acks' = {}
      BY <1>2 DEF Acks
    <2> QED
      BY <1>1, <1>2, <2>2, <2>3, QuietStep
  <1>7. Carried'
    BY ZenonT(30), <1>1, <1>2, <1>3, <1>5 DEF Carried, SessionsPaired, FlushSound, SentLanded
  <1>8. CallsCounted' /\ OkMeansDelivered'
    <2>1. CASE outcome' = outcome
      BY <1>1, <1>2, <2>1 DEF CallsCounted, OkMeansDelivered
    <2>2. CASE \E M : \E r \in {"err", "lost"} : outcome' = Resolve(M, r)
      BY <1>2, <2>2, ResolveKeeps
    <2> QED
      BY <1>4, <2>1, <2>2
  <1> QED
    BY <1>6, <1>7, <1>8 DEF ReliableInv, Numbered, Carried

(* The receiver's end goes away.                                           *)
LEMMA ReceiverCutKeeps ==
    ASSUME ReliableInv, TypeOK', ReceiverDrops \/ ReceiverRestarts
    PROVE  ReliableInv'
  <1>1. TypeOK /\ Numbered /\ Carried /\ CallsCounted /\ OkMeansDelivered
    BY DEF ReliableInv, Numbered, Carried
  <1>2. /\ rsess' = 0 /\ data' = <<>>
        /\ UNCHANGED <<calls, outcome, stream, minted, nextSeq, entries, flush, sess, acks,
                       closing, back, reached>>
    BY DEF ReceiverDrops, ReceiverRestarts, sender, outbox
  <1>3. \/ UNCHANGED <<mark, delivered>>
        \/ mark' = [stream |-> 0, last |-> 0] /\ delivered' = <<>>
    BY DEF ReceiverDrops, ReceiverRestarts
  <1>4. Numbered'
    BY <1>1, <1>2, <1>3, CutStep
  <1>5. SessionsPaired'
    BY <1>1, <1>2 DEF Carried, SessionsPaired
  <1>6. FlushSound'
    BY ZenonT(30), <1>1, <1>2 DEF Carried, FlushSound
  <1>7. SentLanded'
    BY <1>2 DEF SentLanded
  <1>8. CallsCounted' /\ OkMeansDelivered'
    BY <1>1, <1>2 DEF CallsCounted, OkMeansDelivered
  <1> QED
    BY <1>4, <1>5, <1>6, <1>7, <1>8 DEF ReliableInv, Numbered

(* A frame arrives.                                                        *)
LEMMA ReceiveKeeps ==
    ASSUME ReliableInv, TypeOK', OnChannelSeq
    PROVE  ReliableInv'
  <1>1. TypeOK /\ Numbered /\ Carried /\ CallsCounted /\ OkMeansDelivered
    BY DEF ReliableInv, Numbered, Carried
  <1>2. /\ data # <<>>
        /\ UNCHANGED <<calls, outcome, stream, minted, nextSeq, entries, flush, sess, acks,
                       closing, rsess, admits>>
    BY DEF OnChannelSeq, sender, outbox
  <1>3. /\ Numbered'
        /\ \A m : (Landed(m) /\ \E e \in entries : e.msg = m) => Landed(m)'
        /\ reached \subseteq reached'
    BY <1>1, ReceiveStep
  <1>4. SessionsPaired'
    BY <1>1, <1>2 DEF Carried, SessionsPaired
  <1>5. SentLanded'
    BY <1>1, <1>2, <1>3 DEF Carried, SentLanded
  <1>6. FlushSound'
    <2> SUFFICES ASSUME flush["driver"].pc # "idle"
                 PROVE  FlushSound'
      BY ZenonT(30), <1>2 DEF FlushSound
    <2>1. ASSUME flush["driver"].pc = "marking", rsess = sess,
                 NEW f \in flush["driver"].batch, First("driver", f)
          PROVE  Landed(f.msg)'
      <3>1. Landed(f.msg) /\ \E e \in entries : e.msg = f.msg
        BY ZenonT(30), <1>1, <2>1 DEF Carried, FlushSound
      <3> QED
        BY <1>3, <3>1
    <2> QED
      BY ZenonT(30), <1>1, <1>2, <2>1 DEF Carried, FlushSound, First
  <1>7. CallsCounted' /\ OkMeansDelivered'
    BY <1>1, <1>2, <1>3 DEF CallsCounted, OkMeansDelivered
  <1> QED
    BY <1>3, <1>4, <1>5, <1>6, <1>7 DEF ReliableInv, Numbered
-----------------------------------------------------------------------------
(* Nothing is known before the first call.                                 *)
LEMMA InitReliableInv == Init => ReliableInv
  <1> SUFFICES ASSUME Init PROVE ReliableInv
    OBVIOUS
  <1>1. TypeOK
    BY InitTypeOK
  <1>2. Len(data) = 0 /\ Len(back) = 0 /\ Len(delivered) = 0
    BY DEF Init
  <1>3. Wire = {} /\ Queued = {} /\ Seen = {} /\ Acks = {}
    <2>1. Wire = {} /\ Acks = {}
      BY <1>2 DEF Wire, Acks
    <2>2. Queued = {}
      BY ZenonT(30) DEF Init, Queued
    <2>3. Seen = {}
      BY DEF Init, Seen
    <2> QED
      BY <2>1, <2>2, <2>3
  <1>4. Known = {}
    BY <1>3 DEF Known
  <1>5. NumbersGivenOut /\ Aligned
    BY <1>3, <1>4 DEF NumbersGivenOut, Aligned, GivenOut, Init
  <1>6. StreamsInOrder /\ InOrderOnce /\ NoGapOnWire
    BY <1>2 DEF StreamsInOrder, InOrderOnce, NoGapOnWire, Init
  <1>7. NoGapAtMark /\ AcksHonest
    BY <1>3 DEF NoGapAtMark, AcksHonest, Init
  <1>8. SessionsPaired /\ FlushSound /\ SentLanded
    BY ZenonT(30) DEF SessionsPaired, FlushSound, SentLanded, Init, NoFlush, Task
  <1>9. CallsCounted /\ OkMeansDelivered
    BY ReliableBounds DEF CallsCounted, OkMeansDelivered, Init, Msg
  <1> QED
    BY <1>1, <1>5, <1>6, <1>7, <1>8, <1>9 DEF ReliableInv

(* The steps that remain when the outbox belongs to the driver, the gate   *)
(* opens with the session and the peer acks.                               *)
LEMMA DisciplinedNext ==
    ASSUME ReliableInv, Disciplined, Next
    PROVE  \/ Enqueue \/ OnChannelAck \/ LinkUp \/ OnChannelSeq
           \/ FlushSend("driver") \/ FlushErr("driver") \/ FlushMark("driver")
           \/ \E lapsed \in SUBSET Lapsable : Tick(lapsed)
           \/ (\E kind \in {"recoverable", "terminal"} : Drop(kind)) \/ SenderRestarts
           \/ ReceiverDrops \/ ReceiverRestarts
  <1>1. TypeOK /\ SessionsPaired /\ NumbersGivenOut
    BY DEF ReliableInv
  <1>2. ~FlushSend("caller") /\ ~FlushErr("caller") /\ ~FlushMark("caller")
    BY <1>1 DEF FlushSend, FlushErr, FlushMark, SessionsPaired
  <1>3. \A kind : ~TaskDrops(kind)
    BY DEF TaskDrops, Disciplined
  <1>4. ~TaskDropped
    BY <1>1 DEF TaskDropped, SessionsPaired
  <1>5. ~ReceiverAdmits
    BY <1>1 DEF ReceiverAdmits, SessionsPaired
  <1>6. ~GateRefuses
    BY <1>1 DEF GateRefuses, SessionsPaired
  <1>7. ~OnChannelFrame
    <2> SUFFICES ASSUME OnChannelFrame PROVE FALSE
      OBVIOUS
    <2>1. data \in Seq(SeqFrame) /\ data # <<>> /\ Head(data).stream = 0
      BY <1>1 DEF OnChannelFrame, TypeOK
    <2>2. 1 \in 1..Len(data) /\ Head(data) = data[1]
      BY <2>1
    <2>3. data[1].stream >= 1
      BY ZenonT(30), <1>1, <2>2, InKnown DEF NumbersGivenOut
    <2> QED
      BY <2>1, <2>2, <2>3
  <1> QED
    BY <1>2, <1>3, <1>4, <1>5, <1>6, <1>7 DEF Next, Task

(* Every step keeps the invariant.                                         *)
LEMMA NextReliableInv ==
    ASSUME Disciplined
    PROVE  ReliableInv /\ [Next]_vars => ReliableInv'
  <1> SUFFICES ASSUME ReliableInv, [Next]_vars PROVE ReliableInv'
    OBVIOUS
  <1>1. TypeOK'
    BY NextTypeOK DEF ReliableInv
  <1>2. CASE UNCHANGED vars
    <2>1. TypeOK /\ Numbered /\ Carried /\ CallsCounted /\ OkMeansDelivered
      BY DEF ReliableInv, Numbered, Carried
    <2>2. Kept /\ Acks' = Acks
      BY ZenonT(30), <1>2 DEF vars, Kept, Acks
    <2>3. Numbered'
      BY <1>1, <1>2, <2>1, <2>2, QuietStep DEF vars
    <2>4. SessionsPaired' /\ SentLanded'
      BY <1>2, <2>1, SessionsKept, SentKept DEF vars, Carried
    <2>5. FlushSound'
      BY <1>2, <2>1, FlushKept DEF vars, Carried
    <2>6. CallsCounted' /\ OkMeansDelivered'
      BY <1>2, <2>1 DEF vars, CallsCounted, OkMeansDelivered
    <2> QED
      BY <1>1, <2>3, <2>4, <2>5, <2>6 DEF ReliableInv, Numbered
  <1>3. CASE Next
    BY <1>1, <1>3, DisciplinedNext, EnqueueKeeps, FlushSendKeeps, FlushMarkKeeps, AckKeeps,
       TickKeeps, LinkUpKeeps, SenderCutKeeps, ReceiverCutKeeps, ReceiveKeeps
  <1> QED
    BY <1>2, <1>3

(* When only the driver drops peers and flushes, the receiver's gate opens *)
(* with the session, and the peer acks: a caller that is told Ok was       *)
(* served, across any number of rebuilds, faults, restarts and expiries.   *)
THEOREM OkIsTrue ==
    ASSUME Disciplined
    PROVE  Spec => []OkMeansDelivered
  <1>1. ReliableInv => OkMeansDelivered
    BY DEF ReliableInv
  <1>2. ReliableInv /\ [Next]_vars => ReliableInv'
    BY NextReliableInv
  <1> QED
    BY <1>1, <1>2, InitReliableInv, PTL DEF Spec

(* Under the same discipline the application sees every message at most    *)
(* once and in the order of the calls.                                     *)
THEOREM DeliveryInOrder ==
    ASSUME Disciplined
    PROVE  Spec => []InOrderOnce
  <1>1. ReliableInv => InOrderOnce
    BY DEF ReliableInv
  <1>2. ReliableInv /\ [Next]_vars => ReliableInv'
    BY NextReliableInv
  <1> QED
    BY <1>1, <1>2, InitReliableInv, PTL DEF Spec
-----------------------------------------------------------------------------
(* Reliable implements ReliableChannel.                                    *)

(* Resolving waits without saying ok is giving up on them.                 *)
LEMMA ResolveGivesUp ==
    ASSUME TypeOK, NEW M, NEW result \in {"err", "lost"}, outcome' = Resolve(M, result),
           UNCHANGED <<calls, delivered, reached>>
    PROVE  Contract!Next
  <1> DEFINE W == {m \in Msg : m \in M /\ outcome[m] = "waiting"}
  <1>1. W \in SUBSET Contract!Waiting
    BY DEF Contract!Waiting, Contract!Msg, Msg
  <1>2. outcome' = Contract!Resolved(W, result)
    BY DEF Resolve, Contract!Resolved, Contract!Msg, Msg
  <1>3. Contract!GiveUp(W, result)
    BY <1>1, <1>2 DEF Contract!GiveUp
  <1> QED
    BY <1>1, <1>3 DEF Contract!Next

(* A step is a step of the contract, or none.                              *)
LEMMA StepOfContract ==
    ASSUME Disciplined
    PROVE  ReliableInv /\ ReliableInv' /\ [Next]_vars => [Contract!Next]_(Contract!vars)
  <1> SUFFICES ASSUME ReliableInv, ReliableInv', [Next]_vars
               PROVE  Contract!Next \/ UNCHANGED <<calls, outcome, delivered, reached>>
    BY DEF Contract!vars
  <1>0. TypeOK /\ Numbered /\ TypeOK' /\ CallsCounted
    BY DEF ReliableInv, Numbered
  <1>1. CASE UNCHANGED vars
    BY <1>1 DEF vars
  <1>2. CASE Enqueue
    <2>1. /\ calls < MaxMsgs /\ calls' = calls + 1 /\ UNCHANGED <<delivered, reached>>
          /\ \E r \in {"waiting", "err"} : outcome' = [outcome EXCEPT ![calls + 1] = r]
      BY ZenonT(30), <1>2 DEF Enqueue, receiver
    <2> QED
      BY ZenonT(30), <2>1 DEF Contract!Submit, Contract!Next
  <1>3. CASE FlushSend("driver") \/ FlushErr("driver") \/ LinkUp \/ ReceiverDrops
    BY ZenonT(30), <1>3 DEF FlushSend, FlushErr, LinkUp, ReceiverDrops, receiver, sender
  <1>4. CASE FlushMark("driver")
    <2>1. flush["driver"].acked
      BY <1>4 DEF FlushMark, ReliableInv, FlushSound
    <2> QED
      BY <1>4, <2>1 DEF FlushMark, receiver
  <1>5. CASE OnChannelAck
    <2>1. UNCHANGED <<calls, delivered, reached>>
      BY <1>5 DEF OnChannelAck, receiver
    <2>2. CASE stream # 0 /\ Head(back).stream = stream
      <3> DEFINE left == {e \in entries : e.seq > Head(back).upTo}
                 M == Messages(entries) \ Messages(left)
                 W == {m \in Msg : m \in M /\ outcome[m] = "waiting"}
      <3>1. outcome' = Resolve(M, "ok")
        BY <1>5, <2>2 DEF OnChannelAck
      <3> HIDE DEF M
      <3>2. W \in SUBSET Contract!Waiting
        BY DEF Contract!Waiting, Contract!Msg, Msg
      <3>3. outcome' = Contract!Resolved(W, "ok")
        BY <3>1 DEF Resolve, Contract!Resolved, Contract!Msg, Msg
      <3>4. \A m \in W : outcome'[m] = "ok"
        BY <3>1 DEF Resolve
      <3>5. W \subseteq reached
        BY <2>1, <3>4 DEF ReliableInv, OkMeansDelivered
      <3>6. Contract!Confirm(W)
        BY <2>1, <3>2, <3>3, <3>5 DEF Contract!Confirm
      <3> QED
        BY <3>2, <3>6 DEF Contract!Next
    <2>3. CASE ~(stream # 0 /\ Head(back).stream = stream)
      BY <1>5, <2>1, <2>3 DEF OnChannelAck
    <2> QED
      BY <2>2, <2>3
  <1>6. ASSUME NEW lapsed \in SUBSET Lapsable, Tick(lapsed)
        PROVE  Contract!Next
    <2>1. outcome' = Resolve(lapsed, "err") /\ UNCHANGED <<calls, delivered, reached>>
      BY <1>6 DEF Tick, receiver
    <2> QED
      BY <1>0, <2>1, ResolveGivesUp
  <1>7. ASSUME NEW kind \in {"recoverable", "terminal"}, Drop(kind)
        PROVE  Contract!Next \/ UNCHANGED <<calls, outcome, delivered, reached>>
    <2>1. UNCHANGED <<calls, delivered, reached>>
      BY <1>7 DEF Drop, receiver
    <2>2. outcome' = outcome \/ outcome' = Resolve(Messages(entries), "err")
      BY <1>7 DEF Drop, Settle
    <2> QED
      BY <1>0, <2>1, <2>2, ResolveGivesUp
  <1>8. CASE SenderRestarts
    <2>1. outcome' = Resolve(Msg, "lost") /\ UNCHANGED <<calls, delivered, reached>>
      BY <1>8 DEF SenderRestarts, receiver
    <2> QED
      BY <1>0, <2>1, ResolveGivesUp
  <1>9. CASE ReceiverRestarts
    BY <1>9 DEF ReceiverRestarts, sender, Contract!Afresh, Contract!Next
  <1>10. CASE OnChannelSeq
    <2>1. /\ UNCHANGED <<calls, outcome>>
          /\ data \in Seq(SeqFrame) /\ data # <<>>
      BY <1>0, <1>10 DEF OnChannelSeq, sender, TypeOK
    <2>2. \/ UNCHANGED <<delivered, reached>>
          \/ /\ delivered' = Append(delivered, Head(data).msg)
             /\ reached' = reached \cup {Head(data).msg}
             /\ \A i \in 1..Len(delivered) : delivered[i] < Head(data).msg
      BY <1>0, <1>10, ReceiveStep
    <2>3. Head(data).msg \in Msg /\ outcome[Head(data).msg] # "none"
      <3>1. 1 \in 1..Len(data) /\ Head(data) = data[1] /\ Head(data) \in SeqFrame
        BY <2>1
      <3>2. Head(data).msg <= calls
        BY ZenonT(30), <1>0, <3>1, InKnown DEF Numbered, NumbersGivenOut
      <3>3. Head(data).msg \in Msg
        BY <3>1 DEF SeqFrame
      <3>4. ~(Head(data).msg > calls)
        <4>1. calls \in 0..MaxMsgs
          BY <1>0 DEF TypeOK
        <4> DEFINE w == Head(data).msg
        <4>2. w \in 1..MaxMsgs /\ w <= calls
          BY <3>2, <3>3 DEF Msg
        <4> HIDE DEF w
        <4>3. ~(w > calls)
          BY <4>1, <4>2, ReliableBounds
        <4> QED
          BY <4>3 DEF w
      <3> QED
        BY <1>0, <3>3, <3>4 DEF CallsCounted
    <2> QED
      BY <2>1, <2>2, <2>3 DEF Contract!Deliver, Contract!Next, Contract!Msg, Msg
  <1> QED
    BY <1>1, <1>2, <1>3, <1>4, <1>5, <1>6, <1>7, <1>8, <1>9, <1>10, DisciplinedNext

(* Under the same discipline the outbox, its streams, retransmits and acks *)
(* implement the contract of reliable.rs.                                  *)
THEOREM ContractKept ==
    ASSUME Disciplined
    PROVE  Spec => KeepsContract
  <1>1. Init => Contract!Init
    BY DEF Init, Contract!Init, Contract!Msg, Msg
  <1>2. ReliableInv /\ [Next]_vars => ReliableInv'
    BY NextReliableInv
  <1>3. ReliableInv /\ ReliableInv' /\ [Next]_vars => [Contract!Next]_(Contract!vars)
    BY StepOfContract
  <1> QED
    BY <1>1, <1>2, <1>3, InitReliableInv, PTL DEF Spec, KeepsContract, Contract!Spec
=============================================================================
