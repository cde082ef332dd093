------------------------ MODULE ReliableOrderProofs -------------------------
(***************************************************************************)
(* What the safety of acknowledged delivery rests on (ReliableProofs), for *)
(* every number of messages, sessions, faults and restarts and every       *)
(* outbox capacity: numbers are given out in call order and stay aligned   *)
(* with it wherever a message is, no step leaves a gap below what arrived, *)
(* and the steps that fill, flush, settle and expire the outbox keep       *)
(* ReliableInv.                                                            *)
(***************************************************************************)
EXTENDS Reliable, TLAPS

(* What a leaf is tried with, in this order, and for how many seconds.     *)
USE ZenonT(3), SMTT(25), ZenonT(40)

-----------------------------------------------------------------------------
(* Frames                                                                  *)

(* What a flush sends is a frame.                                          *)
LEMMA FrameOfType ==
    ASSUME flush \in [Task -> Flush], NEW t \in Task, NEW f \in flush[t].batch
    PROVE  FrameOf(t, f) \in SeqFrame /\ f \in [msg : Msg, seq : Nat]
  <1>1. flush[t] \in Flush
    OBVIOUS
  <1>2. f \in [msg : Msg, seq : Nat]
    BY <1>1 DEF Flush
  <1> QED
    BY <1>1, <1>2 DEF Flush, FrameOf, SeqFrame

(* An ack leaves on its own session, or it does not leave.                 *)
LEMMA SendAckCases ==
    ASSUME NEW a, SendAck(a)
    PROVE  /\ back' = back \/ back' = Append(back, a)
           /\ faults' = faults \/ (faults < MaxFaults /\ faults' = faults + 1)
  <1>1. CASE /\ back' = IF sess = rsess THEN Append(back, a) ELSE back
             /\ UNCHANGED faults
    BY <1>1
  <1>2. CASE /\ faults < MaxFaults
             /\ faults' = faults + 1
             /\ UNCHANGED back
    BY <1>2
  <1> QED
    BY <1>1, <1>2, Zenon DEF SendAck

-----------------------------------------------------------------------------
(* Numbers and their order                                                 *)

(* The outbox loses entries, or marks them, but gives out no number.       *)
Kept ==
    /\ \A e \in entries' : \E d \in entries : d.msg = e.msg /\ d.seq = e.seq
    /\ stream' = stream \/ (stream' = 0 /\ entries' = {})
    /\ UNCHANGED <<calls, minted, nextSeq>>

(* The members of Known.                                                   *)
LEMMA InKnown ==
    /\ \A i \in 1..Len(data) : data[i] \in Known
    /\ \A e \in entries : [stream |-> stream, seq |-> e.seq, msg |-> e.msg] \in Known
    /\ delivered # <<>> =>
         [stream |-> mark.stream, seq |-> mark.last, msg |-> delivered[Len(delivered)]] \in Known
  BY DEF Known, Wire, Queued, Seen

(* What is known is numbered.                                              *)
LEMMA KnownTyped ==
    ASSUME TypeOK
    PROVE  Known \subseteq SeqFrame
  <1>1. Wire \subseteq SeqFrame
    BY DEF TypeOK, Wire
  <1>2. Queued \subseteq SeqFrame
    BY DEF TypeOK, Queued, Entry, SeqFrame
  <1>3. Seen \subseteq SeqFrame
    <2>1. CASE delivered = <<>>
      BY <2>1 DEF Seen
    <2>2. CASE delivered # <<>>
      <3>1. delivered \in Seq(Msg)
        BY DEF TypeOK
      <3>2. delivered[Len(delivered)] \in Msg
        BY <2>2, <3>1
      <3> QED
        BY <2>2, <3>2 DEF Seen, TypeOK, SeqFrame
    <2> QED
      BY <2>1, <2>2
  <1> QED
    BY <1>1, <1>2, <1>3 DEF Known

(* The same number is the same message.                                    *)
LEMMA SameNumber ==
    ASSUME TypeOK, Aligned, NEW x \in Known, NEW y \in Known
    PROVE  x.msg = y.msg <=> x.stream = y.stream /\ x.seq = y.seq
  <1>1. x \in SeqFrame /\ y \in SeqFrame
    BY KnownTyped
  <1>2. (Before(x, y) <=> x.msg < y.msg) /\ (Before(y, x) <=> y.msg < x.msg)
    BY DEF Aligned
  <1> QED
    BY <1>1, <1>2, ReliableBounds DEF Before, SeqFrame, Msg

(* A step that gives out no number keeps the order and the range of those  *)
(* in use.                                                                 *)
LEMMA NumbersKept ==
    ASSUME TypeOK, TypeOK', NumbersGivenOut, Aligned, Kept,
           Wire' \subseteq Known, Seen' \subseteq Known
    PROVE  /\ Aligned'
           /\ stream' # 0 => stream' = minted'
           /\ stream' = 0 => entries' = {}
           /\ \A x \in Known' :
                 /\ x.stream >= 1 /\ x.seq >= 1 /\ x.msg <= calls'
                 /\ GivenOut(x.stream, x.seq)'
  <1>1. Queued' \subseteq Queued
    BY DEF Kept, Queued
  <1>2. Known' \subseteq Known
    BY <1>1 DEF Known
  <1>3. Aligned'
    BY <1>2 DEF Aligned, Before
  <1>4. /\ stream' # 0 => stream' = minted'
        /\ stream' = 0 => entries' = {}
    BY DEF Kept, NumbersGivenOut
  <1>5. ASSUME NEW x \in Known'
        PROVE  /\ x.stream >= 1 /\ x.seq >= 1 /\ x.msg <= calls'
               /\ GivenOut(x.stream, x.seq)'
    <2>1. x \in Known /\ x \in SeqFrame
      BY <1>2, KnownTyped
    <2>2. /\ x.stream >= 1 /\ x.seq >= 1 /\ x.msg <= calls
          /\ x.stream <= minted /\ (x.stream = stream => x.seq <= nextSeq)
      BY <2>1 DEF NumbersGivenOut, GivenOut
    <2>3. calls' = calls /\ minted' = minted /\ nextSeq' = nextSeq
          /\ (stream' = stream \/ stream' = 0)
      BY DEF Kept
    <2>4. x.stream <= minted' /\ (x.stream = stream' => x.seq <= nextSeq')
      BY <2>1, <2>2, <2>3 DEF SeqFrame
    <2> QED
      BY <2>2, <2>3, <2>4 DEF GivenOut
  <1> QED
    BY <1>3, <1>4, <1>5

(* The parts of ReliableInv that speak of numbers.                         *)
Numbered ==
    /\ NumbersGivenOut /\ Aligned /\ StreamsInOrder /\ InOrderOnce
    /\ NoGapOnWire /\ NoGapAtMark /\ AcksHonest

(* Acks that lose members stay within range and honest.                    *)
LEMMA AcksKept ==
    ASSUME TypeOK, NumbersGivenOut, AcksHonest, Kept, Acks' \subseteq Acks,
           reached \subseteq reached'
    PROVE  /\ \A a \in Acks' : a.stream >= 1 /\ GivenOut(a.stream, a.upTo)'
           /\ AcksHonest'
  <1>1. \A a \in Acks' : /\ a.stream >= 1 /\ a.stream <= minted
                         /\ a.stream = stream => a.upTo <= nextSeq
    BY DEF NumbersGivenOut, GivenOut
  <1>2. minted' = minted /\ nextSeq' = nextSeq /\ (stream' = stream \/ stream' = 0)
    BY DEF Kept
  <1>3. Acks \subseteq AckFrame
    BY DEF Acks, TypeOK
  <1>4. \A a \in Acks' : a.stream # 0
    BY <1>1, <1>3 DEF AckFrame
  <1>5. \A a \in Acks' : a.stream >= 1 /\ GivenOut(a.stream, a.upTo)'
    BY <1>1, <1>2, <1>4 DEF GivenOut
  <1>6. AcksHonest'
    <2> SUFFICES ASSUME NEW a \in Acks', a.stream = stream',
                        NEW e \in entries', e.seq <= a.upTo
                 PROVE  e.msg \in reached'
      BY DEF AcksHonest
    <2>1. PICK d \in entries : d.msg = e.msg /\ d.seq = e.seq
      BY DEF Kept
    <2>2. stream' = stream
      BY <1>2, <1>4
    <2> QED
      BY <2>1, <2>2 DEF AcksHonest
  <1> QED
    BY <1>5, <1>6

(* A step of the sender that sends nothing keeps all of it.                *)
LEMMA QuietStep ==
    ASSUME TypeOK, TypeOK', Numbered, Kept, Acks' \subseteq Acks,
           UNCHANGED <<data, mark, delivered, reached>>
    PROVE  Numbered'
  <1>1. Wire' = Wire /\ Seen' = Seen
    BY DEF Wire, Seen
  <1>2. /\ Aligned'
        /\ stream' # 0 => stream' = minted'
        /\ stream' = 0 => entries' = {}
        /\ \A x \in Known' :
              /\ x.stream >= 1 /\ x.seq >= 1 /\ x.msg <= calls'
              /\ GivenOut(x.stream, x.seq)'
    BY <1>1, NumbersKept DEF Numbered, Known
  <1>3. /\ \A a \in Acks' : a.stream >= 1 /\ GivenOut(a.stream, a.upTo)'
        /\ AcksHonest'
    BY AcksKept DEF Numbered
  <1>4. minted' = minted /\ nextSeq' = nextSeq /\ (stream' = stream \/ stream' = 0)
    BY DEF Kept
  <1>5. GivenOut(mark.stream, mark.last)'
    <2>1. /\ mark.stream <= minted /\ (mark.stream = stream => mark.last <= nextSeq)
          /\ (mark.stream = 0 => mark.last = 0)
      BY DEF Numbered, NumbersGivenOut, GivenOut, StreamsInOrder
    <2>2. nextSeq \in Nat
      BY DEF TypeOK
    <2>3. CASE stream' = stream
      BY <1>4, <2>1, <2>3 DEF GivenOut
    <2>4. CASE stream' = 0
      BY <1>4, <2>1, <2>2, <2>4 DEF GivenOut
    <2> QED
      BY <1>4, <2>3, <2>4
  <1>6. StreamsInOrder' /\ InOrderOnce'
    BY <1>4 DEF Numbered, StreamsInOrder, InOrderOnce
  <1>7. NoGapOnWire'
    <2> SUFFICES ASSUME NEW i \in 1..Len(data), NEW e \in entries',
                        data[i].stream = stream', e.seq < data[i].seq
                 PROVE  e.msg \in reached \/ \E j \in 1..(i - 1) : data[j].msg = e.msg
      BY DEF NoGapOnWire
    <2>1. PICK d \in entries : d.msg = e.msg /\ d.seq = e.seq
      BY DEF Kept
    <2>2. stream' = stream
      BY DEF Kept
    <2> QED
      BY <2>1, <2>2 DEF Numbered, NoGapOnWire
  <1>8. NoGapAtMark'
    <2> SUFFICES ASSUME mark.stream = stream', NEW e \in entries', e.seq <= mark.last
                 PROVE  e.msg \in reached
      BY DEF NoGapAtMark
    <2>1. PICK d \in entries : d.msg = e.msg /\ d.seq = e.seq
      BY DEF Kept
    <2>2. stream' = stream
      BY DEF Kept
    <2> QED
      BY <2>1, <2>2 DEF Numbered, NoGapAtMark
  <1> QED
    BY <1>2, <1>3, <1>5, <1>6, <1>7, <1>8 DEF Numbered, NumbersGivenOut

(* The driver sends the first frame of its batch.  On a live session it    *)
(* joins the wire behind everything numbered below it.                     *)
LEMMA SendStep ==
    ASSUME TypeOK, TypeOK', Numbered, FlushSound, SentLanded,
           flush["driver"].pc = "sending",
           NEW f \in flush["driver"].batch, First("driver", f),
           Transmit(FrameOf("driver", f)),
           UNCHANGED <<calls, stream, minted, nextSeq, entries, mark, delivered, reached, back>>
    PROVE  /\ Numbered'
           /\ Wire \subseteq Wire'
           /\ rsess = sess => \E x \in Wire' : x.msg = f.msg
  <1> DEFINE g == [stream |-> stream, seq |-> f.seq, msg |-> f.msg]
  <1>0. Kept /\ Acks' = Acks
    BY DEF Kept, Acks
  <1>1. CASE rsess # sess
    <2>1. data' = data
      BY <1>1 DEF Transmit
    <2> QED
      BY <1>0, <1>1, <2>1, QuietStep DEF Wire
  <1>2. CASE rsess = sess
    <2>1. sess # 0 /\ stream # 0 /\ FrameOf("driver", f) = g
      BY DEF FlushSound, FrameOf
    <2>2. g \in Queued /\ g \in Known
      BY DEF FlushSound, Queued, Known
    <2> DEFINE n == Len(data)
    <2>3. data' = Append(data, g) /\ data \in Seq(SeqFrame) /\ g \in SeqFrame
      BY ZenonT(30), <1>2, <2>1, <2>2, KnownTyped DEF Transmit, TypeOK
    <2>4. g.stream = stream /\ g.seq = f.seq /\ g.msg = f.msg
      OBVIOUS
    <2> HIDE DEF g
    <2>5. /\ n \in Nat /\ Len(data') = n + 1 /\ data'[n + 1] = g
          /\ \A i \in 1..n : data'[i] = data[i]
      BY <2>3
    <2>6. \A i \in 1..Len(data') : i \in 1..n \/ i = n + 1
      BY <2>5
    <2>7. Wire' \subseteq Wire \cup {g} /\ Wire \subseteq Wire' /\ g \in Wire'
      <3>1. Wire' \subseteq Wire \cup {g}
        BY <2>5, <2>6 DEF Wire
      <3>2. \A i \in 1..n : i \in 1..Len(data')
        BY <2>5
      <3>3. n + 1 \in 1..Len(data')
        BY <2>5
      <3> QED
        BY <2>5, <3>1, <3>2, <3>3 DEF Wire
    <2>8. Wire' \subseteq Known /\ Seen' \subseteq Known
      BY <2>2, <2>7 DEF Known, Seen
    <2>9. /\ Aligned'
          /\ stream' # 0 => stream' = minted'
          /\ stream' = 0 => entries' = {}
          /\ \A x \in Known' :
                /\ x.stream >= 1 /\ x.seq >= 1 /\ x.msg <= calls'
                /\ GivenOut(x.stream, x.seq)'
      BY <1>0, <2>8, NumbersKept DEF Numbered
    <2>10. NumbersGivenOut'
      <3>1. \A a \in Acks' : a.stream >= 1 /\ GivenOut(a.stream, a.upTo)'
        BY <1>0, AcksKept DEF Numbered
      <3>2. GivenOut(mark.stream, mark.last)'
        BY DEF Numbered, NumbersGivenOut, GivenOut
      <3> QED
        BY <2>9, <3>1, <3>2 DEF NumbersGivenOut
    <2>11. StreamsInOrder'
      <3>1. stream = minted
        BY <2>1 DEF Numbered, NumbersGivenOut
      <3>2. \A i \in 1..n : data[i].stream <= stream
        BY <3>1, InKnown DEF Numbered, NumbersGivenOut, GivenOut
      <3>3. \A i \in 1..Len(data') : mark.stream <= data'[i].stream
        BY <2>4, <2>5, <2>6, <3>1 DEF Numbered, StreamsInOrder
      <3>4. \A i, j \in 1..Len(data') : i < j => data'[i].stream <= data'[j].stream
        <4> SUFFICES ASSUME NEW i \in 1..Len(data'), NEW j \in 1..Len(data'), i < j
                     PROVE  data'[i].stream <= data'[j].stream
          OBVIOUS
        <4>1. i \in 1..n /\ data'[i] = data[i]
          BY <2>5, <2>6
        <4>2. CASE j \in 1..n
          BY <2>5, <4>1, <4>2 DEF Numbered, StreamsInOrder
        <4>3. CASE j = n + 1
          BY <2>4, <2>5, <3>2, <4>1, <4>3
        <4> QED
          BY <2>6, <4>2, <4>3
      <3> QED
        BY <3>3, <3>4 DEF Numbered, StreamsInOrder
    <2>12. NoGapOnWire'
      <3> SUFFICES ASSUME NEW i \in 1..Len(data'), NEW e \in entries,
                          data'[i].stream = stream, e.seq < data'[i].seq
                   PROVE  e.msg \in reached \/ \E j \in 1..(i - 1) : data'[j].msg = e.msg
        BY DEF NoGapOnWire
      <3>1. CASE i \in 1..n
        <4>1. e.msg \in reached \/ \E j \in 1..(i - 1) : data[j].msg = e.msg
          BY <2>5, <3>1 DEF Numbered, NoGapOnWire
        <4>2. \A j \in 1..(i - 1) : data'[j] = data[j]
          BY <2>5, <3>1
        <4> QED
          BY <4>1, <4>2
      <3>2. CASE i = n + 1
        <4>1. e.seq < f.seq
          BY <2>4, <2>5, <3>2
        <4>2. e.sent
          <5> SUFFICES ASSUME ~e.sent PROVE FALSE
            OBVIOUS
          <5>1. [msg |-> e.msg, seq |-> e.seq] \in flush["driver"].batch
            BY DEF FlushSound
          <5>2. f.seq <= e.seq
            BY <5>1 DEF First
          <5>3. f.seq \in Nat /\ e.seq \in Nat
            BY ZenonT(30), FrameOfType DEF TypeOK, Task, Entry
          <5> QED
            BY <4>1, <5>2, <5>3
        <4>3. e.msg \in reached \/ \E x \in Wire : x.msg = e.msg
          BY <1>2, <2>1, <4>2 DEF SentLanded, Landed
        <4>4. CASE \E x \in Wire : x.msg = e.msg
          <5>1. PICK j \in 1..n : data[j].msg = e.msg
            BY <4>4 DEF Wire
          <5>2. j \in 1..(i - 1) /\ data'[j] = data[j]
            BY <2>5, <3>2
          <5> QED
            BY <5>1, <5>2
        <4> QED
          BY <4>3, <4>4
      <3> QED
        BY <2>6, <3>1, <3>2
    <2>13. InOrderOnce' /\ NoGapAtMark' /\ AcksHonest'
      BY <1>0 DEF Numbered, InOrderOnce, NoGapAtMark, AcksHonest
    <2> QED
      BY <2>4, <2>7, <2>9, <2>10, <2>11, <2>12, <2>13 DEF Numbered
  <1> QED
    BY <1>1, <1>2

(* The receiver handles the first frame on the wire: what is delivered is  *)
(* above everything delivered before, and nothing below it is skipped.     *)
LEMMA ReceiveStep ==
    ASSUME TypeOK, TypeOK', Numbered, OnChannelSeq
    PROVE  /\ Numbered'
           /\ \A m : (Landed(m) /\ \E e \in entries : e.msg = m) => Landed(m)'
           /\ reached \subseteq reached'
           /\ \/ UNCHANGED <<delivered, reached>>
              \/ /\ delivered' = Append(delivered, Head(data).msg)
                 /\ reached' = reached \cup {Head(data).msg}
                 /\ \A i \in 1..Len(delivered) : delivered[i] < Head(data).msg
  <1> DEFINE f == data[1]
             m == Adopted(f.stream)
             n == Len(data)
  <1>1. /\ n \in Nat \ {0} /\ Head(data) = f /\ f \in SeqFrame /\ f \in Known
        /\ Len(Tail(data)) = n - 1
        /\ \A i \in 1..(n - 1) : Tail(data)[i] = data[i + 1] /\ i + 1 \in 1..n
    <2>1. data \in Seq(SeqFrame) /\ data # <<>>
      BY DEF OnChannelSeq, TypeOK
    <2>2. n \in Nat \ {0} /\ Head(data) = f /\ f \in SeqFrame
          /\ Len(Tail(data)) = n - 1
      BY <2>1
    <2>3. \A i \in 1..(n - 1) : Tail(data)[i] = data[i + 1] /\ i + 1 \in 1..n
      BY <2>1, <2>2
    <2>4. f \in Known
      BY <2>2, InKnown
    <2> QED
      BY <2>2, <2>3, <2>4
  <1>2. /\ data' = Tail(data)
        /\ mark' = IF Fresh(m, f) THEN [m EXCEPT !.last = f.seq] ELSE m
        /\ IF Fresh(m, f) THEN Accept(f.msg) ELSE UNCHANGED <<delivered, reached>>
        /\ SendAck([stream |-> f.stream, upTo |-> mark'.last])
        /\ UNCHANGED <<calls, stream, minted, nextSeq, entries, sess, rsess>>
    BY <1>1 DEF OnChannelSeq, sender, outbox
  <1>3. /\ f.stream \in Nat /\ f.seq \in Nat /\ f.msg \in Msg
        /\ f.stream >= 1 /\ f.seq >= 1 /\ f.stream <= minted
        /\ f.stream = stream => f.seq <= nextSeq
        /\ mark.stream <= f.stream
    BY <1>1 DEF Numbered, NumbersGivenOut, GivenOut, StreamsInOrder, SeqFrame
  <1>4. mark \in [stream : Nat, last : Nat] /\ delivered \in Seq(Msg) /\ minted \in Nat
    BY DEF TypeOK
  <1>5. \/ m = mark /\ mark.stream = f.stream
        \/ m = [stream |-> f.stream, last |-> 0] /\ mark.stream # f.stream
    <2>1. m = IF mark.stream = f.stream THEN mark ELSE [stream |-> f.stream, last |-> 0]
      BY DEF Adopted
    <2> HIDE DEF f, m
    <2>2. CASE mark.stream = f.stream
      BY <2>1, <2>2
    <2>3. CASE mark.stream # f.stream
      BY <2>1, <2>3
    <2> QED
      BY <2>2, <2>3
  <1> HIDE DEF f, m, n
  (* Either f is delivered and becomes the mark, or nothing changes.       *)
  <1>6. \/ /\ Fresh(m, f)
           /\ mark' = [stream |-> f.stream, last |-> f.seq]
           /\ delivered' = Append(delivered, f.msg)
           /\ reached' = reached \cup {f.msg}
           /\ mark.stream < f.stream \/ (mark.stream = f.stream /\ mark.last < f.seq)
        \/ /\ mark' = mark /\ mark.stream = f.stream /\ f.seq <= mark.last
           /\ UNCHANGED <<delivered, reached>>
    <2>1. CASE Fresh(m, f)
      <3>1. mark' = [m EXCEPT !.last = f.seq] /\ Accept(f.msg)
        BY <1>2, <2>1
      <3>2. f.seq > m.last
        BY <2>1 DEF Fresh
      <3>3. mark' = [stream |-> f.stream, last |-> f.seq]
        BY <1>4, <1>5, <3>1
      <3>4. mark.stream < f.stream \/ (mark.stream = f.stream /\ mark.last < f.seq)
        BY <1>3, <1>4, <1>5, <3>2
      <3>5. delivered' = Append(delivered, f.msg) /\ reached' = reached \cup {f.msg}
        BY <3>1 DEF Accept
      <3> QED
        BY <2>1, <3>3, <3>4, <3>5
    <2>2. CASE ~Fresh(m, f)
      <3>1. mark' = m /\ UNCHANGED <<delivered, reached>>
        BY <1>2, <2>2
      <3>2. ~(f.seq > m.last)
        BY <2>2 DEF Fresh
      <3>3. m = mark /\ mark.stream = f.stream
        BY <1>3, <1>5, <3>2
      <3> QED
        BY <1>3, <1>4, <3>1, <3>2, <3>3
    <2> QED
      BY <2>1, <2>2
  <1>7. /\ Len(data') = n - 1
        /\ \A i \in 1..Len(data') : data'[i] = data[i + 1] /\ i + 1 \in 1..n
    BY <1>1, <1>2
  <1>8. Wire' \subseteq Wire /\ \A x \in Wire : x \in Wire' \/ x = f
    <2>1. Wire' \subseteq Wire
      BY <1>7 DEF Wire, n
    <2>2. ASSUME NEW x \in Wire, x # f PROVE x \in Wire'
      <3>1. PICK i \in 1..n : x = data[i]
        BY DEF Wire, n
      <3>2. i # 1
        BY <2>2, <3>1 DEF f
      <3>3. i - 1 \in 1..Len(data') /\ (i - 1) + 1 = i
        BY <1>1, <1>7, <3>1, <3>2
      <3>4. data'[i - 1] = data[i]
        BY <1>7, <3>3
      <3> QED
        BY <3>1, <3>3, <3>4 DEF Wire
    <2> QED
      BY <2>1, <2>2
  <1>9. Kept
    BY <1>2 DEF Kept
  <1>10. Seen' \subseteq Known
    <2>1. CASE mark' = mark /\ UNCHANGED <<delivered, reached>>
      BY <2>1 DEF Seen, Known
    <2>2. CASE mark' = [stream |-> f.stream, last |-> f.seq]
               /\ delivered' = Append(delivered, f.msg)
      <3>1. delivered'[Len(delivered')] = f.msg
        BY <1>3, <1>4, <2>2
      <3>2. f = [stream |-> f.stream, seq |-> f.seq, msg |-> f.msg]
        BY <1>1 DEF SeqFrame
      <3>3. Seen' \subseteq {f}
        BY <2>2, <3>1, <3>2 DEF Seen
      <3> QED
        BY <1>1, <3>3
    <2> QED
      BY <1>6, <2>1, <2>2
  <1>11. /\ Aligned'
         /\ stream' # 0 => stream' = minted'
         /\ stream' = 0 => entries' = {}
         /\ \A x \in Known' :
               /\ x.stream >= 1 /\ x.seq >= 1 /\ x.msg <= calls'
               /\ GivenOut(x.stream, x.seq)'
    <2>1. Wire' \subseteq Known
      BY <1>8 DEF Known
    <2> QED
      BY <1>9, <1>10, <2>1, NumbersKept DEF Numbered
  <1>12. /\ mark'.stream = f.stream
         /\ GivenOut(f.stream, mark'.last)
    <2>1. CASE mark' = mark /\ mark.stream = f.stream
      BY <2>1 DEF Numbered, NumbersGivenOut
    <2>2. CASE mark' = [stream |-> f.stream, last |-> f.seq]
      BY <1>3, <2>2 DEF GivenOut
    <2> QED
      BY <1>6, <2>1, <2>2
  <1>13. reached \subseteq reached'
    BY <1>6
  (* An entry that travels as f is reached now.                            *)
  <1>14. ASSUME NEW e \in entries, e.msg = f.msg PROVE e.msg \in reached'
    <2>1. CASE reached' = reached \cup {f.msg}
      BY <1>14, <2>1
    <2>2. CASE mark' = mark /\ mark.stream = f.stream /\ f.seq <= mark.last
      <3>1. f.stream = stream /\ f.seq = e.seq
        BY ZenonT(30), <1>1, <1>14, InKnown, SameNumber DEF Numbered
      <3> QED
        BY <1>13, <2>2, <3>1 DEF Numbered, NoGapAtMark
    <2> QED
      BY <1>6, <2>1, <2>2
  <1>15. NoGapAtMark'
    <2> SUFFICES ASSUME f.stream = stream, NEW e \in entries, e.seq <= mark'.last
                 PROVE  e.msg \in reached'
      BY <1>2, <1>12 DEF NoGapAtMark
    <2>1. CASE mark' = mark
      BY <1>12, <1>13, <2>1 DEF Numbered, NoGapAtMark
    <2>2. CASE mark' = [stream |-> f.stream, last |-> f.seq]
      <3>1. e.seq \in Nat
        BY ZenonT(30) DEF TypeOK, Entry
      <3>2. CASE e.seq = f.seq
        <4>1. e.msg = f.msg
          BY ZenonT(30), <1>1, <3>2, InKnown, SameNumber DEF Numbered
        <4> QED
          BY <1>14, <4>1
      <3>3. CASE e.seq # f.seq
        <4>1. e.seq < f.seq
          BY <1>3, <2>2, <3>1, <3>3
        <4>2. 1 \in 1..Len(data) /\ data[1] = f
          BY <1>1 DEF n, f
        <4>3. e.msg \in reached \/ \E j \in 1..(1 - 1) : data[j].msg = e.msg
          BY <4>1, <4>2 DEF Numbered, NoGapOnWire
        <4> QED
          BY <1>13, <4>3
      <3> QED
        BY <3>2, <3>3
    <2> QED
      BY <1>6, <2>1, <2>2
  <1> DEFINE ack == [stream |-> f.stream, upTo |-> mark'.last]
  <1>16. Acks' \subseteq Acks \cup {ack}
    <2>1. back' = back \/ back' = Append(back, ack)
      BY <1>2, SendAckCases, Zenon
    <2>2. back \in Seq(AckFrame)
      BY DEF TypeOK
    <2> HIDE DEF ack
    <2>3. CASE back' = back
      BY <2>3 DEF Acks
    <2>4. CASE back' = Append(back, ack)
      <3>1. /\ Len(back) \in Nat /\ Len(back') = Len(back) + 1
            /\ back'[Len(back) + 1] = ack
            /\ \A k \in 1..Len(back) : back'[k] = back[k]
        BY <2>2, <2>4
      <3>2. \A k \in 1..Len(back') : k \in 1..Len(back) \/ k = Len(back) + 1
        BY <3>1
      <3> QED
        BY <3>1, <3>2 DEF Acks
    <2> QED
      BY <2>1, <2>3, <2>4
  <1>17. NumbersGivenOut'
    <2>1. GivenOut(mark.stream, mark.last)'
      BY <1>2, <1>12 DEF GivenOut
    <2>2. ASSUME NEW a \in Acks' PROVE a.stream >= 1 /\ GivenOut(a.stream, a.upTo)'
      <3>1. CASE a \in Acks
        BY <1>2, <3>1 DEF Numbered, NumbersGivenOut, GivenOut
      <3>2. CASE a = ack
        <4>1. a.stream = f.stream /\ a.upTo = mark'.last
          BY <3>2
        <4> QED
          BY <1>2, <1>3, <1>12, <4>1 DEF GivenOut
      <3> QED
        BY <1>16, <3>1, <3>2
    <2> QED
      BY <1>11, <2>1, <2>2 DEF NumbersGivenOut
  <1>18. AcksHonest'
    <2> SUFFICES ASSUME NEW a \in Acks', a.stream = stream,
                        NEW e \in entries, e.seq <= a.upTo
                 PROVE  e.msg \in reached'
      BY <1>2 DEF AcksHonest
    <2>1. CASE a \in Acks
      BY <1>13, <2>1 DEF Numbered, AcksHonest
    <2>2. CASE a = ack
      <3>1. a.stream = mark'.stream /\ a.upTo = mark'.last
        BY <1>12, <2>2
      <3> QED
        BY <1>2, <1>15, <3>1 DEF NoGapAtMark
    <2> QED
      BY <1>16, <2>1, <2>2
  <1>19. StreamsInOrder'
    <2>1. mark'.stream <= minted'
      BY <1>2, <1>3, <1>12
    <2>2. delivered' = <<>> => mark'.stream = 0
      <3>1. CASE mark' = mark /\ UNCHANGED <<delivered, reached>>
        BY <3>1 DEF Numbered, StreamsInOrder
      <3>2. CASE delivered' = Append(delivered, f.msg)
        <4>1. Len(delivered') = Len(delivered) + 1 /\ Len(delivered) \in Nat
          BY <1>3, <1>4, <3>2
        <4>2. Len(delivered') # 0
          BY <4>1
        <4> QED
          BY <4>2
      <3> QED
        BY <1>6, <3>1, <3>2
    <2>3. mark'.stream = 0 => mark'.last = 0
      BY <1>3, <1>12
    <2>4. \A i \in 1..Len(data') : mark'.stream <= data'[i].stream
      <3> SUFFICES ASSUME NEW i \in 1..Len(data')
                   PROVE  f.stream <= data'[i].stream
        BY <1>12
      <3>1. data'[i] = data[i + 1] /\ i + 1 \in 1..Len(data) /\ 1 \in 1..Len(data) /\ 1 < i + 1
        BY <1>1, <1>7 DEF n
      <3>2. data[1].stream <= data[i + 1].stream
        BY <3>1 DEF Numbered, StreamsInOrder
      <3> QED
        BY <3>1, <3>2 DEF f
    <2>5. \A i, j \in 1..Len(data') : i < j => data'[i].stream <= data'[j].stream
      <3> SUFFICES ASSUME NEW i \in 1..Len(data'), NEW j \in 1..Len(data'), i < j
                   PROVE  data'[i].stream <= data'[j].stream
        OBVIOUS
      <3>1. /\ data'[i] = data[i + 1] /\ i + 1 \in 1..Len(data)
            /\ data'[j] = data[j + 1] /\ j + 1 \in 1..Len(data) /\ i + 1 < j + 1
        BY <1>1, <1>7 DEF n
      <3> QED
        BY <3>1 DEF Numbered, StreamsInOrder
    <2> QED
      BY <2>1, <2>2, <2>3, <2>4, <2>5 DEF StreamsInOrder
  (* What was delivered is below f, if f is fresh.                         *)
  <1>20. ASSUME mark.stream < f.stream \/ (mark.stream = f.stream /\ mark.last < f.seq)
         PROVE  \A i \in 1..Len(delivered) : delivered[i] < f.msg
    <2>0. InOrderOnce
      BY DEF Numbered
    <2> DEFINE x == [stream |-> mark.stream, seq |-> mark.last, msg |-> delivered[Len(delivered)]]
    <2>1. ASSUME NEW i \in 1..Len(delivered) PROVE delivered[i] < f.msg
      <3>1. /\ delivered # <<>> /\ Len(delivered) \in 1..Len(delivered)
            /\ delivered[i] \in Int /\ delivered[Len(delivered)] \in Int /\ f.msg \in Int
        BY <1>3, <1>4, ReliableBounds DEF Msg
      <3>2. x \in Known
        BY <3>1, InKnown
      <3>3. x.msg < f.msg
        BY <1>1, <1>20, <3>2 DEF Numbered, Aligned, Before
      <3>4. CASE i = Len(delivered)
        BY <3>3, <3>4
      <3>5. CASE i # Len(delivered)
        <4>1. i < Len(delivered)
          BY <1>4, <3>5
        <4>2. delivered[i] < delivered[Len(delivered)]
          BY <2>0, <3>1, <4>1 DEF InOrderOnce
        <4> QED
          BY <3>1, <3>3, <4>2
      <3> QED
        BY <3>4, <3>5
    <2> QED
      BY <2>1
  <1>21. InOrderOnce'
    <2>1. CASE UNCHANGED <<delivered, reached>>
      BY <2>1 DEF Numbered, InOrderOnce
    <2>2. CASE /\ delivered' = Append(delivered, f.msg)
               /\ mark.stream < f.stream \/ (mark.stream = f.stream /\ mark.last < f.seq)
      <3> SUFFICES ASSUME NEW i \in 1..Len(delivered'), NEW j \in 1..Len(delivered'), i < j
                   PROVE  delivered'[i] < delivered'[j]
        BY DEF InOrderOnce
      <3>1. /\ Len(delivered) \in Nat /\ Len(delivered') = Len(delivered) + 1
            /\ delivered'[Len(delivered) + 1] = f.msg
            /\ \A k \in 1..Len(delivered) : delivered'[k] = delivered[k]
        BY <1>3, <1>4, <2>2
      <3>2. i \in 1..Len(delivered) /\ delivered'[i] = delivered[i]
        BY <3>1
      <3>3. CASE j \in 1..Len(delivered)
        BY <3>1, <3>2, <3>3 DEF Numbered, InOrderOnce
      <3>4. CASE j = Len(delivered) + 1
        BY <1>20, <2>2, <3>1, <3>2, <3>4
      <3> QED
        BY <3>1, <3>3, <3>4
    <2> QED
      BY <1>6, <2>1, <2>2
  <1>22. NoGapOnWire'
    <2> SUFFICES ASSUME NEW i \in 1..Len(data'), NEW e \in entries,
                        data'[i].stream = stream, e.seq < data'[i].seq
                 PROVE  e.msg \in reached' \/ \E j \in 1..(i - 1) : data'[j].msg = e.msg
      BY <1>2 DEF NoGapOnWire
    <2>1. data'[i] = data[i + 1] /\ i + 1 \in 1..Len(data) /\ i \in Nat
      BY <1>1, <1>7 DEF n
    <2>2. e.msg \in reached \/ \E j \in 1..((i + 1) - 1) : data[j].msg = e.msg
      BY <2>1 DEF Numbered, NoGapOnWire
    <2>3. CASE \E j \in 1..((i + 1) - 1) : data[j].msg = e.msg
      <3>1. PICK j \in 1..i : data[j].msg = e.msg
        BY <2>1, <2>3
      <3>2. CASE j = 1
        BY <1>14, <3>1, <3>2 DEF f
      <3>3. CASE j # 1
        <4>1. j - 1 \in 1..(i - 1) /\ j - 1 \in 1..Len(data') /\ (j - 1) + 1 = j
          BY <1>1, <1>7, <3>3
        <4>2. data'[j - 1] = data[j]
          BY <1>7, <4>1
        <4> QED
          BY <3>1, <4>1, <4>2
      <3> QED
        BY <3>2, <3>3
    <2> QED
      BY <1>13, <2>2, <2>3
  <1>23. ASSUME NEW w, Landed(w), NEW e \in entries, e.msg = w
         PROVE  Landed(w)'
    <2>1. CASE w \in reached
      BY <1>13, <2>1 DEF Landed
    <2>2. CASE \E x \in Wire : x.msg = w
      <3>1. PICK x \in Wire : x.msg = w
        BY <2>2
      <3>2. CASE x = f
        BY <1>14, <1>23, <3>1, <3>2 DEF Landed
      <3>3. CASE x \in Wire'
        BY <3>1, <3>3 DEF Landed
      <3> QED
        BY <1>8, <3>2, <3>3
    <2> QED
      BY <1>23, <2>1, <2>2 DEF Landed
  <1>24. Numbered'
    BY <1>11, <1>15, <1>17, <1>18, <1>19, <1>21, <1>22 DEF Numbered
  <1>25. \/ UNCHANGED <<delivered, reached>>
         \/ /\ delivered' = Append(delivered, Head(data).msg)
            /\ reached' = reached \cup {Head(data).msg}
            /\ \A i \in 1..Len(delivered) : delivered[i] < Head(data).msg
    <2>1. Head(data) = f
      BY <1>1
    <2> QED
      BY <1>6, <1>20, <2>1
  <1> QED
    BY <1>13, <1>23, <1>24, <1>25

(* A call that is queued takes a number above all in use.                  *)
LEMMA EnqueueStep ==
    ASSUME TypeOK, TypeOK', Numbered, Enqueue, ~Full
    PROVE  Numbered'
  <1> DEFINE s == IF stream = 0 THEN minted + 1 ELSE stream
             n == IF stream = 0 THEN 1 ELSE nextSeq + 1
             d == [msg |-> calls + 1, seq |-> n, sent |-> FALSE]
             g == [stream |-> s, seq |-> n, msg |-> calls + 1]
  <1>1. /\ stream' = s /\ nextSeq' = n /\ calls' = calls + 1
        /\ minted' = IF stream = 0 THEN minted + 1 ELSE minted
        /\ entries' = entries \cup {d}
        /\ UNCHANGED <<mark, delivered, reached, data, back>>
    BY DEF Enqueue, receiver
  <1>2. /\ stream \in Nat /\ minted \in Nat /\ nextSeq \in Nat /\ calls \in Nat
        /\ mark.stream \in Nat /\ mark.last \in Nat
        /\ Acks \subseteq AckFrame /\ Known \subseteq SeqFrame
    <2>1. calls \in 0..MaxMsgs /\ back \in Seq(AckFrame) /\ mark \in [stream : Nat, last : Nat]
      BY DEF TypeOK
    <2>2. Acks \subseteq AckFrame
      BY <2>1 DEF Acks
    <2>3. calls \in Nat /\ mark.stream \in Nat /\ mark.last \in Nat
      BY <2>1, ReliableBounds
    <2>4. Known \subseteq SeqFrame
      BY KnownTyped
    <2>5. stream \in Nat /\ minted \in Nat /\ nextSeq \in Nat
      BY DEF TypeOK
    <2> QED
      BY <2>2, <2>3, <2>4, <2>5
  <1>3. stream # 0 => stream = minted
    BY DEF Numbered, NumbersGivenOut
  <1>4. stream = 0 => entries = {}
    BY DEF Numbered, NumbersGivenOut
  <1>5. s = minted' /\ minted <= minted' /\ s >= 1 /\ n >= 1 /\ s \in Nat /\ n \in Nat
    BY <1>1, <1>2, <1>3
  (* A number given out before is below the new one.                       *)
  <1>6. ASSUME NEW t \in Nat, NEW k \in Nat, GivenOut(t, k), t # 0
        PROVE  /\ t < s \/ (t = s /\ k < n)
               /\ GivenOut(t, k)'
               /\ t = s => stream = s
    <2>1. t <= minted /\ (t = stream => k <= nextSeq)
      BY <1>6 DEF GivenOut
    <2>2. CASE stream = 0
      <3>1. s = minted + 1 /\ n = 1 /\ stream' = minted + 1 /\ minted' = minted + 1
        BY <1>1, <2>2
      <3>2. t < s /\ t <= minted' /\ t # stream'
        BY <1>2, <2>1, <3>1
      <3> QED
        BY <1>2, <3>2 DEF GivenOut
    <2>3. CASE stream # 0
      <3>1. s = minted /\ n = nextSeq + 1 /\ stream' = minted /\ minted' = minted
            /\ stream = minted /\ nextSeq' = nextSeq + 1
        BY <1>1, <1>3, <2>3
      <3>2. t < s \/ (t = s /\ k < n)
        BY <1>2, <2>1, <3>1
      <3>3. t <= minted' /\ (t = stream' => k <= nextSeq')
        BY <1>2, <2>1, <3>1
      <3> QED
        BY <3>1, <3>2, <3>3 DEF GivenOut
    <2> QED
      BY <2>2, <2>3
  <1>7. g.stream = s /\ g.seq = n /\ g.msg = calls + 1 /\ d.seq = n /\ d.msg = calls + 1
    OBVIOUS
  <1>8. Known' \subseteq Known \cup {g}
    <2>1. Wire' = Wire /\ Seen' = Seen
      BY ZenonT(30), <1>1 DEF Wire, Seen
    <2>2. Queued' \subseteq Queued \cup {g}
      <3> SUFFICES ASSUME NEW e \in entries'
                   PROVE  [stream |-> s, seq |-> e.seq, msg |-> e.msg] \in Queued \cup {g}
        BY ZenonT(30), <1>1 DEF Queued
      <3>1. CASE e = d
        BY <3>1
      <3>2. CASE e \in entries
        <4>1. s = stream
          BY <1>4, <3>2
        <4> QED
          BY <3>2, <4>1 DEF Queued
      <3> QED
        BY <1>1, <3>1, <3>2
    <2> QED
      BY <2>1, <2>2 DEF Known
  <1> HIDE DEF s, n, d, g
  <1>9. ASSUME NEW x \in Known
        PROVE  /\ x.stream \in Nat /\ x.seq \in Nat /\ x.msg \in Nat
               /\ x.stream >= 1 /\ x.seq >= 1 /\ x.msg <= calls
               /\ x.stream < s \/ (x.stream = s /\ x.seq < n)
               /\ GivenOut(x.stream, x.seq)'
               /\ x.stream = s => stream = s
    <2>1. x.stream \in Nat /\ x.seq \in Nat /\ x.msg \in Nat
      BY <1>2, ReliableBounds DEF SeqFrame, Msg
    <2>2. x.stream >= 1 /\ x.seq >= 1 /\ x.msg <= calls /\ GivenOut(x.stream, x.seq)
      BY DEF Numbered, NumbersGivenOut
    <2>3. x.stream # 0
      BY <2>1, <2>2
    <2> QED
      BY <1>6, <2>1, <2>2, <2>3
  <1>10. Aligned'
    <2> SUFFICES ASSUME NEW x \in Known \cup {g}, NEW y \in Known \cup {g}
                 PROVE  Before(x, y) <=> x.msg < y.msg
      BY <1>8 DEF Aligned, Before
    <2>1. CASE x \in Known /\ y \in Known
      BY <2>1 DEF Numbered, Aligned
    <2>2. CASE x \in Known /\ y = g
      BY <1>2, <1>5, <1>7, <1>9, <2>2 DEF Before
    <2>3. CASE x = g /\ y \in Known
      BY <1>2, <1>5, <1>7, <1>9, <2>3 DEF Before
    <2>4. CASE x = g /\ y = g
      BY <1>2, <1>5, <1>7, <2>4 DEF Before
    <2> QED
      BY <2>1, <2>2, <2>3, <2>4
  <1>11. NumbersGivenOut'
    <2>1. stream' # 0 /\ stream' = minted'
      BY <1>1, <1>5
    <2>2. ASSUME NEW x \in Known'
          PROVE  /\ x.stream >= 1 /\ x.seq >= 1 /\ x.msg <= calls'
                 /\ GivenOut(x.stream, x.seq)'
      <3>1. CASE x \in Known
        BY <1>1, <1>2, <1>9, <3>1
      <3>2. CASE x = g
        BY <1>1, <1>2, <1>5, <1>7, <3>2 DEF GivenOut
      <3> QED
        BY <1>8, <3>1, <3>2
    <2>3. GivenOut(mark.stream, mark.last)'
      <3>1. GivenOut(mark.stream, mark.last)
        BY DEF Numbered, NumbersGivenOut
      <3>2. CASE mark.stream = 0
        BY <1>1, <1>2, <1>5, <3>2 DEF GivenOut
      <3>3. CASE mark.stream # 0
        BY <1>1, <1>2, <1>6, <3>1, <3>3 DEF GivenOut
      <3> QED
        BY <3>2, <3>3
    <2>4. ASSUME NEW a \in Acks' PROVE a.stream >= 1 /\ GivenOut(a.stream, a.upTo)'
      <3>1. a \in Acks /\ a.stream \in Nat /\ a.upTo \in Nat
        BY <1>1, <1>2 DEF Acks, AckFrame
      <3>2. a.stream >= 1 /\ GivenOut(a.stream, a.upTo)
        BY <3>1 DEF Numbered, NumbersGivenOut
      <3> QED
        BY <1>6, <3>1, <3>2
    <2> QED
      BY <2>1, <2>2, <2>3, <2>4 DEF NumbersGivenOut
  <1>12. StreamsInOrder'
    <2>1. mark.stream <= minted'
      BY <1>2, <1>5 DEF Numbered, StreamsInOrder
    <2> QED
      BY <1>1, <2>1 DEF Numbered, StreamsInOrder
  <1>13. InOrderOnce'
    BY <1>1 DEF Numbered, InOrderOnce
  <1>14. NoGapOnWire'
    <2> SUFFICES ASSUME NEW i \in 1..Len(data), NEW e \in entries',
                        data[i].stream = s, e.seq < data[i].seq
                 PROVE  e.msg \in reached \/ \E j \in 1..(i - 1) : data[j].msg = e.msg
      BY <1>1 DEF NoGapOnWire
    <2>1. data[i] \in Known
      BY ZenonT(30), InKnown
    <2>2. data[i].seq \in Nat /\ data[i].seq < n /\ stream = s
      BY <1>5, <1>9, <2>1
    <2>3. e \in entries
      BY <1>1, <1>5, <1>7, <2>2
    <2> QED
      BY <2>2, <2>3 DEF Numbered, NoGapOnWire
  <1>15. NoGapAtMark'
    <2> SUFFICES ASSUME mark.stream = s, NEW e \in entries', e.seq <= mark.last
                 PROVE  e.msg \in reached
      BY <1>1 DEF NoGapAtMark
    <2>1. GivenOut(mark.stream, mark.last) /\ mark.stream # 0
      BY <1>5 DEF Numbered, NumbersGivenOut
    <2>2. mark.last < n /\ stream = s
      BY <1>2, <1>5, <1>6, <2>1
    <2>3. e \in entries
      BY <1>1, <1>2, <1>5, <1>7, <2>2
    <2> QED
      BY <2>2, <2>3 DEF Numbered, NoGapAtMark
  <1>16. AcksHonest'
    <2> SUFFICES ASSUME NEW a \in Acks, a.stream = s, NEW e \in entries', e.seq <= a.upTo
                 PROVE  e.msg \in reached
      BY <1>1 DEF AcksHonest, Acks
    <2>1. a.stream \in Nat /\ a.upTo \in Nat
      BY <1>2 DEF AckFrame
    <2>2. GivenOut(a.stream, a.upTo) /\ a.stream # 0
      BY <1>5 DEF Numbered, NumbersGivenOut
    <2>3. a.upTo < n /\ stream = s
      BY <1>5, <1>6, <2>1, <2>2
    <2>4. e \in entries
      BY <1>1, <1>5, <1>7, <2>1, <2>3
    <2> QED
      BY <2>3, <2>4 DEF Numbered, AcksHonest
  <1> QED
    BY <1>10, <1>11, <1>12, <1>13, <1>14, <1>15, <1>16 DEF Numbered

(* The receiver's end of a session goes away, with or without its mark.    *)
LEMMA CutStep ==
    ASSUME TypeOK, TypeOK', Numbered, data' = <<>>,
           UNCHANGED <<calls, stream, minted, nextSeq, entries, back, reached>>,
           \/ UNCHANGED <<mark, delivered>>
           \/ mark' = [stream |-> 0, last |-> 0] /\ delivered' = <<>>
    PROVE  Numbered'
  <1>1. Kept /\ Acks' = Acks
    BY ZenonT(30) DEF Kept, Acks
  <1>2. Len(data') = 0 /\ 1..Len(data') = {}
    OBVIOUS
  <1>3. Wire' = {} /\ Seen' \subseteq Known
    <2>1. Wire' = {}
      BY <1>2 DEF Wire
    <2>2. CASE UNCHANGED <<mark, delivered>>
      BY <2>1, <2>2 DEF Seen, Known
    <2>3. CASE delivered' = <<>>
      BY <2>1, <2>3 DEF Seen
    <2> QED
      BY <2>1, <2>2, <2>3
  <1>4. /\ Aligned'
        /\ stream' # 0 => stream' = minted'
        /\ stream' = 0 => entries' = {}
        /\ \A x \in Known' :
              /\ x.stream >= 1 /\ x.seq >= 1 /\ x.msg <= calls'
              /\ GivenOut(x.stream, x.seq)'
    BY <1>1, <1>3, NumbersKept DEF Numbered
  <1>5. /\ \A a \in Acks' : a.stream >= 1 /\ GivenOut(a.stream, a.upTo)'
        /\ AcksHonest'
    BY <1>1, AcksKept DEF Numbered
  <1>6. minted \in Nat /\ nextSeq \in Nat
    BY DEF TypeOK
  <1>7. GivenOut(mark.stream, mark.last)' /\ NoGapAtMark' /\ mark'.stream <= minted'
        /\ (delivered' = <<>> => mark'.stream = 0) /\ (mark'.stream = 0 => mark'.last = 0)
    <2>1. CASE UNCHANGED <<mark, delivered>>
      BY <2>1 DEF Numbered, NumbersGivenOut, GivenOut, NoGapAtMark, StreamsInOrder
    <2>2. CASE mark' = [stream |-> 0, last |-> 0] /\ delivered' = <<>>
      <3>1. mark'.stream = 0 /\ mark'.last = 0
        BY <2>2
      <3>2. stream' = 0 => entries' = {}
        BY <1>4
      <3>3. NoGapAtMark'
        BY <3>1, <3>2 DEF NoGapAtMark
      <3> QED
        BY <1>6, <3>1, <3>3 DEF GivenOut
    <2> QED
      BY <2>1, <2>2
  <1>8. NoGapOnWire'
    BY <1>2 DEF NoGapOnWire
  <1>9. StreamsInOrder'
    BY <1>2, <1>7 DEF StreamsInOrder
  <1>10. InOrderOnce'
    <2>1. CASE UNCHANGED <<mark, delivered>>
      BY <2>1 DEF Numbered, InOrderOnce
    <2>2. CASE delivered' = <<>>
      BY <2>2 DEF InOrderOnce
    <2> QED
      BY <2>1, <2>2
  <1> QED
    BY <1>4, <1>5, <1>7, <1>8, <1>9, <1>10 DEF Numbered, NumbersGivenOut

(* A flush that begins holds what is unsent.                               *)
LEMMA BeginFlushSound ==
    ASSUME NEW up, NEW mode, NEW s, NEW es, flush \in [Task -> Flush],
           flush' = BeginFlush("driver", up, mode, s, es)
    PROVE  /\ flush'["caller"] = flush["caller"]
           /\ \/ flush'["driver"].pc = "idle"
              \/ /\ up # 0 /\ es # {}
                 /\ flush'["driver"].pc = "sending"
                 /\ flush'["driver"].acked = mode
                 /\ flush'["driver"].stream = s
                 /\ \A b \in flush'["driver"].batch : \E e \in es : e.msg = b.msg /\ e.seq = b.seq
                 /\ \A e \in es : ~e.sent =>
                        [msg |-> e.msg, seq |-> e.seq] \in flush'["driver"].batch
  <1> DEFINE unsent == {e \in es : ~e.sent}
             b == {[msg |-> e.msg, seq |-> e.seq] : e \in unsent}
             fl == [pc |-> "sending", acked |-> mode, stream |-> s, batch |-> b]
             new == IF up # 0 /\ unsent # {} THEN fl ELSE NoFlush
  <1>1. flush' = [flush EXCEPT !["driver"] = new]
    BY ZenonT(30) DEF BeginFlush
  <1>2. (new = fl /\ up # 0 /\ unsent # {}) \/ new = NoFlush
    <2> HIDE DEF fl, unsent
    <2> QED
      OBVIOUS
  <1>3. flush'["caller"] = flush["caller"] /\ flush'["driver"] = new
    <2> HIDE DEF new
    <2> QED
      BY <1>1 DEF Task
  <1>4. CASE new = NoFlush
    <2> HIDE DEF new
    <2> QED
      BY <1>3, <1>4 DEF NoFlush
  <1>5. CASE new = fl /\ up # 0 /\ unsent # {}
    <2>1. flush'["driver"] = fl
      <3> HIDE DEF new, fl
      <3> QED
        BY ZenonT(30), <1>3, <1>5
    <2>2. /\ flush'["driver"].pc = "sending" /\ flush'["driver"].acked = mode
          /\ flush'["driver"].stream = s /\ flush'["driver"].batch = b
      <3> HIDE DEF b
      <3> QED
        BY <2>1
    <2>3. \A x \in b : \E e \in es : e.msg = x.msg /\ e.seq = x.seq
      <3> TAKE x \in b
      <3>1. PICK e \in es : x = [msg |-> e.msg, seq |-> e.seq]
        BY ZenonT(30)
      <3>2. e.msg = x.msg /\ e.seq = x.seq
        BY <3>1
      <3> QED
        BY ZenonT(30), <3>2
    <2>4. \A e \in es : ~e.sent => [msg |-> e.msg, seq |-> e.seq] \in b
      BY ZenonT(30)
    <2>5. es # {}
      BY ZenonT(30), <1>5
    <2> HIDE DEF new, b
    <2> QED
      BY ZenonT(30), <1>3, <1>5, <2>2, <2>3, <2>4, <2>5
  <1> QED
    BY ZenonT(30), <1>2, <1>4, <1>5

(* The parts of ReliableInv that speak of sessions and flushes, and what   *)
(* keeps them when the wire stands still.                                  *)
Carried == SessionsPaired /\ FlushSound /\ SentLanded

LEMMA LandedKept ==
    ASSUME UNCHANGED <<data, reached>>
    PROVE  \A m : Landed(m)' <=> Landed(m)
  <1>1. Wire' = Wire
    BY DEF Wire
  <1> QED
    BY <1>1 DEF Landed

LEMMA SessionsKept ==
    ASSUME SessionsPaired, UNCHANGED <<sess, rsess, data, admits, acks, closing>>,
           entries' \subseteq entries, flush'["caller"] = flush["caller"]
    PROVE  SessionsPaired'
  BY DEF SessionsPaired

LEMMA SentKept ==
    ASSUME SentLanded, UNCHANGED <<sess, rsess, data, reached>>, entries' \subseteq entries
    PROVE  SentLanded'
  BY LandedKept DEF SentLanded

LEMMA FlushKept ==
    ASSUME FlushSound, UNCHANGED <<sess, rsess, stream, flush, entries, data, reached>>
    PROVE  FlushSound'
  <1>1. \A f : First("driver", f)' <=> First("driver", f)
    BY DEF First
  <1> QED
    BY <1>1, LandedKept DEF FlushSound

-----------------------------------------------------------------------------
(* One lemma per step.                                                     *)

(* A call is refused, or queued and its flush begins.                      *)
LEMMA EnqueueKeeps ==
    ASSUME ReliableInv, TypeOK', Enqueue
    PROVE  ReliableInv'
  <1>1. TypeOK /\ Numbered /\ Carried /\ CallsCounted /\ OkMeansDelivered
    BY DEF ReliableInv, Numbered, Carried
  <1>2. /\ calls' = calls + 1 /\ calls + 1 \in Msg /\ calls \in Nat
        /\ flush["driver"].pc = "idle"
        /\ UNCHANGED <<sess, acks, closing, rsess, admits, mark, data, back, delivered, reached>>
    <2>1. calls' = calls + 1 /\ calls < MaxMsgs /\ flush["driver"].pc = "idle"
      BY DEF Enqueue, DriverIdle
    <2>2. UNCHANGED <<sess, acks, closing, rsess, admits, mark, data, back, delivered, reached>>
      BY DEF Enqueue, receiver
    <2>3. calls \in Nat
      BY <1>1 DEF TypeOK
    <2> QED
      BY <2>1, <2>2, <2>3, ReliableBounds DEF Msg
  <1>3. \E r \in {"err", "waiting"} : outcome' = [outcome EXCEPT ![calls + 1] = r]
    BY DEF Enqueue
  <1>4. outcome \in [Msg -> Outcome]
    BY <1>1 DEF TypeOK
  <1>5. CallsCounted'
    BY <1>1, <1>2, <1>3, <1>4, ReliableBounds DEF CallsCounted, Msg
  <1>6. OkMeansDelivered'
    BY <1>1, <1>2, <1>3, <1>4 DEF OkMeansDelivered
  <1>7. CASE Full
    <2>1. UNCHANGED <<stream, minted, nextSeq, entries, flush>>
      BY <1>7 DEF Enqueue, outbox
    <2>2. Carried'
      BY <1>1, <1>2, <2>1, SessionsKept, FlushKept, SentKept DEF Carried
    <2>3. Numbered'
      <3>1. Known' = Known /\ Acks' = Acks
        BY <1>2, <2>1 DEF Known, Wire, Queued, Seen, Acks
      <3>2. \A x \in Known : x.msg <= calls'
        <4>1. \A x \in Known : x.msg <= calls /\ x.msg \in Int
          BY <1>1, KnownTyped, ReliableBounds DEF Numbered, NumbersGivenOut, SeqFrame, Msg
        <4> QED
          BY <1>2, <4>1
      <3>3. NumbersGivenOut'
        BY <1>1, <1>2, <2>1, <3>1, <3>2 DEF Numbered, NumbersGivenOut, GivenOut
      <3>4. Aligned'
        BY <1>1, <3>1 DEF Numbered, Aligned, Before
      <3>5. StreamsInOrder' /\ InOrderOnce' /\ NoGapOnWire' /\ NoGapAtMark' /\ AcksHonest'
        BY <1>1, <1>2, <2>1, <3>1
           DEF Numbered, StreamsInOrder, InOrderOnce, NoGapOnWire, NoGapAtMark, AcksHonest
      <3> QED
        BY <3>3, <3>4, <3>5 DEF Numbered
    <2> QED
      BY <1>5, <1>6, <2>2, <2>3 DEF ReliableInv, Numbered, Carried
  <1>8. CASE ~Full
    <2> DEFINE s == IF stream = 0 THEN minted + 1 ELSE stream
               n == IF stream = 0 THEN 1 ELSE nextSeq + 1
               d == [msg |-> calls + 1, seq |-> n, sent |-> FALSE]
               es == entries \cup {d}
    <2>1. stream' = s /\ entries' = es /\ flush' = BeginFlush("driver", sess, acks, s, es)
      BY <1>8 DEF Enqueue
    <2>2. ~d.sent /\ s # 0
      BY <1>1 DEF TypeOK
    <2> HIDE DEF s, n, d
    <2>3. Numbered'
      BY <1>1, <1>8, EnqueueStep
    <2>4. /\ flush'["caller"] = flush["caller"]
          /\ \/ flush'["driver"].pc = "idle"
             \/ /\ sess # 0 /\ es # {}
                /\ flush'["driver"].pc = "sending"
                /\ flush'["driver"].acked = acks
                /\ flush'["driver"].stream = s
                /\ \A b \in flush'["driver"].batch : \E e \in es : e.msg = b.msg /\ e.seq = b.seq
                /\ \A e \in es : ~e.sent =>
                       [msg |-> e.msg, seq |-> e.seq] \in flush'["driver"].batch
      <3>1. flush \in [Task -> Flush]
        BY <1>1 DEF TypeOK
      <3> HIDE DEF es
      <3> QED
        BY <2>1, <3>1, BeginFlushSound
    <2>5. SessionsPaired'
      BY ZenonT(30), <1>1, <1>2, <2>1, <2>2, <2>4 DEF Carried, SessionsPaired
    <2>6. FlushSound'
      BY ZenonT(30), <1>1, <1>2, <2>1, <2>2, <2>4 DEF Carried, SessionsPaired, FlushSound
    <2>7. SentLanded'
      <3>1. \A m : Landed(m)' <=> Landed(m)
        BY <1>2, LandedKept
      <3>2. \A e \in entries' : e.sent => e \in entries
        BY <2>1, <2>2
      <3> QED
        BY ZenonT(30), <1>1, <1>2, <3>1, <3>2 DEF Carried, SentLanded
    <2> QED
      BY <1>5, <1>6, <2>3, <2>5, <2>6, <2>7 DEF ReliableInv, Numbered
  <1> QED
    BY <1>7, <1>8

(* Two first frames of a batch are the same message.                       *)
LEMMA FirstUnique ==
    ASSUME ReliableInv, flush["driver"].pc # "idle",
           NEW f \in flush["driver"].batch, First("driver", f)
    PROVE  /\ \A g \in flush["driver"].batch : First("driver", g) => g.msg = f.msg
           /\ \A e \in entries : e.seq = f.seq => e.msg = f.msg
  <1>1. TypeOK /\ Aligned /\ FlushSound
    BY DEF ReliableInv
  <1>2. PICK d \in entries : d.msg = f.msg /\ d.seq = f.seq
    BY <1>1 DEF FlushSound
  <1>3. \A e \in entries : e.seq = f.seq => e.msg = f.msg
    <2> SUFFICES ASSUME NEW e \in entries, e.seq = f.seq PROVE e.msg = f.msg
      OBVIOUS
    <2> DEFINE x == [stream |-> stream, seq |-> e.seq, msg |-> e.msg]
               y == [stream |-> stream, seq |-> d.seq, msg |-> d.msg]
    <2>1. x \in Known /\ y \in Known
      BY InKnown
    <2>2. x.stream = y.stream /\ x.seq = y.seq /\ x.msg = e.msg /\ y.msg = f.msg
      BY <1>2
    <2> HIDE DEF x, y
    <2> QED
      BY <1>1, <2>1, <2>2, SameNumber
  <1>4. ASSUME NEW g \in flush["driver"].batch, First("driver", g) PROVE g.msg = f.msg
    <2>1. PICK e \in entries : e.msg = g.msg /\ e.seq = g.seq
      BY ZenonT(30), <1>1 DEF FlushSound
    <2>2. f.seq \in Nat /\ g.seq \in Nat
      BY <1>1, FrameOfType DEF TypeOK, Task
    <2>3. f.seq = g.seq
      BY <1>4, <2>2 DEF First
    <2> QED
      BY <1>3, <2>1, <2>3
  <1> QED
    BY <1>3, <1>4

(* A frame is sent, or its send fails.                                     *)
LEMMA FlushSendKeeps ==
    ASSUME ReliableInv, TypeOK', FlushSend("driver") \/ FlushErr("driver")
    PROVE  ReliableInv'
  <1>1. TypeOK /\ Numbered /\ Carried /\ CallsCounted /\ OkMeansDelivered
    BY DEF ReliableInv, Numbered, Carried
  <1>2. /\ flush["driver"].pc = "sending"
        /\ UNCHANGED <<calls, outcome, stream, minted, nextSeq, entries, sess, acks, closing,
                       rsess, admits, mark, back, delivered, reached>>
    BY DEF FlushSend, FlushErr, outbox, receiver
  <1>3. \/ data' = data /\ flush' = [flush EXCEPT !["driver"] = NoFlush]
        \/ /\ \E f \in flush["driver"].batch : First("driver", f) /\ Transmit(FrameOf("driver", f))
           /\ flush' = [flush EXCEPT !["driver"].pc = "marking"]
              \/ flush' = [flush EXCEPT !["driver"] = NoFlush]
    BY DEF FlushSend, FlushErr
  <1>4. CallsCounted' /\ OkMeansDelivered'
    BY <1>1, <1>2 DEF CallsCounted, OkMeansDelivered
  <1>5. flush \in [Task -> Flush] /\ flush["driver"] \in Flush /\ NoFlush.pc = "idle"
    BY <1>1 DEF TypeOK, Task, NoFlush
  <1>6. CASE data' = data /\ flush' = [flush EXCEPT !["driver"] = NoFlush]
    <2>1. Kept /\ Acks' = Acks
      BY <1>2 DEF Kept, Acks
    <2>2. Numbered'
      BY <1>1, <1>2, <1>6, <2>1, QuietStep
    <2>3. flush'["driver"].pc = "idle" /\ flush'["caller"] = flush["caller"]
      BY <1>5, <1>6 DEF Task
    <2>4. Carried'
      <3>1. FlushSound'
        BY <2>3 DEF FlushSound
      <3> QED
        BY <1>1, <1>2, <1>6, <2>3, <3>1, SessionsKept, SentKept DEF Carried
    <2> QED
      BY <1>4, <2>2, <2>4 DEF ReliableInv, Numbered, Carried
  <1>7. ASSUME NEW f \in flush["driver"].batch, First("driver", f),
               Transmit(FrameOf("driver", f)),
               \/ flush' = [flush EXCEPT !["driver"].pc = "marking"]
               \/ flush' = [flush EXCEPT !["driver"] = NoFlush]
        PROVE  ReliableInv'
    <2>1. /\ Numbered'
          /\ Wire \subseteq Wire'
          /\ rsess = sess => \E x \in Wire' : x.msg = f.msg
      BY <1>1, <1>2, <1>7, SendStep DEF Carried
    <2>2. SentLanded'
      BY ZenonT(30), <1>1, <1>2, <2>1 DEF Carried, SentLanded, Landed
    <2>3. /\ flush'["caller"] = flush["caller"]
          /\ \/ flush'["driver"].pc = "idle"
             \/ /\ flush'["driver"].batch = flush["driver"].batch
                /\ flush'["driver"].acked = flush["driver"].acked
                /\ flush'["driver"].stream = flush["driver"].stream
      BY <1>5, <1>7 DEF Task, Flush
    <2>4. SessionsPaired'
      <3>1. data' = data \/ rsess # 0
        BY <1>1, <1>2, <1>7 DEF Carried, FlushSound, Transmit
      <3> QED
        BY <1>1, <1>2, <2>3, <3>1 DEF Carried, SessionsPaired
    <2>5. FlushSound'
      <3>1. CASE flush'["driver"].pc = "idle"
        BY ZenonT(30), <3>1 DEF FlushSound
      <3>2. CASE flush'["driver"].pc # "idle"
        <4>1. /\ sess # 0 /\ flush'["driver"].acked /\ flush'["driver"].stream = stream
              /\ stream # 0
              /\ \A b \in flush'["driver"].batch : \E e \in entries : e.msg = b.msg /\ e.seq = b.seq
              /\ \A e \in entries : ~e.sent =>
                    [msg |-> e.msg, seq |-> e.seq] \in flush'["driver"].batch
          BY ZenonT(30), <1>1, <1>2, <2>3, <3>2 DEF Carried, FlushSound
        <4>2. ASSUME rsess = sess, NEW g \in flush'["driver"].batch, First("driver", g)'
              PROVE  Landed(g.msg)'
          <5>1. g \in flush["driver"].batch /\ First("driver", g)
            BY <2>3, <3>2, <4>2 DEF First
          <5>2. g.msg = f.msg
            BY <1>2, <1>7, <5>1, FirstUnique
          <5> QED
            BY <2>1, <4>2, <5>2 DEF Landed
        <4> QED
          BY ZenonT(30), <1>2, <4>1, <4>2 DEF FlushSound
      <3> QED
        BY <3>1, <3>2
    <2> QED
      BY <1>4, <2>1, <2>2, <2>4, <2>5 DEF ReliableInv, Numbered
  <1> QED
    BY <1>3, <1>6, <1>7

(* A frame that left is recorded as sent.                                  *)
LEMMA FlushMarkKeeps ==
    ASSUME ReliableInv, TypeOK', FlushMark("driver")
    PROVE  ReliableInv'
  <1> DEFINE fl == flush["driver"]
  <1>1. TypeOK /\ Numbered /\ Carried /\ CallsCounted /\ OkMeansDelivered
    BY DEF ReliableInv, Numbered, Carried
  <1>2. /\ fl.pc = "marking"
        /\ UNCHANGED <<calls, stream, minted, nextSeq, sess, acks, closing,
                       rsess, admits, mark, data, back, delivered, reached>>
    BY DEF FlushMark, receiver, bounds
  <1>3. fl.acked /\ stream # 0 /\ sess # 0 /\ fl.stream = stream
    BY <1>1, <1>2 DEF Carried, FlushSound
  <1>4. PICK f \in fl.batch :
           /\ First("driver", f)
           /\ entries' = MarkSent(entries, f.seq)
           /\ UNCHANGED outcome
           /\ flush' = [flush EXCEPT !["driver"] =
                          IF stream = 0 \/ fl.batch = {f}
                          THEN NoFlush
                          ELSE [fl EXCEPT !.pc = "sending", !.batch = fl.batch \ {f}]]
    BY ZenonT(30), <1>3 DEF FlushMark
  <1>5. fl \in Flush /\ flush \in [Task -> Flush]
    BY ZenonT(30), <1>1 DEF TypeOK, Task
  <1>6. ASSUME NEW d \in entries'
        PROVE  \E e \in entries : /\ d.msg = e.msg /\ d.seq = e.seq
                                  /\ d.sent <=> e.sent \/ e.seq = f.seq
    <2>1. PICK e \in entries : d = [e EXCEPT !.sent = @ \/ e.seq = f.seq]
      BY <1>4 DEF MarkSent
    <2>2. e \in Entry
      BY <1>1 DEF TypeOK
    <2> QED
      BY ZenonT(30), <2>1, <2>2 DEF Entry
  <1>7. ASSUME NEW e \in entries
        PROVE  \E d \in entries' : d.msg = e.msg /\ d.seq = e.seq
    <2> DEFINE d == [e EXCEPT !.sent = @ \/ e.seq = f.seq]
    <2>1. d \in entries'
      BY ZenonT(30), <1>4 DEF MarkSent
    <2>2. e \in Entry
      BY <1>1 DEF TypeOK
    <2>3. d.msg = e.msg /\ d.seq = e.seq
      BY <2>2 DEF Entry
    <2> HIDE DEF d
    <2> QED
      BY <2>1, <2>3
  <1>8. Numbered'
    <2>1. Kept /\ Acks' = Acks
      BY <1>2, <1>6 DEF Kept, Acks
    <2> QED
      BY <1>1, <1>2, <2>1, QuietStep
  <1>9. \A e \in entries : e.seq = f.seq => e.msg = f.msg
    BY <1>2, <1>4, FirstUnique
  <1>10. SentLanded'
    <2> SUFFICES ASSUME sess # 0, rsess = sess, NEW d \in entries', d.sent
                 PROVE  Landed(d.msg)
      BY <1>2 DEF SentLanded, Landed, Wire
    <2>1. PICK e \in entries : d.msg = e.msg /\ (e.sent \/ e.seq = f.seq)
      BY <1>6
    <2>2. CASE e.sent
      BY <1>1, <2>1, <2>2 DEF Carried, SentLanded
    <2>3. CASE e.seq = f.seq
      <3>1. Landed(f.msg)
        BY <1>1, <1>2, <1>4 DEF Carried, FlushSound
      <3> QED
        BY <1>9, <2>1, <2>3, <3>1
    <2> QED
      BY <2>1, <2>2, <2>3
  <1>11. flush'["caller"] = flush["caller"]
         /\ (flush'["driver"].pc = "idle"
             \/ /\ flush'["driver"].pc = "sending"
                /\ flush'["driver"].batch = fl.batch \ {f}
                /\ flush'["driver"].acked = fl.acked
                /\ flush'["driver"].stream = fl.stream)
    <2> DEFINE rest == [fl EXCEPT !.pc = "sending", !.batch = fl.batch \ {f}]
    <2>1. /\ rest.pc = "sending" /\ rest.batch = fl.batch \ {f}
          /\ rest.acked = fl.acked /\ rest.stream = fl.stream
      BY <1>5 DEF Flush
    <2>2. flush'["driver"] = rest \/ flush'["driver"] = NoFlush
      <3> HIDE DEF rest
      <3>1. flush' = [flush EXCEPT !["driver"] =
                          IF stream = 0 \/ fl.batch = {f} THEN NoFlush ELSE rest]
        BY <1>4 DEF rest
      <3> HIDE DEF fl
      <3> QED
        BY <1>5, <3>1 DEF Task
    <2>3. flush'["caller"] = flush["caller"]
      BY <1>4, <1>5 DEF Task
    <2>4. NoFlush.pc = "idle"
      BY DEF NoFlush
    <2> HIDE DEF rest, fl
    <2> QED
      BY <2>1, <2>2, <2>3, <2>4
  <1>12. SessionsPaired'
    BY ZenonT(30), <1>1, <1>2, <1>3, <1>11 DEF Carried, SessionsPaired
  <1>13. FlushSound'
    <2> SUFFICES ASSUME flush'["driver"].pc # "idle"
                 PROVE  FlushSound'
      BY DEF FlushSound
    <2>1. /\ flush'["driver"].pc = "sending"
          /\ flush'["driver"].batch = fl.batch \ {f}
          /\ flush'["driver"].acked = fl.acked
          /\ flush'["driver"].stream = fl.stream
      BY <1>11
    <2>2. \A b \in flush'["driver"].batch : \E d \in entries' : d.msg = b.msg /\ d.seq = b.seq
      <3> SUFFICES ASSUME NEW b \in fl.batch
                   PROVE  \E d \in entries' : d.msg = b.msg /\ d.seq = b.seq
        BY <2>1
      <3>1. PICK e \in entries : e.msg = b.msg /\ e.seq = b.seq
        BY <1>1, <1>2 DEF Carried, FlushSound
      <3> QED
        BY <1>7, <3>1
    <2>3. ASSUME NEW d \in entries', ~d.sent
          PROVE  [msg |-> d.msg, seq |-> d.seq] \in flush'["driver"].batch
      <3>1. PICK e \in entries : d.msg = e.msg /\ d.seq = e.seq /\ ~e.sent /\ e.seq # f.seq
        BY <1>6, <2>3
      <3>2. [msg |-> e.msg, seq |-> e.seq] \in fl.batch
        BY <1>1, <1>2, <3>1 DEF Carried, FlushSound
      <3>3. [msg |-> e.msg, seq |-> e.seq] # f
        BY <3>1
      <3> QED
        BY <2>1, <3>1, <3>2, <3>3
    <2>4. /\ sess' # 0 /\ flush'["driver"].acked
          /\ flush'["driver"].stream = stream' /\ stream' # 0
      BY ZenonT(30), <1>1, <1>2, <1>3, <2>1 DEF Carried, FlushSound
    <2>5. flush'["driver"].pc # "marking"
      BY ZenonT(30), <2>1
    <2> HIDE DEF fl
    <2> QED
      BY ZenonT(30), <2>2, <2>3, <2>4, <2>5 DEF FlushSound
  <1>14. CallsCounted' /\ OkMeansDelivered'
    BY <1>1, <1>2, <1>4 DEF CallsCounted, OkMeansDelivered
  <1> QED
    BY <1>8, <1>10, <1>12, <1>13, <1>14 DEF ReliableInv, Numbered

(* Resolving waits counts no call and, unless it says ok, claims nothing.  *)
LEMMA ResolveKeeps ==
    ASSUME ReliableInv, NEW M, NEW result \in {"ok", "err", "lost"},
           outcome' = Resolve(M, result), calls' = calls, reached' = reached,
           result = "ok" => M \subseteq reached
    PROVE  CallsCounted' /\ OkMeansDelivered'
  BY DEF ReliableInv, Resolve, CallsCounted, OkMeansDelivered

(* An ack resolves what it covers.                                         *)
LEMMA AckKeeps ==
    ASSUME ReliableInv, TypeOK', OnChannelAck
    PROVE  ReliableInv'
  <1>1. TypeOK /\ Numbered /\ Carried /\ CallsCounted /\ OkMeansDelivered
    BY DEF ReliableInv, Numbered, Carried
  <1>2. /\ flush["driver"].pc = "idle" /\ back # <<>> /\ back' = Tail(back)
        /\ UNCHANGED <<calls, minted, nextSeq, flush, sess, acks, closing,
                       rsess, admits, mark, data, delivered, reached>>
    BY DEF OnChannelAck, DriverIdle, receiver
  <1>3. back \in Seq(AckFrame)
    BY <1>1 DEF TypeOK
  <1>4. Acks' \subseteq Acks /\ Head(back) \in Acks
    <2>1. /\ Len(back) \in Nat \ {0} /\ Len(back') = Len(back) - 1 /\ Head(back) = back[1]
          /\ \A k \in 1..Len(back') : back'[k] = back[k + 1]
      BY <1>2, <1>3
    <2>2. \A k \in 1..Len(back') : k + 1 \in 1..Len(back)
      BY <2>1
    <2>3. 1 \in 1..Len(back)
      BY <2>1
    <2> QED
      BY <2>1, <2>2, <2>3 DEF Acks
  <1>5. entries' \subseteq entries /\ (stream' = stream \/ (stream' = 0 /\ entries' = {}))
    BY DEF OnChannelAck
  <1>6. Numbered'
    <2>1. Kept
      BY <1>2, <1>5 DEF Kept
    <2> QED
      BY <1>1, <1>2, <1>4, <2>1, QuietStep
  <1>7. Carried'
    <2>1. FlushSound'
      BY <1>2 DEF FlushSound
    <2> QED
      BY <1>1, <1>2, <1>5, <2>1, SessionsKept, SentKept DEF Carried
  <1>8. CallsCounted' /\ OkMeansDelivered'
    <2>1. CASE stream # 0 /\ Head(back).stream = stream
      <3> DEFINE left == {e \in entries : e.seq > Head(back).upTo}
                 M == Messages(entries) \ Messages(left)
      <3>1. outcome' = Resolve(M, "ok")
        BY <2>1 DEF OnChannelAck
      <3>2. M \subseteq reached
        <4> SUFFICES ASSUME NEW w \in M PROVE w \in reached
          OBVIOUS
        <4>1. PICK e \in entries : e.msg = w
          BY DEF Messages
        <4>2. ~(e.seq > Head(back).upTo)
          BY <4>1 DEF Messages
        <4>3. e.seq \in Nat /\ Head(back).upTo \in Nat
          <5>1. Head(back) \in AckFrame
            BY <1>2, <1>3
          <5>2. entries \in SUBSET Entry
            BY <1>1 DEF TypeOK
          <5> QED
            BY <4>1, <5>1, <5>2 DEF AckFrame, Entry
        <4>4. e.seq <= Head(back).upTo
          BY <4>2, <4>3
        <4> QED
          BY <1>1, <1>4, <2>1, <4>1, <4>4 DEF Numbered, AcksHonest
      <3> HIDE DEF M
      <3> QED
        BY <1>2, <3>1, <3>2, ResolveKeeps
    <2>2. CASE ~(stream # 0 /\ Head(back).stream = stream)
      <3>1. outcome' = outcome
        BY <2>2 DEF OnChannelAck
      <3> QED
        BY <1>1, <1>2, <3>1 DEF CallsCounted, OkMeansDelivered
    <2> QED
      BY <2>1, <2>2
  <1> QED
    BY <1>6, <1>7, <1>8 DEF ReliableInv, Numbered, Carried

(* The tick gives up on what lapsed and flushes the rest.                  *)
LEMMA TickKeeps ==
    ASSUME ReliableInv, TypeOK', NEW lapsed \in SUBSET Lapsable, Tick(lapsed)
    PROVE  ReliableInv'
  <1> DEFINE left == {e \in entries : e.msg \notin lapsed}
             s == IF left = {} THEN 0 ELSE stream
  <1>1. TypeOK /\ Numbered /\ Carried
    BY DEF ReliableInv, Numbered, Carried
  <1>2. /\ flush["driver"].pc = "idle"
        /\ UNCHANGED <<calls, minted, nextSeq, sess, acks, closing,
                       rsess, admits, mark, data, back, delivered, reached>>
    BY ZenonT(30) DEF Tick, DriverIdle, receiver
  <1>3. /\ outcome' = Resolve(lapsed, "err") /\ entries' = left /\ stream' = s
        /\ flush' = BeginFlush("driver", sess, acks, s, left)
    BY DEF Tick
  <1>4. left \subseteq entries /\ (s = stream \/ (s = 0 /\ left = {}))
    OBVIOUS
  <1>5. stream = 0 => entries = {}
    BY <1>1 DEF Numbered, NumbersGivenOut
  <1>6. left # {} => s # 0
    BY <1>4, <1>5
  <1> HIDE DEF left, s
  <1>7. Numbered'
    <2>1. Kept /\ Acks' = Acks
      BY <1>2, <1>3, <1>4 DEF Kept, Acks
    <2> QED
      BY <1>1, <1>2, <2>1, QuietStep
  <1>8. CallsCounted' /\ OkMeansDelivered'
    BY <1>2, <1>3, ResolveKeeps
  <1>9. /\ flush'["caller"] = flush["caller"]
        /\ \/ flush'["driver"].pc = "idle"
           \/ /\ sess # 0 /\ left # {}
              /\ flush'["driver"].pc = "sending"
              /\ flush'["driver"].acked = acks
              /\ flush'["driver"].stream = s
              /\ \A b \in flush'["driver"].batch : \E e \in left : e.msg = b.msg /\ e.seq = b.seq
              /\ \A e \in left : ~e.sent =>
                     [msg |-> e.msg, seq |-> e.seq] \in flush'["driver"].batch
    <2>1. flush \in [Task -> Flush]
      BY <1>1 DEF TypeOK
    <2> QED
      BY ZenonT(30), <1>3, <2>1, BeginFlushSound
  <1>10. SessionsPaired'
    BY ZenonT(30), <1>1, <1>2, <1>3, <1>4, <1>9 DEF Carried, SessionsPaired
  <1>11. FlushSound'
    BY ZenonT(30), <1>1, <1>2, <1>3, <1>6, <1>9 DEF Carried, SessionsPaired, FlushSound
  <1>12. SentLanded'
    BY ZenonT(30), <1>1, <1>2, <1>3, <1>4, SentKept DEF Carried
  <1> QED
    BY <1>7, <1>8, <1>10, <1>11, <1>12 DEF ReliableInv, Numbered
=============================================================================
