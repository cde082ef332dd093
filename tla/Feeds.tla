------------------------------- MODULE Feeds --------------------------------
(***************************************************************************)
(* What the daemon pushes to a client.  Video goes from the engine through *)
(* VideoFanout (engine/video_fanout.rs), the network's video pump          *)
(* (ipc/bridge.rs) and the client's media queue (ipc/media_queue.rs) to    *)
(* the socket of its media-source pipe (control.rs); audio shares that     *)
(* queue.  Mesh events go through a broadcast channel to the event socket. *)
(* One client, one peer, one lane; sample n carries sequence number n.     *)
(***************************************************************************)
EXTENDS Integers, Sequences, FiniteSets, SequencesExt

CONSTANTS
    MAX_PICTURES, MAX_BYTES, MAX_SAMPLES,          \* VideoFanout
    Capacity, OtherCapacity, ByteCapacity, MAX_QUEUED_SAMPLES,  \* the media queue
    EventBacklog,                                  \* the mesh's broadcast channel
    MaxPictures, MaxEvents

VARIABLES
    fan,       \* the pump's subscription: q, pics, bytes, lagged; sent, told
    vpump,     \* the video pump
    apump,     \* the audio pump's item in hand
    pipes,     \* the media-source pipes opened so far
    mediatx,   \* tx: ClientHandle.media_tx, the pipe in use or 0; pipes still to open
    events     \* the mesh's events, and what the event socket was given

feedVars == <<fan, vpump, apump, pipes, mediatx, events>>

NoPics == [t \in {} |-> 0]
Count(pics, t) == IF t \in DOMAIN pics THEN pics[t] ELSE 0
More(pics, t) == [u \in DOMAIN pics \cup {t} |-> IF u = t THEN Count(pics, t) + 1 ELSE pics[u]]
Less(pics, t) == LET n == Count(pics, t) - 1
                     left == IF n = 0 THEN DOMAIN pics \ {t} ELSE DOMAIN pics
                 IN [u \in left |-> IF u = t THEN n ELSE pics[u]]
Total(q, F(_)) == FoldLeft(LAMBDA n, x : n + F(x), 0, q)

Empty == [n |-> 0, ts |-> 0, size |-> 0, gap |-> FALSE]
NewPipe == [open |-> TRUE, cleared |-> FALSE, q |-> <<>>, pics |-> NoPics, other |-> 0, bytes |-> 0,
            items |-> 0, seen |-> <<>>]

FeedInit(samples, audio, opens) ==
    /\ fan = [q |-> <<>>, pics |-> NoPics, bytes |-> 0, lagged |-> 0, told |-> 0, sent |-> 0, ts |-> 0,
              taken |-> 0, closed |-> FALSE, left |-> samples]
    /\ vpump = [at |-> "recv", cur |-> Empty, seqgap |-> FALSE, last |-> 0, rec |-> "none", to |-> 0]
    /\ apump = [left |-> audio, to |-> 0]
    /\ pipes = <<>>
    /\ mediatx = [tx |-> 0, opens |-> opens]
    /\ events = [sent |-> 0, next |-> 1, out |-> <<>>, frames |-> 0]

(***************************************************************************)
(* VideoFanout                                                             *)
(***************************************************************************)
Pop(f) ==
    LET s == Head(f.q) IN [f EXCEPT !.q = Tail(@), !.bytes = @ - s.size, !.pics = Less(@, s.ts)]

(* Queue::push: oldest samples out until the new one fits; each one counts *)
(* as lagged.  A sample larger than the queue is not queued.               *)
RECURSIVE Evict(_, _)
Evict(f, s) ==
    IF /\ f.q # <<>>
       /\ \/ s.ts \notin DOMAIN f.pics /\ Cardinality(DOMAIN f.pics) >= MAX_PICTURES
          \/ s.size > MAX_BYTES - f.bytes
          \/ Len(f.q) >= MAX_SAMPLES
      THEN Evict([Pop(f) EXCEPT !.lagged = @ + 1], s)
      ELSE f

Push(f, s) ==
    LET g == Evict(f, s) IN
    IF s.size > MAX_BYTES THEN [g EXCEPT !.lagged = @ + 1]
    ELSE [g EXCEPT !.q = Append(@, s), !.bytes = @ + s.size, !.pics = More(@, s.ts)]

(* VideoFanout::send, from the track's pump: the next sample, of the same  *)
(* picture as the last one or of the next, or a discontinuity (no data).   *)
Send(t, size, gap) ==
    /\ fan.left > 0
    /\ ~fan.closed
    /\ t \in {fan.ts, fan.ts + 1}
    /\ LET s == [n |-> fan.sent + 1, ts |-> t, size |-> IF gap THEN 1 ELSE size, gap |-> gap]
       IN fan' = [Push(fan, s) EXCEPT !.sent = @ + 1, !.left = @ - 1, !.ts = t]
    /\ UNCHANGED <<vpump, apump, pipes, mediatx, events>>

(* The network goes away.                                                  *)
Close ==
    /\ ~fan.closed
    /\ fan' = [fan EXCEPT !.closed = TRUE]
    /\ UNCHANGED <<vpump, apump, pipes, mediatx, events>>

(***************************************************************************)
(* The media queue                                                         *)
(***************************************************************************)
Video(n, t, size) == [kind |-> "video", n |-> n, ts |-> t, size |-> size]
Gap(t)            == [kind |-> "gap", n |-> 0, ts |-> t, size |-> 1]
Audio             == [kind |-> "audio", n |-> 0, ts |-> 0, size |-> 1]

(* try_send's test; a picture that is queued already takes no new slot.    *)
Full(p, x) ==
    LET used == Cardinality(DOMAIN p.pics) + p.other
        known == x.kind # "audio" /\ x.ts \in DOMAIN p.pics
    IN \/ ~known /\ used >= Capacity
       \/ x.kind = "audio" /\ p.other >= OtherCapacity
       \/ x.size > ByteCapacity - p.bytes
       \/ p.items >= MAX_QUEUED_SAMPLES

(* The budget is taken under its lock, before the item is queued ...       *)
Reserve(p, x) ==
    [p EXCEPT !.bytes = @ + x.size, !.items = @ + 1,
              !.pics = IF x.kind = "audio" THEN @ ELSE More(@, x.ts),
              !.other = IF x.kind = "audio" THEN @ + 1 ELSE @]

(* The last sample of a picture leaves the picture's slot taken.           *)
Release_KeepsSlot(p, x) ==
    [p EXCEPT !.bytes = @ - x.size, !.items = @ - 1,
              !.pics = IF x.kind = "audio" THEN @ ELSE [@ EXCEPT ![x.ts] = @ - 1],
              !.other = IF x.kind = "audio" THEN @ - 1 ELSE @]

(* ... and given back when the item is dropped, wherever that is.          *)
Release(p, x) ==
    [p EXCEPT !.bytes = @ - x.size, !.items = @ - 1,
              !.pics = IF x.kind = "audio" THEN @ ELSE Less(@, x.ts),
              !.other = IF x.kind = "audio" THEN @ - 1 ELSE @]

(* The unbounded channel takes the item, or drops it with its receiver.    *)
Enqueue(p, x) == IF p.open THEN [p EXCEPT !.q = Append(@, x)] ELSE Release(p, x)

(***************************************************************************)
(* spawn_video_pump                                                        *)
(***************************************************************************)
(* recv: the lag first, then the samples, then the close.                  *)
Lagged ==
    /\ vpump.at = "recv"
    /\ fan.lagged > 0
    /\ fan' = [fan EXCEPT !.told = @ + fan.lagged, !.lagged = 0]
    /\ UNCHANGED <<vpump, apump, pipes, mediatx, events>>

(* A sample, and whether its number follows the last one's.  Without a     *)
(* pipe it goes to the event socket.                                       *)
Recv ==
    /\ vpump.at = "recv"
    /\ fan.lagged = 0 /\ fan.q # <<>>
    /\ fan' = [Pop(fan) EXCEPT !.taken = @ + 1]
    /\ LET s == Head(fan.q)
           g == vpump.last # 0 /\ s.n # vpump.last + 1
       IN vpump' = [vpump EXCEPT !.at = IF mediatx.tx = 0 THEN "recv" ELSE "fence", !.cur = s, !.seqgap = g,
                                 !.last = s.n, !.to = mediatx.tx]
    /\ UNCHANGED <<apump, pipes, mediatx, events>>

Closed ==
    /\ vpump.at = "recv" /\ fan.lagged = 0 /\ fan.q = <<>> /\ fan.closed
    /\ vpump' = [vpump EXCEPT !.at = "exited"]
    /\ UNCHANGED <<fan, apump, pipes, mediatx, events>>

Sink == pipes[vpump.to]
Done(rec) == vpump' = [vpump EXCEPT !.at = "recv", !.rec = rec, !.cur = Empty]

(* forward_video_to_media_sink: a gap seen or left over goes out first; if *)
(* even that does not fit, the sample is shed.                             *)
Fence ==
    /\ vpump.at = "fence"
    /\ LET rec == IF (vpump.seqgap \/ vpump.cur.gap) /\ vpump.rec = "none" THEN "need" ELSE vpump.rec
           x == Gap(vpump.cur.ts)
       IN IF rec # "need"
            THEN vpump' = [vpump EXCEPT !.at = "body", !.rec = rec] /\ UNCHANGED pipes
          ELSE IF ~Sink.open THEN Done("none") /\ UNCHANGED pipes
          ELSE IF Full(Sink, x) THEN Done("need") /\ UNCHANGED pipes
          ELSE /\ pipes' = [pipes EXCEPT ![vpump.to] = Reserve(@, x)]
               /\ vpump' = [vpump EXCEPT !.at = "putgap", !.rec = rec]
    /\ UNCHANGED <<fan, apump, mediatx, events>>

PutGap ==
    /\ vpump.at = "putgap"
    /\ pipes' = [pipes EXCEPT ![vpump.to] = Enqueue(@, Gap(vpump.cur.ts))]
    /\ IF Sink.open THEN vpump' = [vpump EXCEPT !.at = "body", !.rec = "sent"] ELSE Done("none")
    /\ UNCHANGED <<fan, apump, mediatx, events>>

Item(s) == Video(s.n, s.ts, s.size)

(* A discontinuity has no body; a sample that does not fit is shed and     *)
(* leaves a gap to be told, unless one was told already.                   *)
Body ==
    /\ vpump.at = "body"
    /\ IF vpump.cur.gap THEN Done(vpump.rec) /\ UNCHANGED pipes
       ELSE IF ~Sink.open THEN Done("none") /\ UNCHANGED pipes
       ELSE IF Full(Sink, Item(vpump.cur))
              THEN Done(IF vpump.rec = "none" THEN "need" ELSE vpump.rec) /\ UNCHANGED pipes
       ELSE /\ pipes' = [pipes EXCEPT ![vpump.to] = Reserve(@, Item(vpump.cur))]
            /\ vpump' = [vpump EXCEPT !.at = "putbody"]
    /\ UNCHANGED <<fan, apump, mediatx, events>>

PutBody ==
    /\ vpump.at = "putbody"
    /\ pipes' = [pipes EXCEPT ![vpump.to] = Enqueue(@, Item(vpump.cur))]
    /\ Done("none")
    /\ UNCHANGED <<fan, apump, mediatx, events>>

(***************************************************************************)
(* spawn_audio_pump: a frame that does not fit is shed.                    *)
(***************************************************************************)
AudioFrame ==
    /\ apump.to = 0 /\ apump.left > 0
    /\ mediatx.tx # 0
    /\ IF pipes[mediatx.tx].open /\ ~Full(pipes[mediatx.tx], Audio)
         THEN /\ pipes' = [pipes EXCEPT ![mediatx.tx] = Reserve(@, Audio)]
              /\ apump' = [left |-> apump.left - 1, to |-> mediatx.tx]
         ELSE apump' = [apump EXCEPT !.left = @ - 1] /\ UNCHANGED pipes
    /\ UNCHANGED <<fan, vpump, mediatx, events>>

PutAudio ==
    /\ apump.to # 0
    /\ pipes' = [pipes EXCEPT ![apump.to] = Enqueue(@, Audio)]
    /\ apump' = [apump EXCEPT !.to = 0]
    /\ UNCHANGED <<fan, vpump, mediatx, events>>

(***************************************************************************)
(* The media-source pipe                                                   *)
(***************************************************************************)
set_media_sink ==
    /\ mediatx.opens > 0
    /\ pipes' = Append(pipes, NewPipe)
    /\ mediatx' = [tx |-> Len(pipes) + 1, opens |-> mediatx.opens - 1]
    /\ UNCHANGED <<fan, vpump, apump, events>>

(* run_media_source_pipe writes the oldest item and drops it ...           *)
Drain(i) ==
    /\ pipes[i].open /\ pipes[i].q # <<>>
    /\ pipes' = [pipes EXCEPT ![i] =
          LET x == Head(@.q) IN
          [Release(@, x) EXCEPT !.q = Tail(@), !.seen = Append(@, IF x.kind = "audio" THEN -1 ELSE x.n)]]
    /\ UNCHANGED <<fan, vpump, apump, mediatx, events>>

(* ... until the client is gone: the queue goes with its receiver ...      *)
PipeEnds(i) ==
    /\ pipes[i].open
    /\ pipes' = [pipes EXCEPT ![i] = [FoldLeft(Release, @, @.q) EXCEPT !.open = FALSE, !.q = <<>>]]
    /\ UNCHANGED <<fan, vpump, apump, mediatx, events>>

(* ... and then the sink is taken off the client, whichever it is by now.  *)
clear_media_sink(i) ==
    /\ ~pipes[i].open /\ ~pipes[i].cleared
    /\ pipes' = [pipes EXCEPT ![i].cleared = TRUE]
    /\ mediatx' = [mediatx EXCEPT !.tx = 0]
    /\ UNCHANGED <<fan, vpump, apump, events>>

(***************************************************************************)
(* run_events_stream, run_trace_stream: the broadcast channel keeps the    *)
(* last EventBacklog events; a reader that fell behind is told how many it *)
(* missed and goes on with the oldest one kept.                            *)
(***************************************************************************)
emit ==
    /\ events.sent < MaxEvents
    /\ events' = [events EXCEPT !.sent = @ + 1]
    /\ UNCHANGED <<fan, vpump, apump, pipes, mediatx>>

EventRecv ==
    /\ events.next <= events.sent
    /\ LET missed == events.sent - EventBacklog - events.next + 1
       IN events' = IF missed > 0
            THEN [events EXCEPT !.next = @ + missed, !.out = Append(@, -missed)]
            ELSE [events EXCEPT !.next = @ + 1, !.out = Append(@, events.next)]
    /\ UNCHANGED <<fan, vpump, apump, pipes, mediatx>>

(***************************************************************************)
VideoStep == Lagged \/ Recv \/ Closed \/ Fence \/ PutGap \/ Body \/ PutBody

MediaTraffic ==
    \/ \E t \in 0..MaxPictures, size \in 1..2, gap \in BOOLEAN : Send(t, size, gap)
    \/ Close
    \/ VideoStep
    \/ AudioFrame \/ PutAudio
    \/ set_media_sink
    \/ \E i \in 1..Len(pipes) : Drain(i) \/ PipeEnds(i) \/ clear_media_sink(i)

EventTraffic == emit \/ EventRecv

(***************************************************************************)
(* Properties                                                              *)
(***************************************************************************)
InHand(i) ==      \* items whose budget is taken and that are not queued yet
    (IF vpump.to = i /\ vpump.at = "putgap" THEN <<Gap(vpump.cur.ts)>> ELSE <<>>)
    \o (IF vpump.to = i /\ vpump.at = "putbody" THEN <<Item(vpump.cur)>> ELSE <<>>)
    \o (IF apump.to = i THEN <<Audio>> ELSE <<>>)

(* Every sample sent is received, still queued, or counted as lagged, and  *)
(* the fan-out's queue keeps its three bounds (Queue::push and pop).       *)
FanAccounts ==
    /\ fan.sent = fan.taken + Len(fan.q) + fan.lagged + fan.told
    /\ fan.bytes = Total(fan.q, LAMBDA s : s.size) /\ fan.bytes <= MAX_BYTES
    /\ Len(fan.q) <= MAX_SAMPLES
    /\ DOMAIN fan.pics = {s.ts : s \in Range(fan.q)} /\ Cardinality(DOMAIN fan.pics) <= MAX_PICTURES

(* A pipe's budget is what is in its queue or in a pump's hand, and stays  *)
(* within its limits, whatever the order of sends, writes and the end of   *)
(* the pipe (Sender::try_send, Item::drop); `capacity - pictures - other`  *)
(* never goes below zero.                                                  *)
BudgetExact ==
    \A i \in DOMAIN pipes :
        LET p == pipes[i]
            held == p.q \o InHand(i)
        IN /\ p.items = Len(held) /\ p.items <= MAX_QUEUED_SAMPLES
           /\ p.bytes = Total(held, LAMBDA x : x.size) /\ p.bytes <= ByteCapacity
           /\ DOMAIN p.pics = {x.ts : x \in {y \in Range(held) : y.kind # "audio"}}
           /\ p.other = Total(held, LAMBDA x : IF x.kind = "audio" THEN 1 ELSE 0)
           /\ p.other <= OtherCapacity
           /\ Cardinality(DOMAIN p.pics) + p.other <= Capacity

(* On one pipe, two samples that follow each other have consecutive        *)
(* numbers if and only if no gap marker is between them: a sample lost in  *)
(* the fan-out, shed by a full queue or missing from the track is told     *)
(* before the next one, and nothing else is (forward_video_to_media_sink). *)
GapExact ==
    \A i \in DOMAIN pipes :
        LET w == SelectSeq(pipes[i].seen, LAMBDA n : n >= 0) IN
        \A j, k \in DOMAIN w :
            (j < k /\ w[j] > 0 /\ w[k] > 0 /\ \A m \in (j + 1)..(k - 1) : w[m] = 0)
              => (w[k] = w[j] + 1) = (k = j + 1)

(* Once the pipe's task has ended, no ended pipe is the client's sink:     *)
(* media falls back to the event socket (clear_media_sink).                *)
SinkIsLive ==
    mediatx.tx # 0 => pipes[mediatx.tx].open \/ ~pipes[mediatx.tx].cleared

(* Events reach the socket in order, and every one skipped is counted in a *)
(* marker at its place.                                                    *)
LagExplicit ==
    \A k \in DOMAIN events.out :
        events.out[k] > 0 =>
            events.out[k] = 1 + Total(SubSeq(events.out, 1, k - 1), LAMBDA e : IF e > 0 THEN 1 ELSE -e)

(* Nothing on its way to a local client is lost unseen: the queues'        *)
(* budgets are exact, and each loss is told at its place.                  *)
FeedsAccount == FanAccounts /\ BudgetExact /\ GapExact /\ SinkIsLive /\ LagExplicit
=============================================================================
