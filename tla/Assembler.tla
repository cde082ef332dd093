----------------------------- MODULE Assembler ------------------------------
(***************************************************************************)
(* H264AuAssembler (transport/webrtc.rs): RTP packets of a video track to  *)
(* access units.  The network delivers the packets of a sent stream in any *)
(* order, some twice (a retransmission answered twice) and some never.     *)
(* Packets that share a marker-delimited run form one unit; several units  *)
(* may share a timestamp (paced fragments of one picture).                 *)
(***************************************************************************)
EXTENDS Integers, Sequences, FiniteSets, SequencesExt, FiniteSetsExt

CONSTANTS
    Streams,          \* the streams sent: sequences of packets
    SeqSpace,           \* 2^16: RTP sequence numbers wrap
    MAX_AU_PARTS, MAX_PENDING_PARTS, MAX_PENDING_FRAMES,
    Grace,            \* RETRANSMIT_GRACE, in ticks
    MaxRepeats,       \* packets delivered twice
    MaxTicks

VARIABLES
    stream,           \* the stream sent
    inbox,            \* deliveries to come: [packet -> how often it was delivered]
    asm,              \* the assembler
    emitted,          \* its events, in order
    clock

asmVars == <<stream, inbox, asm, emitted, clock>>

None == -1000
Fresh == [pending |-> <<>>, end |-> None, last |-> <<>>, newest |-> None, gap |-> FALSE]

AsmInit ==
    /\ stream \in Streams
    /\ inbox = [i \in DOMAIN stream |-> 0]
    /\ asm = Fresh
    /\ emitted = <<>>
    /\ clock = 0

(***************************************************************************)
(* unwrap_seq: the shortest signed distance from the newest number seen.   *)
(* The anchor only moves forward.                                          *)
(***************************************************************************)
Delta(a, b) == LET d == (a - b) % SeqSpace IN IF d >= SeqSpace \div 2 THEN d - SeqSpace ELSE d

unwrap_seq(a, raw) ==
    IF a.last = <<>> THEN <<raw, <<raw, raw>>>>
    ELSE LET d == Delta(raw, a.last[1])
             seq == a.last[2] + d
         IN <<seq, IF d > 0 THEN <<raw, seq>> ELSE a.last>>

Earliest(au) == Min(DOMAIN au.parts)
Latest(au)   == Max(DOMAIN au.parts)

(* pending_position: the unit of this timestamp whose markers enclose seq. *)
pending_position(a, ts, seq) ==
    LET lower(pos) ==      \* the last marker of this timestamp before pos
            LET before == {q \in 1..(pos - 1) : a.pending[q].ts = ts /\ a.pending[q].marker # None}
            IN IF before = {} THEN a.end ELSE a.pending[Max(before)].marker
        owns(pos) == LET au == a.pending[pos] IN
            /\ au.ts = ts
            /\ lower(pos) = None \/ seq > lower(pos)
            /\ au.marker = None \/ seq <= au.marker
        all == {pos \in DOMAIN a.pending : owns(pos)}
    IN IF all = {} THEN 0 ELSE Min(all)

(* Where a unit that is not pending yet goes, and when its hole was first  *)
(* seen; 0: the packet is stale.  A packet of the newest timestamp starts  *)
(* the next unit if it is past the last one emitted; an older timestamp is *)
(* let in only where the sequence numbers left a hole.                     *)
Place(a, ts, seq, now) ==
    LET stale == [at |-> 0, since |-> None]
        tail  == [at |-> Len(a.pending) + 1, since |-> None]
        later == {q \in DOMAIN a.pending : a.pending[q].ts > ts}
        right == a.pending[Min(later)]
        left  == a.pending[Min(later) - 1]
        tooLate == \/ seq <= a.end
                   \/ DOMAIN right.parts = {} \/ seq >= Earliest(right)
                   \/ /\ Min(later) > 1
                      /\ \/ ts < left.ts
                         \/ DOMAIN left.parts # {} /\ seq <= Latest(left)
    IN CASE a.newest = None \/ ts > a.newest -> tail
         [] ts = a.newest -> IF a.end = None \/ seq <= a.end THEN stale ELSE tail
         [] OTHER -> IF a.end = None \/ later = {} THEN stale
                     ELSE IF tooLate THEN stale
                     ELSE [at |-> Min(later), since |-> IF right.since = None THEN now ELSE right.since]

NewUnit(ts, since) ==
    [ts |-> ts, parts |-> [s \in {} |-> 0], marker |-> None, since |-> since, over |-> FALSE]

(* The packet goes into its unit; a marker cuts off the packets behind it  *)
(* into a unit of their own, which keeps the clock of the hole.            *)
Insert(au, seq, p) ==
    LET full == Cardinality(DOMAIN au.parts) >= MAX_AU_PARTS
        new == seq \notin DOMAIN au.parts
        parts == IF new /\ ~full THEN [s \in DOMAIN au.parts \cup {seq} |-> IF s = seq THEN p ELSE au.parts[s]]
                 ELSE au.parts
        grown == [au EXCEPT !.parts = parts, !.over = @ \/ (new /\ full)]
        upto  == {s \in DOMAIN parts : s <= seq}
        past  == DOMAIN parts \ upto
        head  == [grown EXCEPT !.marker = seq, !.parts = [s \in upto |-> parts[s]]]
        rest  == [NewUnit(au.ts, au.since) EXCEPT
                     !.parts = [s \in past |-> parts[s]],
                     !.marker = IF au.marker # None /\ au.marker > seq THEN au.marker ELSE None]
    IN IF ~stream[p].marker THEN <<grown>>
       ELSE IF past = {} THEN <<head>> ELSE <<head, rest>>

(***************************************************************************)
(* depacketize_if_complete: from right behind the last unit's marker, or,  *)
(* without that anchor, from a packet that may start a unit, to its own    *)
(* marker.  <<>>: not complete; "bad" when a payload cannot be parsed.     *)
(***************************************************************************)
depacketize_if_complete(a, au) ==
    LET start == IF a.end # None THEN a.end + 1
                 ELSE IF DOMAIN au.parts = {} \/ ~stream[au.parts[Earliest(au)]].starts THEN None
                 ELSE Earliest(au)
    IN IF au.marker = None \/ start = None \/ au.marker < start THEN <<>>
       ELSE IF ~((start..au.marker) \subseteq DOMAIN au.parts) THEN <<>>
       ELSE [i \in 1..(au.marker - start + 1) |-> au.parts[start + i - 1]]

Invalid(packets) == \E i \in DOMAIN packets : stream[packets[i]].bad

(* A hole's clock starts when its marker or a later unit is there.         *)
StartClocks(a, now) ==
    [a EXCEPT !.pending = [i \in DOMAIN @ |->
        IF (@[i].marker # None \/ i < Len(@)) /\ @[i].since = None
          THEN [@[i] EXCEPT !.since = now] ELSE @[i]]]

Parts(a)  == FoldLeft(LAMBDA n, au : n + Cardinality(DOMAIN au.parts), 0, a.pending)
Frames(a) == Cardinality({a.pending[i].ts : i \in DOMAIN a.pending})

(* Abandoned without a word.                                               *)
Abandon_Silent(a) ==
    <<[a EXCEPT !.pending = Tail(@), !.end = Head(a.pending).marker], <<>>>>

(* Abandoned units in a row make one discontinuity (<<0>>).                *)
Abandon(a) ==
    <<[a EXCEPT !.pending = Tail(@), !.end = Head(a.pending).marker, !.gap = TRUE],
      IF a.gap THEN <<>> ELSE <<<<0>>>>>>

Emit(a, packets) ==
    <<[a EXCEPT !.pending = Tail(@), !.end = Head(a.pending).marker, !.gap = FALSE], <<packets>>>>

(* collect_ready's loop: emit the front unit while it is complete; abandon *)
(* it when a limit is reached, when it is invalid, or when its hole is     *)
(* older than the grace.                                                   *)
RECURSIVE Collect(_, _, _)
Collect(a, events, now) ==
    IF a.pending = <<>> THEN <<a, events>>
    ELSE LET front == Head(a.pending)
             whole == IF front.over THEN <<>> ELSE depacketize_if_complete(a, front)
             limit == \/ front.over \/ Parts(a) > MAX_PENDING_PARTS
                      \/ Frames(a) > MAX_PENDING_FRAMES
             hole  == front.marker # None \/ Len(a.pending) > 1
             next(r) == Collect(r[1], events \o r[2], now)
         IN IF whole # <<>> /\ ~Invalid(whole) THEN next(Emit(a, whole))
            ELSE IF \/ limit \/ whole # <<>>
                    \/ hole /\ now - front.since >= Grace
                 THEN next(Abandon(a))
            ELSE <<a, events>>

collect_ready(a, now) == Collect(StartClocks(a, now), <<>>, now)

(* push_at *)
push_at(a, p, now) ==
    LET pkt == stream[p]
        u   == unwrap_seq(a, pkt.seq)
        seq == u[1]
        b   == [a EXCEPT !.last = u[2]]
        pos == pending_position(b, pkt.ts, seq)
        place == Place(b, pkt.ts, seq, now)
        c   == IF pos # 0 THEN b
               ELSE [b EXCEPT !.pending = InsertAt(@, place.at, NewUnit(pkt.ts, place.since)),
                              !.newest = IF @ = None \/ pkt.ts > @ THEN pkt.ts ELSE @]
        at  == IF pos # 0 THEN pos ELSE place.at
    IN IF pos = 0 /\ place.at = 0 THEN collect_ready(b, now)
       ELSE collect_ready([c EXCEPT !.pending = SubSeq(@, 1, at - 1) \o Insert(@[at], seq, p)
                                                \o SubSeq(@, at + 1, Len(@))], now)

(***************************************************************************)
(* push_events: a packet arrives, for the first time or again.             *)
push_events(i) ==
    /\ \/ inbox[i] = 0
       \/ inbox[i] = 1 /\ FoldFunction(LAMBDA n, k : IF n > 1 THEN k + 1 ELSE k, 0, inbox) < MaxRepeats
    /\ LET r == push_at(asm, i, clock)
       IN asm' = r[1] /\ emitted' = emitted \o r[2]
    /\ inbox' = [inbox EXCEPT ![i] = @ + 1]
    /\ UNCHANGED <<stream, clock>>

(* Padding carries no payload; it only lets the deadlines be looked at.    *)
Padding ==
    /\ LET r == collect_ready(asm, clock)
       IN asm' = r[1] /\ emitted' = emitted \o r[2]
    /\ UNCHANGED <<stream, inbox, clock>>

AsmTick ==
    /\ clock < MaxTicks
    /\ clock' = clock + 1
    /\ UNCHANGED <<stream, inbox, asm, emitted>>

AsmNext ==
    \/ \E i \in DOMAIN inbox : push_events(i)
    \/ Padding
    \/ AsmTick

(***************************************************************************)
(* Properties                                                              *)
(***************************************************************************)
(* The unit, in the stream as sent, that packet i belongs to.              *)
UnitOf(i) ==
    LET first == Max({1} \cup {k + 1 : k \in {k \in 1..(i - 1) : stream[k].marker}})
        last  == Min({k \in i..Len(stream) : stream[k].marker})
    IN <<first, last>>

Samples == {k \in DOMAIN emitted : emitted[k] # <<0>>}

AsmTypeOK ==
    /\ Parts(asm) <= MAX_PENDING_PARTS /\ Frames(asm) <= MAX_PENDING_FRAMES
    /\ \A k \in DOMAIN asm.pending : DOMAIN asm.pending[k].parts # {}
    /\ \A j, k \in DOMAIN asm.pending : j < k => asm.pending[j].ts <= asm.pending[k].ts

(* An emitted sample is a run of consecutive packets of one unit that ends *)
(* with its marker, whatever was lost, repeated or reordered: the          *)
(* survivors of a hole are never spliced (depacketize_if_complete, and the *)
(* marker as a hard boundary in push_at).                                  *)
NoSplice ==
    \A k \in Samples :
        /\ \A j \in 1..(Len(emitted[k]) - 1) : emitted[k][j + 1] = emitted[k][j] + 1
        /\ emitted[k][Len(emitted[k])] = UnitOf(emitted[k][1])[2]

(* A sample lacks packets at its head only if it is the first one of the   *)
(* track or the first after a discontinuity, and begins with a packet that *)
(* may begin a unit.                                                       *)
WholeUnits ==
    \A k \in Samples :
        \/ emitted[k][1] = UnitOf(emitted[k][1])[1]
        \/ stream[emitted[k][1]].starts /\ (k = 1 \/ emitted[k - 1] = <<0>>)

(* Samples come out once each and in the order sent; two that do not       *)
(* follow each other in the stream have one discontinuity between them,    *)
(* two that do have none or were torn apart by one.                        *)
GapsMarked ==
    \A j, k \in Samples :
        (j < k /\ \A i \in Samples : ~(j < i /\ i < k))
          => /\ emitted[j][1] < emitted[k][1]
             /\ k <= j + 2
             /\ (k = j + 1) => emitted[k][1] = emitted[j][Len(emitted[j])] + 1

(* What the assembler emits is what was sent, up to marked gaps.           *)
StreamFaithful == AsmTypeOK /\ NoSplice /\ WholeUnits /\ GapsMarked
=============================================================================
