----------------------------- MODULE MCSession ------------------------------
(***************************************************************************)
(* What passes between two ends of a session, and on to a local client:    *)
(* descriptions and candidates, packets of video, samples and events.  A   *)
(* behaviour runs one of the machines, the others keep their initial       *)
(* state.                                                                  *)
(***************************************************************************)
EXTENDS Negotiation, Candidates, Assembler, Feeds

VARIABLE machine

sessionVars == <<machine, negVars, candVars, asmVars, feedVars>>

(* Negotiation: both ends at home under every fault but a network change,  *)
(* moves with a lost message or socket pressure, and two silent devices    *)
(* one of which pinned the other.                                          *)
AtHome == [sticky |-> {}, silent |-> {}, fault |-> Fault \ {"move"}, most |-> 1]
Moving == [AtHome EXCEPT !.fault = {"move", "lose"}, !.most = 2]
Squeezed == [AtHome EXCEPT !.fault = {"move", "pressure"}, !.most = 2]
Standing == [AtHome EXCEPT !.sticky = {"hi"}, !.silent = {"lo", "hi"}, !.fault = {"lose"}]
Scenes == {AtHome, Moving, Squeezed, Standing}

(* Streams of two pictures in fragments across the wrap of the sequence    *)
(* numbers, of a picture in paced fragments, and with a malformed payload. *)
Pkt(s, t, marker, starts) ==
    [seq |-> s % SeqSpace, ts |-> t, marker |-> marker, starts |-> starts, bad |-> FALSE]
Malformed(p) == [p EXCEPT !.bad = TRUE]
Sent == {
  <<Pkt(14,1,FALSE,TRUE), Pkt(15,1,TRUE,FALSE), Pkt(16,2,FALSE,TRUE), Pkt(17,2,TRUE,FALSE),
    Pkt(18,3,TRUE,TRUE)>>,
  <<Pkt(14,1,TRUE,TRUE), Pkt(15,2,FALSE,TRUE), Pkt(16,2,TRUE,FALSE), Pkt(17,2,FALSE,TRUE),
    Pkt(18,2,TRUE,FALSE), Pkt(19,3,TRUE,TRUE)>>,
  <<Pkt(15,1,FALSE,TRUE), Pkt(16,1,TRUE,TRUE), Malformed(Pkt(17,2,TRUE,TRUE)),
    Pkt(18,3,FALSE,TRUE), Pkt(19,3,TRUE,TRUE)>> }

(* Feeds: a long picture stream, one with audio, one whose pipe is opened  *)
(* a second time, and the event socket.                                    *)
SessionInit ==
    /\ machine \in {"negotiation", "candidates", "gathering", "assembler", "media", "events"}
    /\ NegInit /\ CandInit /\ AsmInit
    /\ IF machine = "media" THEN FeedInit(4, 0, 1) \/ FeedInit(2, 1, 1) \/ FeedInit(2, 0, 2)
       ELSE FeedInit(0, 0, 0)
    /\ machine # "negotiation" => mode = AtHome
    /\ machine # "assembler" => stream = CHOOSE s \in Streams : TRUE

NegAlone     == machine = "negotiation" /\ UNCHANGED <<machine, candVars, asmVars, feedVars>>
CandAlone(m) == machine = m /\ UNCHANGED <<machine, negVars, asmVars, feedVars>>
AsmAlone     == machine = "assembler" /\ UNCHANGED <<machine, negVars, candVars, feedVars>>
FeedAlone(m) == machine = m /\ UNCHANGED <<machine, negVars, candVars, asmVars>>

SessionNext ==
    \/ NegAlone /\ NegNext
    \/ CandAlone("candidates") /\ CandNext
    \/ CandAlone("gathering") /\ GatherNext
    \/ AsmAlone /\ AsmNext
    \/ FeedAlone("media") /\ MediaTraffic
    \/ FeedAlone("events") /\ EventTraffic

SessionSpec == SessionInit /\ [][SessionNext]_sessionVars
=============================================================================
